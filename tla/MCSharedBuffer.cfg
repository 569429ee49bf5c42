\* Three Strings over four addresses, which are allocated again and again.
SPECIFICATION Spec
CONSTANTS
    Strings = {s1, s2, s3}
    Buffers = {b1, b2, b3, b4}
    NoBuffer = NoBuffer
    Values = {v1, v2}
    Null = Null
SYMMETRY BufferSymmetry
INVARIANTS
    CountsExact
    NoUseAfterFree
    NoLeak
PROPERTIES
    ImplementsValues
