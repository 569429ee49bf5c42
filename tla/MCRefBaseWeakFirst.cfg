\* Objects with the STRONG lifetime hand out weak references before the
\* first strong one.
SPECIFICATION Spec
CONSTANTS
    Clients = {c1, c2, c3}
    NoClient = NoClient
    INITIAL_STRONG_VALUE = 268435456
    Lifetimes = {"STRONG"}
    WeakFirst = {"STRONG"}
SYMMETRY ClientSymmetry
INVARIANTS
    ReviveOnlyLongerLifetime
CHECK_DEADLOCK FALSE
