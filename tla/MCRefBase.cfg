\* Both lifetimes; only objects with the WEAK lifetime hand out weak
\* references before the first strong one.
SPECIFICATION Spec
CONSTANTS
    Clients = {c1, c2, c3, c4, c5}
    NoClient = NoClient
    INITIAL_STRONG_VALUE = 268435456
    Lifetimes = {"STRONG", "WEAK"}
    WeakFirst = {"WEAK"}
SYMMETRY ClientSymmetry
INVARIANTS
    NoUseAfterFree
    CountsExact
    AssertionsHold
    NoLeak
    OneFirstRef
PROPERTIES
    ImplementsOwnership
CHECK_DEADLOCK FALSE
