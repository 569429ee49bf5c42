\* Three clients that are given packs, forward them, call, release and die.
SPECIFICATION Spec
CONSTANTS
    Home = Home
    Clients = {c1, c2, c3}
    Threads = {t1, t2}
    MaxPacks = 4
    MaxConns = 4
SYMMETRY AnyProcess
INVARIANTS SafeUnlessUncounted DeletedUnlessLost
CHECK_DEADLOCK FALSE
