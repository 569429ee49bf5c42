\* Four threads, and proxies enough for the address to be imported, dropped
\* and imported again while late threads still work on the earlier ones.
SPECIFICATION Spec
CONSTANTS
    Threads = {t1, t2, t3, t4}
    NoThread = NoThread
    Proxies = {p1, p2, p3}
    NoProxy = NoProxy
SYMMETRY ThreadProxySymmetry
INVARIANTS
    CountsExact
    HeldProxyUsable
    SafeUnlessResurrected
CHECK_DEADLOCK FALSE
