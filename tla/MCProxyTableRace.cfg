\* Three threads, asked for what the comment at rot.cpp:208 demands.
SPECIFICATION Spec
CONSTANTS
    Threads = {t1, t2, t3}
    NoThread = NoThread
    Proxies = {p1, p2, p3}
    NoProxy = NoProxy
SYMMETRY ThreadProxySymmetry
INVARIANTS
    NoUseAfterDelete
CHECK_DEADLOCK FALSE
