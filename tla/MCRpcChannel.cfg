\* Two threads whose first calls may race, over a stub that may die at any time.
SPECIFICATION FairSpec
CONSTANTS
    Threads = {t1, t2}
    Recipients = {r1}
    t1 = t1  t2 = t2  r1 = r1
    None = None  Listen = Listen
    MaxCalls = 2
    AnyTimeOut = FALSE
INVARIANTS TypeOK NoLostRequest ReleaseArrives SafeUnlessLateOrRaced
PROPERTIES OwnReply DeathTold
CHECK_DEADLOCK FALSE
