SPECIFICATION Spec
CONSTANTS
    Threads = {t1}
    Payloads <- PlainPayloads
    Idlers = {}
    t1 = t1  t2 = t2  h1 = h1  h2 = h2  r1 = r1
    NoTarget = NoTarget  None = None  Scissors = Scissors  Forever = Forever
    MaxTime = 2
    MaxPosts = 1
    MaxBarriers = 1
INVARIANTS BarrierUntilReleased
CHECK_DEADLOCK FALSE
