\* Two senders, an idle handler, and a task that its sender waits for.
SPECIFICATION LiveSpec
CONSTANTS
    Threads = {t1, t2}
    Payloads <- AsyncAndTask
    Idlers = {i1}
    t1 = t1  t2 = t2  h1 = h1  h2 = h2  r1 = r1
    NoTarget = NoTarget  None = None  Scissors = Scissors  Forever = Forever
    MaxTime = 2
    MaxPosts = 2
    MaxBarriers = 1
INVARIANTS TypeOK NoLostWakeup QueueOrder
PROPERTIES BarrierHolds DueDelivered
CHECK_DEADLOCK FALSE
