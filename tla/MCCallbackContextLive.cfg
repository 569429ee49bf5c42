\* Every sender is answered and every finish ends, nicely or not.
SPECIFICATION FairSpec
CONSTANTS
    s1 = s1
    d1 = d1
    d2 = d2
    s2 = s2
    Events = {s1, s2}
    NoEvent = NoEvent
    SyncCall = {s1, s2}
    Timed = {}
    Duplicated = {}
    CarClients = {}
    Priority <- MCPriority
    Sender <- MCSender
    Id <- MCId
    Registration <- MCRegistration
    Cancels = {}
    CoalescerCancels = FALSE
    Finishes = {"Nice", "ASAP"}
    Reordered = FALSE
    MaxTime = 1
INVARIANTS NoneLeftBehind
PROPERTIES EverySendReturns FinishEnds
CHECK_DEADLOCK FALSE
