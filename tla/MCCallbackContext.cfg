\* Cancels, coalescing, coalescers that cancel, timeouts and dying clients.
SPECIFICATION Spec
CONSTANTS
    s1 = s1
    d1 = d1
    d2 = d2
    s2 = s2
    Events = {s1, d1, d2}
    NoEvent = NoEvent
    SyncCall = {s1}
    Timed = {s1}
    Duplicated = {d1, d2}
    CarClients = {s1}
    Priority <- MCPriority
    Sender <- MCSender
    Id <- MCId
    Registration <- MCRegistration
    Cancels <- MCCancels
    CoalescerCancels = TRUE
    Finishes = {}
    Reordered = FALSE
    MaxTime = 1
INVARIANTS
    TypeOK NoLostWakeup QueueSorted SendResultTrue CancelQuiet RefsExact
    SleeperUndisturbed
CHECK_DEADLOCK FALSE
