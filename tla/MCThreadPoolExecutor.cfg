\* The ping tasks of two proxies and one call, with all their interleavings.
SPECIFICATION TPFairSpec
CONSTANTS
    p1 = p1  p2 = p2  c1 = c1
    Tasks = {p1, p2, c1}
    Pings = {p1, p2}
    Nobody = Nobody
INVARIANTS RefsExact ListedLives SafeUnlessSignalled
PROPERTIES EveryTaskRuns
CHECK_DEADLOCK FALSE
