\* The same, for the locks pmemobj_tx_end releases.
CONSTANTS
    t1 = t1
    t2 = t2
    Threads = {t1, t2}
    NoThread = NoThread
    NLocks = 2
    NLanes = 1
    Observed = {t1}
    MaxDepth = 3
    MaxBegins <- MCBegins
    MaxFails = 1
SPECIFICATION Spec
INVARIANTS ReleasesOwnLocks
CHECK_DEADLOCK FALSE
