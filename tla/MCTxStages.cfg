\* Two threads on one lane, two locks, up to three levels.
CONSTANTS
    t1 = t1
    t2 = t2
    Threads = {t1, t2}
    NoThread = NoThread
    NLocks = 2
    NLanes = 1
    Observed = {t1}
    MaxDepth = 3
    MaxBegins <- MCBegins
    MaxFails = 1
SPECIFICATION Spec
INVARIANTS LaneWhileOpen Isolation AbortReachesOutermost CallbackInOrder
PROPERTIES TransactionsEnd
CHECK_DEADLOCK FALSE
