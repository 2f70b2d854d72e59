SPECIFICATION Spec
CONSTANTS
    Threads = {t1, t2, t3}
    NLanes = 2
    LaneJump = 1
    IdxWrap = 5
    PrimaryAttempts = 1
    MaxNest = 2
    MaxHolds = 2
INVARIANT LaneExclusive
PROPERTIES WaiterServed
CHECK_DEADLOCK FALSE
