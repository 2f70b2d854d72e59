SPECIFICATION Spec
CONSTANTS
    Threads = {t1, t2}
    Locks = {l}
    Conds = {c}
    NoThread = NoThread
    IdWrap = 8
    FirstRun = 4
    MaxOpens = 2
    MaxOps = 2
    MaxFails = 1
INVARIANTS UsedIsInitialised Exclusion HeldByTheLiving
PROPERTY GetReturns
CHECK_DEADLOCK FALSE
