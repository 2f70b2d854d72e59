SPECIFICATION Spec
CONSTANTS
    Threads = {t1, t2}
    NoThread = NoThread
    Start = 4
    PoolSize = 7
    OffWrap = 16
    Iovs <- MCIovs
    ChunkSizes = {0, 2}
    MaxCalls = 4
    MaxEnds = 1
INVARIANTS Openable ReadersSeeLog
PROPERTIES ImplementsAtomicLog CallsReturn
CHECK_DEADLOCK FALSE
