SPECIFICATION Spec
CONSTANTS
    NLane = 2
    NLba = 2
    LbasPerLock = 1
    NsIsZeroed = FALSE
    Zero = Zero
    Error = Error
    Junk = Junk
    Kinds <- MCKinds
    MaxOps = 3
    MaxCrashes = 0
INVARIANT WaitsOnlyForReaders
CHECK_DEADLOCK FALSE
