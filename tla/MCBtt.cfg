SPECIFICATION Spec
CONSTANTS
    NLane = 2
    NLba = 2
    LbasPerLock = 1
    NsIsZeroed = FALSE
    Zero = Zero
    Error = Error
    Junk = Junk
    Kinds <- MCKinds
    MaxOps = 2
    MaxCrashes = 1
INVARIANTS ArenaConsistent NoWriteUnderRead
PROPERTIES ImplementsBlockDevice CallsReturn
CHECK_DEADLOCK FALSE
