SPECIFICATION Spec
CONSTANTS
    w1 = w1
    w2 = w2
    Zero = Zero
    NoSum = NoSum
    Words <- TwoWords
    Bits <- OneBit
    Updates <- MixedUpdates
    Base = 2
    Ext = 2
    PerLine = 2
    MergeSearch = 4
    ShadowStep = 4
    MaxEntries = 3
    FlushOrdered = TRUE
    MaxTornStores = 2
INVARIANT RecoveredAllOrNothing
