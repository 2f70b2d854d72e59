SPECIFICATION Spec
CONSTANTS
    t1 = t1
    t2 = t2
    Threads = {t1, t2}
    NoThread = NoThread
    Heads <- MCHeads
    PeOffset <- MCOffset
    Uses <- MCUses
    o1 = o1
    o2 = o2
    o3 = o3
    Objects = {o1, o2, o3}
    Null = Null
    NLanes = 2
    May <- MCMay
INVARIANTS RingsSound OidsComplete NobodyStuck
PROPERTY ImplementsAtomicList
