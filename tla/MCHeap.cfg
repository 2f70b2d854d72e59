CONSTANTS
    t1 = t1
    t2 = t2
    a1 = a1
    a2 = a2
    None = None
    Threads <- MCThreads
    Arenas <- MCArenas
    ArenaOf <- MCArenaOf
    Does <- MCDoes
    NChunk = 2
    NBlock = 2
    NLock = 2
    MaxActs <- MCActs
    EarlyFree = FALSE
SPECIFICATION Spec
INVARIANTS HandedOnce ChunkInOnePlace ScoreIsLow SomeoneMoves
