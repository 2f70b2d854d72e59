SPECIFICATION Spec
CONSTANTS
    Cells = {c1, c2, c3}
    Values = {0, 1}
    None = None
    Invalid = Invalid
    Base = 2
    Ext = 1
    FlushOrdered = TRUE
    MaxReuse = 0
SYMMETRY Symmetry
INVARIANTS CommitIsDurable AbortRestores CrashIsAtomic IdleLogIsEmpty
PROPERTY ImplementsAtomicTx
