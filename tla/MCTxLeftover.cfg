SPECIFICATION Spec
CONSTANTS
    Cells = {c1, c2, c3}
    Values = {0, 1}
    None = None
    Invalid = Invalid
    Base = 2
    Ext = 0
    FlushOrdered = TRUE
    MaxReuse = 1
SYMMETRY Symmetry
INVARIANT CrashIsAtomic
