SPECIFICATION Spec
CONSTANTS
    Cells = {c1, c2, c3}
    Values = {0, 1}
    None = None
    Invalid = Invalid
    Base = 1
    Ext = 1
    FlushOrdered = TRUE
    MaxReuse = 1
SYMMETRY Symmetry
INVARIANT AbortRestores
