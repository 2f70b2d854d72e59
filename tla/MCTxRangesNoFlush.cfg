SPECIFICATION Spec
CONSTANTS
    Heap = 9
    Objects <- WithHeaders
    Flags <- Mixed
    None = None
INVARIANT FlushCovered
