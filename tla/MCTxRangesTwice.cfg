SPECIFICATION Spec
CONSTANTS
    Heap = 4
    Objects <- WithoutHeaders
    Flags <- Plain
    None = None
INVARIANT SnapshottedOnce
