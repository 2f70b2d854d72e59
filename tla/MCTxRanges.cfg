SPECIFICATION Spec
CONSTANTS
    Heap = 9
    Objects <- WithHeaders
    Flags <- Plain
    None = None
INVARIANTS SnapshottedOnce TreeSound FlushCovered FreshFreeCancels
PROPERTIES AddTerminates
