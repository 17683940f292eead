SPECIFICATION Spec
CONSTANTS
    MaxChunks = 3
    Calls = {1, 2}
INVARIANTS UsageCaptured
CHECK_DEADLOCK FALSE
