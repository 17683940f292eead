SPECIFICATION Spec
CONSTANTS
    MaxChunks = 4
    Calls = {1, 2}
INVARIANTS TextFaithful ToolCallsComplete
PROPERTIES ImplementsResponseStream
CHECK_DEADLOCK FALSE
