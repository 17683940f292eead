SPECIFICATION Spec
CONSTANTS
    MaxLines = 5
INVARIANTS DataIntact TypeOfItsBlock
PROPERTIES BreakReported
CHECK_DEADLOCK FALSE
