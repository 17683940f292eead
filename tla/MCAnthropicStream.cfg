SPECIFICATION Spec
CONSTANTS
    MaxEvents = 7
    Blocks = 2
INVARIANTS TextFaithful CallsFaithful FinalUpToDate
PROPERTIES ImplementsResponseStream
CHECK_DEADLOCK FALSE
