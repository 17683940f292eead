SPECIFICATION FairSpec
CONSTANTS
    RetryOptions <- Options
    DefaultRetries = 3
    Timeout = 5
    BaseDelay = 4
    MaxDelay = 8
    MaxDuration = 1000
    MaxBodySize = 2
INVARIANTS RetriesJustified BodiesClosed TimeBounded
PROPERTIES CallReturns
CHECK_DEADLOCK FALSE
