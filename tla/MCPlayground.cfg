SPECIFICATION FairSpec
CONSTANTS
    MaxTurns = 2
    MaxConns = 2
    MaxEvents = 3
INVARIANTS AnswerInOwnMessage OneTurnAtATime ButtonHonest
PROPERTIES TurnReleasesTab HandlersEnd
CHECK_DEADLOCK FALSE
