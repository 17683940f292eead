SPECIFICATION FairSpec
CONSTANTS
    Skills <- OneSkill
    Frontends = {"repl", "playground"}
    HealthPort = FALSE
    MaxShutdowns = 2
    MaxHups = 2
    MaxEdits = 1
PROPERTIES ShutdownEnds SecondSignalForces TurnInterrupted HupHandled
CHECK_DEADLOCK FALSE
