SPECIFICATION Spec
CONSTANTS
    Skills <- OneSkill
    Frontends = {"repl"}
    HealthPort = TRUE
    MaxShutdowns = 1
    MaxHups = 0
    MaxEdits = 0
PROPERTIES TermBeforeKill
CHECK_DEADLOCK FALSE
