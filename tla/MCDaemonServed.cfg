SPECIFICATION Spec
CONSTANTS
    Skills <- OneSkill
    Frontends = {"repl"}
    HealthPort = TRUE
    MaxShutdowns = 0
    MaxHups = 1
    MaxEdits = 1
INVARIANTS ServedAgentIsCurrent
CHECK_DEADLOCK FALSE
