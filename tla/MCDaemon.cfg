SPECIFICATION Spec
CONSTANTS
    Skills <- TwoSkills
    Frontends = {"repl", "playground", "unknown"}
    HealthPort = TRUE
    MaxShutdowns = 2
    MaxHups = 2
    MaxEdits = 2
INVARIANTS ReadyAfterInit OnlyValidConfigs CoalescedReload NoOrphans
CHECK_DEADLOCK FALSE
