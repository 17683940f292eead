SPECIFICATION Spec
CONSTANTS
    Setups <- MCSetups
    Edits <- MCEdits
    Runners <- MCRunners
    Tools = {"search", "fetch"}
    MaxRequests = 2
    MaxSaid = 4
INVARIANTS DegradesGracefully RequestsAsConfigured PairingExact NothingLost
CHECK_DEADLOCK FALSE
