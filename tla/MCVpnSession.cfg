SPECIFICATION Spec
CONSTANTS
    Preferences = {{}, {"kill_switch"}, {"kill_switch", "auto_reconnect"}}
    Rejects = TRUE
    MaxRungs = 2
    MaxSessions = 3
    MaxIntents = 2
INVARIANTS TypeOK NoStuckClaim HeldTunHasSession
CHECK_DEADLOCK FALSE
