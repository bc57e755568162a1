SPECIFICATION Spec
CONSTANTS
    Preferences = {{"kill_switch", "auto_reconnect"}}
    Rejects = FALSE
    MaxRungs = 2
    MaxSessions = 2
    MaxIntents = 2
INVARIANT SealHolds
CHECK_DEADLOCK FALSE
