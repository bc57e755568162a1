SPECIFICATION FairSpec
CONSTANTS
    Preferences = {{"kill_switch", "auto_reconnect"}}
    Rejects = FALSE
    MaxRungs = 2
    MaxSessions = 2
    MaxIntents = 2
PROPERTY DisconnectSticks
CHECK_DEADLOCK FALSE
