SPECIFICATION FairSpec
CONSTANTS
    Preferences = {{}, {"auto_reconnect"}}
    Rejects = TRUE
    MaxRungs = 2
    MaxSessions = 2
    MaxIntents = 2
PROPERTY DisconnectSticks
CHECK_DEADLOCK FALSE
