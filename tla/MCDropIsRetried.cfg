SPECIFICATION Spec
CONSTANTS
    Preferences = {{"auto_reconnect"}}
    Rejects = FALSE
    MaxRungs = 2
    MaxSessions = 2
    MaxIntents = 1
PROPERTY DropIsRetried
CHECK_DEADLOCK FALSE
