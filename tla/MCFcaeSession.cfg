SPECIFICATION FairSpec
CONSTANTS
    Callers = {ui, notification}
    ui = ui
    notification = notification
    MaxSessions = 2
    Chained = TRUE
    None = None
INVARIANTS TypeOK RaisedOnClean PausedIsDown TearsDownInOrder IdleIsShown BarrierInHand
PROPERTIES BridgeContract StopCompletes
CHECK_DEADLOCK FALSE
