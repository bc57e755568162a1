SPECIFICATION FairSpec
CONSTANTS
    Conns = {c1, c2}
    c1 = c1
    c2 = c2
    None = None
    MaxSessions = 1
    MinIdle = 0
    EagerServer = FALSE
    OpeningServer = TRUE
PROPERTIES SessionEndReleases RecvLoopEnds
CHECK_DEADLOCK FALSE
