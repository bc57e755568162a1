SPECIFICATION FairSpec
CONSTANTS
    Conns = {c1, c2}
    c1 = c1
    c2 = c2
    None = None
    MaxSessions = 2
    MinIdle = 1
    EagerServer = FALSE
    OpeningServer = FALSE
INVARIANTS TypeOK NoStrandedStream SessionNotShared PoolDiesWithClient RecvLoopServed
PROPERTY PoolProtocol
CHECK_DEADLOCK FALSE
SYMMETRY Symmetry
