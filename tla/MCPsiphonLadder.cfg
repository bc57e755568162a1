SPECIFICATION MCSpec
CONSTANTS
    Controllers = {c1, c2}
    None = None
    Rungs = 2
    Remembered = {1}
    MaxSessions = 1
INVARIANTS TypeOK NeverStalled OneController
PROPERTIES EveryRungTried DialEnds
CHECK_DEADLOCK FALSE
