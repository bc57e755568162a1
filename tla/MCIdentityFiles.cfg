SPECIFICATION MCSpec
CONSTANTS
    Files = {1, 2}
    Protocols <- MCProtocols
    Screens = {screen}
    screen = screen
    Contents = {none, i1, i2, bad}
    None = none
    MaxOps = 3
    Identities = {i1, i2}
    Lenient = {i1, i2, bad}
    Loadable = {i1, i2}
    none = none
    i1 = i1
    i2 = i2
    bad = bad
SYMMETRY Symmetry
INVARIANTS TypeOK SavedIsValid RelayNotBlocked
PROPERTIES KeepsIdentities
CHECK_DEADLOCK FALSE
