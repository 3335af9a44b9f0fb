CONSTANTS
    Tabs = {a}
    None = None
    MaxPerUser = 1
    Buffer = 1
    Window = 1
    MaxStreams = 2
    MaxChanges = 2
    MaxEnds = 1
    MaxTrouble = 1
SPECIFICATION Spec
INVARIANTS TypeOK QuietPageIsFresh EndIsHeard
PROPERTIES AgainLive EndIsKnown
CHECK_DEADLOCK FALSE
