SPECIFICATION Spec
CONSTANTS
    MaxRevision = 3
    MaxReads = 2
    MaxTrouble = 1
    Rereads = 1
    None = None
INVARIANT WholeCopyIsCurrent
INVARIANT QuietScreenShowsTheTurn
INVARIANT ReadyHeals
CHECK_DEADLOCK FALSE
