SPECIFICATION Spec
CONSTANTS
    s1 = s1
    s2 = s2
    Screens <- TwoScreens
    Fogged = TRUE
    MaxSightTries = 2
    MaxTaps = 3
    MaxSends = 3
    MaxSessions = 2
    MaxCrashes = 1
    None = None
SYMMETRY Symmetry
INVARIANT TypeOK
INVARIANT AppliedOnce
INVARIANT AnsweredWasTold
INVARIANT SightIsOfTheChange
INVARIANT GivenUpAmongChanges
PROPERTY KeepsThePromise
CHECK_DEADLOCK FALSE
