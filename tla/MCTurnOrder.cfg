SPECIFICATION Spec
CONSTANTS
    p = p  q = q  n = n  m = m
    Players = {p, q}
    NPCs = {n}
    Creatures = {}
    Owner = p
    Nobody = Nobody
    Bonus <- MixedBonus
    MaxInitiative = 3
    MaxRound = 3
    MaxSaves = 2
    MaxStruck = 1
    MaxDamage = 1
INVARIANT TypeOK
INVARIANT GroupsAreRuns
INVARIANT JointTurn
INVARIANT CurrentIsInTurn
INVARIANT NobodySkipped
INVARIANT NobodyTwice
PROPERTY NeverHeldForNothing
PROPERTY WindowsHoldTheTurn
