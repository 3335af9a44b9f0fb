SPECIFICATION SSpec
CONSTANTS
    p = p  n = n  k1 = k1  k2 = k2
    Players = {p}
    NPCs = {}
    Creatures = {k1, k2}
    Owner = p
    Nobody = Nobody
    Bonus <- NoBonus
    MaxInitiative = 2
    MaxRound = 2
    MaxSaves = 1
    MaxStruck = 0
    MaxDamage = 1
SYMMETRY CreaturesAlike
INVARIANT GroupsAreRuns
INVARIANT OneTotalForTheCasting
INVARIANT TheGoneHoldNothing
PROPERTY NeverHeldBySummons
