SPECIFICATION SSpec
CONSTANTS
    p = p  n = n  k1 = k1  k2 = k2
    Players = {p}
    NPCs = {n}
    Creatures = {k1, k2}
    Owner = p
    Nobody = Nobody
    Bonus <- NoBonus
    MaxInitiative = 2
    MaxRound = 3
    MaxSaves = 1
    MaxStruck = 0
    MaxDamage = 0
SYMMETRY CreaturesAlike
PROPERTY TheRoundGoesUpByOne
