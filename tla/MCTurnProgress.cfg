SPECIFICATION FairSpec
CONSTANTS
    p = p  q = q  n = n  m = m
    Players = {p, q}
    NPCs = {n}
    Creatures = {}
    Owner = p
    Nobody = Nobody
    Bonus <- NoBonus
    MaxInitiative = 2
    MaxRound = 2
    MaxSaves = 1
    MaxStruck = 0
    MaxDamage = 0
PROPERTY TheRoundComesRound
