-------------------------- MODULE MCCombatSummons --------------------------
(* Instances of CombatSummons for TLC: a summoner, its creatures and a foe. *)
EXTENDS CombatSummons, TLC

CONSTANTS p, n, k1, k2

NoBonus == [c \in Combatants |-> 0]
CreaturesAlike == Permutations({k1, k2})
=============================================================================
