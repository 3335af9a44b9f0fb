--------------------------- MODULE MCCombatTurns ---------------------------
(* Instances of CombatTurns for TLC: who fights, and their bonuses. *)
EXTENDS CombatTurns, TLC

CONSTANTS p, q, n, m

NoBonus == [c \in Combatants |-> 0]
(* n breaks a tie with the others by its bonus. *)
MixedBonus == [c \in Combatants |-> IF c = n THEN 1 ELSE 0]
=============================================================================
