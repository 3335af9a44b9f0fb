---------------------------- MODULE MCCombatWrite ----------------------------
(***************************************************************************)
(* Two people and a few taps, with the fog of war on the map: every order  *)
(* of their calls, retries, lost answers and restarts.                     *)
(***************************************************************************)
EXTENDS CombatWrite, TLC

CONSTANTS s1, s2

TwoScreens == {s1, s2}
Symmetry == Permutations(TwoScreens)
=============================================================================
