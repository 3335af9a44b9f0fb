--------------------------- MODULE MCCombatScreen ---------------------------
(* Instances of CombatScreen for TLC; the bounds are in the configurations. *)
EXTENDS CombatScreen
=============================================================================
