---------------------------- MODULE MCCombatMixup ----------------------------
(* GameEvents: two players fight at the same time.                          *)
EXTENDS GameEvents
=============================================================================
