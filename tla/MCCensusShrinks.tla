-------------------------- MODULE MCCensusShrinks --------------------------
(* Census where nothing changes in the world and no player is near: one cell *)
(* that does not answer in one pass.                                         *)
EXTENDS Census

CONSTANTS rex, dodo

Herd == {rex, dodo}
FarApart == {w \in [Herd -> {1, 5}] : w[rex] = 1 /\ w[dodo] = 5}
=============================================================================
