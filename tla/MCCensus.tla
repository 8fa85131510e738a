------------------------------ MODULE MCCensus ------------------------------
(* Census with two dinos on a map of two and a half tiles: one of them at     *)
(* its edge, the other beside it, in the middle or at the other edge, outside *)
(* of what is learned from the first.                                         *)
EXTENDS Census

CONSTANTS rex, dodo

Herd == {rex, dodo}
OneAtTheEdge == {w \in [Herd -> {1, 3, 5}] : w[rex] = 1}
=============================================================================
