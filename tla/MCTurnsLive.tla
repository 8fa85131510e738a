----------------------------- MODULE MCTurnsLive -----------------------------
(* TurnPipeline where two turns compete for one slot and one place in the    *)
(* session map: eviction has to give up while the other session is locked.   *)
EXTENDS TurnPipeline

=============================================================================
