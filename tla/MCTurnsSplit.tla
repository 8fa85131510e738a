----------------------------- MODULE MCTurnsSplit -----------------------------
(* TurnPipeline with room for every session, so that nothing is ever evicted *)
(* and only the cleanup of idle sessions removes one.                        *)
EXTENDS TurnPipeline

=============================================================================
