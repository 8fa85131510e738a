------------------------------- MODULE MCTurns -------------------------------
(* TurnPipeline with more keys than sessions and more turns than slots.      *)
EXTENDS TurnPipeline, TLC

PlayersAreAlike == Permutations(Players)
=============================================================================
