---------------------------- MODULE MCUpsertCancel ----------------------------
(* DinoIndex, and what telemetry_store.py says of it: when the census task   *)
(* is cancelled in the middle of a region, as _cancel_link_tasks does when   *)
(* the link drops, it does not hold.                                         *)
EXTENDS DinoIndex

\* "One transaction so readers never see a half-region": whoever gets the lock, as
\* readers do, finds the tables as of a commit.
WholeRegions == lock = None => index = saved.index /\ tree = saved.tree
=============================================================================
