----------------------------- MODULE RegionIndex -----------------------------
(***************************************************************************)
(* What TelemetryStore does for the census and its readers: the dino index *)
(* maps a dino to the region it was last seen in, and changes by scans of  *)
(* a region and by reaping.  One that ends is committed as a whole         *)
(* (telemetry_store.py: "One transaction so readers never see a            *)
(* half-region").  One that is cut off leaves what it did in the open      *)
(* transaction, where the next one goes on: the end of that commits both,  *)
(* its failure takes both back.                                            *)
(***************************************************************************)
CONSTANTS Uids, Regions, Nowhere

VARIABLES
  dinos,   \* uid -> region, or Nowhere, as committed
  open     \* the same, in the open transaction

Init == dinos = [u \in Uids |-> Nowhere] /\ open = dinos

\* The departure sweep of region r and the arrival of those scanned in it, but for the
\* lost ones: gone from where they were and not yet back.
Scan(r, scan, lost) ==
  open' = [u \in Uids |-> IF u \in lost THEN Nowhere
                          ELSE IF u \in scan THEN r
                          ELSE IF open[u] = r THEN Nowhere ELSE open[u]]

Reap(gone) == open' = [u \in Uids |-> IF u \in gone THEN Nowhere ELSE open[u]]

Upsert == \E r \in Regions, scan \in SUBSET Uids : Scan(r, scan, {}) /\ dinos' = open'

UpsertCutOff ==
  \E r \in Regions, scan \in SUBSET Uids : \E lost \in SUBSET scan :
    Scan(r, scan, lost) /\ dinos' = dinos

\* Reaping, whole or cut off.
Reaping == \E gone \in SUBSET Uids : Reap(gone) /\ dinos' \in {open', dinos}

\* A write to another table is committed, with what was open.
Commit == dinos' = open /\ open' = open

\* A unit fails, or the bridge dies.
Rollback == open' = dinos /\ dinos' = dinos

Next == Upsert \/ UpsertCutOff \/ Reaping \/ Commit \/ Rollback

Spec == Init /\ [][Next]_<<dinos, open>>
=============================================================================
