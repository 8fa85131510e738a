------------------------------ MODULE DinoIndex ------------------------------
(***************************************************************************)
(* The dino index of telemetry.db (db/telemetry_store.py, db/locks.py):    *)
(* dino_index and dino_rtree, two tables that share row ids, on one        *)
(* connection that every task of the bridge uses.                          *)
(*                                                                         *)
(* A write unit runs its statements one await at a time under the          *)
(* connection's lock; the first one opens a transaction, which commit or   *)
(* rollback ends.  Everybody on the connection sees the open transaction's *)
(* state (index, tree); saved is what a crash leaves.  An exception rolls  *)
(* back.  A cancellation is no Exception: it releases the lock and leaves  *)
(* the transaction open, for the next writer to go on in: to commit it     *)
(* with its own changes, or to roll it back with them.                     *)
(*                                                                         *)
(* before is a history variable: the tables as the last unit to end left   *)
(* them, with the ids that units cut off have left in one of the two only. *)
(*                                                                         *)
(* A dino's uid is UNIQUE; its position is given by its region.            *)
(***************************************************************************)
EXTENDS Naturals, FiniteSets

CONSTANTS
  Uids, Regions,
  Nowhere,          \* no region
  Tasks,            \* coroutines that write to the connection
  None,             \* no holder of the lock
  MaxId,            \* bound: the largest row id (SQLITE_FULL beyond)
  MaxCuts           \* bound: units cut off

ASSUME NamesAssumption == Nowhere \notin Regions /\ None \notin Tasks

ASSUME BoundsAssumption == MaxId \in Nat /\ MaxCuts \in Nat

VARIABLES
  index,   \* dino_index: id -> [uid, region, stale]
  tree,    \* dino_rtree: id -> region
  saved,   \* the two tables as of the last commit, and before.hurt then
  before,  \* history: the two as the last unit to end left them; hurt: the ids torn apart
  lock,    \* holder of the connection's write lock
  pc,      \* task -> its next statement
  job,     \* task -> the unit it runs: [op, region, scan]
  old,     \* task -> ids its SELECTs returned
  todo,    \* task -> uids it has not inserted yet
  rid,     \* task -> cur.lastrowid
  cuts     \* units cut off so far

taskVars == <<pc, job, old, todo, rid>>
vars == <<index, tree, saved, before, lock, taskVars, cuts>>

Jobs == [op : {"upsert", "reap", "other"}, region : Regions \cup {Nowhere},
         scan : SUBSET Uids]
NoJob == [op |-> "other", region |-> Nowhere, scan |-> {}]
Statements == {"select", "delete", "deleteTree", "insert", "insertTree", "commit"}
Empty == [i \in {} |-> 0]

Init ==
  /\ index = Empty /\ tree = Empty
  /\ saved = [index |-> Empty, tree |-> Empty, hurt |-> {}] /\ before = saved
  /\ lock = None
  /\ pc = [t \in Tasks |-> "idle"]
  /\ job = [t \in Tasks |-> NoJob]
  /\ old = [t \in Tasks |-> {}]
  /\ todo = [t \in Tasks |-> {}]
  /\ rid = [t \in Tasks |-> 0]
  /\ cuts = 0

Without(f, ids) == [i \in DOMAIN f \ ids |-> f[i]]

\* Mutant of With: the row is stored under the id after its own.
WithNext(f, i, row) == [j \in DOMAIN f \cup {i + 1} |-> IF j = i + 1 THEN row ELSE f[j]]

With(f, i, row) == [j \in DOMAIN f \cup {i} |-> IF j = i THEN row ELSE f[j]]

-----------------------------------------------------------------------------
(* Write units *)

\* The call is over and its frame gone.
Leave(t) ==
  /\ pc' = [pc EXCEPT ![t] = "idle"]
  /\ job' = [job EXCEPT ![t] = NoJob]
  /\ old' = [old EXCEPT ![t] = {}]
  /\ todo' = [todo EXCEPT ![t] = {}]
  /\ rid' = [rid EXCEPT ![t] = 0]

\* Mutant of Enter: the unit does not take the lock (a method left undecorated).
EnterUnlocked(t, j) ==
  /\ pc[t] = "idle"
  /\ lock' = t
  /\ pc' = [pc EXCEPT ![t] = IF j.op = "other" THEN "commit" ELSE "select"]
  /\ job' = [job EXCEPT ![t] = j]
  /\ todo' = [todo EXCEPT ![t] = j.scan]
  /\ UNCHANGED <<index, tree, saved, before, old, rid, cuts>>

\* A call (upsert_region, reap_stale, or a write to another table, which is one
\* statement and a commit) gets the lock: serialized_write.  Until then it has done
\* nothing, so a call that is cancelled while it waits leaves no trace.
Enter(t, j) ==
  /\ pc[t] = "idle"
  /\ lock = None
  /\ lock' = t
  /\ pc' = [pc EXCEPT ![t] = IF j.op = "other" THEN "commit" ELSE "select"]
  /\ job' = [job EXCEPT ![t] = j]
  /\ todo' = [todo EXCEPT ![t] = j.scan]
  /\ UNCHANGED <<index, tree, saved, before, old, rid, cuts>>

\* Mutant of Outdated: a dino that moved here from another region keeps its row.
OutdatedHere(t) ==
  IF job[t].op = "reap"
  THEN {i \in DOMAIN index : index[i].stale}
  ELSE {i \in DOMAIN index : index[i].region = job[t].region}

\* The rows to replace: those of the region and those of the scanned uids, or the
\* ones not seen since the cutoff.
Outdated(t) ==
  IF job[t].op = "reap"
  THEN {i \in DOMAIN index : index[i].stale}
  ELSE {i \in DOMAIN index : \/ index[i].region = job[t].region
                             \/ index[i].uid \in job[t].scan}

AfterDeletes(t) == IF todo[t] = {} THEN "commit" ELSE "insert"

\* The SELECTs; reap_stale returns when there is nothing to do.
Select(t) ==
  /\ pc[t] = "select"
  /\ IF Outdated(t) = {} /\ job[t].op = "reap"
     THEN Leave(t) /\ lock' = None
     ELSE /\ old' = [old EXCEPT ![t] = Outdated(t)]
          /\ pc' = [pc EXCEPT ![t] =
                      IF Outdated(t) = {} THEN AfterDeletes(t) ELSE "delete"]
          /\ UNCHANGED <<lock, job, todo, rid>>
  /\ UNCHANGED <<index, tree, saved, before, cuts>>

Delete(t) ==
  /\ pc[t] = "delete"
  /\ index' = Without(index, old[t])
  /\ pc' = [pc EXCEPT ![t] = "deleteTree"]
  /\ UNCHANGED <<tree, saved, before, lock, job, old, todo, rid, cuts>>

\* Mutant of DeleteTree: the R-tree keeps the rows.
DeleteTreeNot(t) ==
  /\ pc[t] = "deleteTree"
  /\ pc' = [pc EXCEPT ![t] = AfterDeletes(t)]
  /\ UNCHANGED <<index, tree, saved, before, lock, job, old, todo, rid, cuts>>

DeleteTree(t) ==
  /\ pc[t] = "deleteTree"
  /\ tree' = Without(tree, old[t])
  /\ pc' = [pc EXCEPT ![t] = AfterDeletes(t)]
  /\ UNCHANGED <<index, saved, before, lock, job, old, todo, rid, cuts>>

\* SQLite gives a row without an id the one after the table's largest.
IsNextId(i) ==
  /\ \A j \in DOMAIN index : j < i
  /\ i = 1 \/ i - 1 \in DOMAIN index

TakenUid(u) == \E j \in DOMAIN index : index[j].uid = u

Insert(t, u) ==
  /\ pc[t] = "insert"
  /\ u \in todo[t]
  /\ ~ TakenUid(u)
  /\ \E i \in 1 .. MaxId :
       /\ IsNextId(i)
       /\ index' = With(index, i, [uid |-> u, region |-> job[t].region, stale |-> FALSE])
       /\ rid' = [rid EXCEPT ![t] = i]
  /\ todo' = [todo EXCEPT ![t] = @ \ {u}]
  /\ pc' = [pc EXCEPT ![t] = "insertTree"]
  /\ UNCHANGED <<tree, saved, before, lock, job, old, cuts>>

InsertTree(t) ==
  /\ pc[t] = "insertTree"
  /\ rid[t] \notin DOMAIN tree
  /\ tree' = With(tree, rid[t], job[t].region)
  /\ pc' = [pc EXCEPT ![t] = AfterDeletes(t)]
  /\ UNCHANGED <<index, saved, before, lock, job, old, todo, rid, cuts>>

\* The ids in one table only, or at odds, if the unit ends now: those it took from both
\* tables are not, those it is half done with are.
HurtBy(t) ==
  CASE pc[t] = "deleteTree" -> before.hurt \cup old[t]
    [] pc[t] = "insertTree" -> (before.hurt \ old[t]) \cup {rid[t]}
    [] pc[t] \in {"insert", "commit"} -> before.hurt \ old[t]
    [] OTHER -> before.hurt

AsItIs(t) == [index |-> index, tree |-> tree, hurt |-> HurtBy(t)]

Commit(t) ==
  /\ pc[t] = "commit"
  /\ saved' = AsItIs(t) /\ before' = AsItIs(t)
  /\ lock' = None
  /\ Leave(t)
  /\ UNCHANGED <<index, tree, cuts>>

\* Mutant of Fail: the exception is not caught.
FailUncaught(t) ==
  /\ pc[t] \in Statements
  /\ lock' = None
  /\ Leave(t)
  /\ UNCHANGED <<index, tree, saved, before, cuts>>

\* Where a unit's "except Exception: rollback" is: none around the other tables'
\* writes, nor around reap_stale's SELECT.
RollsBack(t) ==
  job[t].op = "upsert" \/ (job[t].op = "reap" /\ pc[t] # "select")

\* A statement raises (disk, constraint, a bad row).
Fail(t) ==
  /\ pc[t] \in Statements
  /\ IF RollsBack(t) THEN index' = saved.index /\ tree' = saved.tree /\ before' = saved
     ELSE UNCHANGED <<index, tree, before>>
  /\ lock' = None
  /\ Leave(t)
  /\ UNCHANGED <<saved, cuts>>

\* The task is cancelled (its link dropped, its turn timed out): CancelledError is no
\* Exception, so what it has written stays.  The statement it awaits is carried out by
\* the connection's thread all the same, before anybody else's, and is a step of its own.
Cancel(t) ==
  /\ pc[t] \in Statements /\ cuts < MaxCuts
  /\ cuts' = cuts + 1
  /\ before' = AsItIs(t)
  /\ lock' = None
  /\ Leave(t)
  /\ UNCHANGED <<index, tree, saved>>

-----------------------------------------------------------------------------
(* The process and time *)

\* The bridge dies and is started again.
Crash ==
  /\ index' = saved.index /\ tree' = saved.tree /\ before' = saved
  /\ lock' = None
  /\ pc' = [t \in Tasks |-> "idle"]
  /\ job' = [t \in Tasks |-> NoJob]
  /\ old' = [t \in Tasks |-> {}]
  /\ todo' = [t \in Tasks |-> {}]
  /\ rid' = [t \in Tasks |-> 0]
  /\ UNCHANGED <<saved, cuts>>

AgeRows(f, u) ==
  [i \in DOMAIN f |-> IF f[i].uid = u THEN [f[i] EXCEPT !.stale = TRUE] ELSE f[i]]

\* u has not been seen for staleness_ttl.
Age(u) ==
  /\ index' = AgeRows(index, u)
  /\ saved' = [saved EXCEPT !.index = AgeRows(@, u)]
  /\ before' = [before EXCEPT !.index = AgeRows(@, u)]
  /\ UNCHANGED <<tree, lock, taskVars, cuts>>

Next ==
  \/ \E t \in Tasks :
       \/ \E r \in Regions, s \in SUBSET Uids :
            Enter(t, [op |-> "upsert", region |-> r, scan |-> s])
       \/ Enter(t, [op |-> "reap", region |-> Nowhere, scan |-> {}])
       \/ Enter(t, NoJob)
       \/ Select(t) \/ Delete(t) \/ DeleteTree(t)
       \/ \E u \in todo[t] : Insert(t, u)
       \/ InsertTree(t) \/ Commit(t) \/ Fail(t) \/ Cancel(t)
  \/ Crash
  \/ \E u \in Uids : Age(u)

Spec == Init /\ [][Next]_vars

-----------------------------------------------------------------------------
(* Properties *)

Rows == [uid : Uids, region : Regions, stale : BOOLEAN]
Ids == 1 .. MaxId

IsIndex(f) == DOMAIN f \subseteq Ids /\ \A i \in DOMAIN f : f[i] \in Rows
IsTree(f) == DOMAIN f \subseteq Ids /\ \A i \in DOMAIN f : f[i] \in Regions

TypeOK ==
  /\ IsIndex(index) /\ IsTree(tree)
  /\ \A tables \in {saved, before} :
       /\ DOMAIN tables = {"index", "tree", "hurt"}
       /\ IsIndex(tables.index) /\ IsTree(tables.tree) /\ tables.hurt \subseteq Ids
  /\ lock \in Tasks \cup {None}
  /\ pc \in [Tasks -> {"idle"} \cup Statements]
  /\ job \in [Tasks -> Jobs]
  /\ old \in [Tasks -> SUBSET Ids]
  /\ todo \in [Tasks -> SUBSET Uids]
  /\ rid \in [Tasks -> 0 .. MaxId]
  /\ cuts \in 0 .. MaxCuts

\* Whoever gets the lock finds the tables as the last unit to end left them, by its
\* commit, its rollback or, cut off, with its transaction open: nobody's statements
\* run in between, and no unit that fails leaves any of its own behind.
NoStrayChanges == lock = None => index = before.index /\ tree = before.tree

\* f and g have the same ids and regions, except at ids.
Matches(f, g, ids) ==
  \A i \in Ids \ ids :
    (i \in DOMAIN f <=> i \in DOMAIN g) /\ (i \in DOMAIN f => f[i].region = g[i])

\* "id == dino_index.id": after every commit, and whenever a reader looks, a spatial
\* hit joins to the row of the same dino and no row is missing from the R-tree, at
\* every id but those that a unit cut off between its two tables has torn apart.
InSync ==
  /\ Matches(saved.index, saved.tree, saved.hurt)
  /\ lock = None => Matches(index, tree, before.hurt)

\* No insert of the census ever meets a row in its way, so none of its passes is
\* aborted by an IntegrityError: uids of moved dinos have been deleted (H2) and a
\* new row's id is free in the R-tree as well, unless a unit cut off has torn it apart.
NoCollision ==
  \A t \in Tasks :
    /\ pc[t] \in {"insert", "insertTree"} => \A u \in todo[t] : ~ TakenUid(u)
    /\ pc[t] = "insertTree" => rid[t] \notin DOMAIN tree \/ rid[t] \in before.hurt \ old[t]

\* Where an index has a dino.
SeenAt(f, u) ==
  IF \E i \in DOMAIN f : f[i].uid = u
  THEN f[CHOOSE i \in DOMAIN f : f[i].uid = u].region ELSE Nowhere

Abstract == INSTANCE RegionIndex
  WITH dinos <- [u \in Uids |-> SeenAt(saved.index, u)],
       open <- [u \in Uids |-> SeenAt(before.index, u)]

\* The committed index changes only by whole scans of a region, by reaping, and by what
\* units cut off have left, which loses dinos and puts none where no scan saw it.
OnlyScansMoveDinos == Abstract!Spec
=============================================================================
