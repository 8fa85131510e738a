--------------------------- MODULE DinoIndex_proofs ---------------------------
(***************************************************************************)
(* What DinoIndex promises for every number of dinos, regions and writers, *)
(* and however many of these are cut off: well-formed tables, no stray     *)
(* changes, tables in step and inserts that meet no row in their way but   *)
(* at the ids torn apart, and the abstract RegionIndex.                    *)
(***************************************************************************)
EXTENDS DinoIndex, TLAPS

USE NamesAssumption, BoundsAssumption

-----------------------------------------------------------------------------
(* Types *)

\* A unit's job fits its stage: reaping and other writes have nothing to insert,
\* and a scan is inserted in a region, from the whole of it downwards.
JobsFit ==
  \A t \in Tasks :
    /\ job[t].op = "upsert" => job[t].region \in Regions
    /\ job[t].op # "upsert" => todo[t] = {}
    /\ job[t].op = "other" => pc[t] \in {"idle", "commit"} /\ old[t] = {}
    /\ pc[t] \in {"idle", "select"} => old[t] = {}
    /\ pc[t] \in {"select", "delete", "deleteTree"} => todo[t] = job[t].scan
    /\ pc[t] \in {"insert", "insertTree"} => job[t].op = "upsert"
    /\ pc[t] = "insertTree" => rid[t] \in Ids
    /\ todo[t] \subseteq job[t].scan

TypeInv == TypeOK /\ JobsFit

\* A call that is over leaves its task's variables well formed.
LEMMA LeaveType ==
  ASSUME TypeInv, NEW t \in Tasks, Leave(t)
  PROVE  /\ pc' \in [Tasks -> {"idle"} \cup Statements]
         /\ job' \in [Tasks -> Jobs]
         /\ old' \in [Tasks -> SUBSET Ids]
         /\ todo' \in [Tasks -> SUBSET Uids]
         /\ rid' \in [Tasks -> 0 .. MaxId]
         /\ JobsFit'
<1>1. NoJob \in Jobs
  BY DEF NoJob, Jobs
<1>2. /\ pc' \in [Tasks -> {"idle"} \cup Statements]
      /\ job' \in [Tasks -> Jobs]
      /\ old' \in [Tasks -> SUBSET Ids]
      /\ todo' \in [Tasks -> SUBSET Uids]
      /\ rid' \in [Tasks -> 0 .. MaxId]
  BY <1>1 DEF Leave, TypeInv, TypeOK
<1>3. JobsFit'
  BY DEF Leave, TypeInv, TypeOK, JobsFit, NoJob
<1> QED BY <1>2, <1>3

\* What a unit leaves is well formed.
LEMMA AsItIsType ==
  ASSUME TypeInv, NEW t \in Tasks, pc[t] \in Statements
  PROVE  /\ AsItIs(t).index = index /\ AsItIs(t).tree = tree /\ AsItIs(t).hurt = HurtBy(t)
         /\ DOMAIN AsItIs(t) = {"index", "tree", "hurt"}
         /\ IsIndex(AsItIs(t).index) /\ IsTree(AsItIs(t).tree) /\ AsItIs(t).hurt \subseteq Ids
<1>1. HurtBy(t) \subseteq Ids
  BY DEF HurtBy, TypeInv, TypeOK, JobsFit
<1> QED BY <1>1 DEF AsItIs, TypeInv, TypeOK

\* Rows stay rows when they age.
LEMMA AgedType ==
  ASSUME NEW f, IsIndex(f), NEW u
  PROVE  IsIndex(AgeRows(f, u))
BY DEF AgeRows, IsIndex, Rows

\* Every step keeps the type invariant.
LEMMA TypeStep == TypeInv /\ [Next]_vars => TypeInv'
<1> SUFFICES ASSUME TypeInv, [Next]_vars
             PROVE  TypeInv'
  OBVIOUS
<1> USE DEF TypeInv, TypeOK
<1>1. ASSUME NEW t \in Tasks, NEW r \in Regions, NEW s \in SUBSET Uids,
             Enter(t, [op |-> "upsert", region |-> r, scan |-> s])
      PROVE  TypeInv'
  BY <1>1 DEF Enter, JobsFit, Jobs, Statements
<1>2. ASSUME NEW t \in Tasks, NEW j \in Jobs, j.op # "upsert", j.scan = {}, Enter(t, j)
      PROVE  TypeInv'
  BY <1>2 DEF Enter, JobsFit, Jobs, Statements
<1>3. /\ [op |-> "reap", region |-> Nowhere, scan |-> {}] \in Jobs
      /\ NoJob \in Jobs /\ NoJob.op # "upsert" /\ NoJob.scan = {}
  BY DEF Jobs, NoJob
<1>4. ASSUME NEW t \in Tasks, Select(t)
      PROVE  TypeInv'
  <2>1. CASE Outdated(t) = {} /\ job[t].op = "reap"
    BY <1>4, <2>1, LeaveType DEF Select
  <2>2. CASE ~ (Outdated(t) = {} /\ job[t].op = "reap")
    <3>1. Outdated(t) \subseteq Ids
      BY DEF Outdated, IsIndex
    <3>2. /\ old' = [old EXCEPT ![t] = Outdated(t)]
          /\ pc[t] = "select"
          /\ pc' = [pc EXCEPT ![t] = IF Outdated(t) = {} THEN AfterDeletes(t) ELSE "delete"]
          /\ UNCHANGED <<index, tree, saved, before, lock, job, todo, rid, cuts>>
      BY <1>4, <2>2 DEF Select
    <3>3. AfterDeletes(t) \in {"commit", "insert"}
      BY DEF AfterDeletes
    <3>4. JobsFit'
      BY <2>2, <3>1, <3>2, <3>3 DEF JobsFit, Jobs, AfterDeletes
    <3> QED BY <3>1, <3>2, <3>3, <3>4 DEF Statements
  <2> QED BY <2>1, <2>2
<1>5. ASSUME NEW t \in Tasks, Delete(t) \/ DeleteTree(t)
      PROVE  TypeInv'
  BY <1>5 DEF Delete, DeleteTree, Without, AfterDeletes, JobsFit, Jobs, Statements, IsIndex, IsTree
<1>6. ASSUME NEW t \in Tasks, NEW u \in todo[t], Insert(t, u)
      PROVE  TypeInv'
  <2>1. PICK i \in 1 .. MaxId :
          /\ IsNextId(i)
          /\ index' = With(index, i, [uid |-> u, region |-> job[t].region, stale |-> FALSE])
          /\ rid' = [rid EXCEPT ![t] = i]
    BY <1>6 DEF Insert
  <2>2. [uid |-> u, region |-> job[t].region, stale |-> FALSE] \in Rows
    BY <1>6 DEF Insert, JobsFit, Rows
  <2>3. IsIndex(index')
    BY <2>1, <2>2 DEF With, IsIndex, Ids
  <2>4. UNCHANGED <<tree, saved, before, lock, job, old, cuts>>
    BY <1>6, Zenon DEF Insert
  <2>5. pc' = [pc EXCEPT ![t] = "insertTree"] /\ todo' = [todo EXCEPT ![t] = @ \ {u}] /\ pc[t] = "insert"
    BY <1>6, Zenon DEF Insert
  <2>6. JobsFit'
    BY <2>1, <2>4, <2>5 DEF JobsFit, Ids, Statements
  <2> QED BY <2>1, <2>3, <2>4, <2>5, <2>6 DEF Ids, Statements
<1>7. ASSUME NEW t \in Tasks, InsertTree(t)
      PROVE  TypeInv'
  <2>1. rid[t] \in Ids /\ job[t].region \in Regions
    BY <1>7 DEF InsertTree, JobsFit
  <2> QED BY <1>7, <2>1 DEF InsertTree, With, AfterDeletes, JobsFit, Jobs, Statements, IsTree
<1>8. ASSUME NEW t \in Tasks, Commit(t)
      PROVE  TypeInv'
  BY <1>8, LeaveType, AsItIsType DEF Commit, Statements
<1>9. ASSUME NEW t \in Tasks, Fail(t) \/ Cancel(t)
      PROVE  TypeInv'
  <2>1. CASE Fail(t)
    BY <2>1, LeaveType DEF Fail
  <2>2. CASE Cancel(t)
    BY <2>2, LeaveType, AsItIsType DEF Cancel
  <2> QED BY <1>9, <2>1, <2>2
<1>10. CASE Crash
  BY <1>10 DEF Crash, NoJob, Jobs, JobsFit
<1>11. ASSUME NEW u \in Uids, Age(u)
       PROVE  TypeInv'
  <2>1. /\ IsIndex(AgeRows(index, u)) /\ IsIndex(AgeRows(saved.index, u))
        /\ IsIndex(AgeRows(before.index, u))
    BY AgedType
  <2>2. /\ index' = AgeRows(index, u)
        /\ saved' = [saved EXCEPT !.index = AgeRows(@, u)]
        /\ before' = [before EXCEPT !.index = AgeRows(@, u)]
        /\ UNCHANGED <<tree, lock, pc, job, old, todo, rid, cuts>>
    BY <1>11 DEF Age, taskVars
  <2>3. \A tables \in {saved', before'} :
          /\ DOMAIN tables = {"index", "tree", "hurt"}
          /\ IsIndex(tables.index) /\ IsTree(tables.tree) /\ tables.hurt \subseteq Ids
    BY <2>1, <2>2
  <2> QED BY <2>1, <2>2, <2>3 DEF JobsFit
<1>12. CASE UNCHANGED vars
  BY <1>12 DEF vars, taskVars, JobsFit
<1> QED
  BY <1>1, <1>2, <1>3, <1>4, <1>5, <1>6, <1>7, <1>8, <1>9, <1>10, <1>11, <1>12 DEF Next

\* The tables hold rows of dinos in regions and every task's state fits its stage,
\* whatever fails, is cancelled or crashes.
THEOREM TypeCorrect == Spec => []TypeOK
<1>1. Init => TypeInv
  BY DEF Init, TypeInv, TypeOK, JobsFit, Empty, NoJob, Jobs, IsIndex, IsTree
<1>2. TypeInv => TypeOK
  BY DEF TypeInv
<1> QED BY <1>1, <1>2, TypeStep, PTL DEF Spec

-----------------------------------------------------------------------------
(* The invariant *)

AsBefore == index = before.index /\ tree = before.tree

\* Only the holder of the lock is between its unit's first statement and its last.
Holder == \A t \in Tasks : pc[t] \in Statements <=> lock = t

Unique(f) == \A i, j \in DOMAIN f : f[i].uid = f[j].uid => i = j

\* f has a row of u in region x.
At(f, u, x) == \E i \in DOMAIN f : f[i].uid = u /\ f[i].region = x

\* The ids torn apart before the unit of t that it does not take from both tables.
StillHurt(t) == before.hurt \ old[t]

\* How far the two tables of a unit under way are apart.
InStep(t) ==
  /\ pc[t] \in {"select", "delete"} \/ job[t].op = "other" => AsBefore
  /\ pc[t] \in {"insert", "commit"} => Matches(index, tree, StillHurt(t))
  /\ pc[t] = "deleteTree" => Matches(index, Without(tree, old[t]), StillHurt(t))
  /\ pc[t] = "insertTree" => /\ rid[t] \in DOMAIN index
                             /\ rid[t] \notin DOMAIN tree \/ rid[t] \in StillHurt(t)
                             /\ index[rid[t]].region = job[t].region
                             /\ Matches(Without(index, {rid[t]}), tree, StillHurt(t))

\* What the unit under way has made of the index it found so far.
Progress(t) ==
  /\ pc[t] = "delete" /\ job[t].op = "upsert" => old[t] = Outdated(t)
  /\ pc[t] = "commit" => todo[t] = {}
  /\ pc[t] \in {"deleteTree", "insert", "insertTree", "commit"} =>
       /\ job[t].op = "upsert" =>
            \A u \in Uids, x \in Regions :
              At(index, u, x) <=>
                \/ u \in job[t].scan \ todo[t] /\ x = job[t].region
                \/ u \notin job[t].scan /\ x # job[t].region /\ At(before.index, u, x)
       /\ job[t].op = "reap" =>
            \A u \in Uids, x \in Regions : At(index, u, x) => At(before.index, u, x)

Settled ==
  /\ Matches(saved.index, saved.tree, saved.hurt) /\ Unique(saved.index)
  /\ Matches(before.index, before.tree, before.hurt) /\ Unique(before.index)
  /\ Unique(index)
  /\ lock = None => AsBefore

IInv ==
  /\ TypeInv /\ Holder /\ Settled
  /\ \A t \in Tasks : pc[t] \in Statements => InStep(t) /\ Progress(t)

-----------------------------------------------------------------------------
(* The holder of the lock is alone *)

\* While a unit is under way no other one is.
LEMMA Alone ==
  ASSUME Holder, NEW t \in Tasks, pc[t] \in Statements
  PROVE  lock = t /\ \A v \in Tasks \ {t} : pc[v] \notin Statements
BY DEF Holder

\* A unit that goes on keeps the invariant if it keeps what is said of itself.
LEMMA GoesOn ==
  ASSUME IInv, TypeInv', NEW t \in Tasks, pc[t] \in Statements,
         NEW s \in Statements, pc' = [pc EXCEPT ![t] = s], lock' = lock,
         Settled', InStep(t)', Progress(t)'
  PROVE  IInv'
<1>1. pc'[t] \in Statements /\ \A v \in Tasks \ {t} : pc'[v] \notin Statements
  <2>1. pc \in [Tasks -> {"idle"} \cup Statements]
    BY DEF IInv, TypeInv, TypeOK
  <2> QED BY <2>1, Alone DEF IInv
<1>2. Holder'
  BY <1>1, Alone DEF IInv, Holder
<1>3. \A v \in Tasks : pc'[v] \in Statements => InStep(v)' /\ Progress(v)'
  <2> SUFFICES ASSUME NEW v \in Tasks, pc'[v] \in Statements
               PROVE  InStep(v)' /\ Progress(v)'
    OBVIOUS
  <2>1. v = t
    BY <1>1
  <2> QED BY <2>1
<1> QED BY <1>2, <1>3 DEF IInv

\* A unit that ends keeps the invariant if it tells what it leaves of the tables.
LEMMA LetsGo ==
  ASSUME IInv, TypeInv', NEW t \in Tasks, pc[t] \in Statements,
         Leave(t), lock' = None, Settled'
  PROVE  IInv'
<1>1. \A v \in Tasks : pc'[v] \notin Statements
  <2>1. pc \in [Tasks -> {"idle"} \cup Statements]
    BY DEF IInv, TypeInv, TypeOK
  <2>2. \A v \in Tasks \ {t} : pc'[v] = pc[v]
    BY <2>1 DEF Leave
  <2>3. pc'[t] \notin Statements
    BY <2>1 DEF Leave, Statements
  <2> QED BY <2>2, <2>3, Alone DEF IInv
<1>2. Holder'
  BY <1>1 DEF Holder
<1> QED BY <1>1, <1>2 DEF IInv

-----------------------------------------------------------------------------
(* The steps of a unit *)

\* Statement by statement, the write unit keeps the invariant.
LEMMA SelectKeeps ==
  ASSUME IInv, TypeInv', NEW t \in Tasks, Select(t)
  PROVE  IInv'
<1>1. /\ TypeOK /\ JobsFit /\ Settled /\ InStep(t) /\ Progress(t)
      /\ pc[t] = "select" /\ UNCHANGED <<index, tree, saved, before>>
  BY DEF IInv, TypeInv, Select, Statements
<1>2. AsBefore
  BY <1>1 DEF InStep, StillHurt
<1>3. CASE Outdated(t) = {} /\ job[t].op = "reap"
  <2>1. Leave(t) /\ lock' = None
    BY <1>3, Zenon DEF Select
  <2>2. Settled'
    BY <1>1, <1>2 DEF Settled, Unique, AsBefore
  <2> QED BY <1>1, <2>1, <2>2, LetsGo DEF Statements
<1>4. CASE ~ (Outdated(t) = {} /\ job[t].op = "reap")
  <2> DEFINE s == IF Outdated(t) = {} THEN AfterDeletes(t) ELSE "delete"
  <2>1. /\ old' = [old EXCEPT ![t] = Outdated(t)]
        /\ pc' = [pc EXCEPT ![t] = s]
        /\ UNCHANGED <<lock, job, todo, rid>>
    BY <1>4, Zenon DEF Select
  <2>2. s \in Statements /\ pc'[t] = s /\ old'[t] = Outdated(t)
    BY <1>1, <2>1 DEF AfterDeletes, Statements, TypeOK
  <2>3. lock # None
    BY <1>1 DEF IInv, Holder, Statements
  <2>4. Settled'
    BY <1>1, <2>1, <2>3 DEF Settled, Unique
  <2>5. InStep(t)'
    <3>1. Matches(index, tree, before.hurt)
      BY <1>1, <1>2 DEF AsBefore, Settled
    <3>2. s # "delete" => StillHurt(t)' = before.hurt
      BY <1>1, <2>2 DEF StillHurt
    <3>3. s \in {"delete", "insert", "commit"} /\ (job[t].op = "other" => FALSE)
      BY <1>1 DEF AfterDeletes, JobsFit
    <3> QED BY <1>1, <1>2, <2>1, <2>2, <3>1, <3>2, <3>3 DEF InStep, AsBefore, Matches
  <2>6. Outdated(t)' = Outdated(t)
    BY <1>1, <2>1 DEF Outdated
  <2>7. Progress(t)'
    <3>1. job[t].op # "other"
      BY <1>1 DEF JobsFit
    <3>2. CASE s = "delete"
      BY <1>1, <2>2, <2>6, <3>2 DEF Progress
    <3>3. CASE s # "delete"
      <4>1. Outdated(t) = {} /\ job[t].op = "upsert" /\ s \in {"insert", "commit"}
        BY <1>4, <1>1, <3>1, <3>3 DEF AfterDeletes, TypeOK, Jobs
      <4>2. s = "commit" => todo[t] = {}
        BY <4>1 DEF AfterDeletes
      <4>3. \A i \in DOMAIN index : index[i].region # job[t].region /\ index[i].uid \notin job[t].scan
        BY <4>1 DEF Outdated
      <4>4. todo[t] = job[t].scan
        BY <1>1 DEF JobsFit
      <4>5. \A u \in Uids, x \in Regions :
              At(index, u, x) <=> u \notin job[t].scan /\ x # job[t].region /\ At(before.index, u, x)
        BY <1>2, <4>3 DEF At, AsBefore
      <4> QED BY <1>1, <2>1, <2>2, <4>1, <4>2, <4>4, <4>5 DEF Progress, At
    <3> QED BY <3>2, <3>3
  <2> QED BY <1>1, <2>1, <2>2, <2>4, <2>5, <2>7, GoesOn DEF Statements
<1> QED BY <1>3, <1>4

\* The DELETE from dino_index: the scanned dinos and the region's are gone from it.
LEMMA DeleteKeeps ==
  ASSUME IInv, TypeInv', NEW t \in Tasks, Delete(t)
  PROVE  IInv'
<1>1. /\ TypeOK /\ JobsFit /\ Settled /\ InStep(t) /\ Progress(t)
      /\ pc[t] = "delete" /\ index' = Without(index, old[t])
      /\ pc' = [pc EXCEPT ![t] = "deleteTree"]
      /\ UNCHANGED <<tree, saved, before, lock, job, old, todo, rid>>
  BY DEF IInv, TypeInv, Delete, Statements
<1>2. AsBefore /\ lock # None
  BY <1>1 DEF InStep, StillHurt, IInv, Holder, Statements
<1>3. pc'[t] = "deleteTree"
  BY <1>1 DEF TypeOK
<1>4. Settled'
  BY <1>1, <1>2 DEF Settled, Unique, Without
<1>5. InStep(t)'
  <2>1. Matches(index, tree, before.hurt)
    BY <1>1, <1>2 DEF Settled, AsBefore
  <2>2. Matches(index', Without(tree, old[t]), StillHurt(t))
    BY <1>1, <2>1 DEF Matches, Without, StillHurt
  <2>3. job[t].op # "other"
    BY <1>1 DEF JobsFit
  <2> QED BY <1>1, <1>3, <2>2, <2>3 DEF InStep, StillHurt, Matches, Without
<1>6. Progress(t)'
  <2>1. ASSUME job[t].op = "upsert", NEW u \in Uids, NEW x \in Regions
        PROVE  At(index', u, x) <=>
                 u \notin job[t].scan /\ x # job[t].region /\ At(before.index, u, x)
    <3>1. old[t] = {i \in DOMAIN index : \/ index[i].region = job[t].region
                                         \/ index[i].uid \in job[t].scan}
      BY <1>1, <2>1 DEF Progress, Outdated
    <3> QED BY <1>1, <1>2, <3>1 DEF At, Without, AsBefore
  <2>2. \A u \in Uids, x \in Regions : At(index', u, x) => At(before.index, u, x)
    BY <1>1, <1>2 DEF At, Without, AsBefore
  <2>3. todo[t] = job[t].scan
    BY <1>1 DEF JobsFit
  <2> QED BY <1>1, <1>3, <2>1, <2>2, <2>3 DEF Progress, At
<1> QED BY <1>1, <1>4, <1>5, <1>6, GoesOn DEF Statements

\* The DELETE from dino_rtree.
LEMMA DeleteTreeKeeps ==
  ASSUME IInv, TypeInv', NEW t \in Tasks, DeleteTree(t)
  PROVE  IInv'
<1>1. /\ TypeOK /\ JobsFit /\ Settled /\ InStep(t) /\ Progress(t)
      /\ pc[t] = "deleteTree" /\ tree' = Without(tree, old[t])
      /\ pc' = [pc EXCEPT ![t] = AfterDeletes(t)]
      /\ UNCHANGED <<index, saved, before, lock, job, old, todo, rid>>
  BY DEF IInv, TypeInv, DeleteTree, Statements
<1>2. lock # None /\ job[t].op # "other"
  BY <1>1 DEF IInv, Holder, Statements, JobsFit
<1>3. pc'[t] = AfterDeletes(t) /\ AfterDeletes(t) \in {"insert", "commit"}
  BY <1>1 DEF TypeOK, AfterDeletes
<1>4. Settled'
  BY <1>1, <1>2 DEF Settled, Unique
<1>5. InStep(t)'
  BY <1>1, <1>2, <1>3 DEF InStep, StillHurt, Matches
<1>6. Progress(t)'
  BY <1>1, <1>3 DEF Progress, At, AfterDeletes
<1> QED BY <1>1, <1>3, <1>4, <1>5, <1>6, GoesOn DEF Statements

\* No uid still to insert has a row.
LEMMA FreeUid ==
  ASSUME IInv, NEW t \in Tasks, NEW u \in todo[t],
         pc[t] \in {"deleteTree", "insert", "insertTree"}
  PROVE  ~ TakenUid(u)
<1>1. /\ TypeOK /\ JobsFit /\ Progress(t)
  BY DEF IInv, TypeInv, Statements
<1>2. u \in Uids /\ u \in job[t].scan /\ job[t].op = "upsert"
  BY <1>1 DEF JobsFit, TypeOK, Jobs
<1>3. \A x \in Regions : ~ At(index, u, x)
  BY <1>1, <1>2 DEF Progress
<1> QED BY <1>1, <1>3 DEF At, TakenUid, TypeOK, IsIndex, Rows

\* The INSERT into dino_index.
LEMMA InsertKeeps ==
  ASSUME IInv, TypeInv', NEW t \in Tasks, NEW u \in todo[t], Insert(t, u)
  PROVE  IInv'
<1>1. /\ TypeOK /\ JobsFit /\ Settled /\ InStep(t) /\ Progress(t)
      /\ pc[t] = "insert" /\ ~ TakenUid(u)
      /\ todo' = [todo EXCEPT ![t] = @ \ {u}]
      /\ pc' = [pc EXCEPT ![t] = "insertTree"]
      /\ UNCHANGED <<tree, saved, before, lock, job, old>>
  BY DEF IInv, TypeInv, Insert, Statements
<1> DEFINE row == [uid |-> u, region |-> job[t].region, stale |-> FALSE]
<1>2. PICK i \in 1 .. MaxId : /\ IsNextId(i)
                              /\ index' = With(index, i, row)
                              /\ rid' = [rid EXCEPT ![t] = i]
  BY DEF Insert
<1>3. lock # None /\ job[t].op = "upsert" /\ job[t].region \in Regions
  BY <1>1 DEF IInv, Holder, Statements, JobsFit
<1>4. pc'[t] = "insertTree" /\ rid'[t] = i /\ todo'[t] = todo[t] \ {u}
  BY <1>1, <1>2 DEF TypeOK
<1>5. i \notin DOMAIN index
  BY <1>1, <1>2 DEF IsNextId, TypeOK, IsIndex, Ids
<1>6. /\ DOMAIN index' = DOMAIN index \cup {i} /\ index'[i] = row
      /\ \A j \in DOMAIN index : index'[j] = index[j]
  BY <1>2, <1>5 DEF With
<1>7. Settled'
  <2>1. Unique(index)'
    BY <1>1, <1>6 DEF Unique, Settled, TakenUid
  <2> QED BY <1>1, <1>3, <2>1 DEF Settled
<1>8. InStep(t)'
  <2>1. Matches(index, tree, StillHurt(t))
    BY <1>1 DEF InStep
  <2>2. Without(index', {i}) = [j \in DOMAIN index |-> index[j]]
    BY <1>5, <1>6 DEF Without
  <2>3. /\ Matches(Without(index', {i}), tree, StillHurt(t))
        /\ i \in DOMAIN index' /\ (i \notin DOMAIN tree \/ i \in StillHurt(t))
    BY <1>5, <1>6, <2>1, <2>2 DEF Matches, Ids
  <2>4. index'[i].region = job[t].region
    BY <1>6
  <2> QED BY <1>1, <1>3, <1>4, <2>3, <2>4 DEF InStep, StillHurt, Matches, Without
<1>9. Progress(t)'
  <2>1. ASSUME NEW v \in Uids, NEW x \in Regions
        PROVE  At(index', v, x) <=>
                 \/ v \in job[t].scan \ (todo[t] \ {u}) /\ x = job[t].region
                 \/ v \notin job[t].scan /\ x # job[t].region /\ At(before.index, v, x)
    <3>1. At(index', v, x) <=> At(index, v, x) \/ (v = u /\ x = job[t].region)
      BY <1>6 DEF At
    <3>2. u \in job[t].scan
      BY <1>1 DEF JobsFit
    <3>3. At(index, v, x) <=>
            \/ v \in job[t].scan \ todo[t] /\ x = job[t].region
            \/ v \notin job[t].scan /\ x # job[t].region /\ At(before.index, v, x)
      BY <1>1, <1>3 DEF Progress
    <3> QED BY <3>1, <3>2, <3>3
  <2> QED BY <1>1, <1>3, <1>4, <2>1 DEF Progress, At
<1> QED BY <1>1, <1>7, <1>8, <1>9, GoesOn DEF Statements

\* The INSERT into dino_rtree.
LEMMA InsertTreeKeeps ==
  ASSUME IInv, TypeInv', NEW t \in Tasks, InsertTree(t)
  PROVE  IInv'
<1>1. /\ TypeOK /\ JobsFit /\ Settled /\ InStep(t) /\ Progress(t)
      /\ pc[t] = "insertTree" /\ tree' = With(tree, rid[t], job[t].region)
      /\ pc' = [pc EXCEPT ![t] = AfterDeletes(t)]
      /\ UNCHANGED <<index, saved, before, lock, job, old, todo, rid>>
  BY DEF IInv, TypeInv, InsertTree, Statements
<1>2. lock # None /\ job[t].op # "other"
  BY <1>1 DEF IInv, Holder, Statements, JobsFit
<1>3. pc'[t] = AfterDeletes(t) /\ AfterDeletes(t) \in {"insert", "commit"}
  BY <1>1 DEF TypeOK, AfterDeletes
<1>4. Settled'
  BY <1>1, <1>2 DEF Settled, Unique
<1>5. Matches(index', tree', StillHurt(t))
  <2>1. /\ rid[t] \in DOMAIN index
        /\ index[rid[t]].region = job[t].region
        /\ Matches(Without(index, {rid[t]}), tree, StillHurt(t))
    BY <1>1 DEF InStep
  <2> QED BY <1>1, <2>1 DEF Matches, Without, With
<1>6. InStep(t)'
  BY <1>1, <1>2, <1>3, <1>5 DEF InStep, StillHurt, Matches
<1>7. Progress(t)'
  BY <1>1, <1>3 DEF Progress, At, AfterDeletes
<1> QED BY <1>1, <1>3, <1>4, <1>6, <1>7, GoesOn DEF Statements

\* What a unit leaves, whole or cut off, is in step but at the ids it tells.
LEMMA EndsInStep ==
  ASSUME IInv, NEW t \in Tasks, pc[t] \in Statements
  PROVE  Matches(index, tree, HurtBy(t))
<1>1. /\ TypeOK /\ JobsFit /\ Settled /\ InStep(t)
  BY DEF IInv, TypeInv
<1>2. CASE pc[t] \in {"select", "delete"}
  <2>1. HurtBy(t) = before.hurt
    BY <1>2 DEF HurtBy
  <2>2. index = before.index /\ tree = before.tree
    BY <1>1, <1>2 DEF InStep, AsBefore
  <2> QED BY <1>1, <2>1, <2>2 DEF Settled
<1>3. CASE pc[t] = "deleteTree"
  <2>1. HurtBy(t) = before.hurt \cup old[t]
    BY <1>3 DEF HurtBy
  <2> QED BY <1>1, <1>3, <2>1 DEF InStep, StillHurt, Matches, Without
<1>4. CASE pc[t] = "insertTree"
  <2>1. HurtBy(t) = StillHurt(t) \cup {rid[t]}
    BY <1>4 DEF HurtBy, StillHurt
  <2> QED BY <1>1, <1>4, <2>1 DEF InStep, Matches, Without
<1>5. CASE pc[t] \in {"insert", "commit"}
  <2>1. HurtBy(t) = StillHurt(t)
    BY <1>5 DEF HurtBy, StillHurt
  <2> QED BY <1>1, <1>5, <2>1 DEF InStep
<1> QED BY <1>2, <1>3, <1>4, <1>5 DEF Statements

\* The commit.
LEMMA CommitKeeps ==
  ASSUME IInv, TypeInv', NEW t \in Tasks, Commit(t)
  PROVE  IInv'
<1>1. /\ TypeInv /\ Settled /\ pc[t] \in Statements
      /\ saved' = AsItIs(t) /\ before' = AsItIs(t) /\ UNCHANGED <<index, tree>>
      /\ lock' = None /\ Leave(t)
  BY DEF IInv, Commit, Statements
<1>2. Matches(index, tree, HurtBy(t))
  BY <1>1, EndsInStep
<1>3. /\ saved'.index = index /\ saved'.tree = tree /\ saved'.hurt = HurtBy(t)
      /\ before'.index = index /\ before'.tree = tree /\ before'.hurt = HurtBy(t)
  BY <1>1, AsItIsType
<1>4. Settled'
  BY <1>1, <1>2, <1>3 DEF Settled, AsBefore, Unique, Matches
<1> QED BY <1>1, <1>4, LetsGo

\* A statement that raises.
LEMMA FailKeeps ==
  ASSUME IInv, TypeInv', NEW t \in Tasks, Fail(t)
  PROVE  IInv'
<1>1. /\ TypeOK /\ JobsFit /\ Settled /\ InStep(t) /\ pc[t] \in Statements
      /\ lock' = None /\ Leave(t) /\ saved' = saved
  BY DEF IInv, TypeInv, Fail
<1>2. CASE RollsBack(t)
  <2>1. index' = saved.index /\ tree' = saved.tree /\ before' = saved
    BY <1>2 DEF Fail
  <2>2. Settled'
    BY <1>1, <2>1 DEF Settled, AsBefore, Unique
  <2> QED BY <1>1, <2>2, LetsGo
<1>3. CASE ~ RollsBack(t)
  <2>1. UNCHANGED <<index, tree, before>>
    BY <1>3 DEF Fail
  <2>2. AsBefore
    BY <1>1, <1>3 DEF RollsBack, InStep, TypeOK, Jobs
  <2>3. Settled'
    BY <1>1, <2>1, <2>2 DEF Settled, AsBefore, Unique
  <2> QED BY <1>1, <2>3, LetsGo
<1> QED BY <1>2, <1>3

\* A cancellation, whatever it cuts off.
LEMMA CancelKeeps ==
  ASSUME IInv, TypeInv', NEW t \in Tasks, Cancel(t)
  PROVE  IInv'
<1>1. /\ TypeInv /\ Settled /\ pc[t] \in Statements
      /\ before' = AsItIs(t) /\ lock' = None /\ Leave(t) /\ UNCHANGED <<index, tree, saved>>
  BY DEF IInv, Cancel
<1>2. Matches(index, tree, HurtBy(t))
  BY <1>1, EndsInStep
<1>3. before'.index = index /\ before'.tree = tree /\ before'.hurt = HurtBy(t)
  BY <1>1, AsItIsType
<1>4. Settled'
  BY <1>1, <1>2, <1>3 DEF Settled, AsBefore, Unique, Matches
<1> QED BY <1>1, <1>4, LetsGo

\* Taking the lock.
LEMMA EnterKeeps ==
  ASSUME IInv, TypeInv', NEW t \in Tasks, NEW j, Enter(t, j)
  PROVE  IInv'
<1> DEFINE s == IF j.op = "other" THEN "commit" ELSE "select"
<1>1. /\ TypeOK /\ JobsFit /\ JobsFit' /\ Settled /\ Holder /\ pc[t] = "idle"
      /\ lock = None /\ lock' = t /\ pc' = [pc EXCEPT ![t] = s]
      /\ job' = [job EXCEPT ![t] = j]
      /\ UNCHANGED <<index, tree, saved, before, old, rid>>
  BY DEF IInv, TypeInv, Enter
<1>2. /\ pc'[t] = s /\ s \in {"select", "commit"} /\ (s = "commit" <=> job'[t].op = "other")
      /\ \A v \in Tasks \ {t} : pc'[v] = pc[v]
  BY <1>1 DEF TypeOK
<1>3. \A v \in Tasks : pc[v] \notin Statements
  BY <1>1 DEF Holder
<1>4. Holder'
  BY <1>1, <1>2, <1>3 DEF Holder, Statements
<1>5. AsBefore /\ Settled'
  BY <1>1 DEF Settled, Unique, AsBefore
<1>6. InStep(t)'
  <2>1. StillHurt(t)' = before.hurt
    BY <1>1 DEF StillHurt, JobsFit
  <2>2. Matches(index, tree, before.hurt)
    BY <1>1, <1>5 DEF Settled, AsBefore
  <2> QED BY <1>1, <1>2, <1>5, <2>1, <2>2 DEF InStep, AsBefore
<1>7. Progress(t)'
  BY <1>1, <1>2 DEF Progress, JobsFit
<1>8. \A v \in Tasks : pc'[v] \in Statements => InStep(v)' /\ Progress(v)'
  <2> SUFFICES ASSUME NEW v \in Tasks, pc'[v] \in Statements
               PROVE  InStep(v)' /\ Progress(v)'
    OBVIOUS
  <2>1. v = t
    BY <1>2, <1>3
  <2> QED BY <2>1, <1>6, <1>7
<1> QED BY <1>4, <1>5, <1>8 DEF IInv

\* The bridge dies: the tables are as of the last commit.
LEMMA CrashKeeps ==
  ASSUME IInv, TypeInv', Crash
  PROVE  IInv'
<1>1. \A t \in Tasks : pc'[t] \notin Statements
  BY DEF Crash, Statements
<1>2. Holder'
  BY <1>1 DEF Crash, Holder
<1>3. Settled'
  BY DEF IInv, Settled, Crash, AsBefore, Unique, Matches
<1> QED BY <1>1, <1>2, <1>3 DEF IInv

\* Ageing an index moves no row.
LEMMA AgedRows ==
  ASSUME NEW f, IsIndex(f), NEW u
  PROVE  /\ DOMAIN AgeRows(f, u) = DOMAIN f
         /\ \A i \in DOMAIN f : /\ AgeRows(f, u)[i].uid = f[i].uid
                                /\ AgeRows(f, u)[i].region = f[i].region
BY DEF AgeRows, IsIndex, Rows

\* So it is as unique and as much in step as it was.
LEMMA AgedKeeps ==
  ASSUME NEW f, IsIndex(f), NEW u
  PROVE  /\ Unique(f) => Unique(AgeRows(f, u))
         /\ \A g, ids : Matches(f, g, ids) => Matches(AgeRows(f, u), g, ids)
         /\ \A v, x : At(AgeRows(f, u), v, x) <=> At(f, v, x)
<1>1. /\ DOMAIN AgeRows(f, u) = DOMAIN f
      /\ \A i \in DOMAIN f : /\ AgeRows(f, u)[i].uid = f[i].uid
                             /\ AgeRows(f, u)[i].region = f[i].region
  BY AgedRows
<1> QED BY <1>1 DEF Unique, Matches, At

\* Time ages rows: it moves none.
LEMMA AgeKeeps ==
  ASSUME IInv, TypeInv', NEW u \in Uids, Age(u)
  PROVE  IInv'
<1>1. /\ TypeOK /\ Settled /\ Holder
      /\ index' = AgeRows(index, u)
      /\ saved' = [saved EXCEPT !.index = AgeRows(@, u)]
      /\ before' = [before EXCEPT !.index = AgeRows(@, u)]
      /\ UNCHANGED <<tree, lock, pc, job, old, todo, rid>>
  BY DEF IInv, TypeInv, Age, taskVars
<1>2. /\ saved'.index = AgeRows(saved.index, u) /\ saved'.tree = saved.tree
      /\ saved'.hurt = saved.hurt
      /\ before'.index = AgeRows(before.index, u) /\ before'.tree = before.tree
      /\ before'.hurt = before.hurt
  BY <1>1 DEF TypeOK
<1>3. IsIndex(index) /\ IsIndex(saved.index) /\ IsIndex(before.index)
  BY <1>1 DEF TypeOK
<1>4. /\ DOMAIN index' = DOMAIN index
      /\ \A i \in DOMAIN index : index'[i].uid = index[i].uid /\ index'[i].region = index[i].region
  BY <1>1, <1>3, AgedRows
<1>5. AsBefore => AsBefore'
  BY <1>1, <1>2 DEF AsBefore
<1>6. Settled'
  <2>1. Unique(index') /\ Unique(saved'.index) /\ Unique(before'.index)
    BY <1>1, <1>2, <1>3, AgedKeeps DEF Settled
  <2>2. /\ Matches(saved'.index, saved'.tree, saved'.hurt)
        /\ Matches(before'.index, before'.tree, before'.hurt)
    BY <1>1, <1>2, <1>3, AgedKeeps DEF Settled
  <2> QED BY <1>1, <1>5, <2>1, <2>2 DEF Settled
<1>7. \A t \in Tasks : pc'[t] \in Statements => InStep(t)' /\ Progress(t)'
  <2> SUFFICES ASSUME NEW t \in Tasks, pc[t] \in Statements
               PROVE  InStep(t)' /\ Progress(t)'
    BY <1>1
  <2>1. InStep(t) /\ Progress(t)
    BY DEF IInv
  <2>2. InStep(t)'
    <3>1. StillHurt(t)' = StillHurt(t)
      BY <1>1, <1>2 DEF StillHurt
    <3> QED BY <1>1, <1>4, <1>5, <2>1, <3>1 DEF InStep, Matches, Without
  <2>3. \A v, x : /\ At(index', v, x) <=> At(index, v, x)
                  /\ At(before'.index, v, x) <=> At(before.index, v, x)
    BY <1>1, <1>2, <1>3, AgedKeeps
  <2>4. job[t].op = "upsert" => Outdated(t)' = Outdated(t)
    BY <1>1, <1>4 DEF Outdated
  <2>5. Progress(t)'
    <3>1. pc'[t] = pc[t] /\ job'[t] = job[t] /\ old'[t] = old[t] /\ todo'[t] = todo[t]
      BY <1>1
    <3>2. pc[t] = "delete" /\ job[t].op = "upsert" => old'[t] = Outdated(t)'
      BY <2>1, <2>4, <3>1 DEF Progress
    <3>3. ASSUME pc[t] \in {"deleteTree", "insert", "insertTree", "commit"},
                 job[t].op = "upsert", NEW v \in Uids, NEW x \in Regions
          PROVE  At(index', v, x) <=>
                   \/ v \in job[t].scan \ todo[t] /\ x = job[t].region
                   \/ v \notin job[t].scan /\ x # job[t].region /\ At(before'.index, v, x)
      <4>1. At(index, v, x) <=>
              \/ v \in job[t].scan \ todo[t] /\ x = job[t].region
              \/ v \notin job[t].scan /\ x # job[t].region /\ At(before.index, v, x)
        BY <2>1, <3>3 DEF Progress
      <4> QED BY <2>3, <4>1
    <3>4. ASSUME pc[t] \in {"deleteTree", "insert", "insertTree", "commit"},
                 job[t].op = "reap", NEW v \in Uids, NEW x \in Regions, At(index', v, x)
          PROVE  At(before'.index, v, x)
      <4>1. At(index, v, x) => At(before.index, v, x)
        BY <2>1, <3>4 DEF Progress
      <4> QED BY <2>3, <3>4, <4>1
    <3> QED BY <2>1, <3>1, <3>2, <3>3, <3>4 DEF Progress, At
  <2> QED BY <2>2, <2>5
<1>8. Holder'
  BY <1>1 DEF Holder
<1> QED BY <1>6, <1>7, <1>8 DEF IInv

\* Every step keeps the invariant.
LEMMA Step == IInv /\ [Next]_vars => IInv'
<1> SUFFICES ASSUME IInv, [Next]_vars
             PROVE  IInv'
  OBVIOUS
<1>1. TypeInv'
  BY TypeStep DEF IInv
<1>2. CASE UNCHANGED vars
  <2>1. UNCHANGED <<index, tree, saved, before, lock, pc, job, old, todo, rid>>
    BY <1>2 DEF vars, taskVars
  <2>2. Settled' /\ Holder'
    BY <2>1 DEF IInv, Settled, Unique, AsBefore, Holder
  <2>3. ASSUME NEW t \in Tasks, pc'[t] \in Statements
        PROVE  InStep(t)' /\ Progress(t)'
    <3>1. InStep(t) /\ Progress(t)
      BY <2>1, <2>3 DEF IInv
    <3>2. InStep(t)'
      BY <2>1, <3>1 DEF InStep, AsBefore, StillHurt
    <3>3. Progress(t)'
      BY <2>1, <3>1 DEF Progress, Outdated, At
    <3> QED BY <3>2, <3>3
  <2> QED BY <1>1, <2>2, <2>3 DEF IInv
<1> QED
  BY <1>1, <1>2, EnterKeeps, SelectKeeps, DeleteKeeps, DeleteTreeKeeps, InsertKeeps,
     InsertTreeKeeps, CommitKeeps, FailKeeps, CancelKeeps, CrashKeeps, AgeKeeps DEF Next

LEMMA Start == Init => IInv
<1> SUFFICES ASSUME Init PROVE IInv
  OBVIOUS
<1>1. TypeInv
  BY DEF Init, TypeInv, TypeOK, JobsFit, Empty, NoJob, Jobs, IsIndex, IsTree
<1>2. \A t \in Tasks : pc[t] \notin Statements
  BY DEF Init, Statements
<1>3. Settled /\ Holder
  BY <1>2 DEF Init, Settled, Holder, Empty, Matches, Unique, AsBefore
<1> QED BY <1>1, <1>2, <1>3 DEF IInv

LEMMA Invariant == Spec => []IInv
BY Start, Step, PTL DEF Spec

-----------------------------------------------------------------------------
(* What readers and writers rely on *)

\* Whoever gets the write lock finds the tables as the last unit to end left them: no
\* statement of another one runs in between, and none that fails leaves changes
\* (upsert_region, serialized_write).
THEOREM NoStrayChangesHolds == Spec => []NoStrayChanges
<1>1. IInv => NoStrayChanges
  BY DEF IInv, Settled, AsBefore, NoStrayChanges
<1> QED BY <1>1, Invariant, PTL

\* dino_index and dino_rtree hold the same ids and places after every commit, crash
\* and rollback, and after what is cut off but at the ids torn apart: at all others a
\* spatial hit joins to the row of the same dino.
THEOREM InSyncHolds == Spec => []InSync
<1>1. IInv => InSync
  BY DEF IInv, Settled, AsBefore, InSync
<1> QED BY <1>1, Invariant, PTL

\* No INSERT of a scan finds a row in its way, in either table, however dinos moved
\* between regions (the H2 delete of upsert_region), but at an id torn apart.
THEOREM NoCollisionHolds == Spec => []NoCollision
<1>1. ASSUME IInv PROVE NoCollision
  <2>1. ASSUME NEW t \in Tasks, pc[t] = "insertTree"
        PROVE  rid[t] \notin DOMAIN tree \/ rid[t] \in before.hurt \ old[t]
    BY <1>1, <2>1 DEF IInv, InStep, StillHurt, Statements
  <2> QED BY <1>1, <2>1, FreeUid DEF NoCollision
<1> QED BY <1>1, Invariant, PTL

-----------------------------------------------------------------------------
(* Refinement of RegionIndex *)

\* Where the index has a dino, uids being unique: in the region of its one row.
LEMMA SeenAtIs ==
  ASSUME NEW f, IsIndex(f), Unique(f), NEW u \in Uids
  PROVE  /\ SeenAt(f, u) \in Regions \cup {Nowhere}
         /\ \A x \in Regions : SeenAt(f, u) = x <=> At(f, u, x)
<1>1. CASE \E i \in DOMAIN f : f[i].uid = u
  <2> DEFINE k == CHOOSE i \in DOMAIN f : f[i].uid = u
  <2>1. k \in DOMAIN f /\ f[k].uid = u
    BY <1>1
  <2>2. \A i \in DOMAIN f : f[i].uid = u => i = k
    BY <2>1 DEF Unique
  <2>3. SeenAt(f, u) = f[k].region
    BY <1>1 DEF SeenAt
  <2>4. f[k].region \in Regions
    BY <2>1 DEF IsIndex, Rows
  <2> HIDE DEF k
  <2> QED BY <2>1, <2>2, <2>3, <2>4 DEF At
<1>2. CASE ~ \E i \in DOMAIN f : f[i].uid = u
  BY <1>2 DEF SeenAt, At
<1> QED BY <1>1, <1>2

\* Two indexes that have a dino in the same regions have it in the same place.
LEMMA SamePlace ==
  ASSUME NEW f, NEW g, IsIndex(f), IsIndex(g), Unique(f), Unique(g), NEW u \in Uids,
         \A x \in Regions : At(f, u, x) <=> At(g, u, x)
  PROVE  SeenAt(f, u) = SeenAt(g, u)
BY SeenAtIs

Dinos == [u \in Uids |-> SeenAt(saved.index, u)]
Open == [u \in Uids |-> SeenAt(before.index, u)]

\* What a scan that ends after its deletes leaves, whole or cut off, is a Scan of the
\* abstract index that has lost the dinos it has not inserted.
LEMMA ScanImplements ==
  ASSUME IInv, IInv', NEW t \in Tasks, before' = AsItIs(t), job[t].op = "upsert",
         pc[t] \in {"deleteTree", "insert", "insertTree", "commit"}
  PROVE  /\ job[t].region \in Regions /\ job[t].scan \in SUBSET Uids
         /\ todo[t] \in SUBSET job[t].scan
         /\ Abstract!Scan(job[t].region, job[t].scan, todo[t])
<1> DEFINE r == job[t].region
           scan == job[t].scan
           lost == todo[t]
<1>1. /\ TypeOK /\ JobsFit /\ Unique(index) /\ Unique(before.index) /\ Progress(t)
      /\ IsIndex(index) /\ IsIndex(before.index)
  BY DEF IInv, TypeInv, TypeOK, Settled, Statements
<1>2. r \in Regions /\ scan \in SUBSET Uids /\ lost \in SUBSET scan
  BY <1>1 DEF JobsFit, TypeOK, Jobs
<1>3. ASSUME NEW u \in Uids
      PROVE  SeenAt(index, u) = IF u \in lost THEN Nowhere ELSE IF u \in scan THEN r
                                ELSE IF SeenAt(before.index, u) = r THEN Nowhere
                                ELSE SeenAt(before.index, u)
  <2>1. \A x \in Regions :
          At(index, u, x) <=> \/ u \in scan \ lost /\ x = r
                              \/ u \notin scan /\ x # r /\ At(before.index, u, x)
    BY <1>1 DEF Progress
  <2>2. /\ SeenAt(index, u) \in Regions \cup {Nowhere}
        /\ \A x \in Regions : SeenAt(index, u) = x <=> At(index, u, x)
    BY <1>1, SeenAtIs
  <2>3. /\ SeenAt(before.index, u) \in Regions \cup {Nowhere}
        /\ \A x \in Regions : SeenAt(before.index, u) = x <=> At(before.index, u, x)
    BY <1>1, SeenAtIs
  <2> HIDE DEF r, scan, lost
  <2> QED BY <1>2, <2>1, <2>2, <2>3
<1>4. before'.index = index
  BY DEF AsItIs
<1>5. Abstract!Scan(r, scan, lost)
  BY <1>2, <1>3, <1>4 DEF Abstract!Scan
<1> QED BY <1>2, <1>5

\* What a reaping leaves, whole or cut off, is a Reap of the abstract index.
LEMMA ReapImplements ==
  ASSUME IInv, IInv', NEW t \in Tasks, before' = AsItIs(t), job[t].op = "reap",
         pc[t] \in {"deleteTree", "insert", "insertTree", "commit"}
  PROVE  \E gone \in SUBSET Uids : Abstract!Reap(gone)
<1> DEFINE gone == {u \in Uids : SeenAt(index, u) # SeenAt(before.index, u)}
<1>1. /\ TypeOK /\ Unique(index) /\ Unique(before.index) /\ Progress(t)
      /\ IsIndex(index) /\ IsIndex(before.index)
  BY DEF IInv, TypeInv, TypeOK, Settled, Statements
<1>2. ASSUME NEW u \in gone
      PROVE  SeenAt(index, u) = Nowhere
  <2>1. \A x \in Regions : At(index, u, x) => At(before.index, u, x)
    BY <1>1 DEF Progress
  <2> QED BY <1>1, <2>1, SeenAtIs
<1>3. before'.index = index
  BY DEF AsItIs
<1>4. Abstract!Reap(gone)
  BY <1>2, <1>3 DEF Abstract!Reap
<1> QED BY <1>4

\* A unit that ends before its deletes, or writes to other tables, moves no dino.
LEMMA NothingYet ==
  ASSUME IInv, NEW t \in Tasks, before' = AsItIs(t),
         pc[t] \in Statements, pc[t] \in {"select", "delete"} \/ job[t].op = "other"
  PROVE  before'.index = before.index
<1>1. InStep(t)
  BY DEF IInv
<1>2. AsItIs(t).index = index
  BY DEF AsItIs
<1> QED BY <1>1, <1>2 DEF InStep, AsBefore

\* The commit of a scan is an Upsert of the abstract index, that of a reaping a whole
\* Reaping, and that of another write commits what is open.
LEMMA CommitImplements ==
  ASSUME IInv, IInv', NEW t \in Tasks, Commit(t)
  PROVE  Abstract!Next
<1>1. /\ pc[t] = "commit" /\ before' = AsItIs(t) /\ saved' = AsItIs(t) /\ TypeOK
      /\ Progress(t)
  BY DEF IInv, TypeInv, Commit, Statements
<1>2. Dinos' = Open'
  BY <1>1 DEF Dinos, Open
<1>3. CASE job[t].op = "upsert"
  <2>1. todo[t] = {}
    BY <1>1 DEF Progress
  <2>2. Abstract!Upsert
    BY <1>1, <1>2, <1>3, <2>1, ScanImplements DEF Abstract!Upsert, Dinos, Open
  <2> QED BY <2>2 DEF Abstract!Next
<1>4. CASE job[t].op = "reap"
  <2>1. Abstract!Reaping
    BY <1>1, <1>2, <1>4, ReapImplements DEF Abstract!Reaping, Dinos, Open
  <2> QED BY <2>1 DEF Abstract!Next
<1>5. CASE job[t].op = "other"
  <2>1. before'.index = before.index
    BY <1>1, <1>5, NothingYet DEF Statements
  <2>2. Open' = Open
    BY <2>1 DEF Open
  <2>3. Abstract!Commit
    BY <1>2, <2>2 DEF Abstract!Commit, Dinos, Open
  <2> QED BY <2>3 DEF Abstract!Next
<1> QED BY <1>1, <1>3, <1>4, <1>5 DEF TypeOK, Jobs

\* A scan or a reaping cut off is one of the abstract index's.
LEMMA CancelImplements ==
  ASSUME IInv, IInv', NEW t \in Tasks, Cancel(t)
  PROVE  Abstract!Next \/ (Dinos' = Dinos /\ Open' = Open)
<1>1. pc[t] \in Statements /\ before' = AsItIs(t) /\ saved' = saved /\ TypeOK
  BY DEF IInv, TypeInv, Cancel
<1>2. Dinos' = Dinos
  BY <1>1 DEF Dinos
<1>3. CASE pc[t] \in {"select", "delete"} \/ job[t].op = "other"
  <2>1. before'.index = before.index
    BY <1>1, <1>3, NothingYet
  <2> QED BY <1>2, <2>1 DEF Open
<1>4. CASE pc[t] \notin {"select", "delete"} /\ job[t].op = "upsert"
  <2>1. Abstract!UpsertCutOff
    <3>1. pc[t] \in {"deleteTree", "insert", "insertTree", "commit"}
      BY <1>1, <1>4 DEF Statements
    <3>2. /\ job[t].region \in Regions /\ job[t].scan \in SUBSET Uids
          /\ todo[t] \in SUBSET job[t].scan
          /\ Abstract!Scan(job[t].region, job[t].scan, todo[t])
      BY <1>1, <1>4, <3>1, ScanImplements
    <3> QED BY <1>2, <3>2 DEF Abstract!UpsertCutOff, Dinos
  <2> QED BY <2>1 DEF Abstract!Next
<1>5. CASE pc[t] \notin {"select", "delete"} /\ job[t].op = "reap"
  <2>1. Abstract!Reaping
    <3>1. pc[t] \in {"deleteTree", "insert", "insertTree", "commit"}
      BY <1>1, <1>5 DEF Statements
    <3> QED BY <1>1, <1>2, <1>5, <3>1, ReapImplements DEF Abstract!Reaping, Dinos
  <2> QED BY <2>1 DEF Abstract!Next
<1> QED BY <1>1, <1>3, <1>4, <1>5 DEF TypeOK, Jobs

\* A rollback takes back what is open.
LEMMA RollbackImplements ==
  ASSUME IInv, saved' = saved, before' \in {saved, before}
  PROVE  Abstract!Next \/ (Dinos' = Dinos /\ Open' = Open)
<1>1. CASE before' = saved
  BY <1>1 DEF Abstract!Next, Abstract!Rollback
<1>2. CASE before' = before
  BY <1>2 DEF Dinos, Open
<1> QED BY <1>1, <1>2

\* Ageing moves no dino.
LEMMA AgeImplements ==
  ASSUME IInv, IInv', NEW u \in Uids, Age(u)
  PROVE  Dinos' = Dinos /\ Open' = Open
<1>1. /\ IsIndex(saved.index) /\ Unique(saved.index)
      /\ IsIndex(saved'.index) /\ Unique(saved'.index)
      /\ IsIndex(before.index) /\ Unique(before.index)
      /\ IsIndex(before'.index) /\ Unique(before'.index)
  BY DEF IInv, TypeInv, TypeOK, Settled
<1>2. saved'.index = AgeRows(saved.index, u) /\ before'.index = AgeRows(before.index, u)
  BY DEF IInv, TypeInv, TypeOK, Age
<1>3. \A v \in Uids, x \in Regions :
         /\ At(saved'.index, v, x) <=> At(saved.index, v, x)
         /\ At(before'.index, v, x) <=> At(before.index, v, x)
  BY <1>1, <1>2, AgedKeeps
<1>4. \A v \in Uids : /\ SeenAt(saved'.index, v) = SeenAt(saved.index, v)
                      /\ SeenAt(before'.index, v) = SeenAt(before.index, v)
  BY <1>1, <1>3, SamePlace
<1> QED BY <1>4 DEF Dinos, Open

\* The committed index implements RegionIndex: it changes only by scans of one region,
\* by reaping and by what is left of those that are cut off, which takes dinos away and
\* puts none where no scan saw it, whatever fails, dies or interleaves.
THEOREM Implements == Spec => OnlyScansMoveDinos
<1>1. Init => Abstract!Init
  BY DEF Init, Abstract!Init, SeenAt, Empty
<1>2. ASSUME IInv, IInv', [Next]_vars
      PROVE  Abstract!Next \/ (Dinos' = Dinos /\ Open' = Open)
  <2>1. ASSUME NEW t \in Tasks, NEW u, NEW j,
               \/ Enter(t, j) \/ Select(t) \/ Delete(t) \/ DeleteTree(t)
               \/ Insert(t, u) \/ InsertTree(t) \/ Fail(t)
        PROVE  saved' = saved /\ before' \in {saved, before}
    BY <2>1 DEF Enter, Select, Delete, DeleteTree, Insert, InsertTree, Fail
  <2>2. Crash \/ UNCHANGED vars => saved' = saved /\ before' \in {saved, before}
    BY DEF Crash, vars
  <2> QED BY <1>2, <2>1, <2>2, CommitImplements, CancelImplements, RollbackImplements,
             AgeImplements DEF Next
<1>3. ASSUME Abstract!Next \/ (Dinos' = Dinos /\ Open' = Open)
      PROVE  [Abstract!Next]_<<[u \in Uids |-> SeenAt(saved.index, u)],
                               [u \in Uids |-> SeenAt(before.index, u)]>>
  BY <1>3 DEF Dinos, Open
<1> QED BY <1>1, <1>2, <1>3, Invariant, PTL DEF Spec, OnlyScansMoveDinos, Abstract!Spec
=============================================================================
