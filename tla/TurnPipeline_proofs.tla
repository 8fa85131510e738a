-------------------------- MODULE TurnPipeline_proofs --------------------------
(***************************************************************************)
(* What TurnPipeline promises for every number of players, messages, turns *)
(* in flight, slots and sessions.                                          *)
(***************************************************************************)
EXTENDS TurnPipeline, FiniteSetTheorems, TLAPS

USE PlayersAssumption, LimitsAssumption

LockStages == {"queued", "assembling", "running"}
SlotStages == {"assembling", "running"}

-----------------------------------------------------------------------------
(* The invariant of locks and slots *)

\* Messages are numbered in the order they come in, each has a player, and a turn
\* past admission a session.
TurnsFit ==
  \A t \in Turns :
    /\ t > received => pc[t] = "unborn"
    /\ pc[t] # "unborn" => player[t] \in Players
    /\ pc[t] \in {"admitted", "locking"} \cup LockStages => sess[t] # 0

IInv == TypeOK /\ TurnsFit /\ NothingLeaks

LEMMA FiniteTurns ==
  ASSUME NEW S \in SUBSET Turns
  PROVE  IsFiniteSet(S) /\ Cardinality(S) \in Nat
<1>1. IsFiniteSet(Turns)
  BY FS_Interval DEF Turns
<1> QED BY <1>1, FS_Subset, FS_CardinalityType

\* A step that gives a turn another stage and changes neither locks nor slots does
\* not move the turn into or out of the locked part.
LEMMA Outside ==
  ASSUME TypeOK, NothingLeaks, NEW t \in Turns, NEW s \in Stages,
         pc' = [pc EXCEPT ![t] = s],
         pc[t] \in LockStages <=> s \in LockStages,
         pc[t] \in SlotStages <=> s \in SlotStages,
         \A u \in InLock : sess'[u] = sess[u],
         UNCHANGED <<locked, freeSlots>>
  PROVE  NothingLeaks'
<1>1. InLock' = InLock /\ InSlot' = InSlot
  BY DEF InLock, InSlot, LockStages, SlotStages, TypeOK
<1>2. {sess'[u] : u \in InLock} = {sess[u] : u \in InLock}
  OBVIOUS
<1>3. \A u, v \in InLock' : sess'[u] = sess'[v] => u = v
  BY <1>1 DEF NothingLeaks
<1> QED BY <1>1, <1>2, <1>3 DEF NothingLeaks

\* Leaving both blocks gives back what the turn held.
LEMMA GivesBack ==
  ASSUME TypeOK, NothingLeaks, NEW t \in Turns, NEW s \in Stages \ LockStages,
         pc[t] \in SlotStages, pc' = [pc EXCEPT ![t] = s],
         locked' = locked \ {sess[t]}, freeSlots' = freeSlots + 1, sess' = sess
  PROVE  NothingLeaks' /\ freeSlots' \in 0 .. MaxRunning
<1>1. /\ InLock' = InLock \ {t} /\ InSlot' = InSlot \ {t}
      /\ t \in InLock /\ t \in InSlot
  BY DEF InLock, InSlot, LockStages, SlotStages, TypeOK
<1>2. locked' = {sess[u] : u \in InLock'}
  BY <1>1 DEF NothingLeaks
<1>3. Cardinality(InSlot') = Cardinality(InSlot) - 1
      /\ Cardinality(InSlot) \in Nat /\ Cardinality(InSlot') \in Nat
  <2>1. InSlot \in SUBSET Turns /\ InSlot' \in SUBSET Turns
    BY DEF InSlot
  <2>2. IsFiniteSet(InSlot) /\ Cardinality(InSlot) \in Nat /\ Cardinality(InSlot') \in Nat
    BY <2>1, FiniteTurns
  <2>3. Cardinality(InSlot \ {t}) = Cardinality(InSlot) - 1
    BY <1>1, <2>2, FS_RemoveElement, Zenon
  <2> QED BY <1>1, <2>2, <2>3
<1>4. freeSlots \in Nat /\ freeSlots + Cardinality(InSlot) = MaxRunning /\ MaxRunning \in Nat
  BY DEF TypeOK, NothingLeaks
<1>5. freeSlots' + Cardinality(InSlot') = MaxRunning
  BY <1>3, <1>4
<1>6. freeSlots' \in 0 .. MaxRunning
  BY <1>3, <1>4, <1>5
<1> QED BY <1>1, <1>2, <1>5, <1>6 DEF NothingLeaks

-----------------------------------------------------------------------------
(* The session map *)

\* What a new session under k does to the map: others are kept or evicted, and one
\* whose lock is held is kept.
LEMMA InsertEffect ==
  ASSUME TypeOK, NEW k \in Keys, Insert(k)
  PROVE  /\ born' = born + 1
         /\ sessions' \in [Keys -> 0 .. born']
         /\ older' \in [Keys -> SUBSET Keys]
         /\ aged' \subseteq Mapped'
         /\ sessions'[k] = born + 1
         /\ \A j \in Keys \ {k} : sessions'[j] \in {0, sessions[j]}
         /\ \A j \in Keys \ {k} : sessions[j] \in locked => sessions'[j] = sessions[j]
<1>1. PICK E \in Victims(Mapped \ {k}) :
        /\ born' = born + 1
        /\ sessions' = [j \in Keys |-> IF j = k THEN born + 1
                                       ELSE IF j \in E THEN 0 ELSE sessions[j]]
        /\ older' = Newest(k, Mapped \ E)
        /\ aged' = aged \ (E \cup {k})
  BY DEF Insert
<1>2. E \subseteq {j \in Mapped \ {k} : sessions[j] \notin locked}
  BY DEF Victims, LeastRecent
<1>3. Mapped \subseteq Keys /\ born \in Nat /\ sessions \in [Keys -> 0 .. born]
      /\ older \in [Keys -> SUBSET Keys] /\ aged \subseteq Mapped
  BY DEF Mapped, TypeOK
<1>4. sessions' \in [Keys -> 0 .. born']
  BY <1>1, <1>3
<1>5. older' \in [Keys -> SUBSET Keys]
  BY <1>1, <1>3 DEF Newest, Kept
<1>6. aged' \subseteq Mapped'
  <2> SUFFICES ASSUME NEW j \in aged'
               PROVE  j \in Mapped'
    OBVIOUS
  <2>1. j \in Mapped /\ j \notin E /\ j # k
    BY <1>1, <1>3
  <2> QED BY <1>1, <2>1 DEF Mapped
<1>7. sessions'[k] = born + 1
  BY <1>1
<1>8. \A j \in Keys \ {k} : sessions'[j] \in {0, sessions[j]}
  BY <1>1
<1>9. \A j \in Keys \ {k} : sessions[j] \in locked => sessions'[j] = sessions[j]
  BY <1>1, <1>2
<1> QED BY <1>1, <1>4, <1>5, <1>6, <1>7, <1>8, <1>9

\* Adding a message keeps the map well formed and changes no session.
LEMMA TouchEffect ==
  ASSUME TypeOK, NEW t \in Turns, Touch(t)
  PROVE  /\ born' = born /\ sessions' = sessions
         /\ older' \in [Keys -> SUBSET Keys]
         /\ aged' \subseteq Mapped'
<1>1. born' = born /\ sessions' = sessions /\ aged' \subseteq aged
  BY DEF Touch, mapVars
<1>2. older' = older \/ older' = Newest(player[t], Mapped)
  BY DEF Touch, mapVars
<1>3. Newest(player[t], Mapped) \in [Keys -> SUBSET Keys]
  BY DEF Newest, Kept, Mapped, TypeOK
<1>4. older' \in [Keys -> SUBSET Keys]
  BY <1>2, <1>3 DEF TypeOK
<1> QED BY <1>1, <1>4 DEF TypeOK, Mapped

-----------------------------------------------------------------------------
(* Every step keeps it *)

\* Connecting, disconnecting, cleaning up and the passing of time.
LEMMA MapStep ==
  ASSUME IInv, NEW k \in Keys, LinkUp \/ LinkDown \/ Cleanup \/ Age(k)
  PROVE  IInv'
<1>1. TypeOK /\ TurnsFit /\ NothingLeaks
  BY DEF IInv
<1>2. UNCHANGED <<received, pc, player, sess, outcome, answers, rows, locked, freeSlots>>
  BY DEF LinkUp, LinkDown, Cleanup, Age, turnVars
<1>3. TurnsFit' /\ NothingLeaks'
  BY <1>1, <1>2 DEF TurnsFit, NothingLeaks, InLock, InSlot
<1>4. CASE LinkUp
  <2>1. Insert(Link) /\ Link \in Keys
    BY <1>4 DEF LinkUp, Keys
  <2>2. links' \in 0 .. MaxLinks /\ linkUp' \in BOOLEAN /\ lost' = lost
    BY <1>1, <1>4 DEF LinkUp, TypeOK, turnVars
  <2>3. /\ born' = born + 1 /\ sessions' \in [Keys -> 0 .. born']
        /\ older' \in [Keys -> SUBSET Keys] /\ aged' \subseteq Mapped'
    BY <1>1, <2>1, InsertEffect
  <2>4. TypeOK'
    BY <1>1, <1>2, <2>2, <2>3 DEF TypeOK
  <2> QED BY <1>3, <2>4 DEF IInv
<1>5. CASE LinkDown
  <2>1. /\ sessions' = [sessions EXCEPT ![Link] = 0]
        /\ older' = Kept(Mapped \ {Link})
        /\ aged' = aged \ {Link}
        /\ lost' = lost \cup InFlight
        /\ linkUp' = FALSE /\ links' = links /\ born' = born
    BY <1>5 DEF LinkDown
  <2>2. older' \in [Keys -> SUBSET Keys]
    BY <1>1, <2>1 DEF Kept, TypeOK
  <2>3. aged' \subseteq Mapped'
    BY <1>1, <2>1 DEF Mapped, TypeOK
  <2>4. sessions' \in [Keys -> 0 .. born]
    <3>1. sessions \in [Keys -> 0 .. born] /\ 0 \in 0 .. born
      BY <1>1 DEF TypeOK
    <3> QED BY <2>1, <3>1
  <2>5. lost' \subseteq Turns
    BY <1>1, <2>1 DEF TypeOK, InFlight
  <2>6. TypeOK'
    BY <1>1, <1>2, <2>1, <2>2, <2>3, <2>4, <2>5 DEF TypeOK
  <2> QED BY <1>3, <2>6 DEF IInv
<1>6. CASE Cleanup
  <2>1. /\ sessions' = [j \in Keys |-> IF j \in aged THEN 0 ELSE sessions[j]]
        /\ older' = Kept(Mapped \ aged) /\ aged' = {}
        /\ UNCHANGED <<lost, born, linkUp, links>>
    BY <1>6 DEF Cleanup, turnVars, linkVars
  <2>2. older' \in [Keys -> SUBSET Keys]
    BY <1>1, <2>1 DEF Kept, TypeOK
  <2>3. sessions' \in [Keys -> 0 .. born]
    BY <1>1, <2>1 DEF TypeOK
  <2>4. TypeOK'
    BY <1>1, <1>2, <2>1, <2>2, <2>3 DEF TypeOK
  <2> QED BY <1>3, <2>4 DEF IInv
<1>7. CASE Age(k)
  <2>1. /\ aged' = aged \cup {k} /\ k \in Mapped
        /\ UNCHANGED <<lost, sessions, older, born, linkUp, links>>
    BY <1>7 DEF Age, turnVars, linkVars
  <2>2. TypeOK'
    BY <1>1, <1>2, <2>1 DEF TypeOK, Mapped
  <2> QED BY <1>3, <2>2 DEF IInv
<1> QED BY <1>4, <1>5, <1>6, <1>7

\* A message comes in.
LEMMA ReceiveStep ==
  ASSUME IInv, NEW p \in Players, Spawn(p) \/ Shed(p)
  PROVE  IInv'
<1>1. TypeOK /\ TurnsFit /\ NothingLeaks
  BY DEF IInv
<1>2. PICK s \in {"started", "done"}, f \in {{}, {"shed"}} : Receive(p, s, f)
  BY DEF Spawn, Shed
<1>3. PICK t \in Turns : t = received + 1 /\ pc[t] = "unborn" /\ received < MaxMessages
  BY <1>1, <1>2 DEF Receive, Turns, TypeOK, TurnsFit
<1>4. /\ received' = received + 1 /\ pc' = [pc EXCEPT ![t] = s]
      /\ player' = [player EXCEPT ![t] = p] /\ answers' = [answers EXCEPT ![t] = f]
      /\ UNCHANGED <<sess, outcome, lost, rows, sessions, older, aged, born, locked,
                     freeSlots, linkUp, links>>
  BY <1>2, <1>3 DEF Receive, mapVars, linkVars
<1>5. TypeOK'
  BY <1>1, <1>3, <1>4 DEF TypeOK, Stages, Keys, Mapped
<1>6. TurnsFit'
  <2> SUFFICES ASSUME NEW u \in Turns
               PROVE  /\ u > received' => pc'[u] = "unborn"
                      /\ pc'[u] # "unborn" => player'[u] \in Players
                      /\ pc'[u] \in {"admitted", "locking"} \cup LockStages => sess'[u] # 0
    BY DEF TurnsFit
  <2>1. CASE u = t
    BY <1>1, <1>3, <1>4, <2>1 DEF TypeOK, LockStages
  <2>2. CASE u # t
    <3>1. pc'[u] = pc[u] /\ player'[u] = player[u] /\ sess'[u] = sess[u]
      BY <1>1, <1>3, <1>4, <2>2 DEF TypeOK
    <3>2. u > received' => u > received
      BY <1>1, <1>4 DEF TypeOK, Turns
    <3> QED BY <1>1, <3>1, <3>2 DEF TurnsFit
  <2> QED BY <2>1, <2>2
<1>7. NothingLeaks'
  BY <1>1, <1>3, <1>4, Outside DEF Stages, LockStages, SlotStages
<1> QED BY <1>5, <1>6, <1>7 DEF IInv

\* The stages of a turn that neither take nor give back anything.
LEMMA QuietStep ==
  ASSUME IInv, NEW t \in Turns, NEW s \in Stages, pc' = [pc EXCEPT ![t] = s],
         pc[t] # "unborn",
         pc[t] \in LockStages <=> s \in LockStages,
         pc[t] \in SlotStages <=> s \in SlotStages,
         s \in {"admitted", "locking"} \cup LockStages => sess'[t] # 0,
         \A u \in Turns \ {t} : sess'[u] = sess[u],
         sess'[t] = sess[t] \/ pc[t] = "started",
         UNCHANGED <<received, player, locked, freeSlots>>
  PROVE  TurnsFit' /\ NothingLeaks'
<1>1. TypeOK /\ TurnsFit /\ NothingLeaks
  BY DEF IInv
<1>2. TurnsFit'
  BY <1>1 DEF TurnsFit, TypeOK
<1>3. \A u \in InLock : sess'[u] = sess[u]
  BY DEF InLock
<1> QED BY <1>1, <1>2, <1>3, Outside

\* The session is found or made.
LEMMA AdmitStep ==
  ASSUME IInv, NEW t \in Turns, Admit(t)
  PROVE  IInv'
<1>1. TypeOK /\ TurnsFit /\ NothingLeaks
  BY DEF IInv
<1>2. PICK s \in {"admitted", "limited"} : Step(t, "started", s)
  BY DEF Admit
<1>3. /\ pc[t] = "started" /\ pc' = [pc EXCEPT ![t] = s] /\ s \in Stages
      /\ UNCHANGED <<received, player, outcome, answers, lost, rows, locked, freeSlots,
                     linkUp, links>>
  BY <1>2 DEF Admit, Step, linkVars, Stages
<1>4. player[t] \in Keys
  BY <1>1 DEF TypeOK
<1>5. /\ born' \in Nat /\ born' >= born
      /\ sess' \in [Turns -> 0 .. born'] /\ sess'[t] # 0
      /\ \A u \in Turns \ {t} : sess'[u] = sess[u]
      /\ sessions' \in [Keys -> 0 .. born'] /\ older' \in [Keys -> SUBSET Keys]
      /\ aged' \subseteq Mapped'
  <2>1. CASE sessions[player[t]] # 0 /\ sess' = [sess EXCEPT ![t] = sessions[player[t]]]
             /\ UNCHANGED mapVars
    BY <1>1, <1>4, <2>1 DEF TypeOK, mapVars, Mapped
  <2>2. CASE sess' = [sess EXCEPT ![t] = born + 1] /\ Insert(player[t])
    <3>1. /\ born' = born + 1 /\ sessions' \in [Keys -> 0 .. born']
          /\ older' \in [Keys -> SUBSET Keys] /\ aged' \subseteq Mapped'
      BY <1>1, <1>4, <2>2, InsertEffect
    <3> QED BY <1>1, <2>2, <3>1 DEF TypeOK
  <2> QED BY <2>1, <2>2 DEF Admit, GetOrCreate
<1>6. TypeOK'
  <2>1. locked' \subseteq 1 .. born' /\ pc' \in [Turns -> Stages]
    BY <1>1, <1>3, <1>5 DEF TypeOK
  <2> QED BY <1>1, <1>3, <1>5, <2>1 DEF TypeOK
<1>7. TurnsFit' /\ NothingLeaks'
  BY <1>3, <1>5, QuietStep DEF LockStages, SlotStages
<1> QED BY <1>6, <1>7 DEF IInv

\* Everything a turn does apart from its admission, one kind of step at a time.
LEMMA TurnStep ==
  ASSUME IInv, NEW t \in Turns,
         \/ Drop(t) \/ Think(t) \/ AcquireLock(t) \/ AcquireSlot(t)
         \/ Run(t) \/ Finish(t, "ok") \/ Finish(t, "canned") \/ AssembleFails(t)
         \/ RunFails(t) \/ PersistUser(t) \/ PersistAnswer(t) \/ Fails(t)
         \/ Reply(t) \/ Refuse(t) \/ Apologize(t) \/ Closed(t)
  PROVE  IInv'
<1>1. TypeOK /\ TurnsFit /\ NothingLeaks
  BY DEF IInv
<1>2. ASSUME NEW from \in Stages, NEW to \in Stages, Moves(t, from, to),
             from # "unborn", to \notin {"admitted"} \cup LockStages, from \notin LockStages,
             to = "locking" => from = "admitted"
      PROVE  IInv'
  <2>1. /\ pc[t] = from /\ pc' = [pc EXCEPT ![t] = to]
        /\ UNCHANGED <<received, player, sess, outcome, answers, lost, rows, sessions,
                       older, aged, born, locked, freeSlots, linkUp, links>>
    BY <1>2 DEF Moves, Step, mapVars, linkVars
  <2>2. TypeOK'
    BY <1>1, <2>1 DEF TypeOK, Mapped
  <2>3. to = "locking" => sess[t] # 0
    BY <1>1, <1>2, <2>1 DEF TurnsFit
  <2>4. TurnsFit' /\ NothingLeaks'
    BY <1>2, <2>1, <2>3, QuietStep DEF LockStages, SlotStages
  <2> QED BY <2>2, <2>4 DEF IInv
<1>3. CASE Think(t) \/ Fails(t) \/ Closed(t)
  BY <1>2, <1>3 DEF Think, Fails, Closed, Stages, LockStages
<1>4. CASE Drop(t)
  <2>1. /\ pc[t] = "started" /\ pc' = [pc EXCEPT ![t] = "done"]
        /\ outcome' = [outcome EXCEPT ![t] = "dropped"]
        /\ UNCHANGED <<received, player, sess, answers, lost, rows, sessions,
                       older, aged, born, locked, freeSlots, linkUp, links>>
    BY <1>4 DEF Drop, Step, mapVars, linkVars
  <2>2. TypeOK'
    BY <1>1, <2>1 DEF TypeOK, Mapped, Stages
  <2>3. TurnsFit' /\ NothingLeaks'
    BY <2>1, QuietStep DEF LockStages, SlotStages, Stages
  <2> QED BY <2>2, <2>3 DEF IInv
<1>5. ASSUME NEW from \in {"replying", "limited", "failed"},
             NEW f \in {"reply", "refusal", "error"}, Answer(t, from, f)
      PROVE  IInv'
  <2>1. /\ pc[t] = from /\ pc' = [pc EXCEPT ![t] = "done"]
        /\ answers' = [answers EXCEPT ![t] = @ \cup {f}]
        /\ UNCHANGED <<received, player, sess, outcome, lost, rows, sessions,
                       older, aged, born, locked, freeSlots, linkUp, links>>
    BY <1>5 DEF Answer, Step, mapVars, linkVars
  <2>2. TypeOK'
    BY <1>1, <2>1 DEF TypeOK, Mapped, Stages
  <2>3. TurnsFit' /\ NothingLeaks'
    BY <2>1, QuietStep DEF LockStages, SlotStages, Stages
  <2> QED BY <2>2, <2>3 DEF IInv
<1>6. ASSUME NEW role \in {"user", "assistant"}, NEW from \in {"persisting", "answering"},
             NEW to \in {"answering", "replying"}, Persist(t, role, from, to)
      PROVE  IInv'
  <2>1. /\ pc[t] = from /\ pc' = [pc EXCEPT ![t] = to]
        /\ rows' = rows \cup {<<t, role>>}
        /\ UNCHANGED <<received, player, sess, outcome, answers, lost, sessions,
                       older, aged, born, locked, freeSlots, linkUp, links>>
    BY <1>6 DEF Persist, Step, mapVars, linkVars
  <2>2. TypeOK'
    BY <1>1, <2>1 DEF TypeOK, Mapped, Stages
  <2>3. TurnsFit' /\ NothingLeaks'
    BY <2>1, QuietStep DEF LockStages, SlotStages, Stages
  <2> QED BY <2>2, <2>3 DEF IInv
<1>7. CASE PersistUser(t) \/ PersistAnswer(t)
  BY <1>6, <1>7 DEF PersistUser, PersistAnswer
<1>8. CASE Reply(t) \/ Refuse(t) \/ Apologize(t)
  BY <1>5, <1>8 DEF Reply, Refuse, Apologize
<1>9. CASE AcquireLock(t)
  <2>1. /\ pc[t] = "locking" /\ pc' = [pc EXCEPT ![t] = "queued"]
        /\ sess[t] \notin locked /\ locked' = locked \cup {sess[t]}
        /\ UNCHANGED <<received, player, sess, outcome, answers, lost, rows, sessions,
                       older, aged, born, freeSlots, linkUp, links>>
    BY <1>9 DEF AcquireLock, Step, mapVars, linkVars
  <2>2. sess[t] \in 1 .. born
    BY <1>1, <2>1 DEF TypeOK, TurnsFit
  <2>3. TypeOK'
    BY <1>1, <2>1, <2>2 DEF TypeOK, Mapped, Stages
  <2>4. TurnsFit'
    BY <1>1, <2>1, <2>2 DEF TurnsFit, TypeOK
  <2>5. InSlot' = InSlot /\ InLock' = InLock \cup {t} /\ t \notin InLock
    BY <1>1, <2>1 DEF InSlot, InLock, TypeOK
  <2>6. locked' = {sess'[u] : u \in InLock'}
    BY <1>1, <2>1, <2>5 DEF NothingLeaks
  <2>7. \A u, v \in InLock' : sess'[u] = sess'[v] => u = v
    BY <1>1, <2>1, <2>5 DEF NothingLeaks
  <2>8. freeSlots' + Cardinality(InSlot') = MaxRunning
    BY <1>1, <2>1, <2>5 DEF NothingLeaks
  <2> QED BY <2>3, <2>4, <2>6, <2>7, <2>8 DEF IInv, NothingLeaks
<1>10. CASE AcquireSlot(t)
  <2>1. /\ pc[t] = "queued" /\ pc' = [pc EXCEPT ![t] = "assembling"]
        /\ freeSlots > 0 /\ freeSlots' = freeSlots - 1
        /\ UNCHANGED <<received, player, sess, outcome, answers, lost, rows, sessions,
                       older, aged, born, locked, linkUp, links>>
    BY <1>10 DEF AcquireSlot, Step, mapVars, linkVars
  <2>2. freeSlots \in 1 .. MaxRunning /\ freeSlots' \in 0 .. MaxRunning
    BY <1>1, <2>1 DEF TypeOK
  <2>3. TypeOK'
    BY <1>1, <2>1, <2>2 DEF TypeOK, Mapped, Stages
  <2>4. TurnsFit'
    BY <1>1, <2>1 DEF TurnsFit, TypeOK, LockStages
  <2>5. InSlot' = InSlot \cup {t} /\ InLock' = InLock /\ t \notin InSlot
    BY <1>1, <2>1 DEF InSlot, InLock, TypeOK
  <2>6. InSlot \in SUBSET Turns
    BY DEF InSlot
  <2>7. IsFiniteSet(InSlot) /\ Cardinality(InSlot) \in Nat
    BY <2>6, FiniteTurns
  <2>8. Cardinality(InSlot \cup {t}) = Cardinality(InSlot) + 1
    BY <2>5, <2>7, FS_AddElement, Zenon
  <2>9. freeSlots + Cardinality(InSlot) = MaxRunning
    BY <1>1 DEF NothingLeaks
  <2>10. freeSlots' + Cardinality(InSlot') = MaxRunning
    BY <2>1, <2>2, <2>5, <2>7, <2>8, <2>9
  <2> QED BY <1>1, <2>1, <2>3, <2>4, <2>5, <2>10 DEF IInv, NothingLeaks
<1>11. CASE Run(t)
  <2>1. /\ pc[t] = "assembling" /\ pc' = [pc EXCEPT ![t] = "running"] /\ Touch(t)
        /\ UNCHANGED <<received, player, sess, outcome, answers, lost, rows, locked,
                       freeSlots, linkUp, links>>
    BY <1>11 DEF Run, Step, linkVars
  <2>2. /\ born' = born /\ sessions' = sessions
        /\ older' \in [Keys -> SUBSET Keys] /\ aged' \subseteq Mapped'
    BY <1>1, <2>1, TouchEffect
  <2>3. TypeOK'
    BY <1>1, <2>1, <2>2 DEF TypeOK, Stages
  <2>4. sess[t] # 0
    BY <1>1, <2>1 DEF TurnsFit, LockStages
  <2>5. TurnsFit' /\ NothingLeaks'
    BY <2>1, <2>4, QuietStep DEF LockStages, SlotStages, Stages
  <2> QED BY <2>3, <2>5 DEF IInv
<1>12. ASSUME NEW result \in {"ok", "canned"}, Finish(t, result)
       PROVE  IInv'
  <2>1. /\ pc[t] = "running" /\ pc' = [pc EXCEPT ![t] = "persisting"]
        /\ outcome' = [outcome EXCEPT ![t] = result]
        /\ Touch(t) \/ UNCHANGED mapVars
        /\ locked' = locked \ {sess[t]} /\ freeSlots' = freeSlots + 1
        /\ UNCHANGED <<received, player, sess, answers, lost, rows, linkUp, links>>
    BY <1>12 DEF Finish, Step, Release, linkVars
  <2>2. /\ born' = born /\ sessions' = sessions
        /\ older' \in [Keys -> SUBSET Keys] /\ aged' \subseteq Mapped'
    BY <1>1, <2>1, TouchEffect DEF mapVars, TypeOK, Mapped
  <2>3. NothingLeaks' /\ freeSlots' \in 0 .. MaxRunning
    BY <1>1, <2>1, GivesBack DEF LockStages, SlotStages, Stages
  <2>4. /\ pc' \in [Turns -> Stages]
        /\ outcome' \in [Turns -> {"none", "dropped", "ok", "canned"}]
        /\ locked' \subseteq 1 .. born'
    <3>1. pc \in [Turns -> Stages] /\ "persisting" \in Stages
      BY <1>1 DEF TypeOK, Stages
    <3>2. outcome \in [Turns -> {"none", "dropped", "ok", "canned"}]
      BY <1>1 DEF TypeOK
    <3>3. locked \subseteq 1 .. born
      BY <1>1 DEF TypeOK
    <3>4. pc' \in [Turns -> Stages]
      BY <2>1, <3>1
    <3>5. outcome' \in [Turns -> {"none", "dropped", "ok", "canned"}]
      BY <2>1, <3>2
    <3>6. locked' \subseteq 1 .. born'
      BY <2>1, <2>2, <3>3
    <3> QED BY <3>4, <3>5, <3>6
  <2>5. TypeOK'
    BY <1>1, <2>1, <2>2, <2>3, <2>4 DEF TypeOK
  <2>6. TurnsFit'
    BY <1>1, <2>1 DEF TurnsFit, TypeOK, LockStages
  <2> QED BY <2>3, <2>5, <2>6 DEF IInv
<1>13. CASE AssembleFails(t)
  <2>1. /\ pc[t] = "assembling" /\ pc' = [pc EXCEPT ![t] = "failed"]
        /\ locked' = locked \ {sess[t]} /\ freeSlots' = freeSlots + 1
        /\ UNCHANGED <<received, player, sess, outcome, answers, lost, rows, sessions,
                       older, aged, born, linkUp, links>>
    BY <1>13 DEF AssembleFails, Step, Release, linkVars, mapVars
  <2>2. NothingLeaks' /\ freeSlots' \in 0 .. MaxRunning
    BY <1>1, <2>1, GivesBack DEF LockStages, SlotStages, Stages
  <2>3. TypeOK'
    BY <1>1, <2>1, <2>2 DEF TypeOK, Stages, Mapped
  <2>4. TurnsFit'
    BY <1>1, <2>1 DEF TurnsFit, TypeOK, LockStages
  <2> QED BY <2>2, <2>3, <2>4 DEF IInv
<1>14. CASE RunFails(t)
  <2>1. /\ pc[t] = "running" /\ pc' = [pc EXCEPT ![t] = "failed"]
        /\ Touch(t) \/ UNCHANGED mapVars
        /\ locked' = locked \ {sess[t]} /\ freeSlots' = freeSlots + 1
        /\ UNCHANGED <<received, player, sess, outcome, answers, lost, rows, linkUp, links>>
    BY <1>14 DEF RunFails, Step, Release, linkVars
  <2>2. /\ born' = born /\ sessions' = sessions
        /\ older' \in [Keys -> SUBSET Keys] /\ aged' \subseteq Mapped'
    BY <1>1, <2>1, TouchEffect DEF mapVars, TypeOK, Mapped
  <2>3. NothingLeaks' /\ freeSlots' \in 0 .. MaxRunning
    BY <1>1, <2>1, GivesBack DEF LockStages, SlotStages, Stages
  <2>4. pc' \in [Turns -> Stages] /\ locked' \subseteq 1 .. born'
    <3>1. pc \in [Turns -> Stages] /\ "failed" \in Stages /\ locked \subseteq 1 .. born
      BY <1>1 DEF TypeOK, Stages
    <3> QED BY <2>1, <2>2, <3>1
  <2>5. TypeOK'
    BY <1>1, <2>1, <2>2, <2>3, <2>4 DEF TypeOK
  <2>6. TurnsFit'
    BY <1>1, <2>1 DEF TurnsFit, TypeOK, LockStages
  <2> QED BY <2>3, <2>5, <2>6 DEF IInv
<1> QED BY <1>3, <1>4, <1>7, <1>8, <1>9, <1>10, <1>11, <1>12, <1>13, <1>14

LEMMA InvStep == IInv /\ [Next]_vars => IInv'
<1> SUFFICES ASSUME IInv, [Next]_vars
             PROVE  IInv'
  OBVIOUS
<1>1. CASE UNCHANGED vars
  <2>1. UNCHANGED <<received, pc, player, sess, outcome, answers, lost, rows, sessions,
                    older, aged, born, locked, freeSlots, linkUp, links>>
    BY <1>1 DEF vars, turnVars, mapVars, linkVars
  <2>2. TypeOK' /\ TurnsFit' /\ NothingLeaks'
    BY <2>1 DEF IInv, TypeOK, Mapped, TurnsFit, NothingLeaks, InLock, InSlot
  <2> QED BY <2>2 DEF IInv
<1>2. Link \in Keys
  BY DEF Keys
<1> QED BY <1>1, <1>2, MapStep, ReceiveStep, AdmitStep, TurnStep DEF Next

LEMMA InvInit == Init => IInv
<1> SUFFICES ASSUME Init PROVE IInv
  OBVIOUS
<1>1. InLock = {} /\ InSlot = {}
  BY DEF Init, InLock, InSlot
<1>2. NothingLeaks
  BY <1>1, FS_EmptySet DEF Init, NothingLeaks
<1>3. TurnsFit
  BY DEF Init, TurnsFit, LockStages
<1>4. /\ sess \in [Turns -> 0 .. born] /\ sessions \in [Keys -> 0 .. born]
      /\ player \in [Turns -> Keys] /\ pc \in [Turns -> Stages]
      /\ received \in 0 .. MaxMessages /\ links \in 0 .. MaxLinks
      /\ freeSlots \in 0 .. MaxRunning /\ born \in Nat
  BY DEF Init, Stages, Keys
<1>5. TypeOK
  BY <1>4 DEF Init, TypeOK
<1> QED BY <1>2, <1>3, <1>5 DEF IInv

\* Every state of the pipeline is well formed, for any number of players, messages,
\* places, slots and sessions.
THEOREM TypeCorrect == Spec => []TypeOK
<1>1. IInv => TypeOK
  BY DEF IInv
<1> QED BY <1>1, InvInit, InvStep, PTL DEF Spec

\* However a turn leaves its session's lock and the semaphore (a result, the wall
\* clock, an exception), it gives them back; no two turns hold one session's lock.
THEOREM LocksComeBack == Spec => []NothingLeaks
<1>1. IInv => NothingLeaks
  BY DEF IInv
<1> QED BY <1>1, InvInit, InvStep, PTL DEF Spec

-----------------------------------------------------------------------------
(* Answers and history *)

\* What a turn has sent and stored at each stage.
Account(t) ==
  /\ pc[t] # "done" => answers[t] = {}
  /\ answers[t] = {} \/ \E f : answers[t] = {f}
  /\ pc[t] = "done" /\ answers[t] = {} => outcome[t] = "dropped" \/ t \in lost
  /\ <<t, "assistant">> \in rows =>
       <<t, "user">> \in rows /\ outcome[t] = "ok" /\ pc[t] \in {"replying", "done"}
  /\ pc[t] \in {"answering", "replying"} => <<t, "user">> \in rows
  /\ pc[t] = "answering" => outcome[t] = "ok"
  /\ pc[t] = "replying" /\ outcome[t] = "ok" => <<t, "assistant">> \in rows
  /\ "reply" \in answers[t] =>
       <<t, "user">> \in rows /\ (outcome[t] = "ok" => <<t, "assistant">> \in rows)

Accounts == \A t \in Turns : Account(t)

\* A step of one turn keeps the accounts of the others.
LEMMA OthersKeep ==
  ASSUME Accounts, NEW t \in Turns, Account(t)', lost' = lost,
         \A u \in Turns \ {t} :
           /\ pc'[u] = pc[u] /\ answers'[u] = answers[u] /\ outcome'[u] = outcome[u]
           /\ \A role : <<u, role>> \in rows' <=> <<u, role>> \in rows
  PROVE  Accounts'
<1> SUFFICES ASSUME NEW u \in Turns, u # t
             PROVE  Account(u)'
  BY DEF Accounts
<1>1. Account(u)
  BY DEF Accounts
<1>2. /\ pc'[u] = pc[u] /\ answers'[u] = answers[u] /\ outcome'[u] = outcome[u]
      /\ <<u, "user">> \in rows' <=> <<u, "user">> \in rows
      /\ <<u, "assistant">> \in rows' <=> <<u, "assistant">> \in rows
  OBVIOUS
<1> QED BY <1>1, <1>2 DEF Account

\* A stage that only moves a turn on.
LEMMA MovesKeep ==
  ASSUME IInv, Accounts, NEW t \in Turns, NEW from, NEW to \in Stages, Moves(t, from, to),
         from # "done", to \notin {"answering", "replying"}, from \notin {"replying"} \/ to = "done",
         to = "done" => t \in lost
  PROVE  Accounts'
<1>1. /\ pc[t] = from /\ pc' = [pc EXCEPT ![t] = to] /\ pc \in [Turns -> Stages]
      /\ UNCHANGED <<outcome, answers, lost, rows>>
  BY DEF Moves, Step, IInv, TypeOK
<1>2. Account(t)
  BY DEF Accounts
<1>3. Account(t)'
  BY <1>1, <1>2 DEF Account
<1> QED BY <1>1, <1>3, OthersKeep

LEMMA AccountsStep == IInv /\ Accounts /\ [Next]_vars => Accounts'
<1> SUFFICES ASSUME IInv, Accounts, [Next]_vars
             PROVE  Accounts'
  OBVIOUS
<1>1. TypeOK /\ TurnsFit
  BY DEF IInv
<1> USE DEF Accounts
<1>2. ASSUME UNCHANGED <<pc, answers, outcome, rows>>, lost \subseteq lost'
      PROVE  Accounts'
  BY <1>2 DEF Account
<1>3. CASE LinkUp \/ LinkDown \/ Cleanup \/ (\E k \in Keys : Age(k)) \/ UNCHANGED vars
  BY <1>2, <1>3 DEF LinkUp, LinkDown, Cleanup, Age, turnVars, vars
<1>4. ASSUME NEW p \in Players, Spawn(p) \/ Shed(p)
      PROVE  Accounts'
  <2>1. PICK t \in Turns : t = received + 1 /\ pc[t] = "unborn"
    BY <1>1, <1>4 DEF Spawn, Shed, Receive, Turns, TypeOK, TurnsFit
  <2>2. PICK s \in {"started", "done"} :
          /\ pc' = [pc EXCEPT ![t] = s]
          /\ answers' = [answers EXCEPT ![t] = IF s = "started" THEN {} ELSE {"shed"}]
          /\ UNCHANGED <<outcome, lost, rows>>
    BY <1>4, <2>1 DEF Spawn, Shed, Receive
  <2>3. Account(t)
    OBVIOUS
  <2>4. Account(t)'
    BY <1>1, <2>1, <2>2, <2>3 DEF Account, TypeOK
  <2> QED BY <1>1, <2>2, <2>4, OthersKeep DEF TypeOK
<1>5. ASSUME NEW t \in Turns, Drop(t)
      PROVE  Accounts'
  <2>1. /\ pc[t] = "started" /\ pc' = [pc EXCEPT ![t] = "done"]
        /\ outcome' = [outcome EXCEPT ![t] = "dropped"]
        /\ UNCHANGED <<answers, lost, rows>>
    BY <1>5 DEF Drop, Step
  <2>2. Account(t)'
    BY <1>1, <2>1 DEF Account, TypeOK
  <2> QED BY <1>1, <2>1, <2>2, OthersKeep DEF TypeOK
<1>6. ASSUME NEW t \in Turns,
             \/ Admit(t) \/ AcquireLock(t) \/ AcquireSlot(t) \/ Run(t) \/ AssembleFails(t)
             \/ RunFails(t)
      PROVE  Accounts'
  <2>1. PICK to \in {"admitted", "limited", "queued", "assembling", "running", "failed"} :
          pc' = [pc EXCEPT ![t] = to]
    BY <1>6 DEF Admit, AcquireLock, AcquireSlot, Run, AssembleFails, RunFails, Step
  <2>2. pc[t] \in {"started", "locking", "queued", "assembling", "running"}
        /\ UNCHANGED <<outcome, answers, lost, rows>>
    BY <1>6 DEF Admit, AcquireLock, AcquireSlot, Run, AssembleFails, RunFails, Step
  <2>3. Account(t)'
    BY <1>1, <2>1, <2>2 DEF Account, TypeOK
  <2> QED BY <1>1, <2>1, <2>2, <2>3, OthersKeep DEF TypeOK
<1>7. ASSUME NEW t \in Turns, NEW result \in {"ok", "canned"}, Finish(t, result)
      PROVE  Accounts'
  <2>1. /\ pc[t] = "running" /\ pc' = [pc EXCEPT ![t] = "persisting"]
        /\ outcome' = [outcome EXCEPT ![t] = result]
        /\ UNCHANGED <<answers, lost, rows>>
    BY <1>7 DEF Finish, Step
  <2>2. Account(t)'
    BY <1>1, <2>1 DEF Account, TypeOK
  <2> QED BY <1>1, <2>1, <2>2, OthersKeep DEF TypeOK
<1>8. ASSUME NEW t \in Turns, PersistUser(t) \/ PersistAnswer(t)
      PROVE  Accounts'
  <2>1. PICK role \in {"user", "assistant"}, to \in {"answering", "replying"} :
          /\ pc' = [pc EXCEPT ![t] = to] /\ rows' = rows \cup {<<t, role>>}
          /\ role = "user" => /\ pc[t] = "persisting"
                              /\ to = IF outcome[t] = "ok" THEN "answering" ELSE "replying"
          /\ role = "assistant" => pc[t] = "answering" /\ to = "replying"
          /\ UNCHANGED <<outcome, answers, lost>>
    <3>1. CASE PersistUser(t)
      BY <3>1 DEF PersistUser, Persist, Step
    <3>2. CASE PersistAnswer(t)
      BY <3>2 DEF PersistAnswer, Persist, Step
    <3> QED BY <1>8, <3>1, <3>2
  <2>2. Account(t)'
    BY <1>1, <2>1 DEF Account, TypeOK
  <2>3. \A u \in Turns \ {t} : \A r : <<u, r>> \in rows' <=> <<u, r>> \in rows
    BY <2>1
  <2> QED BY <1>1, <2>1, <2>2, <2>3, OthersKeep DEF TypeOK
<1>9. ASSUME NEW t \in Turns, Reply(t) \/ Refuse(t) \/ Apologize(t)
      PROVE  Accounts'
  <2>1. PICK f \in {"reply", "refusal", "error"} :
          /\ answers' = [answers EXCEPT ![t] = @ \cup {f}]
          /\ pc[t] \in {"replying", "limited", "failed"} /\ (f = "reply" => pc[t] = "replying")
          /\ pc' = [pc EXCEPT ![t] = "done"]
          /\ UNCHANGED <<outcome, lost, rows>>
    BY <1>9 DEF Reply, Refuse, Apologize, Answer, Step
  <2>2. answers[t] = {}
    BY <2>1 DEF Account
  <2>3. answers'[t] = {f} /\ pc'[t] = "done"
    BY <1>1, <2>1, <2>2 DEF TypeOK
  <2>4. Account(t)'
    BY <2>1, <2>3 DEF Account
  <2> QED BY <1>1, <2>1, <2>4, OthersKeep DEF TypeOK
<1>10. ASSUME NEW t \in Turns, Think(t) \/ Fails(t) \/ Closed(t)
       PROVE  Accounts'
  BY <1>10, MovesKeep DEF Think, Fails, Closed, Stages
<1> QED BY <1>3, <1>4, <1>5, <1>6, <1>7, <1>8, <1>9, <1>10 DEF Next

LEMMA AccountsHold == Spec => []Accounts
<1>1. Init => Accounts
  BY DEF Init, Accounts, Account
<1> QED BY <1>1, AccountsStep, InvInit, InvStep, PTL DEF Spec

\* Whoever sent a message gets one frame about it and never two, unless it was no
\* chat or the socket closed (the receive loop, handle_player_message, its wrapper).
THEOREM EveryoneIsAnswered == Spec => []AnsweredOnce
<1>1. Accounts => AnsweredOnce
  <2> SUFFICES ASSUME Accounts, NEW t \in Turns
               PROVE  /\ Cardinality(answers[t]) <= 1
                      /\ (pc[t] = "done" /\ answers[t] = {}) => outcome[t] = "dropped" \/ t \in lost
    BY DEF AnsweredOnce
  <2>1. Account(t)
    BY DEF Accounts
  <2>2. Cardinality(answers[t]) \in {0, 1}
    BY <2>1, FS_EmptySet, FS_Singleton DEF Account
  <2> QED BY <2>1, <2>2 DEF Account
<1> QED BY <1>1, AccountsHold, PTL

\* No answer is stored without its question and none that is canned; what a player
\* reads as a reply has been stored (_persist_turn before _send_message_reply).
THEOREM HistoryHolds == Spec => []HistoryIsSound
<1>1. Accounts => HistoryIsSound
  BY DEF Accounts, Account, HistoryIsSound
<1> QED BY <1>1, AccountsHold, PTL

-----------------------------------------------------------------------------
(* Sessions *)

\* While a turn holds the lock of its session no new session evicts it and no link
\* replaces it; only the hourly cleanup takes it out of the map (session.py).
THEOREM EvictionSparesTurns == Spec => LockedStays
<1> DEFINE Stays == \A t \in Turns :
             (t \in InLock /\ sessions[player[t]] = sess[t] /\ sessions'[player[t]] # sess[t])
               => Cleanup
<1>1. ASSUME IInv, [Next]_vars
      PROVE  [Stays]_vars
  <2> SUFFICES ASSUME NEW t \in Turns, t \in InLock, sessions[player[t]] = sess[t],
                      ~ Cleanup
               PROVE  sessions'[player[t]] = sess[t]
    OBVIOUS
  <2>1. TypeOK /\ TurnsFit /\ NothingLeaks
    BY <1>1 DEF IInv
  <2>2. player[t] \in Players /\ sess[t] # 0 /\ sess[t] \in locked
    BY <2>1 DEF InLock, TurnsFit, NothingLeaks, LockStages
  <2>3. player[t] \in Keys \ {Link}
    BY <2>2 DEF Keys
  <2>4. ASSUME NEW k \in Keys, Insert(k), k # player[t]
        PROVE  sessions'[player[t]] = sess[t]
    BY <2>1, <2>2, <2>3, <2>4, InsertEffect
  <2>5. ASSUME sessions' = sessions
        PROVE  sessions'[player[t]] = sess[t]
    BY <2>5
  <2>6. CASE LinkUp
    BY <2>3, <2>4, <2>6 DEF LinkUp, Keys
  <2>7. CASE LinkDown
    BY <2>1, <2>3, <2>7 DEF LinkDown, TypeOK
  <2>8. ASSUME NEW u \in Turns, Admit(u)
        PROVE  sessions'[player[t]] = sess[t]
    <3>1. player[u] \in Keys
      BY <2>1 DEF TypeOK
    <3> QED BY <2>2, <2>4, <2>5, <2>8, <3>1 DEF Admit, GetOrCreate, mapVars
  <2>9. ASSUME NEW u \in Turns, Touch(u)
        PROVE  sessions' = sessions
    BY <2>9 DEF Touch, mapVars
  <2>10. ASSUME NEW u \in Turns, NEW k \in Keys, NEW p \in Players,
                \/ Age(k) \/ Spawn(p) \/ Shed(p) \/ Drop(u) \/ Think(u) \/ AcquireLock(u)
                \/ AcquireSlot(u) \/ Run(u) \/ Finish(u, "ok") \/ Finish(u, "canned")
                \/ AssembleFails(u) \/ RunFails(u) \/ PersistUser(u) \/ PersistAnswer(u) \/ Fails(u)
                \/ Reply(u) \/ Refuse(u) \/ Apologize(u) \/ Closed(u)
         PROVE  sessions' = sessions
    BY <2>9, <2>10
       DEF Age, Spawn, Shed, Receive, Drop, Think, AcquireLock, AcquireSlot, Run, Finish,
           AssembleFails, RunFails, PersistUser, PersistAnswer, Persist, Fails, Reply, Refuse,
           Apologize, Answer, Closed, Moves, mapVars
  <2>11. UNCHANGED vars => sessions' = sessions
    BY DEF vars, mapVars
  <2> QED BY <1>1, <2>2, <2>3, <2>5, <2>6, <2>7, <2>8, <2>10, <2>11 DEF Next
<1> QED BY <1>1, InvInit, InvStep, PTL DEF Spec, LockedStays

-----------------------------------------------------------------------------
(* The cap of the session map *)

\* No more turns than admitted are in flight, and no session is under two keys.
Bounded ==
  /\ Cardinality(InFlight) <= MaxInflight
  /\ \A j, k \in Mapped : sessions[j] = sessions[k] => j = k
  /\ MaxInflight < MaxSessions => Cardinality(Mapped) <= MaxSessions

LEMMA FiniteKeys ==
  ASSUME NEW S \in SUBSET Keys
  PROVE  IsFiniteSet(S) /\ Cardinality(S) \in Nat
<1>1. IsFiniteSet(Keys)
  BY FS_AddElement DEF Keys
<1> QED BY <1>1, FS_Subset, FS_CardinalityType

\* As many keys have a locked session as there are turns in flight at most.
LEMMA LockedKeys ==
  ASSUME IInv, Bounded, NEW S \in SUBSET Mapped, \A k \in S : sessions[k] \in locked
  PROVE  Cardinality(S) <= MaxInflight
<1>1. TypeOK /\ TurnsFit /\ NothingLeaks
  BY DEF IInv
<1> DEFINE f == [k \in S |-> CHOOSE t \in InLock : sess[t] = sessions[k]]
<1>2. \A k \in S : f[k] \in InLock /\ sess[f[k]] = sessions[k]
  <2> SUFFICES ASSUME NEW k \in S
               PROVE  f[k] \in InLock /\ sess[f[k]] = sessions[k]
    OBVIOUS
  <2>1. \E t \in InLock : sess[t] = sessions[k]
    BY <1>1 DEF NothingLeaks
  <2> QED BY <2>1
<1>3. f \in Injection(S, InFlight)
  <2>1. InLock \subseteq InFlight
    BY DEF InLock, InFlight
  <2>2. f \in [S -> InFlight]
    BY <1>2, <2>1
  <2>3. \A j, k \in S : f[j] = f[k] => j = k
    BY <1>2 DEF Bounded
  <2> HIDE DEF f
  <2> QED BY <2>2, <2>3 DEF Injection, IsInjective
<1>4. InFlight \in SUBSET Turns
  BY DEF InFlight
<1>5. IsFiniteSet(InFlight)
  BY <1>4, FiniteTurns
<1> HIDE DEF f
<1>6. Cardinality(S) <= Cardinality(InFlight)
  BY <1>3, <1>5, FS_Injection
<1>7. S \in SUBSET Keys
  BY DEF Mapped
<1>8. Cardinality(S) \in Nat /\ Cardinality(InFlight) \in Nat
  BY <1>4, <1>7, FiniteTurns, FiniteKeys
<1> QED BY <1>6, <1>8 DEF Bounded

\* A new session finds or makes room: if the map is full, some session in it is not
\* locked, for fewer turns are in flight than the map has places.
LEMMA InsertKeepsCap ==
  ASSUME IInv, Bounded, NEW k \in Keys, Insert(k)
  PROVE  /\ \A i, j \in Mapped' : sessions'[i] = sessions'[j] => i = j
         /\ MaxInflight < MaxSessions => Cardinality(Mapped') <= MaxSessions
<1> DEFINE M == Mapped \ {k}
           idle == {j \in M : sessions[j] \notin locked}
<1>1. TypeOK
  BY DEF IInv
<1>2. PICK E \in Victims(M) :
        sessions' = [j \in Keys |-> IF j = k THEN born + 1 ELSE IF j \in E THEN 0 ELSE sessions[j]]
  BY DEF Insert
<1>3. /\ E \subseteq idle
      /\ Cardinality(E) = IF Over(M) < Cardinality(idle) THEN Over(M) ELSE Cardinality(idle)
  BY DEF Victims, LeastRecent
<1>4. Mapped' = (M \ E) \cup {k}
  BY <1>1, <1>2, <1>3 DEF Mapped, TypeOK
<1>5. ASSUME NEW i \in Mapped', NEW j \in Mapped', sessions'[i] = sessions'[j]
      PROVE  i = j
  <2>1. \A n \in M \ E : sessions'[n] = sessions[n] /\ sessions[n] \in 0 .. born /\ n \in Mapped
    BY <1>1, <1>2 DEF Mapped, TypeOK
  <2>2. sessions'[k] = born + 1 /\ born \in Nat
    BY <1>1, <1>2 DEF TypeOK
  <2> QED BY <1>4, <1>5, <2>1, <2>2 DEF Bounded
<1>6. ASSUME MaxInflight < MaxSessions
      PROVE  Cardinality(Mapped') <= MaxSessions
  <2> HIDE DEF M, idle
  <2>1. M \subseteq Mapped /\ idle \subseteq M /\ k \notin M /\ Mapped \subseteq Keys
    BY DEF M, idle, Mapped
  <2>2. /\ IsFiniteSet(Mapped) /\ IsFiniteSet(M) /\ IsFiniteSet(idle) /\ IsFiniteSet(E)
        /\ IsFiniteSet(M \ E)
    BY <1>3, <2>1, FiniteKeys
  <2>3. /\ Cardinality(Mapped) \in Nat /\ Cardinality(M) \in Nat /\ Cardinality(idle) \in Nat
        /\ Cardinality(E) \in Nat /\ Cardinality(M \ E) \in Nat
    BY <2>2, FS_CardinalityType
  <2>4. Cardinality(Mapped') = Cardinality(M \ E) + 1
    BY <1>4, <2>1, <2>2, FS_AddElement
  <2>5. Cardinality(M) <= Cardinality(Mapped) /\ Cardinality(M \ E) <= Cardinality(M)
    BY <2>1, <2>2, FS_Subset
  <2>6. Cardinality(Mapped) <= MaxSessions
    BY <1>6 DEF Bounded
  <2>7. CASE Cardinality(M) < MaxSessions
    BY <2>3, <2>4, <2>5, <2>7
  <2>8. CASE Cardinality(M) >= MaxSessions
    <3>1. Cardinality(M) = MaxSessions
      BY <2>3, <2>5, <2>6, <2>8
    <3>2. Over(M) = 1
      BY <3>1 DEF Over
    <3>3. idle # {}
      <4> SUFFICES ASSUME idle = {}
                   PROVE  FALSE
        OBVIOUS
      <4>1. \A j \in M : sessions[j] \in locked
        BY DEF idle
      <4>2. Cardinality(M) <= MaxInflight
        BY <2>1, <4>1, LockedKeys
      <4> QED BY <1>6, <3>1, <4>2
    <3>4. Cardinality(idle) # 0
      BY <2>2, <3>3, FS_EmptySet
    <3>5. Cardinality(E) = 1
      BY <1>3, <2>3, <3>2, <3>4
    <3>6. PICK e : E = {e}
      BY <2>2, <3>5, FS_Singleton
    <3>7. e \in M
      BY <1>3, <2>1, <3>6
    <3>8. Cardinality(M \ {e}) = Cardinality(M) - 1
      BY <2>2, <3>7, FS_RemoveElement
    <3> QED BY <2>3, <2>4, <3>1, <3>6, <3>8
  <2> QED BY <2>3, <2>7, <2>8
<1> QED BY <1>5, <1>6

\* A smaller map stays within the bounds.
LEMMA LessIsBounded ==
  ASSUME TypeOK, Bounded, InFlight' \subseteq InFlight,
         \A k \in Keys : sessions'[k] \in {0, sessions[k]}
  PROVE  Bounded'
<1>1. Mapped' \subseteq Mapped /\ Mapped \subseteq Keys /\ InFlight \subseteq Turns
  BY DEF Mapped, InFlight
<1>2. \A k \in Mapped' : sessions'[k] = sessions[k]
  BY DEF Mapped
<1>3. \A j, k \in Mapped' : sessions'[j] = sessions'[k] => j = k
  BY <1>1, <1>2 DEF Bounded
<1>4. IsFiniteSet(Mapped) /\ IsFiniteSet(InFlight)
  BY <1>1, FiniteKeys, FiniteTurns
<1>5. Cardinality(Mapped') <= Cardinality(Mapped) /\ Cardinality(InFlight') <= Cardinality(InFlight)
  BY <1>1, <1>4, FS_Subset
<1>6. /\ Cardinality(Mapped) \in Nat /\ Cardinality(Mapped') \in Nat
      /\ Cardinality(InFlight) \in Nat /\ Cardinality(InFlight') \in Nat
  BY <1>1, FiniteKeys, FiniteTurns
<1>7. Cardinality(InFlight') <= MaxInflight
  BY <1>5, <1>6 DEF Bounded
<1>8. MaxInflight < MaxSessions => Cardinality(Mapped') <= MaxSessions
  BY <1>5, <1>6 DEF Bounded
<1> QED BY <1>3, <1>7, <1>8 DEF Bounded

\* A step of a turn that is in flight leaves no more turns in flight.
LEMMA InFlightShrinks ==
  ASSUME TypeOK, NEW t \in Turns, pc[t] \notin {"unborn", "done"},
         NEW s, pc' = [pc EXCEPT ![t] = s]
  PROVE  InFlight' \subseteq InFlight
BY DEF TypeOK, InFlight

LEMMA BoundedStep == IInv /\ Bounded /\ [Next]_vars => Bounded'
<1> SUFFICES ASSUME IInv, Bounded, [Next]_vars
             PROVE  Bounded'
  OBVIOUS
<1>1. TypeOK /\ TurnsFit
  BY DEF IInv
<1>2. ASSUME NEW k \in Keys, LinkDown \/ Cleanup \/ Age(k) \/ UNCHANGED vars
      PROVE  Bounded'
  <2>1. pc' = pc
    BY <1>2 DEF LinkDown, Cleanup, Age, vars, turnVars
  <2>2. \A j \in Keys : sessions'[j] \in {0, sessions[j]}
    BY <1>1, <1>2 DEF LinkDown, Cleanup, Age, vars, mapVars, TypeOK
  <2>3. InFlight' = InFlight
    BY <2>1 DEF InFlight
  <2> QED BY <1>1, <2>2, <2>3, LessIsBounded
<1>3. ASSUME NEW k \in Keys, Insert(k), InFlight' \subseteq InFlight
      PROVE  Bounded'
  <2>1. InFlight \subseteq Turns
    BY DEF InFlight
  <2>2. /\ Cardinality(InFlight) \in Nat /\ Cardinality(InFlight') \in Nat
        /\ Cardinality(InFlight') <= Cardinality(InFlight)
    BY <1>3, <2>1, FiniteTurns, FS_Subset
  <2>3. Cardinality(InFlight') <= MaxInflight
    BY <2>2 DEF Bounded
  <2> QED BY <1>3, <2>3, InsertKeepsCap DEF Bounded
<1>4. CASE LinkUp
  <2>1. InFlight' = InFlight /\ Insert(Link) /\ Link \in Keys
    BY <1>4 DEF LinkUp, turnVars, InFlight, Keys
  <2> QED BY <1>3, <2>1
<1>5. ASSUME NEW p \in Players, Spawn(p) \/ Shed(p)
      PROVE  Bounded'
  <2>1. PICK t \in Turns : t = received + 1 /\ pc[t] = "unborn"
    BY <1>1, <1>5 DEF Spawn, Shed, Receive, Turns, TypeOK, TurnsFit
  <2>2. sessions' = sessions
    BY <1>5 DEF Spawn, Shed, Receive, mapVars
  <2>3. CASE Shed(p)
    <3>1. InFlight' = InFlight
      BY <1>1, <2>1, <2>3 DEF Shed, Receive, InFlight, TypeOK
    <3> QED BY <1>1, <2>2, <3>1, LessIsBounded
  <2>4. CASE Spawn(p)
    <3>1. InFlight' = InFlight \cup {t} /\ t \notin InFlight /\ InFlight \subseteq Turns
      BY <1>1, <2>1, <2>4 DEF Spawn, Receive, InFlight, TypeOK
    <3>2. Cardinality(InFlight) < MaxInflight
      BY <2>4 DEF Spawn
    <3>3. IsFiniteSet(InFlight) /\ Cardinality(InFlight) \in Nat
      BY <3>1, FiniteTurns
    <3>4. Cardinality(InFlight') = Cardinality(InFlight) + 1
      BY <3>1, <3>3, FS_AddElement
    <3>5. Cardinality(InFlight') <= MaxInflight
      BY <3>2, <3>3, <3>4
    <3>6. Mapped' = Mapped
      BY <2>2 DEF Mapped
    <3> QED BY <2>2, <3>5, <3>6 DEF Bounded
  <2> QED BY <1>5, <2>3, <2>4
<1>6. ASSUME NEW t \in Turns, Admit(t)
      PROVE  Bounded'
  <2>1. PICK s : pc[t] = "started" /\ pc' = [pc EXCEPT ![t] = s]
    BY <1>6 DEF Admit, Step
  <2>2. InFlight' \subseteq InFlight
    BY <1>1, <2>1, InFlightShrinks
  <2>3. CASE Insert(player[t])
    BY <1>1, <1>3, <2>2, <2>3 DEF TypeOK
  <2>4. CASE sessions' = sessions
    BY <1>1, <2>2, <2>4, LessIsBounded
  <2> QED BY <1>6, <2>3, <2>4 DEF Admit, GetOrCreate, mapVars
<1>7. ASSUME NEW t \in Turns,
             \/ Drop(t) \/ Think(t) \/ AcquireLock(t) \/ AcquireSlot(t)
             \/ Run(t) \/ Finish(t, "ok") \/ Finish(t, "canned") \/ AssembleFails(t)
             \/ RunFails(t) \/ PersistUser(t) \/ PersistAnswer(t) \/ Fails(t)
             \/ Reply(t) \/ Refuse(t) \/ Apologize(t) \/ Closed(t)
      PROVE  Bounded'
  <2>1. PICK s : pc[t] \notin {"unborn", "done"} /\ pc' = [pc EXCEPT ![t] = s]
    BY <1>7 DEF Drop, Think, AcquireLock, AcquireSlot, Run, Finish, AssembleFails,
                RunFails, PersistUser, PersistAnswer, Persist, Fails, Reply, Refuse, Apologize,
                Answer, Closed, Moves, Step
  <2>2. InFlight' \subseteq InFlight
    BY <1>1, <2>1, InFlightShrinks
  <2>3. Touch(t) => sessions' = sessions
    BY DEF Touch, mapVars
  <2>4. sessions' = sessions
    BY <1>7, <2>3
       DEF Drop, Think, AcquireLock, AcquireSlot, Run, Finish, AssembleFails, RunFails, PersistUser,
           PersistAnswer, Persist, Fails, Reply, Refuse, Apologize, Answer, Closed, Moves,
           mapVars
  <2> QED BY <1>1, <2>2, <2>4, LessIsBounded
<1>8. Link \in Keys
  BY DEF Keys
<1> QED BY <1>2, <1>4, <1>5, <1>6, <1>7, <1>8 DEF Next

\* The session map never outgrows its cap (M2 in session.py), if the cap exceeds the
\* number of turns in flight, as it does with 100 and 64.
THEOREM MapIsCapped == Spec => []SessionCap
<1>1. Init => Bounded
  <2> SUFFICES ASSUME Init PROVE Bounded
    OBVIOUS
  <2>1. InFlight = {} /\ Mapped = {}
    BY DEF Init, InFlight, Mapped
  <2>2. Cardinality({}) = 0
    BY FS_EmptySet
  <2> QED BY <2>1, <2>2 DEF Bounded
<1>2. Bounded => SessionCap
  BY DEF Bounded, SessionCap
<1> QED BY <1>1, <1>2, BoundedStep, InvInit, InvStep, PTL DEF Spec
================================================================================
