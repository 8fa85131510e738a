----------------------- MODULE GetterCorrelation_proofs -----------------------
(***************************************************************************)
(* What GetterCorrelation promises for every set of callers and every      *)
(* timeout: nobody is handed another request's reply, and nobody who waits *)
(* loses the waiter that would hand over the reply.                        *)
(***************************************************************************)
EXTENDS GetterCorrelation, TLAPS

USE CallersAssumption, TimesAssumption

\* Only a player's first attempt is ever backed off from.
FirstBackoff == \A c \in Callers : pc[c] = "backoff" => c \in Players /\ attempt[c] = 1

TypeInv == TypeOK /\ FirstBackoff

-----------------------------------------------------------------------------
(* The FIFO and the calls, one action at a time *)

\* A query leaves well-formed FIFOs and a fresh id.
LEMMA QueryType ==
  ASSUME TypeInv, NEW c \in Callers, NEW current \in BOOLEAN, Query(c, current)
  PROVE  /\ FifoTypeOK'
         /\ pc' \in [Callers -> {"idle", "sending", "waiting", "backoff"}]
         /\ req' \in [Callers -> 0 .. reqCounter']
         /\ timer' \in [Callers -> Nat]
         /\ fut' \in [Callers -> 0 .. reqCounter']
<1> USE DEF TypeInv, TypeOK, FifoTypeOK, CallTypeOK, Types, TypeOf
<1>1. reqCounter' \in Nat /\ reqCounter' = reqCounter + 1
  BY DEF Query
<1>2. TypeOf(c) \in Types
  BY DEF Callers
<1>3. ASSUME NEW t \in Types
      PROVE  /\ DOMAIN waiters'[t] \subseteq 1 .. reqCounter'
             /\ \A r \in DOMAIN waiters'[t] : waiters'[t][r] \in Entry
  BY <1>1, <1>2 DEF Query, Register, Entry, Marks
<1>4. ASSUME NEW t \in Types
      PROVE  /\ DOMAIN inFlight'[t] \subseteq 1 .. reqCounter'
             /\ \A r \in DOMAIN inFlight'[t] : inFlight'[t][r] \in 0 .. ReplyLateness
  BY <1>1, <1>2 DEF Query
<1>5. DOMAIN waiters' = Types /\ DOMAIN inFlight' = Types
  BY <1>2 DEF Query, Register
<1>6. FifoTypeOK'
  BY <1>1, <1>3, <1>4, <1>5
<1>7. /\ pc' \in [Callers -> {"idle", "sending", "waiting", "backoff"}]
      /\ req' \in [Callers -> 0 .. reqCounter']
      /\ timer' \in [Callers -> Nat]
      /\ fut' \in [Callers -> 0 .. reqCounter']
  BY <1>1 DEF Query
<1> QED BY <1>6, <1>7

\* Marking a waiter changes no other part of its FIFO.
LEMMA MarkType ==
  ASSUME FifoTypeOK, NEW t \in Types, NEW r, NEW m \in Marks,
         waiters' = Mark(t, r, m), UNCHANGED <<inFlight, reqCounter>>
  PROVE  FifoTypeOK'
BY DEF FifoTypeOK, Mark, Entry, Types

\* The end of a call keeps the callers' variables in their shapes.
LEMMA EndType ==
  ASSUME CallTypeOK, NEW c \in Callers, End(c)
  PROVE  /\ pc' \in [Callers -> {"idle", "sending", "waiting", "backoff"}]
         /\ attempt' \in [Callers -> {1, 2}]
         /\ timer' \in [Callers -> Nat]
         /\ onLink' \in [Callers -> BOOLEAN]
         /\ getterLock' \in Scanners \cup {None}
BY DEF CallTypeOK, End

\* Giving up keeps the type invariant.
LEMMA AbandonType ==
  ASSUME TypeInv, NEW c \in Callers, Abandon(c)
  PROVE  TypeInv'
<1>1. FifoTypeOK'
  <2>1. TypeOf(c) \in Types
    BY DEF TypeOf, Types
  <2> QED BY <2>1, MarkType DEF Abandon, TypeInv, TypeOK, Marks
<1>2. CallTypeOK'
  BY EndType DEF Abandon, TypeInv, TypeOK, CallTypeOK, FifoTypeOK
<1>3. FirstBackoff'
  BY DEF Abandon, End, TypeInv, TypeOK, CallTypeOK, FirstBackoff
<1> QED BY <1>1, <1>2, <1>3 DEF Abandon, TypeInv, TypeOK, linkVars

\* Every step keeps the type invariant.
LEMMA TypeStep == TypeInv /\ [Next]_vars => TypeInv'
<1> SUFFICES ASSUME TypeInv, [Next]_vars
             PROVE  TypeInv'
  OBVIOUS
<1> USE DEF TypeInv, TypeOK
<1>1. ASSUME NEW c \in Callers, Begin(c), getterLock' \in Scanners \cup {None}
      PROVE  TypeInv'
  <2>1. Query(c, TRUE)
    BY <1>1 DEF Begin
  <2>2. CallTypeOK'
    BY <1>1, <2>1, QueryType DEF Begin, CallTypeOK
  <2>3. FirstBackoff'
    BY <1>1, <2>1 DEF Begin, FirstBackoff, CallTypeOK, Query
  <2> QED BY <1>1, <2>1, <2>2, <2>3, QueryType DEF Begin, linkVars
<1>2. ASSUME NEW p \in Players, BeginGetter(p)
      PROVE  TypeInv'
  BY <1>1, <1>2 DEF BeginGetter, CallTypeOK, Callers
<1>3. ASSUME NEW s \in Scanners, BeginScan(s)
      PROVE  TypeInv'
  BY <1>1, <1>3 DEF BeginScan, Callers
<1>4. ASSUME NEW c \in Callers, Sent(c)
      PROVE  TypeInv'
  BY <1>4 DEF Sent, FifoTypeOK, CallTypeOK, FirstBackoff, linkVars
<1>5. ASSUME NEW c \in Callers, Resume(c)
      PROVE  TypeInv'
  <2>1. CallTypeOK'
    BY <1>5, EndType DEF Resume, CallTypeOK
  <2> QED BY <1>5, <2>1 DEF Resume, End, FifoTypeOK, CallTypeOK, FirstBackoff, linkVars
<1>6. ASSUME NEW p \in Players, FirstTimeout(p)
      PROVE  TypeInv'
  <2>1. FifoTypeOK'
    BY <1>6 DEF FirstTimeout, Without, FifoTypeOK, Types
  <2> QED BY <1>6, <2>1 DEF FirstTimeout, CallTypeOK, FirstBackoff, linkVars, Callers, FifoTypeOK
<1>7. ASSUME NEW p \in Players, Retry(p)
      PROVE  TypeInv'
  <2>1. p \in Callers /\ onLink[p] \in BOOLEAN /\ Query(p, onLink[p])
    BY <1>7 DEF Retry, Callers, CallTypeOK
  <2>2. attempt' \in [Callers -> {1, 2}]
    BY <1>7, <2>1 DEF Retry, CallTypeOK, FirstBackoff
  <2>3. CallTypeOK'
    BY <1>7, <2>1, <2>2, QueryType DEF Retry, CallTypeOK
  <2>4. FirstBackoff'
    BY <1>7, <2>1 DEF Retry, FirstBackoff, CallTypeOK, Query
  <2> QED BY <1>7, <2>1, <2>3, <2>4, QueryType DEF Retry, linkVars
<1>8. ASSUME NEW c \in Callers, LastTimeout(c) \/ SendFails(c)
      PROVE  TypeInv'
  BY <1>8, AbandonType DEF LastTimeout, SendFails
<1>9. ASSUME NEW p \in Players, Cancel(p)
      PROVE  TypeInv'
  <2>1. FifoTypeOK'
    BY <1>9, MarkType DEF Cancel, Marks, Types, FifoTypeOK
  <2>2. CallTypeOK'
    BY <1>9, EndType DEF Cancel, CallTypeOK, Callers, FifoTypeOK
  <2> QED BY <1>9, <2>1, <2>2 DEF Cancel, End, CallTypeOK, FirstBackoff, linkVars, Callers
<1>10. ASSUME NEW t \in Types, NEW r \in DOMAIN inFlight[t], Reply(t, r)
       PROVE  TypeInv'
  <2>1. FifoTypeOK'
    BY <1>10 DEF Reply, Without, Popped, Front, FifoTypeOK, Types
  <2>2. r \in 0 .. reqCounter
    BY DEF FifoTypeOK, Types
  <2> QED BY <1>10, <2>1, <2>2 DEF Reply, CallTypeOK, FirstBackoff, linkVars
<1>11. ASSUME NEW t \in Types, NEW r \in DOMAIN inFlight[t], LoseReply(t, r)
       PROVE  TypeInv'
  BY <1>11 DEF LoseReply, Without, FifoTypeOK, CallTypeOK, FirstBackoff, Types, callVars, linkVars
<1>12. CASE LinkDown
  <2>1. FifoTypeOK'
    BY <1>12 DEF LinkDown, NoEntries, FifoTypeOK, Types, Entry, Marks
  <2>2. CallTypeOK'
    <3> DEFINE cut == {s \in Scanners : Awaiting(s)}
    <3>1. /\ pc' = [c \in Callers |-> IF c \in cut THEN "idle" ELSE pc[c]]
          /\ timer' = [c \in Callers |-> IF c \in cut THEN 0 ELSE timer[c]]
          /\ fut' = [c \in Callers |-> IF c \in cut THEN 0 ELSE fut[c]]
          /\ onLink' = [c \in Callers |-> FALSE]
          /\ getterLock' = None
          /\ UNCHANGED <<reqCounter, req, attempt>>
      BY <1>12, Zenon DEF LinkDown
    <3> HIDE DEF cut
    <3> QED BY <3>1 DEF CallTypeOK, FifoTypeOK
  <2>3. FirstBackoff'
    BY <1>12 DEF LinkDown, CallTypeOK, FirstBackoff
  <2>4. linkUp' \in BOOLEAN
    BY <1>12, Zenon DEF LinkDown
  <2>5. drops' \in 0 .. MaxDrops
    <3>1. drops < MaxDrops /\ drops' = drops + 1
      BY <1>12, Zenon DEF LinkDown
    <3> QED BY <3>1
  <2> QED BY <2>1, <2>2, <2>3, <2>4, <2>5
<1>13. CASE LinkUp
  BY <1>13 DEF LinkUp, FifoTypeOK, CallTypeOK, FirstBackoff, callVars
<1>14. CASE Tick
  <2>1. ASSUME NEW t \in Types
        PROVE  /\ DOMAIN waiters'[t] = DOMAIN waiters[t]
               /\ \A r \in DOMAIN waiters[t] : waiters'[t][r] \in Entry
    BY <1>14 DEF Tick, Older, FifoTypeOK, Entry
  <2>2. ASSUME NEW t \in Types
        PROVE  /\ DOMAIN inFlight'[t] \subseteq DOMAIN inFlight[t]
               /\ \A r \in DOMAIN inFlight'[t] : inFlight'[t][r] \in 0 .. ReplyLateness
    BY <1>14 DEF Tick, StillInFlight, FifoTypeOK
  <2>3. FifoTypeOK'
    BY <1>14, <2>1, <2>2 DEF Tick, FifoTypeOK
  <2>4. timer' \in [Callers -> Nat]
    BY <1>14 DEF Tick, CallTypeOK
  <2> QED BY <1>14, <2>3, <2>4 DEF Tick, CallTypeOK, FirstBackoff, linkVars
<1>15. CASE UNCHANGED vars
  BY <1>15 DEF vars, callVars, linkVars, FifoTypeOK, CallTypeOK, FirstBackoff
<1> QED
  BY <1>2, <1>3, <1>4, <1>5, <1>6, <1>7, <1>8, <1>9, <1>10, <1>11, <1>12, <1>13, <1>14, <1>15
     DEF Next

\* TypeOK is an invariant: the ids, ages, marks and phases of the code.
THEOREM TypeCorrect == Spec => []TypeOK
<1>1. Init => TypeInv
  BY DEF Init, TypeInv, TypeOK, FifoTypeOK, CallTypeOK, FirstBackoff, Types, NoEntries
<1>2. TypeInv => TypeOK
  BY DEF TypeInv
<1> QED BY <1>1, <1>2, TypeStep, PTL DEF Spec

-----------------------------------------------------------------------------
(* No cross-delivery *)

\* Callers that wait wait for different requests.
FreshRequests ==
  \A c, d \in Callers : (Awaiting(c) /\ Awaiting(d) /\ req[c] = req[d]) => c = d

\* The scan that waits holds the lock, and its request is the newest of its FIFO.
NewestScanWaits ==
  \A s \in Scanners :
    /\ pc[s] # "backoff"
    /\ Awaiting(s) => /\ getterLock = s
                      /\ \A r \in DOMAIN waiters["dino_scan"] : r <= req[s]

\* A scan that may still be answered has its waiter in the FIFO, as old as it is.
ScanInFlightHasWaiter ==
  \A r \in DOMAIN inFlight["dino_scan"] :
    /\ r \in DOMAIN waiters["dino_scan"]
    /\ waiters["dino_scan"][r].age = inFlight["dino_scan"][r]

\* A live waiter belongs to a caller that still waits without a reply.
LiveIsAwaited ==
  \A t \in Types : \A r \in DOMAIN waiters[t] :
    waiters[t][r].mark = "live" =>
      \E c \in Callers : TypeOf(c) = t /\ Awaiting(c) /\ req[c] = r /\ fut[c] = 0

\* The inductive invariant: a scan's reply finds its own waiter at the head of
\* the FIFO or behind spent ones, never behind another scan's live waiter.
IInv ==
  /\ TypeInv
  /\ OwnReply
  /\ AwaitedIsRegistered
  /\ FreshRequests
  /\ NewestScanWaits
  /\ ScanInFlightHasWaiter
  /\ LiveIsAwaited

\* A new request of a caller that does not wait keeps the invariant.
LEMMA QueryStep ==
  ASSUME IInv, NEW c \in Callers, NEW current \in BOOLEAN, Query(c, current),
         ~ Awaiting(c), FirstBackoff',
         c \in Scanners => getterLock = None /\ getterLock' = c,
         c \in Players => getterLock' = getterLock
  PROVE  /\ OwnReply' /\ AwaitedIsRegistered' /\ FreshRequests'
         /\ NewestScanWaits' /\ ScanInFlightHasWaiter' /\ LiveIsAwaited'
<1> DEFINE r == reqCounter + 1
           t == TypeOf(c)
<1> USE DEF IInv
<1>1. /\ TypeInv /\ FifoTypeOK /\ CallTypeOK /\ t \in Types /\ r \in Nat
      /\ pc' = [pc EXCEPT ![c] = "sending"]
      /\ req' = [req EXCEPT ![c] = r]
      /\ fut' = [fut EXCEPT ![c] = 0]
  BY DEF Query, TypeInv, TypeOK, FifoTypeOK, Types, TypeOf
<1>2. \A d \in Callers : /\ req[d] \in Nat /\ req[d] <= reqCounter
                         /\ d # c => /\ Awaiting(d)' = Awaiting(d)
                                     /\ req'[d] = req[d] /\ fut'[d] = fut[d]
  BY <1>1 DEF CallTypeOK, Awaiting, FifoTypeOK
<1>3. /\ waiters'[t] = [q \in {q \in DOMAIN waiters[t] : ~ Expired(waiters[t][q])} \cup {r} |->
                          IF q = r THEN [age |-> 0, mark |-> "live"] ELSE waiters[t][q]]
      /\ \A u \in Types : u # t => waiters'[u] = waiters[u]
  BY <1>1 DEF Query, Register, FifoTypeOK
<1>4. r \notin DOMAIN waiters[t] /\ \A q \in DOMAIN waiters[t] : q \in Nat /\ q < r
  BY <1>1 DEF FifoTypeOK
<1>5. OwnReply'
  BY <1>1, <1>2 DEF OwnReply, CallTypeOK
<1>6. AwaitedIsRegistered'
  <2> SUFFICES ASSUME NEW d \in Callers, Awaiting(d)', fut'[d] = 0
               PROVE  /\ req'[d] \in DOMAIN waiters'[TypeOf(d)]
                      /\ waiters'[TypeOf(d)][req'[d]].mark = "live"
    BY DEF AwaitedIsRegistered
  <2>1. CASE d = c
    BY <2>1, <1>1, <1>3 DEF CallTypeOK
  <2>2. CASE d # c
    <3>1. /\ req[d] \in DOMAIN waiters[TypeOf(d)]
          /\ waiters[TypeOf(d)][req[d]].mark = "live"
          /\ req'[d] = req[d] /\ req[d] # r
      BY <2>2, <1>1, <1>2 DEF AwaitedIsRegistered, FifoTypeOK
    <3>2. TypeOf(d) \in Types
      BY DEF TypeOf, Types
    <3> QED BY <3>1, <3>2, <1>1, <1>3 DEF Expired
  <2> QED BY <2>1, <2>2
<1>7. FreshRequests'
  BY <1>1, <1>2 DEF FreshRequests, FifoTypeOK, CallTypeOK
<1>8. NewestScanWaits'
  <2> SUFFICES ASSUME NEW s \in Scanners
               PROVE  /\ pc'[s] # "backoff"
                      /\ Awaiting(s)' =>
                           /\ getterLock' = s
                           /\ \A q \in DOMAIN waiters'["dino_scan"] : q <= req'[s]
    BY DEF NewestScanWaits
  <2>1. CASE c \in Scanners
    <3>1. t = "dino_scan"
      BY <2>1 DEF TypeOf
    <3>2. s # c => ~ Awaiting(s)
      BY <2>1 DEF NewestScanWaits
    <3> QED BY <2>1, <3>1, <3>2, <1>1, <1>2, <1>3, <1>4 DEF NewestScanWaits, CallTypeOK, Callers
  <2>2. CASE c \in Players
    <3>1. s # c /\ s \in Callers /\ t = "getter"
      BY <2>2 DEF Callers, TypeOf
    <3>2. waiters'["dino_scan"] = waiters["dino_scan"]
      BY <3>1, <1>3 DEF Types
    <3> QED BY <2>2, <3>1, <3>2, <1>1, <1>2 DEF NewestScanWaits, CallTypeOK
  <2> QED BY <2>1, <2>2 DEF Callers
<1>9. ScanInFlightHasWaiter'
  <2>1. CASE t = "dino_scan"
    <3> SUFFICES ASSUME NEW q \in DOMAIN inFlight'["dino_scan"]
                 PROVE  /\ q \in DOMAIN waiters'["dino_scan"]
                        /\ waiters'["dino_scan"][q].age = inFlight'["dino_scan"][q]
      BY DEF ScanInFlightHasWaiter
    <3>1. CASE q = r
      <4>1. inFlight'["dino_scan"][q] = 0
        BY <2>1, <3>1, <1>1, <1>4 DEF Query, FifoTypeOK
      <4> QED BY <4>1, <2>1, <3>1, <1>3
    <3>2. CASE q # r
      <4>1. /\ q \in DOMAIN inFlight["dino_scan"]
            /\ inFlight'["dino_scan"][q] = inFlight["dino_scan"][q]
        BY <2>1, <3>2, <1>1 DEF Query, FifoTypeOK
      <4>2. /\ q \in DOMAIN waiters["dino_scan"]
            /\ waiters["dino_scan"][q].age = inFlight["dino_scan"][q]
            /\ inFlight["dino_scan"][q] <= ReplyLateness
        BY <4>1, <1>1, <2>1 DEF ScanInFlightHasWaiter, FifoTypeOK
      <4>3. ~ Expired(waiters["dino_scan"][q])
        BY <4>1, <4>2, <1>1, <2>1, LatenessAssumption DEF Expired, FifoTypeOK
      <4> QED BY <4>1, <4>2, <4>3, <3>2, <2>1, <1>3
    <3> QED BY <3>1, <3>2
  <2>2. CASE t # "dino_scan"
    BY <2>2, <1>1, <1>3 DEF ScanInFlightHasWaiter, Query, Types, FifoTypeOK
  <2> QED BY <2>1, <2>2
<1>10. LiveIsAwaited'
  <2> SUFFICES ASSUME NEW u \in Types, NEW q \in DOMAIN waiters'[u],
                      waiters'[u][q].mark = "live"
               PROVE  \E d \in Callers : /\ TypeOf(d) = u /\ Awaiting(d)'
                                         /\ req'[d] = q /\ fut'[d] = 0
    BY DEF LiveIsAwaited
  <2>1. CASE u = t /\ q = r
    BY <2>1, <1>1 DEF Awaiting, CallTypeOK
  <2>2. CASE ~ (u = t /\ q = r)
    <3>1. q \in DOMAIN waiters[u] /\ waiters[u][q].mark = "live"
      BY <2>2, <1>3
    <3>2. PICK d \in Callers : TypeOf(d) = u /\ Awaiting(d) /\ req[d] = q /\ fut[d] = 0
      BY <3>1 DEF LiveIsAwaited
    <3> QED BY <3>2, <1>2
  <2> QED BY <2>1, <2>2
<1> QED BY <1>5, <1>6, <1>7, <1>8, <1>9, <1>10

\* A caller that stops waiting keeps the invariant, provided it leaves no live
\* waiter of its own behind and touches no other waiter.
LEMMA LeaveStep ==
  ASSUME IInv, NEW c \in Callers,
         ~ Awaiting(c)', c \in Scanners => pc'[c] # "backoff",
         UNCHANGED <<inFlight, req>>,
         \A d \in Callers \ {c} : pc'[d] = pc[d] /\ fut'[d] = fut[d],
         fut'[c] \in {0, fut[c]},
         getterLock' \in {getterLock, IF getterLock = c THEN None ELSE getterLock},
         \A u \in Types : DOMAIN waiters'[u] \subseteq DOMAIN waiters[u],
         \A u \in Types : \A q \in DOMAIN waiters[u] :
           ~ (u = TypeOf(c) /\ q = req[c]) =>
             q \in DOMAIN waiters'[u] /\ waiters'[u][q] = waiters[u][q],
         Awaiting(c) =>
           (req[c] \in DOMAIN waiters'[TypeOf(c)] =>
              waiters'[TypeOf(c)][req[c]].mark # "live"),
         ~ Awaiting(c) => waiters' = waiters,
         c \in Scanners =>
           (req[c] \in DOMAIN waiters["dino_scan"] =>
              /\ req[c] \in DOMAIN waiters'["dino_scan"]
              /\ waiters'["dino_scan"][req[c]].age = waiters["dino_scan"][req[c]].age)
  PROVE  /\ OwnReply' /\ AwaitedIsRegistered' /\ FreshRequests'
         /\ NewestScanWaits' /\ ScanInFlightHasWaiter' /\ LiveIsAwaited'
<1> USE DEF IInv
<1>1. \A d \in Callers : Awaiting(d)' => d # c /\ Awaiting(d) /\ fut'[d] = fut[d]
  BY DEF Awaiting
<1>2. OwnReply'
  BY DEF OwnReply
<1>3. AwaitedIsRegistered'
  <2> SUFFICES ASSUME NEW d \in Callers, Awaiting(d)', fut'[d] = 0
               PROVE  /\ req[d] \in DOMAIN waiters'[TypeOf(d)]
                      /\ waiters'[TypeOf(d)][req[d]].mark = "live"
    BY DEF AwaitedIsRegistered
  <2>1. /\ d # c /\ Awaiting(d)
        /\ req[d] \in DOMAIN waiters[TypeOf(d)]
        /\ waiters[TypeOf(d)][req[d]].mark = "live"
        /\ TypeOf(d) \in Types
    BY <1>1 DEF AwaitedIsRegistered, TypeOf, Types
  <2>2. CASE Awaiting(c)
    BY <2>1, <2>2 DEF FreshRequests
  <2>3. CASE ~ Awaiting(c)
    BY <2>1, <2>3
  <2> QED BY <2>2, <2>3
<1>4. FreshRequests'
  BY <1>1 DEF FreshRequests
<1>5. NewestScanWaits'
  <2> SUFFICES ASSUME NEW s \in Scanners
               PROVE  /\ pc'[s] # "backoff"
                      /\ Awaiting(s)' =>
                           /\ getterLock' = s
                           /\ \A q \in DOMAIN waiters'["dino_scan"] : q <= req[s]
    BY DEF NewestScanWaits
  <2>1. s \in Callers /\ "dino_scan" \in Types
    BY DEF Callers, Types
  <2> QED BY <2>1, <1>1 DEF NewestScanWaits
<1>6. ScanInFlightHasWaiter'
  <2> SUFFICES ASSUME NEW q \in DOMAIN inFlight["dino_scan"]
               PROVE  /\ q \in DOMAIN waiters'["dino_scan"]
                      /\ waiters'["dino_scan"][q].age = inFlight["dino_scan"][q]
    BY DEF ScanInFlightHasWaiter
  <2>1. /\ q \in DOMAIN waiters["dino_scan"]
        /\ waiters["dino_scan"][q].age = inFlight["dino_scan"][q]
        /\ "dino_scan" \in Types
    BY DEF ScanInFlightHasWaiter, Types
  <2>2. CASE c \in Scanners /\ q = req[c]
    BY <2>1, <2>2
  <2>3. CASE c \in Players \/ q # req[c]
    <3>1. ~ ("dino_scan" = TypeOf(c) /\ q = req[c])
      BY <2>3 DEF TypeOf
    <3> QED BY <2>1, <3>1
  <2> QED BY <2>2, <2>3 DEF Callers
<1>7. LiveIsAwaited'
  <2> SUFFICES ASSUME NEW u \in Types, NEW q \in DOMAIN waiters'[u],
                      waiters'[u][q].mark = "live"
               PROVE  \E d \in Callers : /\ TypeOf(d) = u /\ Awaiting(d)'
                                         /\ req[d] = q /\ fut'[d] = 0
    BY DEF LiveIsAwaited
  <2>1. CASE Awaiting(c)
    <3>1. ~ (u = TypeOf(c) /\ q = req[c]) /\ q \in DOMAIN waiters[u]
      BY <2>1
    <3>2. waiters[u][q].mark = "live"
      BY <3>1
    <3>3. PICK d \in Callers : TypeOf(d) = u /\ Awaiting(d) /\ req[d] = q /\ fut[d] = 0
      BY <3>1, <3>2 DEF LiveIsAwaited
    <3>4. d # c
      BY <3>1, <3>3
    <3> QED BY <3>3, <3>4 DEF Awaiting
  <2>2. CASE ~ Awaiting(c)
    <3>1. PICK d \in Callers : TypeOf(d) = u /\ Awaiting(d) /\ req[d] = q /\ fut[d] = 0
      BY <2>2 DEF LiveIsAwaited
    <3>2. d # c
      BY <2>2, <3>1
    <3> QED BY <3>1, <3>2 DEF Awaiting
  <2> QED BY <2>1, <2>2
<1> QED BY <1>2, <1>3, <1>4, <1>5, <1>6, <1>7

\* A reply reaches the waiter it was meant for, or only a spent one.
LEMMA ReplyStep ==
  ASSUME IInv, NEW t \in Types, NEW r \in DOMAIN inFlight[t], Reply(t, r)
  PROVE  /\ OwnReply' /\ AwaitedIsRegistered' /\ FreshRequests'
         /\ NewestScanWaits' /\ ScanInFlightHasWaiter' /\ LiveIsAwaited'
<1> DEFINE left == IF Echoes(t) THEN DOMAIN waiters[t] ELSE Front(t)
<1> USE DEF IInv
<1>1. /\ FifoTypeOK /\ CallTypeOK /\ r \in Nat /\ r # 0
      /\ \A u \in Types : \A q \in DOMAIN waiters[u] : q \in Nat
      /\ UNCHANGED <<pc, req, getterLock>>
  BY DEF TypeInv, TypeOK, FifoTypeOK, Reply
<1>2. /\ \A u \in Types \ {t} : waiters'[u] = waiters[u]
      /\ waiters'[t] = [q \in left \ Matches(t, r) |-> waiters[t][q]]
      /\ left \subseteq DOMAIN waiters[t]
  BY <1>1 DEF Reply, Popped, FifoTypeOK, Front
<1>3. \A c \in Callers : fut'[c] = IF c \in Receivers(t, r) THEN r ELSE fut[c]
  BY DEF Reply
\* Entries that go are spent, or are popped for their own caller.
<1>4. ASSUME NEW q \in DOMAIN waiters[t], waiters[t][q].mark = "live"
      PROVE  q \in left
  BY <1>1, <1>4 DEF Front, Expired
\* On the FIFO path, the head is no newer than the request answered.
<1>5. ASSUME NEW c \in Receivers(t, r)
      PROVE  req[c] = r
  <2>1. /\ c \in Callers /\ TypeOf(c) = t /\ Awaiting(c)
        /\ req[c] \in Matches(t, r)
    BY DEF Receivers
  <2>2. CASE Echoes(t)
    BY <2>1, <2>2 DEF Matches
  <2>3. CASE ~ Echoes(t)
    <3>1. t = "dino_scan" /\ c \in Scanners
      BY <2>1, <2>3 DEF Echoes, Types, TypeOf, Callers
    <3>2. /\ r \in DOMAIN waiters["dino_scan"]
          /\ waiters["dino_scan"][r].age <= ReplyLateness
          /\ waiters["dino_scan"][r].age \in Nat
      BY <3>1, <1>1 DEF ScanInFlightHasWaiter, FifoTypeOK, Types
    <3>3. ~ Expired(waiters["dino_scan"][r])
      BY <3>2, LatenessAssumption DEF Expired
    <3>4. r \in Front(t)
      BY <3>1, <3>2, <3>3, <1>1 DEF Front
    <3>5. req[c] <= r
      BY <2>1, <2>3, <3>4 DEF Matches
    <3>6. r <= req[c]
      BY <2>1, <3>1, <3>2 DEF NewestScanWaits
    <3> QED BY <3>5, <3>6, <1>1, <2>1 DEF CallTypeOK
  <2> QED BY <2>2, <2>3
<1>6. OwnReply'
  BY <1>1, <1>3, <1>5 DEF OwnReply
<1>7. AwaitedIsRegistered'
  <2> SUFFICES ASSUME NEW c \in Callers, Awaiting(c)', fut'[c] = 0
               PROVE  /\ req[c] \in DOMAIN waiters'[TypeOf(c)]
                      /\ waiters'[TypeOf(c)][req[c]].mark = "live"
    BY <1>1 DEF AwaitedIsRegistered
  <2>1. /\ Awaiting(c) /\ c \notin Receivers(t, r) /\ fut[c] = 0
        /\ TypeOf(c) \in Types
    BY <1>1, <1>3 DEF Awaiting, TypeOf, Types
  <2>2. /\ req[c] \in DOMAIN waiters[TypeOf(c)]
        /\ waiters[TypeOf(c)][req[c]].mark = "live"
    BY <2>1 DEF AwaitedIsRegistered
  <2>3. CASE TypeOf(c) = t
    <3>1. req[c] \notin Matches(t, r)
      BY <2>1, <2>2, <2>3 DEF Receivers
    <3> QED BY <2>2, <2>3, <3>1, <1>2, <1>4
  <2>4. CASE TypeOf(c) # t
    BY <2>1, <2>2, <2>4, <1>2
  <2> QED BY <2>3, <2>4
<1>8. FreshRequests'
  BY <1>1 DEF FreshRequests, Awaiting
<1>9. NewestScanWaits'
  <2>1. DOMAIN waiters'["dino_scan"] \subseteq DOMAIN waiters["dino_scan"]
    BY <1>2 DEF Types
  <2> QED BY <2>1, <1>1 DEF NewestScanWaits, Awaiting
<1>10. ScanInFlightHasWaiter'
  <2> SUFFICES ASSUME NEW q \in DOMAIN inFlight'["dino_scan"]
               PROVE  /\ q \in DOMAIN waiters'["dino_scan"]
                      /\ waiters'["dino_scan"][q].age = inFlight'["dino_scan"][q]
    BY DEF ScanInFlightHasWaiter
  <2>1. /\ q \in DOMAIN inFlight["dino_scan"]
        /\ inFlight'["dino_scan"][q] = inFlight["dino_scan"][q]
        /\ t = "dino_scan" => q # r
    BY <1>1 DEF Reply, Without, FifoTypeOK, Types
  <2>2. /\ q \in DOMAIN waiters["dino_scan"]
        /\ waiters["dino_scan"][q].age = inFlight["dino_scan"][q]
        /\ waiters["dino_scan"][q].age <= ReplyLateness
        /\ waiters["dino_scan"][q].age \in Nat
    BY <2>1, <1>1 DEF ScanInFlightHasWaiter, FifoTypeOK, Types
  <2>3. CASE t = "dino_scan"
    <3>1. ~ Echoes(t) /\ r < q /\ q \in Nat
      BY <2>1, <2>2, <2>3, <1>1 DEF Reply, Echoes
    <3>2. q \in Front(t) /\ r \in Front(t)
      <4>1. ~ Expired(waiters[t][q])
        BY <2>2, <2>3, LatenessAssumption DEF Expired
      <4>2. /\ r \in DOMAIN waiters[t]
            /\ waiters[t][r].age <= ReplyLateness /\ waiters[t][r].age \in Nat
        BY <2>3, <1>1 DEF ScanInFlightHasWaiter, FifoTypeOK, Types
      <4>3. ~ Expired(waiters[t][r])
        BY <4>2, LatenessAssumption DEF Expired
      <4> QED BY <2>2, <2>3, <4>1, <4>2, <4>3, <1>1 DEF Front
    <3>3. q \notin Matches(t, r)
      BY <3>1, <3>2, <1>1 DEF Matches
    <3> QED BY <2>1, <2>2, <2>3, <3>1, <3>2, <3>3, <1>2
  <2>4. CASE t # "dino_scan"
    BY <2>1, <2>2, <2>4, <1>2 DEF Types
  <2> QED BY <2>3, <2>4
<1>11. LiveIsAwaited'
  <2> SUFFICES ASSUME NEW u \in Types, NEW q \in DOMAIN waiters'[u],
                      waiters'[u][q].mark = "live"
               PROVE  \E d \in Callers : /\ TypeOf(d) = u /\ Awaiting(d)'
                                         /\ req[d] = q /\ fut'[d] = 0
    BY <1>1 DEF LiveIsAwaited
  <2>1. /\ q \in DOMAIN waiters[u] /\ waiters[u][q].mark = "live"
        /\ u = t => q \notin Matches(t, r)
    BY <1>2
  <2>2. PICK d \in Callers : TypeOf(d) = u /\ Awaiting(d) /\ req[d] = q /\ fut[d] = 0
    BY <2>1 DEF LiveIsAwaited
  <2>3. d \notin Receivers(t, r)
    BY <2>1, <2>2 DEF Receivers
  <2> QED BY <2>2, <2>3, <1>1, <1>3 DEF Awaiting
<1> QED BY <1>6, <1>7, <1>8, <1>9, <1>10, <1>11

\* The link going down cancels the scan that waits and clears what is in flight.
LEMMA LinkDownStep ==
  ASSUME IInv, LinkDown
  PROVE  /\ OwnReply' /\ AwaitedIsRegistered' /\ FreshRequests'
         /\ NewestScanWaits' /\ ScanInFlightHasWaiter' /\ LiveIsAwaited'
<1> DEFINE cut == {s \in Scanners : Awaiting(s)}
<1> USE DEF IInv
<1>1. /\ FifoTypeOK /\ CallTypeOK
      /\ req' = req
      /\ \A c \in Callers : pc'[c] = IF c \in cut THEN "idle" ELSE pc[c]
      /\ \A c \in Callers : fut'[c] = IF c \in cut THEN 0 ELSE fut[c]
  BY DEF TypeInv, TypeOK, LinkDown
<1>2. /\ inFlight' = [t \in Types |-> NoEntries]
      /\ waiters' = [waiters EXCEPT !["dino_scan"] =
                       [r \in DOMAIN @ |->
                          IF r \in {req[s] : s \in cut}
                          THEN [@[r] EXCEPT !.mark = "cancelled"] ELSE @[r]]]
  BY DEF LinkDown
<1>3. /\ waiters'["getter"] = waiters["getter"]
      /\ DOMAIN waiters'["dino_scan"] = DOMAIN waiters["dino_scan"]
      /\ \A r \in DOMAIN waiters["dino_scan"] :
           /\ r \in {req[s] : s \in cut} => waiters'["dino_scan"][r].mark = "cancelled"
           /\ r \notin {req[s] : s \in cut} =>
                waiters'["dino_scan"][r] = waiters["dino_scan"][r]
  <2>1. "dino_scan" \in DOMAIN waiters /\ "getter" \in DOMAIN waiters
    BY <1>1 DEF FifoTypeOK, Types
  <2>2. \A r \in DOMAIN waiters["dino_scan"] : waiters["dino_scan"][r] \in Entry
    BY <1>1 DEF FifoTypeOK, Types
  <2> HIDE DEF cut
  <2> QED BY <2>1, <2>2, <1>2 DEF Entry
<1>4. \A c \in Callers : Awaiting(c)' => /\ Awaiting(c) /\ c \in Players
                                         /\ c \notin cut /\ TypeOf(c) = "getter"
  BY <1>1 DEF Awaiting, Callers, TypeOf
<1>5. OwnReply'
  BY <1>1 DEF OwnReply
<1>6. AwaitedIsRegistered'
  BY <1>1, <1>3, <1>4 DEF AwaitedIsRegistered
<1>7. FreshRequests'
  BY <1>1, <1>4 DEF FreshRequests
<1>8. NewestScanWaits'
  BY <1>1, <1>4 DEF NewestScanWaits, Callers
<1>9. ScanInFlightHasWaiter'
  BY <1>2 DEF ScanInFlightHasWaiter, NoEntries, Types
<1>10. LiveIsAwaited'
  <2> SUFFICES ASSUME NEW u \in Types, NEW q \in DOMAIN waiters'[u],
                      waiters'[u][q].mark = "live"
               PROVE  \E d \in Callers : /\ TypeOf(d) = u /\ Awaiting(d)'
                                         /\ req[d] = q /\ fut'[d] = 0
    BY <1>1 DEF LiveIsAwaited
  <2>1. q \in DOMAIN waiters[u] /\ waiters[u][q].mark = "live"
    BY <1>3 DEF Types
  <2>2. PICK d \in Callers : TypeOf(d) = u /\ Awaiting(d) /\ req[d] = q /\ fut[d] = 0
    BY <2>1 DEF LiveIsAwaited
  <2>3. d \notin cut
    BY <2>1, <2>2, <1>3 DEF TypeOf
  <2> QED BY <2>2, <2>3, <1>1 DEF Awaiting
<1> QED BY <1>5, <1>6, <1>7, <1>8, <1>9, <1>10

\* Time passes: a scan and its waiter grow older together.
LEMMA TickStep ==
  ASSUME IInv, Tick
  PROVE  /\ OwnReply' /\ AwaitedIsRegistered' /\ FreshRequests'
         /\ NewestScanWaits' /\ ScanInFlightHasWaiter' /\ LiveIsAwaited'
<1> USE DEF IInv
<1>1. FifoTypeOK /\ UNCHANGED <<pc, req, fut, getterLock>>
  BY DEF TypeInv, TypeOK, Tick
<1>2. ASSUME NEW t \in Types
      PROVE  /\ DOMAIN waiters'[t] = DOMAIN waiters[t]
             /\ \A r \in DOMAIN waiters[t] :
                  /\ waiters'[t][r].mark = waiters[t][r].mark
                  /\ waiters[t][r].age <= Lateness =>
                       waiters'[t][r].age = waiters[t][r].age + 1
  BY <1>1 DEF Tick, Older, FifoTypeOK, Entry
<1>3. OwnReply'
  BY <1>1 DEF OwnReply
<1>4. AwaitedIsRegistered'
  BY <1>1, <1>2 DEF AwaitedIsRegistered, Awaiting, TypeOf, Types
<1>5. FreshRequests'
  BY <1>1 DEF FreshRequests, Awaiting
<1>6. NewestScanWaits'
  BY <1>1, <1>2 DEF NewestScanWaits, Awaiting, Types
<1>7. ScanInFlightHasWaiter'
  <2> SUFFICES ASSUME NEW q \in DOMAIN inFlight'["dino_scan"]
               PROVE  /\ q \in DOMAIN waiters'["dino_scan"]
                      /\ waiters'["dino_scan"][q].age = inFlight'["dino_scan"][q]
    BY DEF ScanInFlightHasWaiter
  <2>1. /\ q \in DOMAIN inFlight["dino_scan"]
        /\ inFlight["dino_scan"][q] < ReplyLateness
        /\ inFlight'["dino_scan"][q] = inFlight["dino_scan"][q] + 1
    BY DEF Tick, StillInFlight, Echoes, Types
  <2>2. /\ q \in DOMAIN waiters["dino_scan"]
        /\ waiters["dino_scan"][q].age = inFlight["dino_scan"][q]
        /\ inFlight["dino_scan"][q] \in Nat
    BY <2>1, <1>1 DEF ScanInFlightHasWaiter, FifoTypeOK, Types
  <2> QED BY <2>1, <2>2, <1>2, LatenessAssumption DEF Types
<1>8. LiveIsAwaited'
  BY <1>1, <1>2 DEF LiveIsAwaited, Awaiting
<1> QED BY <1>3, <1>4, <1>5, <1>6, <1>7, <1>8

\* The invariant is inductive.
LEMMA InvStep == IInv /\ [Next]_vars => IInv'
<1> SUFFICES ASSUME IInv, [Next]_vars
             PROVE  IInv'
  OBVIOUS
<1> DEFINE Rest == /\ OwnReply /\ AwaitedIsRegistered /\ FreshRequests
                   /\ NewestScanWaits /\ ScanInFlightHasWaiter /\ LiveIsAwaited
<1> SUFFICES Rest'
  BY TypeStep DEF IInv
<1>0. /\ TypeInv /\ TypeInv' /\ FifoTypeOK /\ CallTypeOK
      /\ \A c \in Callers : TypeOf(c) \in Types
      /\ Players \subseteq Callers /\ Scanners \subseteq Callers
      /\ \A p \in Players : TypeOf(p) = "getter"
      /\ \A s \in Scanners : TypeOf(s) = "dino_scan"
  BY TypeStep DEF IInv, TypeInv, TypeOK, TypeOf, Types, Callers
<1>1. ASSUME NEW p \in Players, BeginGetter(p)
      PROVE  Rest'
  BY <1>0, <1>1, QueryStep DEF BeginGetter, Begin, Awaiting, TypeInv
<1>2. ASSUME NEW s \in Scanners, BeginScan(s)
      PROVE  Rest'
  BY <1>0, <1>2, QueryStep DEF BeginScan, Begin, Awaiting, TypeInv
<1>3. ASSUME NEW p \in Players, Retry(p)
      PROVE  Rest'
  <2>1. onLink[p] \in BOOLEAN
    BY <1>0 DEF CallTypeOK
  <2> QED BY <2>1, <1>0, <1>3, QueryStep DEF Retry, Awaiting, TypeInv
<1>4. ASSUME NEW c \in Callers, Sent(c)
      PROVE  Rest'
  <2>1. /\ UNCHANGED <<waiters, inFlight, req, fut, getterLock>>
        /\ \A d \in Callers : Awaiting(d)' = Awaiting(d)
        /\ \A d \in Callers : pc'[d] = "backoff" => pc[d] = "backoff"
    BY <1>0, <1>4 DEF Sent, Awaiting, CallTypeOK
  <2> QED BY <2>1, <1>0 DEF IInv, OwnReply, AwaitedIsRegistered, FreshRequests,
             NewestScanWaits, ScanInFlightHasWaiter, LiveIsAwaited
<1>5. ASSUME NEW c \in Callers, Resume(c)
      PROVE  Rest'
  <2>1. /\ ~ Awaiting(c)' /\ pc'[c] # "backoff" /\ Awaiting(c)
        /\ UNCHANGED <<waiters, inFlight, req, fut>>
        /\ \A d \in Callers \ {c} : pc'[d] = pc[d]
        /\ getterLock' = IF getterLock = c THEN None ELSE getterLock
    BY <1>0, <1>5 DEF Resume, End, Awaiting, CallTypeOK
  <2>2. \A q \in DOMAIN waiters[TypeOf(c)] :
          q = req[c] => waiters[TypeOf(c)][q].mark # "live"
    BY <2>1, <1>0, <1>5 DEF IInv, LiveIsAwaited, FreshRequests, Resume
  <2> QED BY <2>1, <2>2, <1>0, LeaveStep
<1>6. ASSUME NEW p \in Players, FirstTimeout(p)
      PROVE  Rest'
  <2>1. /\ ~ Awaiting(p)' /\ Awaiting(p)
        /\ UNCHANGED <<inFlight, req, getterLock>> /\ fut'[p] = 0
        /\ \A d \in Callers \ {p} : pc'[d] = pc[d] /\ fut'[d] = fut[d]
    BY <1>0, <1>6 DEF FirstTimeout, TimeIsUp, Awaiting, CallTypeOK
  <2>2. /\ waiters'["getter"] = [q \in DOMAIN waiters["getter"] \ {req[p]} |->
                                   waiters["getter"][q]]
        /\ waiters'["dino_scan"] = waiters["dino_scan"]
    BY <1>0, <1>6 DEF FirstTimeout, Without, FifoTypeOK, Types
  <2>3. p \notin Scanners
    OBVIOUS
  <2> QED BY <2>1, <2>2, <2>3, <1>0, LeaveStep DEF Types
<1>7. ASSUME NEW c \in Callers, NEW m \in Marks \ {"live"},
             ~ Awaiting(c)', pc'[c] # "backoff", Awaiting(c),
             waiters' = Mark(TypeOf(c), req[c], m),
             UNCHANGED <<inFlight, req>>, fut'[c] = 0,
             \A d \in Callers \ {c} : pc'[d] = pc[d] /\ fut'[d] = fut[d],
             getterLock' = IF getterLock = c THEN None ELSE getterLock
      PROVE  Rest'
  <2>1. /\ \A u \in Types : DOMAIN waiters'[u] = DOMAIN waiters[u]
        /\ \A u \in Types : \A q \in DOMAIN waiters[u] :
             /\ ~ (u = TypeOf(c) /\ q = req[c]) => waiters'[u][q] = waiters[u][q]
             /\ (u = TypeOf(c) /\ q = req[c]) =>
                  /\ waiters'[u][q].mark = m
                  /\ waiters'[u][q].age = waiters[u][q].age
    BY <1>0, <1>7 DEF Mark, FifoTypeOK, Entry
  <2>2. "dino_scan" \in Types
    BY DEF Types
  <2> QED BY <2>1, <2>2, <1>0, <1>7, LeaveStep
<1>8. ASSUME NEW c \in Callers, LastTimeout(c) \/ SendFails(c)
      PROVE  Rest'
  <2>1. Abandon(c) /\ Awaiting(c)
    BY <1>8 DEF LastTimeout, SendFails, TimeIsUp, Awaiting
  <2> QED BY <2>1, <1>0, <1>7 DEF Abandon, End, Awaiting, CallTypeOK, Marks
<1>9. ASSUME NEW p \in Players, Cancel(p)
      PROVE  Rest'
  <2>1. /\ ~ Awaiting(p)' /\ pc'[p] # "backoff" /\ p \notin Scanners
        /\ UNCHANGED <<inFlight, req>> /\ fut'[p] = 0
        /\ \A d \in Callers \ {p} : pc'[d] = pc[d] /\ fut'[d] = fut[d]
        /\ getterLock' = IF getterLock = p THEN None ELSE getterLock
    BY <1>0, <1>9 DEF Cancel, End, Awaiting, CallTypeOK
  <2>2. CASE Awaiting(p)
    BY <2>1, <2>2, <1>0, <1>7, <1>9 DEF Cancel, Marks
  <2>3. CASE ~ Awaiting(p)
    BY <2>1, <2>3, <1>0, <1>9, LeaveStep DEF Cancel
  <2> QED BY <2>2, <2>3
<1>10. ASSUME NEW t \in Types, NEW r \in DOMAIN inFlight[t], Reply(t, r)
       PROVE  Rest'
  BY <1>10, ReplyStep
<1>11. ASSUME NEW t \in Types, NEW r \in DOMAIN inFlight[t], LoseReply(t, r)
       PROVE  Rest'
  <2>1. \A q \in DOMAIN inFlight'["dino_scan"] :
          /\ q \in DOMAIN inFlight["dino_scan"]
          /\ inFlight'["dino_scan"][q] = inFlight["dino_scan"][q]
    BY <1>0, <1>11 DEF LoseReply, Without, FifoTypeOK, Types
  <2> QED BY <2>1, <1>11 DEF LoseReply, callVars, IInv, OwnReply, AwaitedIsRegistered,
             FreshRequests, NewestScanWaits, ScanInFlightHasWaiter, LiveIsAwaited, Awaiting
<1>12. CASE LinkDown
  BY <1>12, LinkDownStep
<1>13. CASE LinkUp
  BY <1>13 DEF LinkUp, callVars, IInv, OwnReply, AwaitedIsRegistered,
     FreshRequests, NewestScanWaits, ScanInFlightHasWaiter, LiveIsAwaited, Awaiting
<1>14. CASE Tick
  BY <1>14, TickStep
<1>15. CASE UNCHANGED vars
  BY <1>15 DEF vars, callVars, IInv, OwnReply, AwaitedIsRegistered,
     FreshRequests, NewestScanWaits, ScanInFlightHasWaiter, LiveIsAwaited, Awaiting
<1> QED
  BY <1>1, <1>2, <1>3, <1>4, <1>5, <1>6, <1>8, <1>9, <1>10, <1>11, <1>12, <1>13, <1>14, <1>15
     DEF Next

\* The initial state satisfies the inductive invariant.
LEMMA InvInit == Init => IInv
BY DEF Init, IInv, TypeInv, TypeOK, FifoTypeOK, CallTypeOK, FirstBackoff, Types, NoEntries,
       OwnReply, AwaitedIsRegistered, FreshRequests, NewestScanWaits,
       ScanInFlightHasWaiter, LiveIsAwaited, Awaiting, Callers

\* The inductive invariant holds throughout.
LEMMA Invariance == Spec => []IInv
BY InvInit, InvStep, PTL DEF Spec

\* No caller's future ever holds another request's reply.
THEOREM NoCrossDelivery == Spec => []OwnReply
<1>1. IInv => OwnReply
  BY DEF IInv
<1> QED BY <1>1, Invariance, PTL

\* A caller that waits without a reply keeps its live waiter.
THEOREM NobodyWaitsInVain == Spec => []AwaitedIsRegistered
<1>1. IInv => AwaitedIsRegistered
  BY DEF IInv
<1> QED BY <1>1, Invariance, PTL

\* The lock leaves at most one scan with a live waiter.
THEOREM ScansAreSerial == Spec => []OneLiveScan
<1>1. IInv => OneLiveScan
  <2> SUFFICES ASSUME IInv, NEW r \in DOMAIN waiters["dino_scan"],
                      NEW q \in DOMAIN waiters["dino_scan"],
                      waiters["dino_scan"][r].mark = "live",
                      waiters["dino_scan"][q].mark = "live"
               PROVE  r = q
    BY DEF OneLiveScan
  <2>1. ASSUME NEW x \in DOMAIN waiters["dino_scan"], waiters["dino_scan"][x].mark = "live"
        PROVE  \E s \in Scanners : Awaiting(s) /\ req[s] = x
    BY <2>1 DEF IInv, LiveIsAwaited, Types, TypeOf, Callers
  <2>2. PICK s \in Scanners : Awaiting(s) /\ req[s] = r
    BY <2>1
  <2>3. PICK u \in Scanners : Awaiting(u) /\ req[u] = q
    BY <2>1
  <2>4. s = u
    BY <2>2, <2>3 DEF IInv, NewestScanWaits
  <2> QED BY <2>2, <2>3, <2>4
<1> QED BY <1>1, Invariance, PTL

\* A getter's reply reaches the getter that waits for it.
THEOREM RepliesArrive == Spec => PromptReply
<1> DEFINE Arrives == \A p \in Players :
             (Awaiting(p) /\ fut[p] = 0 /\ Reply("getter", req[p])) => fut'[p] = req[p]
<1>1. ASSUME IInv PROVE Arrives
  <2> SUFFICES ASSUME NEW p \in Players, Awaiting(p), fut[p] = 0, Reply("getter", req[p])
               PROVE  fut'[p] = req[p]
    OBVIOUS
  <2>1. /\ p \in Callers /\ TypeOf(p) = "getter"
        /\ req[p] \in DOMAIN waiters["getter"]
        /\ waiters["getter"][req[p]].mark = "live"
    BY <1>1 DEF IInv, AwaitedIsRegistered, Callers, TypeOf
  <2>2. p \in Receivers("getter", req[p])
    BY <2>1 DEF Receivers, Matches, Echoes
  <2> QED BY <2>1, <2>2 DEF Reply
<1>2. IInv => [Arrives]_vars
  BY <1>1
<1> QED BY <1>2, Invariance, PTL DEF PromptReply
=============================================================================
