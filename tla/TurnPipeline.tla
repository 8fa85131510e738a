---------------------------- MODULE TurnPipeline ----------------------------
(***************************************************************************)
(* A chat message's way through the bridge (server.py, session.py).        *)
(*                                                                         *)
(* Every message of the server link becomes a turn task, up to             *)
(* MaxInflight of them; beyond, it is shed.  A turn finds or makes its     *)
(* player's session, is let through or turned away by the rate limiter,    *)
(* takes the session's lock and then one of MaxRunning slots, assembles    *)
(* its context, runs the agent for at most _TURN_WALLCLOCK_TIMEOUT, gives  *)
(* slot and lock back, writes its rows and answers.  Sessions live in one  *)
(* map with a cap: a new one evicts the least recently active among those  *)
(* whose lock is free, and a cleanup removes what was idle for an hour,    *)
(* locked or not.  The map also holds the link's own session.              *)
(*                                                                         *)
(* Turns and sessions are numbered as they begin.  Of Session.last_active  *)
(* only the order is kept (older), and whether it is an hour ago (aged).   *)
(***************************************************************************)
EXTENDS Naturals, FiniteSets

CONSTANTS
  Players,       \* canonical requester ids
  Link,          \* the key of the link's own session, "server-link"
  MaxInflight,   \* _MAX_INFLIGHT_TURNS
  MaxRunning,    \* the value of _turn_semaphore
  MaxSessions,   \* SessionManager._max_sessions
  MaxMessages,   \* bound: messages received
  MaxLinks       \* bound: times the link comes up

ASSUME PlayersAssumption == IsFiniteSet(Players) /\ Link \notin Players

ASSUME LimitsAssumption ==
  /\ MaxInflight \in Nat \ {0} /\ MaxRunning \in Nat \ {0}
  /\ MaxSessions \in Nat \ {0}
  /\ MaxMessages \in Nat /\ MaxLinks \in Nat

Keys == Players \cup {Link}
Turns == 1 .. MaxMessages

VARIABLES
  received,    \* messages received so far
  pc,          \* turn -> where its task is
  player,      \* turn -> its requester
  sess,        \* turn -> the session it works on, 0 before it has one
  outcome,     \* turn -> "none", or what the agent's result was
  answers,     \* turn -> the kinds of frames sent to its requester
  lost,        \* turns whose socket has closed
  rows,        \* conversation_messages: <<turn, role>>
  sessions,    \* SessionManager._sessions: key -> session, 0 when absent
  older,       \* key -> the keys whose sessions have an earlier last_active
  aged,        \* keys whose session has been idle for an hour
  locked,      \* sessions whose lock is held
  freeSlots,   \* the semaphore's counter
  born,        \* sessions made so far
  linkUp,      \* is the server link connected?
  links        \* times the link came up

turnVars == <<received, pc, player, sess, outcome, answers, lost>>
mapVars == <<sessions, older, aged, born>>
linkVars == <<linkUp, links>>
vars == <<turnVars, rows, mapVars, locked, freeSlots, linkVars>>

Stages == {"unborn", "started", "limited", "admitted", "locking", "queued",
           "assembling", "running", "persisting", "answering", "replying",
           "failed", "done"}

Init ==
  /\ received = 0
  /\ pc = [t \in Turns |-> "unborn"]
  /\ player = [t \in Turns |-> Link]
  /\ sess = [t \in Turns |-> 0]
  /\ outcome = [t \in Turns |-> "none"]
  /\ answers = [t \in Turns |-> {}]
  /\ lost = {}
  /\ rows = {}
  /\ sessions = [k \in Keys |-> 0]
  /\ older = [k \in Keys |-> {}]
  /\ aged = {}
  /\ locked = {}
  /\ freeSlots = MaxRunning
  /\ born = 0
  /\ linkUp = FALSE
  /\ links = 0

InFlight == {t \in Turns : pc[t] \notin {"unborn", "done"}}
InSlot == {t \in Turns : pc[t] \in {"assembling", "running"}}
InLock == {t \in Turns : pc[t] \in {"queued", "assembling", "running"}}
Mapped == {k \in Keys : sessions[k] # 0}

-----------------------------------------------------------------------------
(* The session map *)

\* The sets that _evict_if_full may remove from the keys of the map: as many as
\* bring it below the cap, or all that are not locked, the least recent first.
LeastRecent(idle, over) ==
  {E \in SUBSET idle :
     /\ Cardinality(E) = IF over < Cardinality(idle) THEN over ELSE Cardinality(idle)
     /\ \A k \in E : older[k] \cap idle \subseteq E}

Over(keys) == IF Cardinality(keys) >= MaxSessions
              THEN Cardinality(keys) - MaxSessions + 1 ELSE 0

\* Mutant of Victims: it makes room only when the map is over the cap.
VictimsLate(keys) ==
  LeastRecent({k \in keys : sessions[k] \notin locked},
              IF Cardinality(keys) > MaxSessions THEN 1 ELSE 0)

\* Mutant of Victims: a session whose lock is held may go, too.
VictimsAnyone(keys) == LeastRecent(keys, Over(keys))

Victims(keys) == LeastRecent({k \in keys : sessions[k] \notin locked}, Over(keys))

\* The order of last_active when keys are in the map, and when k is the newest.
Kept(keys) == [j \in Keys |-> IF j \in keys THEN older[j] \cap keys ELSE {}]
Newest(k, keys) ==
  [j \in Keys |-> IF j = k THEN keys \ {k} ELSE Kept(keys)[j] \ {k}]

\* Evict if the map is full, then put a new session under k.
Insert(k) ==
  \E E \in Victims(Mapped \ {k}) :
    /\ born' = born + 1
    /\ sessions' = [j \in Keys |-> IF j = k THEN born + 1
                                   ELSE IF j \in E THEN 0 ELSE sessions[j]]
    /\ older' = Newest(k, Mapped \ E)
    /\ aged' = aged \ (E \cup {k})

\* get_or_create, for turn t of player p.
GetOrCreate(t, p) ==
  \/ /\ sessions[p] # 0
     /\ sess' = [sess EXCEPT ![t] = sessions[p]]
     /\ UNCHANGED mapVars
  \/ /\ sessions[p] = 0
     /\ sess' = [sess EXCEPT ![t] = born + 1]
     /\ Insert(p)

\* A message was added to t's conversation: last_active, if its session is mapped.
Touch(t) ==
  LET k == player[t] IN
  IF sessions[k] = sess[t]
  THEN /\ older' = Newest(k, Mapped)
       /\ aged' = aged \ {k}
       /\ UNCHANGED <<sessions, born>>
  ELSE UNCHANGED mapVars

\* cleanup_expired, run every minute: it does not look at the locks.
Cleanup ==
  /\ aged # {}
  /\ sessions' = [k \in Keys |-> IF k \in aged THEN 0 ELSE sessions[k]]
  /\ aged' = {}
  /\ older' = Kept(Mapped \ aged)
  /\ UNCHANGED <<turnVars, rows, born, locked, freeSlots, linkVars>>

\* An hour has passed for k's session, or will have before a message that comes
\* now is added to it: it has no turn yet, and those idle longer are aged too.
Age(k) ==
  /\ k \in Mapped \ aged
  /\ \A t \in InFlight : player[t] # k
  /\ older[k] \subseteq aged
  /\ aged' = aged \cup {k}
  /\ UNCHANGED <<turnVars, rows, sessions, older, born, locked,
                 freeSlots, linkVars>>

-----------------------------------------------------------------------------
(* The link *)

\* handle_connection: the link's session replaces an earlier one of its.
LinkUp ==
  /\ ~ linkUp
  /\ links < MaxLinks
  /\ linkUp' = TRUE
  /\ links' = links + 1
  /\ Insert(Link)
  /\ UNCHANGED <<turnVars, rows, locked, freeSlots>>

\* The socket closes and handle_connection ends.  Its turns go on without it.
LinkDown ==
  /\ linkUp
  /\ linkUp' = FALSE
  /\ lost' = lost \cup InFlight
  /\ sessions' = [sessions EXCEPT ![Link] = 0]
  /\ older' = Kept(Mapped \ {Link})
  /\ aged' = aged \ {Link}
  /\ UNCHANGED <<received, pc, player, sess, outcome, answers, rows, born, locked,
                 freeSlots, links>>

Receive(p, stage, frames) ==
  /\ linkUp
  /\ received < MaxMessages
  /\ received' = received + 1
  /\ pc' = [pc EXCEPT ![received + 1] = stage]
  /\ player' = [player EXCEPT ![received + 1] = p]
  /\ answers' = [answers EXCEPT ![received + 1] = frames]
  /\ UNCHANGED <<sess, outcome, lost, rows, mapVars, locked, freeSlots, linkVars>>

\* A player_message becomes a task.
Spawn(p) ==
  /\ Cardinality(InFlight) < MaxInflight
  /\ Receive(p, "started", {})

\* Too many turns in flight: "Sheldon is swamped".
Shed(p) ==
  /\ Cardinality(InFlight) >= MaxInflight
  /\ Receive(p, "done", {"shed"})

-----------------------------------------------------------------------------
(* A turn *)

Step(t, from, to) == pc[t] = from /\ pc' = [pc EXCEPT ![t] = to]

\* Not chat: empty, telemetry, no identity, or its socket is not the link any more.
Drop(t) ==
  /\ Step(t, "started", "done")
  /\ outcome' = [outcome EXCEPT ![t] = "dropped"]
  /\ UNCHANGED <<received, player, sess, answers, lost, rows, mapVars, locked,
                 freeSlots, linkVars>>

\* The session is found or made, and the rate limiter agrees or not.
Admit(t) ==
  /\ Step(t, "started", "admitted") \/ Step(t, "started", "limited")
  /\ GetOrCreate(t, player[t])
  /\ UNCHANGED <<received, player, outcome, answers, lost, rows, locked, freeSlots,
                 linkVars>>

\* Only the stage of t changes.
Moves(t, from, to) ==
  /\ Step(t, from, to)
  /\ UNCHANGED <<received, player, sess, outcome, answers, lost, rows, mapVars,
                 locked, freeSlots, linkVars>>

\* "thinking" is sent and the databases are open.
Think(t) == t \notin lost /\ Moves(t, "admitted", "locking")

AcquireLock(t) ==
  /\ Step(t, "locking", "queued")
  /\ sess[t] \notin locked
  /\ locked' = locked \cup {sess[t]}
  /\ UNCHANGED <<received, player, sess, outcome, answers, lost, rows, mapVars,
                 freeSlots, linkVars>>

\* Mutant of AcquireSlot: the semaphore's acquire does not wait.
AcquireSlotAtOnce(t) ==
  /\ Step(t, "queued", "assembling")
  /\ freeSlots' = freeSlots - 1
  /\ UNCHANGED <<received, player, sess, outcome, answers, lost, rows, mapVars,
                 locked, linkVars>>

AcquireSlot(t) ==
  /\ Step(t, "queued", "assembling")
  /\ freeSlots > 0
  /\ freeSlots' = freeSlots - 1
  /\ UNCHANGED <<received, player, sess, outcome, answers, lost, rows, mapVars,
                 locked, linkVars>>

\* Leaving both "async with" blocks.
Release(t) ==
  /\ locked' = locked \ {sess[t]}
  /\ freeSlots' = freeSlots + 1

\* The context is assembled and agent.run adds the player's message.
Run(t) ==
  /\ Step(t, "assembling", "running")
  /\ Touch(t)
  /\ UNCHANGED <<received, player, sess, outcome, answers, lost, rows, locked,
                 freeSlots, linkVars>>

\* Mutant of Finish: the slot is not given back.
FinishKeepsSlot(t, result) ==
  /\ Step(t, "running", "persisting")
  /\ outcome' = [outcome EXCEPT ![t] = result]
  /\ Touch(t) \/ (result = "canned" /\ UNCHANGED mapVars)
  /\ locked' = locked \ {sess[t]}
  /\ UNCHANGED <<received, player, sess, answers, lost, rows, freeSlots, linkVars>>

\* The agent returns or is cut off by the wall clock; "canned" is a result with an
\* error or a transient one, and may come without a new message.
Finish(t, result) ==
  /\ Step(t, "running", "persisting")
  /\ outcome' = [outcome EXCEPT ![t] = result]
  /\ Touch(t) \/ (result = "canned" /\ UNCHANGED mapVars)
  /\ Release(t)
  /\ UNCHANGED <<received, player, sess, answers, lost, rows, linkVars>>

\* Mutant of AssembleFails: the session's lock stays with the failed turn.
AssembleFailsLocked(t) ==
  /\ Step(t, "assembling", "failed")
  /\ freeSlots' = freeSlots + 1
  /\ UNCHANGED <<received, player, sess, outcome, answers, lost, rows, mapVars,
                 locked, linkVars>>

\* upsert_survivor or assemble raises.
AssembleFails(t) ==
  /\ Step(t, "assembling", "failed")
  /\ Release(t)
  /\ UNCHANGED <<received, player, sess, outcome, answers, lost, rows, mapVars,
                 linkVars>>

\* agent.run raises, before it has added a message or after.
RunFails(t) ==
  /\ Step(t, "running", "failed")
  /\ Touch(t) \/ UNCHANGED mapVars
  /\ Release(t)
  /\ UNCHANGED <<received, player, sess, outcome, answers, lost, rows, linkVars>>

Persist(t, role, from, to) ==
  /\ Step(t, from, to)
  /\ rows' = rows \cup {<<t, role>>}
  /\ UNCHANGED <<received, player, sess, outcome, answers, lost, mapVars, locked,
                 freeSlots, linkVars>>

\* Mutant of PersistUser: canned results go into the history as well.
PersistUserThenAny(t) == Persist(t, "user", "persisting", "answering")

\* The user's row; the assistant's follows unless the result was canned.
PersistUser(t) ==
  Persist(t, "user", "persisting", IF outcome[t] = "ok" THEN "answering" ELSE "replying")

PersistAnswer(t) == Persist(t, "assistant", "answering", "replying")

\* Mutant of Fails: the exception ends the task.
FailsSilently(t) ==
  \/ Moves(t, "admitted", "done")
  \/ Moves(t, "persisting", "done")
  \/ Moves(t, "answering", "done")

\* A database raises outside the lock.
Fails(t) ==
  \/ Moves(t, "admitted", "failed")
  \/ Moves(t, "persisting", "failed")
  \/ Moves(t, "answering", "failed")

Answer(t, from, frame) ==
  /\ Step(t, from, "done")
  /\ t \notin lost
  /\ answers' = [answers EXCEPT ![t] = @ \cup {frame}]
  /\ UNCHANGED <<received, player, sess, outcome, lost, rows, mapVars, locked,
                 freeSlots, linkVars>>

\* The paced reply, the paced refusal and the safe wrapper's error frame.
Reply(t) == Answer(t, "replying", "reply")
Refuse(t) == Answer(t, "limited", "refusal")
Apologize(t) == Answer(t, "failed", "error")

\* A send raises ConnectionClosed, which the wrapper swallows.
Closed(t) ==
  /\ t \in lost
  /\ \E from \in {"limited", "admitted", "replying", "failed"} : Moves(t, from, "done")

Next ==
  \/ LinkUp \/ LinkDown \/ Cleanup
  \/ \E k \in Keys : Age(k)
  \/ \E p \in Players : Spawn(p) \/ Shed(p)
  \/ \E t \in Turns :
       \/ Drop(t) \/ Admit(t) \/ Think(t)
       \/ AcquireLock(t) \/ AcquireSlot(t)
       \/ Run(t) \/ Finish(t, "ok") \/ Finish(t, "canned") \/ AssembleFails(t)
       \/ RunFails(t)
       \/ PersistUser(t) \/ PersistAnswer(t) \/ Fails(t)
       \/ Reply(t) \/ Refuse(t) \/ Apologize(t) \/ Closed(t)

\* What the event loop, the databases, the wall clock and the socket's keepalive
\* make happen.  Waiters of asyncio's Lock and Semaphore are served in turn.
Proceeds(t) ==
  \/ Admit(t) \/ Think(t)
  \/ Run(t) \/ Finish(t, "canned")
  \/ PersistUser(t) \/ PersistAnswer(t)
  \/ Reply(t) \/ Refuse(t) \/ Apologize(t) \/ Closed(t)

Fairness ==
  \A t \in Turns : WF_vars(Proceeds(t)) /\ SF_vars(AcquireLock(t)) /\ SF_vars(AcquireSlot(t))

Spec == Init /\ [][Next]_vars

FairSpec == Spec /\ Fairness

-----------------------------------------------------------------------------
(* Properties *)

TypeOK ==
  /\ received \in 0 .. MaxMessages
  /\ pc \in [Turns -> Stages]
  /\ player \in [Turns -> Keys]
  /\ sess \in [Turns -> 0 .. born]
  /\ outcome \in [Turns -> {"none", "dropped", "ok", "canned"}]
  /\ answers \in [Turns -> SUBSET {"shed", "reply", "refusal", "error"}]
  /\ lost \subseteq Turns
  /\ rows \subseteq Turns \X {"user", "assistant"}
  /\ sessions \in [Keys -> 0 .. born]
  /\ older \in [Keys -> SUBSET Keys]
  /\ aged \subseteq Mapped
  /\ locked \subseteq 1 .. born
  /\ freeSlots \in 0 .. MaxRunning
  /\ born \in Nat
  /\ linkUp \in BOOLEAN
  /\ links \in 0 .. MaxLinks

\* Whatever way a turn leaves them (result, timeout, exception), the lock and the
\* slot are given back: held locks and taken slots are those of turns still inside,
\* and no two of these share a session.
NothingLeaks ==
  /\ locked = {sess[t] : t \in InLock}
  /\ \A t, u \in InLock : sess[t] = sess[u] => t = u
  /\ freeSlots + Cardinality(InSlot) = MaxRunning

\* M2: the map never outgrows its cap.  Eviction gives up when every session is
\* mid-turn, which cannot happen as 64 turns are in flight at most and the cap is
\* 100 (with an equal cap a returning link would exceed it).
SessionCap == MaxInflight < MaxSessions => Cardinality(Mapped) <= MaxSessions

\* LEAK-01: while a turn holds its session's lock no newcomer evicts the session.
LockedStays ==
  [][\A t \in Turns :
       (t \in InLock /\ sessions[player[t]] = sess[t] /\ sessions'[player[t]] # sess[t])
         => Cleanup]_vars

\* A finished turn's requester got exactly one frame (reply, refusal, shed notice
\* or error), unless the message was no chat or the socket had closed.
AnsweredOnce ==
  \A t \in Turns :
    /\ Cardinality(answers[t]) <= 1
    /\ (pc[t] = "done" /\ answers[t] = {}) => outcome[t] = "dropped" \/ t \in lost

\* LEAK-02 and the order of the writes: no answer without its question in the
\* history, no canned result there, and nobody reads a reply that is not stored.
HistoryIsSound ==
  /\ \A t \in Turns : <<t, "assistant">> \in rows =>
       <<t, "user">> \in rows /\ outcome[t] = "ok"
  /\ \A t \in Turns : "reply" \in answers[t] =>
       <<t, "user">> \in rows /\ (outcome[t] = "ok" => <<t, "assistant">> \in rows)

\* Every turn ends, however slow, failing or queued behind others it is.
EveryTurnEnds == \A t \in Turns : (t \in InFlight) ~> (pc[t] = "done")

\* Two turns of one player are never inside at once: the session's lock
\* "serializes ONE player's rapid-fire turns" (server.py), and a session with
\* "an IN-FLIGHT turn" is not taken out of the map (session.py).
OneTurnPerPlayer == \A t, u \in InLock : player[t] = player[u] => t = u
=============================================================================
