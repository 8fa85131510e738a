---------------------------- MODULE ReplyPacing -----------------------------
(***************************************************************************)
(* Replies on the server link (server.py, _send_reply_paced).              *)
(*                                                                         *)
(* The mod shows every reply through one replicated variable: a value that *)
(* is overwritten within a net update is never seen by the player it is    *)
(* for.  So the bridge sends replies one at a time, under a lock, and      *)
(* waits until Gap has passed since the last send was over.  A send is     *)
(* over when the frame has been handed to the transport: it arrives at any *)
(* time from then on, or during the send, after the frames before it, or   *)
(* never, when the link drops.  A send may fail before or after that.      *)
(*                                                                         *)
(* Time is counted in ticks of the loop's clock.                           *)
(***************************************************************************)
EXTENDS Integers, Sequences

CONSTANTS
  Replies,        \* bound: replies, each sent once
  NoReply,
  Gap,            \* _REPLY_MIN_GAP_S
  MaxClock        \* bound: ticks

ASSUME PacingAssumption == NoReply \notin Replies /\ Gap \in Nat /\ MaxClock \in Nat

VARIABLES
  clock,
  lastReplySend,  \* _last_reply_send
  replyLock,      \* the reply that holds _reply_lock
  waking,         \* when it has slept enough
  reply,          \* reply -> where it is
  sentAt,         \* reply -> when its send was over
  failed,         \* replies whose send raised an exception
  wire,           \* replies in transit, in order
  shown, since    \* ReplyText, and when it was set

sendVars == <<lastReplySend, replyLock, waking, reply, sentAt, failed>>
pacingVars == <<clock, sendVars, wire, shown, since>>

ReplyStages == {"none", "queued", "sleeping", "sending", "done"}

PacingInit ==
  /\ clock = 0 /\ lastReplySend = -Gap       \* long ago
  /\ replyLock = NoReply /\ waking = 0
  /\ reply = [r \in Replies |-> "none"]
  /\ sentAt = [r \in Replies |-> 0] /\ failed = {}
  /\ wire = <<>> /\ shown = NoReply /\ since = 0

GoesOn(r, from, to) == reply[r] = from /\ reply' = [reply EXCEPT ![r] = to]

Bunches(r) ==
  /\ GoesOn(r, "none", "queued")
  /\ UNCHANGED <<clock, lastReplySend, replyLock, waking, sentAt, failed, wire, shown, since>>

\* Mutant of ReplyLockIsFree: no lock.
ReplyLockIsFreeAlways == TRUE

ReplyLockIsFree == replyLock = NoReply

\* The wait is computed once, from what is the last send now.
GetsLock(r) ==
  /\ ReplyLockIsFree
  /\ GoesOn(r, "queued", "sleeping")
  /\ replyLock' = r
  /\ waking' = lastReplySend + Gap
  /\ UNCHANGED <<clock, lastReplySend, sentAt, failed, wire, shown, since>>

\* It has slept enough: the frame is handed to the transport, which may hold the send back.
Wakes(r) ==
  /\ clock >= waking
  /\ GoesOn(r, "sleeping", "sending")
  /\ wire' = Append(wire, r)
  /\ UNCHANGED <<clock, lastReplySend, replyLock, waking, sentAt, failed, shown, since>>

Sent(r) ==
  /\ GoesOn(r, "sending", "done")
  /\ lastReplySend' = clock
  /\ sentAt' = [sentAt EXCEPT ![r] = clock]
  /\ replyLock' = NoReply
  /\ UNCHANGED <<clock, waking, failed, wire, shown, since>>

\* An exception, before the frame is handed over or after: _last_reply_send is not moved.
SendRaises(r) ==
  /\ \/ GoesOn(r, "sleeping", "done") /\ clock >= waking
     \/ GoesOn(r, "sending", "done")
  /\ failed' = failed \cup {r}
  /\ replyLock' = NoReply
  /\ UNCHANGED <<clock, lastReplySend, waking, sentAt, wire, shown, since>>

\* A frame reaches the mod, which overwrites ReplyText.
Arrives ==
  /\ wire # <<>>
  /\ shown' = Head(wire) /\ since' = clock
  /\ wire' = Tail(wire)
  /\ UNCHANGED <<clock, sendVars>>

\* The link drops with all that was on its way.
WireIsLost ==
  /\ wire' = <<>>
  /\ UNCHANGED <<clock, sendVars, shown, since>>

ClockTicks ==
  /\ clock < MaxClock
  /\ clock' = clock + 1
  /\ UNCHANGED <<sendVars, wire, shown, since>>

PacingNext ==
  \/ \E r \in Replies : Bunches(r) \/ GetsLock(r) \/ Wakes(r) \/ Sent(r) \/ SendRaises(r)
  \/ Arrives \/ WireIsLost \/ ClockTicks

PacingSpec == PacingInit /\ [][PacingNext]_pacingVars

-----------------------------------------------------------------------------
(* Properties *)

PacingTypeOK ==
  /\ clock \in 0 .. MaxClock /\ lastReplySend \in -Gap .. MaxClock
  /\ since \in 0 .. MaxClock /\ waking \in 0 .. MaxClock + Gap
  /\ {replyLock, shown} \subseteq Replies \cup {NoReply}
  /\ reply \in [Replies -> ReplyStages]
  /\ sentAt \in [Replies -> 0 .. MaxClock] /\ failed \subseteq Replies
  /\ wire \in Seq(Replies)

\* How long the network held r, which is shown, after its send was over.
HeldBack(r) == IF since > sentAt[r] THEN since - sentAt[r] ELSE 0

\* "each value persists >= a net-update so it replicates to its target client first":
\* a reply that was sent without an error is overwritten only when it has been shown
\* for Gap, less what the network held it back, however replies bunch up, however long
\* their sends take and whenever they arrive.  One that arrived by the end of its send
\* is shown for all of Gap.
RepliesLast ==
  [][shown' # shown /\ shown \notin failed \cup {NoReply} =>
       reply[shown] = "done" /\ clock - since >= Gap - HeldBack(shown)]_pacingVars
=============================================================================
