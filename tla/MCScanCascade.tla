---------------------------- MODULE MCScanCascade ----------------------------
(***************************************************************************)
(* GetterCorrelation without players or link drops, in ticks of 2.5 s: a   *)
(* scan waits 5 s (2 ticks), a tombstone is purged after 12 s (4 ticks),   *)
(* and the mod loses exactly one scan's reply.                             *)
(***************************************************************************)
EXTENDS GetterCorrelation

VARIABLE lossAge   \* ticks since the lost scan was sent, or None

ScanLost == \E r \in DOMAIN inFlight["dino_scan"] : LoseReply("dino_scan", r)

HistoryInit == Init /\ lossAge = None

\* Nothing else is late: sends do not block, timeouts fire on time, and every
\* other scan is answered within ReplyLateness.
Prompt ==
  /\ \A s \in Scanners : pc[s] # "sending" /\ ~ TimeIsUp(s)
  /\ \A r \in DOMAIN inFlight["dino_scan"] : inFlight["dino_scan"][r] < ReplyLateness

HistoryNext ==
  \/ /\ lossAge = None
     /\ \E r \in DOMAIN inFlight["dino_scan"] :
          LoseReply("dino_scan", r) /\ lossAge' = inFlight["dino_scan"][r]
  \/ /\ Tick /\ Prompt
     /\ lossAge' = IF lossAge \in 0 .. Lateness THEN lossAge + 1 ELSE lossAge
  \/ /\ Next /\ ~ Tick /\ ~ ScanLost
     /\ UNCHANGED lossAge

HistorySpec == HistoryInit /\ [][HistoryNext]_<<vars, lossAge>>

\* The reply to a scan that still waits is spent on an older scan's tombstone.
OwnReplyEaten(s) ==
  /\ Awaiting(s) /\ fut[s] = 0
  /\ req[s] \in DOMAIN inFlight["dino_scan"]
  /\ Reply("dino_scan", req[s])
  /\ fut'[s] = 0

\* The one lost reply does no harm once its tombstone is due to be purged: "a
\* never-arriving (lost) reply can't eat the next getter's reply indefinitely"
\* (server.py, at _GETTER_REPLY_LATENESS).  Only an unanswered scan is purged, so
\* a scan whose reply was eaten leaves a tombstone of its own and passes it on.
LossIsForgotten ==
  [][\A s \in Scanners : OwnReplyEaten(s) => lossAge \in 0 .. Lateness]_<<vars, lossAge>>
=============================================================================
