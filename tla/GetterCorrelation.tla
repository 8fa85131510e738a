-------------------------- MODULE GetterCorrelation --------------------------
(***************************************************************************)
(* Request/reply correlation of the bridge's getters (server.py).          *)
(*                                                                         *)
(* A tool call (a player) asks the game mod for live data over the one     *)
(* server link and waits for a typed reply; the dino census (a scanner)    *)
(* asks for octree scans over the same link.  Every pending request has a  *)
(* waiter in the FIFO of its reply type.  The mod echoes the request id    *)
(* of a player's getter, so those run concurrently; a scan's wire has no   *)
(* id, so scans run one at a time under _getter_lock and a reply goes to   *)
(* the head of the FIFO.  A request that times out leaves a tombstone      *)
(* there, which eats its late reply and is purged once it is older than    *)
(* _GETTER_REPLY_LATENESS.                                                 *)
(*                                                                         *)
(* Request ids come from one counter, read and appended without an await   *)
(* in between, so a FIFO is written here as a function from the ids of its *)
(* waiters: its order is the order of the ids.  Times are in ticks, and an *)
(* age stops growing where the code can no longer tell the difference.     *)
(***************************************************************************)
EXTENDS Naturals, FiniteSets

CONSTANTS
  Players,         \* tool calls of players (any may overlap any other)
  Scanners,        \* census tasks (a closed link's and its successor's)
  None,            \* no holder of _getter_lock
  SendTimeout,     \* _GETTER_SEND_TIMEOUT
  GetterTimeout,   \* the 8 s a getter waits for its reply
  ScanTimeout,     \* CensusConfig.scan_timeout
  Backoff,         \* _GETTER_REAUTH_BACKOFF_S
  Lateness,        \* _GETTER_REPLY_LATENESS
  ReplyLateness,   \* a scan's reply comes within this many ticks, or never
  MaxRequests,     \* bound: no call begins after this many requests
  MaxDrops         \* bound: times the link goes down

ASSUME CallersAssumption ==
  /\ Players \cap Scanners = {}
  /\ None \notin Scanners

ASSUME TimesAssumption ==
  /\ SendTimeout \in Nat /\ GetterTimeout \in Nat /\ ScanTimeout \in Nat
  /\ Backoff \in Nat /\ Lateness \in Nat /\ ReplyLateness \in Nat
  /\ MaxRequests \in Nat /\ MaxDrops \in Nat

\* A scan answered after its tombstone was purged would go to the next scan:
\* _GETTER_REPLY_LATENESS is the bound the FIFO path relies on.
ASSUME LatenessAssumption == ReplyLateness <= Lateness

Callers == Players \cup Scanners
Types == {"getter", "dino_scan"}
TypeOf(c) == IF c \in Players THEN "getter" ELSE "dino_scan"

\* Mutant of Echoes: the echoed id is ignored and the FIFO path serves every reply.
EchoesNothing(t) == t \in {}

\* _query_wire carries the request id and the mod echoes it; _scan_wire has none.
Echoes(t) == t = "getter"

VARIABLES
  waiters,      \* _query_waiters: type -> (id of a waiter -> its age and mark)
  inFlight,     \* type -> (id of a request the mod may still answer -> its age)
  reqCounter,   \* _getter_req_counter
  pc,           \* caller -> where its call is
  req,          \* caller -> id of its latest request
  attempt,      \* caller -> 1, or 2 for the one retry
  timer,        \* caller -> ticks since it began to send, to wait or to back off
  fut,          \* caller -> id of the request whose reply it got, 0 while (or if) none
  onLink,       \* caller -> is the socket its call captured still the link?
  linkUp,       \* _server_link_ws is not None
  getterLock,   \* holder of _getter_lock
  drops         \* times the link went down

linkVars == <<linkUp, drops>>
callVars == <<pc, req, attempt, timer, fut, onLink, getterLock>>
vars == <<waiters, inFlight, reqCounter, callVars, linkVars>>

Marks == {"live", "abandoned", "cancelled"}
NoEntries == [r \in {} |-> 0]
Awaiting(c) == pc[c] \in {"sending", "waiting"}

Init ==
  /\ waiters = [t \in Types |-> NoEntries]
  /\ inFlight = [t \in Types |-> NoEntries]
  /\ reqCounter = 0
  /\ pc = [c \in Callers |-> "idle"]
  /\ req = [c \in Callers |-> 0]
  /\ attempt = [c \in Callers |-> 1]
  /\ timer = [c \in Callers |-> 0]
  /\ fut = [c \in Callers |-> 0]
  /\ onLink = [c \in Callers |-> FALSE]
  /\ linkUp = TRUE
  /\ getterLock = None
  /\ drops = 0

-----------------------------------------------------------------------------
(* The FIFO of a reply type *)

\* Mutant of Expired: the age alone makes an entry stale.
ExpiredByAge(w) == w.age > Lateness

Expired(w) == w.mark = "abandoned" /\ w.age > Lateness

\* _register_getter_waiter: purge the expired tombstones, append a live waiter.
Register(t, r) ==
  LET kept == {q \in DOMAIN waiters[t] : ~ Expired(waiters[t][q])} IN
  [waiters EXCEPT ![t] =
     [q \in kept \cup {r} |->
        IF q = r THEN [age |-> 0, mark |-> "live"] ELSE waiters[t][q]]]

Without(f, r) == [q \in DOMAIN f \ {r} |-> f[q]]

Mark(t, r, m) ==
  IF r \in DOMAIN waiters[t] THEN [waiters EXCEPT ![t][r].mark = m] ELSE waiters

\* What is left of a FIFO after the expired tombstones at its front are popped.
Front(t) ==
  {q \in DOMAIN waiters[t] :
     \E p \in DOMAIN waiters[t] : p <= q /\ ~ Expired(waiters[t][p])}

\* The waiters a reply to request r of type t may pop: the one with its id when
\* the mod echoes it, else the head.
Matches(t, r) ==
  IF Echoes(t) THEN DOMAIN waiters[t] \cap {r}
  ELSE {q \in Front(t) : \A p \in Front(t) : q <= p}

\* What _deliver_typed_reply leaves in the FIFO.
Popped(t, r) ==
  LET left == IF Echoes(t) THEN DOMAIN waiters[t] ELSE Front(t) IN
  [waiters EXCEPT ![t] = [q \in left \ Matches(t, r) |-> waiters[t][q]]]

\* The callers whose future the reply to r resolves: a tombstone's is spent, and
\* so is a cancelled caller's (fut.done()).
Receivers(t, r) ==
  {c \in Callers : /\ TypeOf(c) = t
                   /\ Awaiting(c)
                   /\ req[c] \in Matches(t, r)
                   /\ waiters[t][req[c]].mark = "live"}

-----------------------------------------------------------------------------
(* Callers *)

\* Take the next id, register its waiter and write the frame, with no await in
\* between; a frame written to a closed socket goes nowhere.
Query(c, current) ==
  LET t == TypeOf(c)
      r == reqCounter + 1
  IN
  /\ reqCounter' = r
  /\ waiters' = Register(t, r)
  /\ inFlight' = IF current
                 THEN [inFlight EXCEPT ![t] =
                         [q \in DOMAIN @ \cup {r} |-> IF q = r THEN 0 ELSE @[q]]]
                 ELSE inFlight
  /\ pc' = [pc EXCEPT ![c] = "sending"]
  /\ req' = [req EXCEPT ![c] = r]
  /\ timer' = [timer EXCEPT ![c] = 0]
  /\ fut' = [fut EXCEPT ![c] = 0]

Begin(c) ==
  /\ pc[c] = "idle"
  /\ linkUp
  /\ reqCounter < MaxRequests
  /\ attempt' = [attempt EXCEPT ![c] = 1]
  /\ onLink' = [onLink EXCEPT ![c] = TRUE]
  /\ Query(c, TRUE)
  /\ UNCHANGED linkVars

\* A player's getter: concurrent with every other since V20-1.
BeginGetter(p) == Begin(p) /\ UNCHANGED getterLock

\* Mutant of BeginScan: the scan starts without taking _getter_lock.
BeginScanUnlocked(s) == Begin(s) /\ UNCHANGED getterLock

\* A census scan: it waits for _getter_lock and holds it to the end.
BeginScan(s) ==
  /\ getterLock = None
  /\ Begin(s)
  /\ getterLock' = s

\* ws.send returned in time.
Sent(c) ==
  /\ pc[c] = "sending"
  /\ onLink[c]
  /\ pc' = [pc EXCEPT ![c] = "waiting"]
  /\ timer' = [timer EXCEPT ![c] = 0]
  /\ UNCHANGED <<waiters, inFlight, reqCounter, req, attempt, fut, onLink,
                 getterLock, linkVars>>

\* The call ends, with a reply in fut or with an error; a scan releases the lock.
End(c) ==
  /\ pc' = [pc EXCEPT ![c] = "idle"]
  /\ attempt' = [attempt EXCEPT ![c] = 1]
  /\ timer' = [timer EXCEPT ![c] = 0]
  /\ onLink' = [onLink EXCEPT ![c] = FALSE]
  /\ getterLock' = IF getterLock = c THEN None ELSE getterLock

\* The future holds a reply and the caller runs again.
Resume(c) ==
  /\ pc[c] = "waiting"
  /\ fut[c] # 0
  /\ End(c)
  /\ UNCHANGED <<waiters, inFlight, reqCounter, req, fut, linkVars>>

Limit(c) ==
  CASE pc[c] = "sending" -> SendTimeout
    [] pc[c] = "waiting" -> IF c \in Players THEN GetterTimeout ELSE ScanTimeout
    [] pc[c] = "backoff" -> Backoff
    [] OTHER -> 0

\* Mutant of TimeIsUp: the send has no timeout of its own.
TimeIsUpWaiting(c) == pc[c] = "waiting" /\ timer[c] = Limit(c)

TimeIsUp(c) == Awaiting(c) /\ timer[c] = Limit(c)

\* Mutant of FirstTimeout: every timeout is retried.
FirstTimeoutForever(p) ==
  /\ TimeIsUp(p)
  /\ waiters' = [waiters EXCEPT !["getter"] = Without(@, req[p])]
  /\ pc' = [pc EXCEPT ![p] = "backoff"]
  /\ timer' = [timer EXCEPT ![p] = 0]
  /\ fut' = [fut EXCEPT ![p] = 0]
  /\ UNCHANGED <<inFlight, reqCounter, req, attempt, onLink, getterLock, linkVars>>

\* Mutant of FirstTimeout: the whole FIFO is discarded, not the one waiter.
FirstTimeoutClears(p) ==
  /\ TimeIsUp(p)
  /\ attempt[p] = 1
  /\ waiters' = [waiters EXCEPT !["getter"] = NoEntries]
  /\ pc' = [pc EXCEPT ![p] = "backoff"]
  /\ timer' = [timer EXCEPT ![p] = 0]
  /\ fut' = [fut EXCEPT ![p] = 0]
  /\ UNCHANGED <<inFlight, reqCounter, req, attempt, onLink, getterLock, linkVars>>

\* The first timeout of a player's getter: its tombstone is discarded before the
\* one retry (_discard_getter_waiter), with no await after the timeout.
FirstTimeout(p) ==
  /\ TimeIsUp(p)
  /\ attempt[p] = 1
  /\ waiters' = [waiters EXCEPT !["getter"] = Without(@, req[p])]
  /\ pc' = [pc EXCEPT ![p] = "backoff"]
  /\ timer' = [timer EXCEPT ![p] = 0]
  /\ fut' = [fut EXCEPT ![p] = 0]
  /\ UNCHANGED <<inFlight, reqCounter, req, attempt, onLink, getterLock, linkVars>>

Retry(p) ==
  /\ pc[p] = "backoff"
  /\ timer[p] = Limit(p)
  /\ attempt' = [attempt EXCEPT ![p] = @ + 1]
  /\ Query(p, onLink[p])
  /\ UNCHANGED <<onLink, getterLock, linkVars>>

\* The call fails and leaves its tombstone in the FIFO.
Abandon(c) ==
  /\ waiters' = Mark(TypeOf(c), req[c], "abandoned")
  /\ fut' = [fut EXCEPT ![c] = 0]
  /\ End(c)
  /\ UNCHANGED <<inFlight, reqCounter, req, linkVars>>

\* The retry's timeout, or a scan's: _query_once and _census_scan give up.
LastTimeout(c) ==
  /\ TimeIsUp(c)
  /\ c \in Players => attempt[c] = 2
  /\ Abandon(c)

\* ws.send raised because its socket is closed; not retried.
SendFails(c) ==
  /\ pc[c] = "sending"
  /\ ~ onLink[c]
  /\ Abandon(c)

\* The turn's wall clock ends the tool call: CancelledError is no Exception, so
\* the waiter stays in the FIFO without a tombstone's mark, its future cancelled.
Cancel(p) ==
  /\ pc[p] # "idle"
  /\ waiters' = IF Awaiting(p) THEN Mark("getter", req[p], "cancelled") ELSE waiters
  /\ fut' = [fut EXCEPT ![p] = 0]
  /\ End(p)
  /\ UNCHANGED <<inFlight, reqCounter, req, linkVars>>

-----------------------------------------------------------------------------
(* The mod, the link and time *)

\* The mod's reply to r reaches _deliver_typed_reply.  Scans are answered in the
\* order they were sent; replies with an id may come in any order.
Reply(t, r) ==
  /\ r \in DOMAIN inFlight[t]
  /\ Echoes(t) \/ \A q \in DOMAIN inFlight[t] : r <= q
  /\ inFlight' = [inFlight EXCEPT ![t] = Without(@, r)]
  /\ fut' = [c \in Callers |-> IF c \in Receivers(t, r) THEN r ELSE fut[c]]
  /\ waiters' = Popped(t, r)
  /\ UNCHANGED <<reqCounter, pc, req, attempt, timer, onLink, getterLock,
                 linkVars>>

\* The mod drops a reply: its IsAuthenticated gate is false.
LoseReply(t, r) ==
  /\ r \in DOMAIN inFlight[t]
  /\ inFlight' = [inFlight EXCEPT ![t] = Without(@, r)]
  /\ UNCHANGED <<waiters, reqCounter, callVars, linkVars>>

\* The server link closes: what was in flight on it is lost and its census task
\* is cancelled wherever it is.  (A second link beside the first is not modelled.)
LinkDown ==
  /\ linkUp
  /\ drops < MaxDrops
  /\ drops' = drops + 1
  /\ linkUp' = FALSE
  /\ onLink' = [c \in Callers |-> FALSE]
  /\ inFlight' = [t \in Types |-> NoEntries]
  /\ LET cut == {s \in Scanners : Awaiting(s)} IN
     /\ waiters' = [waiters EXCEPT !["dino_scan"] =
                      [r \in DOMAIN @ |->
                         IF r \in {req[s] : s \in cut}
                         THEN [@[r] EXCEPT !.mark = "cancelled"] ELSE @[r]]]
     /\ pc' = [c \in Callers |-> IF c \in cut THEN "idle" ELSE pc[c]]
     /\ timer' = [c \in Callers |-> IF c \in cut THEN 0 ELSE timer[c]]
     /\ fut' = [c \in Callers |-> IF c \in cut THEN 0 ELSE fut[c]]
  /\ getterLock' = None
  /\ UNCHANGED <<reqCounter, req, attempt>>

LinkUp ==
  /\ ~ linkUp
  /\ linkUp' = TRUE
  /\ UNCHANGED <<waiters, inFlight, reqCounter, callVars, drops>>

\* Ages stop where the code can no longer tell them apart.
Older(w) == IF w.age <= Lateness THEN [w EXCEPT !.age = @ + 1] ELSE w

\* What may still be answered one tick later: ages matter to scans only.
StillInFlight(t) ==
  IF Echoes(t) THEN inFlight[t]
  ELSE [r \in {q \in DOMAIN inFlight[t] : inFlight[t][q] < ReplyLateness} |->
          inFlight[t][r] + 1]

Tick ==
  /\ timer' = [c \in Callers |->
                 IF timer[c] < Limit(c) THEN timer[c] + 1 ELSE timer[c]]
  /\ waiters' = [t \in Types |-> [r \in DOMAIN waiters[t] |-> Older(waiters[t][r])]]
  /\ inFlight' = [t \in Types |-> StillInFlight(t)]
  /\ UNCHANGED <<reqCounter, pc, req, attempt, fut, onLink, getterLock,
                 linkVars>>

Next ==
  \/ \E p \in Players : BeginGetter(p) \/ FirstTimeout(p) \/ Retry(p) \/ Cancel(p)
  \/ \E s \in Scanners : BeginScan(s)
  \/ \E c \in Callers : Sent(c) \/ Resume(c) \/ LastTimeout(c) \/ SendFails(c)
  \/ \E t \in Types : \E r \in DOMAIN inFlight[t] : Reply(t, r) \/ LoseReply(t, r)
  \/ LinkDown
  \/ LinkUp
  \/ Tick

\* asyncio's timers fire and a coroutine whose future is done runs again; nothing
\* makes a send complete, the mod answer, a turn be cancelled or a link come up.
Fairness ==
  /\ WF_vars(Tick)
  /\ \A p \in Players : WF_vars(FirstTimeout(p)) /\ WF_vars(Retry(p))
  /\ \A c \in Callers : WF_vars(Resume(c)) /\ WF_vars(LastTimeout(c))

Spec == Init /\ [][Next]_vars

FairSpec == Spec /\ Fairness

-----------------------------------------------------------------------------
(* Properties *)

Entry == [age : 0 .. Lateness + 1, mark : Marks]

FifoTypeOK ==
  /\ DOMAIN waiters = Types /\ DOMAIN inFlight = Types
  /\ \A t \in Types :
       /\ DOMAIN waiters[t] \subseteq 1 .. reqCounter
       /\ \A r \in DOMAIN waiters[t] : waiters[t][r] \in Entry
       /\ DOMAIN inFlight[t] \subseteq 1 .. reqCounter
       /\ \A r \in DOMAIN inFlight[t] : inFlight[t][r] \in 0 .. ReplyLateness
  /\ reqCounter \in Nat

CallTypeOK ==
  /\ pc \in [Callers -> {"idle", "sending", "waiting", "backoff"}]
  /\ req \in [Callers -> 0 .. reqCounter]
  /\ attempt \in [Callers -> {1, 2}]
  /\ timer \in [Callers -> Nat]
  /\ fut \in [Callers -> 0 .. reqCounter]
  /\ onLink \in [Callers -> BOOLEAN]
  /\ getterLock \in Scanners \cup {None}

\* Every variable has the shape the code gives it: ids come from the counter,
\* ages stay within what is told apart, a call makes at most two attempts.
TypeOK ==
  /\ FifoTypeOK
  /\ CallTypeOK
  /\ linkUp \in BOOLEAN
  /\ drops \in 0 .. MaxDrops

\* No cross-delivery (XDEL-01/02): the reply a caller's future holds answers the
\* caller's own latest request, whatever was lost, late, retried or cancelled.
OwnReply == \A c \in Callers : fut[c] # 0 => fut[c] = req[c]

\* Nobody waits in vain: a caller still waiting has a live waiter in the FIFO of
\* its type, which no purge, discard or other caller's reply has taken away.
AwaitedIsRegistered ==
  \A c \in Callers :
    (Awaiting(c) /\ fut[c] = 0) =>
      /\ req[c] \in DOMAIN waiters[TypeOf(c)]
      /\ waiters[TypeOf(c)][req[c]].mark = "live"

\* What V20-1 dropped the lock for: a reply to a getter that still waits reaches
\* it, however many others of its type are pending, timed out or cancelled.
PromptReply ==
  [][\A p \in Players :
       (Awaiting(p) /\ fut[p] = 0 /\ Reply("getter", req[p])) => fut'[p] = req[p]]_vars

\* A scan waits only while it holds _getter_lock, so the FIFO path never has two
\* live waiters of a type.
OneLiveScan ==
  \A r, q \in DOMAIN waiters["dino_scan"] :
    (waiters["dino_scan"][r].mark = "live" /\ waiters["dino_scan"][q].mark = "live")
      => r = q

\* Every call comes back: a lost reply, a blocked send, a dead link or a failed
\* retry ends in an error, and a scan gives up the lock.
EveryCallReturns == \A c \in Callers : (pc[c] # "idle") ~> (pc[c] = "idle")
=============================================================================
