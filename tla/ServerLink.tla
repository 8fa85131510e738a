----------------------------- MODULE ServerLink -----------------------------
(***************************************************************************)
(* The game server's link to the bridge and the two background tasks that  *)
(* live on it (server.py).                                                 *)
(*                                                                         *)
(* There is one link, but sockets overlap: a server that lost its network  *)
(* connects again while the bridge still believes in the old socket.  Each *)
(* socket has its own handle_connection: it authenticates, sets up its     *)
(* session, registers as the link (superseding another one), acknowledges, *)
(* starts the census and the server_state requester, and reads frames      *)
(* until the socket closes.  Every await between these steps lets the      *)
(* others run.                                                             *)
(*                                                                         *)
(* Sockets of players are left out: the mod opens none.                    *)
(***************************************************************************)
EXTENDS Naturals, FiniteSets

CONSTANTS
  Sockets,   \* bound: connections, each used once
  None,
  Tries      \* _SERVER_STATE_TRIES

ASSUME LinkAssumption == None \notin Sockets /\ Tries \in Nat

VARIABLES
  stage,       \* socket -> where its handle_connection is
  alive,       \* sockets whose peer is still there
  link,        \* _server_link_ws
  censusTask,  \* _census_task: the socket it was started for
  stateTask,   \* _state_task
  census,      \* socket -> its census task, "none" before and after it runs
  asking,      \* sockets whose server_state requester runs
  asked,       \* socket -> requests its requester has sent
  known,       \* are valid GPS constants in server_state?
  latest,      \* the socket that registered last
  overlapped   \* was a socket between registering and starting its tasks
               \* while another one registered?

taskVars == <<censusTask, stateTask, census, asking, asked>>
linkVars == <<stage, alive, link, taskVars, known, latest, overlapped>>

Stages == {"unborn", "authenticating", "creating", "welcoming", "open", "closed"}

LinkInit ==
  /\ stage = [s \in Sockets |-> "unborn"] /\ alive = {}
  /\ link = None /\ latest = None
  /\ censusTask = None /\ stateTask = None
  /\ census = [s \in Sockets |-> "none"]
  /\ asking = {} /\ asked = [s \in Sockets |-> 0]
  /\ known = FALSE /\ overlapped = FALSE

Moves(s, from, to) == stage[s] = from /\ stage' = [stage EXCEPT ![s] = to]

Censuses == {s \in Sockets : census[s] \in {"opening", "running"}}

-----------------------------------------------------------------------------
(* handle_connection *)

Connect(s) ==
  /\ Moves(s, "unborn", "authenticating")
  /\ alive' = alive \cup {s}
  /\ UNCHANGED <<link, taskVars, known, latest, overlapped>>

\* The peer is gone; the handler learns of it when it next sends or receives.
Die(s) ==
  /\ s \in alive
  /\ alive' = alive \ {s}
  /\ UNCHANGED <<stage, link, taskVars, known, latest, overlapped>>

\* The first frame is an auth frame with the secret; sessions.create.
Authenticate(s) ==
  /\ s \in alive
  /\ Moves(s, "authenticating", "creating")
  /\ UNCHANGED <<alive, link, taskVars, known, latest, overlapped>>

\* No frame in 10 s, no auth frame, a wrong secret, or the campaign database fails:
\* the socket was not the link yet.
TurnedAway(s) ==
  /\ Moves(s, "authenticating", "closed") \/ Moves(s, "creating", "closed")
  /\ alive' = alive \ {s}
  /\ UNCHANGED <<link, taskVars, known, latest, overlapped>>

\* Mutant of CancelTasks: the references are dropped, the tasks go on.
CancelTasksForgets ==
  /\ censusTask' = None /\ stateTask' = None
  /\ UNCHANGED <<census, asking, asked>>

\* _cancel_link_tasks; cancelling a task that is done changes nothing.
CancelTasks ==
  /\ census' = [s \in Sockets |-> IF s = censusTask /\ s \in Censuses THEN "none" ELSE census[s]]
  /\ asking' = asking \ {stateTask}
  /\ asked' = [s \in Sockets |-> IF s = stateTask THEN 0 ELSE asked[s]]
  /\ censusTask' = None /\ stateTask' = None

Register(s) ==
  /\ Moves(s, "creating", "welcoming")
  /\ IF link # None THEN CancelTasks ELSE UNCHANGED taskVars
  /\ link' = s /\ latest' = s
  /\ overlapped' = (overlapped \/ \E o \in Sockets : stage[o] = "welcoming")
  /\ UNCHANGED <<alive, known>>

\* auth_success is out: the tasks are started, whoever the link is by now.
Welcome(s) ==
  /\ s \in alive
  /\ Moves(s, "welcoming", "open")
  /\ census' = [census EXCEPT ![s] = "opening"]
  /\ asking' = asking \cup {s}
  /\ censusTask' = s /\ stateTask' = s
  /\ UNCHANGED <<alive, link, asked, known, latest, overlapped>>

\* Mutant of IsLink: the teardown does not look whose link it is.
IsLinkAny(s) == TRUE

IsLink(s) == link = s

\* The socket is closed: the finally clause.
Close(s) ==
  /\ s \notin alive
  /\ Moves(s, "welcoming", "closed") \/ Moves(s, "open", "closed")
  /\ IF IsLink(s) THEN link' = None /\ CancelTasks ELSE UNCHANGED <<link, taskVars>>
  /\ UNCHANGED <<alive, known, latest, overlapped>>

-----------------------------------------------------------------------------
(* The tasks *)

\* The telemetry database is open.
CensusStarts(s) ==
  /\ census[s] = "opening"
  /\ census' = [census EXCEPT ![s] = "running"]
  /\ UNCHANGED <<stage, alive, link, censusTask, stateTask, asking, asked, known, latest,
                 overlapped>>

\* Mutant of ShouldRun: the loop goes on as long as there is a link.
ShouldRunForAny(s) == link # None

ShouldRun(s) == link = s

CensusExits(s) ==
  /\ census[s] = "running" /\ ~ ShouldRun(s)
  /\ census' = [census EXCEPT ![s] = "none"]
  /\ UNCHANGED <<stage, alive, link, censusTask, stateTask, asking, asked, known, latest,
                 overlapped>>

\* An error of its own ends it, while its link may well stay open: the telemetry database
\* does not open, or get_state raises between the layers of run_census.
CensusBreaks(s) ==
  /\ s \in Censuses
  /\ census' = [census EXCEPT ![s] = "broken"]
  /\ UNCHANGED <<stage, alive, link, censusTask, stateTask, asking, asked, known, latest,
                 overlapped>>

\* Mutant of Ask: one request too many.
AskOnceMore(s) ==
  /\ s \in asking /\ ~ known /\ s \in alive /\ asked[s] <= Tries
  /\ asked' = [asked EXCEPT ![s] = @ + 1]
  /\ UNCHANGED <<stage, alive, link, censusTask, stateTask, census, asking, known, latest,
                 overlapped>>

Ask(s) ==
  /\ s \in asking /\ ~ known /\ s \in alive /\ asked[s] < Tries
  /\ asked' = [asked EXCEPT ![s] = @ + 1]
  /\ UNCHANGED <<stage, alive, link, censusTask, stateTask, census, asking, known, latest,
                 overlapped>>

\* The constants are known, the tries are used up, the send fails, or the database
\* did not open to begin with.
StopsAsking(s) ==
  /\ s \in asking /\ (known \/ asked[s] \in {0, Tries} \/ s \notin alive)
  /\ asking' = asking \ {s}
  /\ asked' = [asked EXCEPT ![s] = 0]
  /\ UNCHANGED <<stage, alive, link, censusTask, stateTask, census, known, latest,
                 overlapped>>

\* get_server_state raises.
RequesterBreaks(s) ==
  /\ s \in asking
  /\ asking' = asking \ {s}
  /\ asked' = [asked EXCEPT ![s] = 0]
  /\ UNCHANGED <<stage, alive, link, censusTask, stateTask, census, known, latest,
                 overlapped>>

\* The mod publishes valid constants, asked or not; _handle_server_state stores them.
StatePush(s) ==
  /\ stage[s] = "open" /\ s \in alive /\ ~ known
  /\ known' = TRUE
  /\ UNCHANGED <<stage, alive, link, taskVars, latest, overlapped>>

Handler(s) ==
  Authenticate(s) \/ TurnedAway(s) \/ Register(s) \/ Welcome(s) \/ Close(s)

Tasks(s) == CensusStarts(s) \/ CensusExits(s) \/ Ask(s) \/ StopsAsking(s)

Breaks(s) == CensusBreaks(s) \/ RequesterBreaks(s)

LinkNext ==
  \E s \in Sockets :
    Connect(s) \/ Die(s) \/ Handler(s) \/ Tasks(s) \/ Breaks(s) \/ StatePush(s)

LinkSpec == LinkInit /\ [][LinkNext]_linkVars

\* The event loop runs every handler and task, which need not ever break; websockets'
\* keepalive notices a dead peer within 40 s.
LinkFairSpec == LinkSpec /\ \A s \in Sockets : WF_linkVars(Handler(s)) /\ WF_linkVars(Tasks(s))

-----------------------------------------------------------------------------
(* Properties *)

LinkTypeOK ==
  /\ stage \in [Sockets -> Stages] /\ alive \subseteq Sockets
  /\ {link, latest, censusTask, stateTask} \subseteq Sockets \cup {None}
  /\ census \in [Sockets -> {"none", "opening", "running", "broken"}]
  /\ asking \subseteq Sockets /\ asked \in [Sockets -> 0 .. Tries]
  /\ known \in BOOLEAN /\ overlapped \in BOOLEAN

NewestIsServed ==
  latest # None =>
    /\ stage[latest] \in {"welcoming", "open"} => link = latest
    /\ stage[latest] = "open" => latest \in Censuses \/ census[latest] = "broken"

OneCensus == ~ overlapped => Cardinality(Censuses) <= 1

\* SCC-01: the link that registered last is the link until it closes itself, and once
\* welcomed it keeps its census until that fails by an error of its own: none of the
\* sockets it superseded ends it on their way out or in.  SCC-03: at most one census
\* loop runs, as long as no link registers while another one waits for its auth_success
\* to be sent (then the reference to a task is overwritten, and that task ends only by
\* asking should_run).
CensusFollowsLink == NewestIsServed /\ OneCensus

\* In the end (sockets are used once, so everything comes to an end) a census runs
\* for the link only and nobody asks for constants any more: no superseded or
\* dropped socket leaves a task behind, not even one nobody has a reference to.
TasksEnd == <>[](asking = {} /\ Censuses \subseteq {link})
=============================================================================
