---------------------------- MODULE MCLinkEvents ----------------------------
(* What goes over the server link: its sockets, three of which overlap in    *)
(* any way (ServerLink); the combat frames they bring (GameEvents, with a    *)
(* ring of three, hits on a player and on nobody known); the replies that    *)
(* bunch up on it (ReplyPacing); and the map pins of two survivors (MapPins).*)
(* The four share no state, so each is explored while the others rest: focus *)
(* says which.                                                               *)
EXTENDS GameEvents, ServerLink, ReplyPacing, MapPins

VARIABLE focus

outgoing == <<pacingVars, pinVars>>
allVars == <<vars, linkVars, outgoing, focus>>

MCInit ==
  /\ Init /\ LinkInit /\ PacingInit /\ PinsInit
  /\ focus \in {"events", "link", "replies", "pins"}

EventsStep == focus = "events" /\ Next /\ UNCHANGED <<linkVars, outgoing, focus>>
LinkStep == focus = "link" /\ LinkNext /\ UNCHANGED <<vars, outgoing, focus>>
RepliesStep == focus = "replies" /\ PacingNext /\ UNCHANGED <<vars, linkVars, pinVars, focus>>
PinsStep == focus = "pins" /\ PinsNext /\ UNCHANGED <<vars, linkVars, pacingVars, focus>>

HandlerStep(s) == focus = "link" /\ Handler(s) /\ UNCHANGED <<vars, outgoing, focus>>
TasksStep(s) == focus = "link" /\ Tasks(s) /\ UNCHANGED <<vars, outgoing, focus>>

\* The specifications of the four, side by side, with the fairness of LinkFairSpec.
MCSpec ==
  /\ MCInit /\ [][EventsStep \/ LinkStep \/ RepliesStep \/ PinsStep]_allVars
  /\ \A s \in Sockets : WF_allVars(HandlerStep(s)) /\ WF_allVars(TasksStep(s))

-----------------------------------------------------------------------------
TypesOK == TypeOK /\ LinkTypeOK /\ PacingTypeOK /\ PinsTypeOK
=============================================================================
