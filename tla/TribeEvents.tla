---------------------------- MODULE TribeEvents -----------------------------
(***************************************************************************)
(* Tames and deaths of dinos (server.py, _handle_game_event), and who is   *)
(* told of them (tools/actions.py, get_recent_dino_events).                *)
(*                                                                         *)
(* A tame names the team and its tribe, a death the team alone.  The       *)
(* frames go into a ring that all clusters share; what tribe a team is, is *)
(* learned from tames, cluster by cluster.  A turn is handed a copy of     *)
(* both, asks the game for the survivor's tribe, and picks the tribe's     *)
(* events: by the team, if the game says which it is, else by name.        *)
(* Frames go on to arrive, and tribes may be renamed, at any time.         *)
(***************************************************************************)
EXTENDS Naturals, Sequences, SequencesExt, FiniteSets

CONSTANTS
  Tribes,         \* [cluster, team]
  Names,          \* names of tribes
  Unknown,        \* no team, no name
  FirstNames,     \* tribe -> its name, or Unknown when a survivor is solo
  DinoRingSize,   \* maxlen of _recent_dino_game_events
  TeamTribeMax,   \* _TEAM_TRIBE_MAX
  Limit,          \* limit: events the tool returns
  MaxFrames, MaxRenames   \* bounds

ASSUME TribesAssumption ==
  /\ Tribes # {} /\ \A s, t \in Tribes : s.cluster = t.cluster /\ s.team = t.team => s = t
  /\ Unknown \notin Names /\ FirstNames \in [Tribes -> Names \cup {Unknown}]
  /\ Unknown \notin {t.team : t \in Tribes}
  /\ DinoRingSize \in Nat \ {0} /\ TeamTribeMax \in Nat \ {0} /\ Limit \in Nat \ {0}
  /\ MaxFrames \in Nat /\ MaxRenames \in Nat

VARIABLES
  named,      \* tribe -> its name now
  renames,
  frames,     \* frames so far; the last one's number
  dinoRing,   \* _recent_dino_game_events: [n, event, team, tribe, of], of being
              \* history: whose dino it is
  teamTribe,  \* _team_tribe: cluster -> sequence of <<team, name>>, oldest key first
  used,       \* history: <<tribe, name>> that were ever in force
  tamed,      \* history: tribes a tame with team and name came from
  asking,     \* is the tool waiting for get_tribe?
  given,      \* the turn's [by, events, teams], and as history the tribes tamed then
  told        \* events the tool returned last

tribeVars == <<named, renames, frames, dinoRing, teamTribe, used, tamed, asking, given, told>>
worldVars == <<named, renames, used>>
askVars == <<asking, given, told>>

NoTurn == [by |-> CHOOSE t \in Tribes : TRUE, events |-> <<>>, teams |-> <<>>, tamed |-> {}]

TribeInit ==
  /\ named = FirstNames /\ renames = 0 /\ used = {<<t, FirstNames[t]>> : t \in Tribes}
  /\ frames = 0 /\ dinoRing = <<>> /\ tamed = {}
  /\ teamTribe = [c \in {t.cluster : t \in Tribes} |-> <<>>]
  /\ asking = FALSE /\ given = NoTurn /\ told = <<>>

Rename(t, name) ==
  /\ renames < MaxRenames /\ name # named[t]
  /\ renames' = renames + 1
  /\ named' = [named EXCEPT ![t] = name]
  /\ used' = used \cup {<<t, name>>}
  /\ UNCHANGED <<frames, dinoRing, teamTribe, tamed, askVars>>

-----------------------------------------------------------------------------
(* Ingest *)

Noted(e) ==
  /\ frames < MaxFrames
  /\ frames' = frames + 1
  /\ LET all == Append(dinoRing, e) IN
       dinoRing' = IF Len(all) > DinoRingSize THEN Tail(all) ELSE all

DinoEvent(event, team, tribe, t) ==
  [n |-> frames', event |-> event, team |-> team, tribe |-> tribe, of |-> t]

Holds(teams, team) == \E i \in DOMAIN teams : teams[i][1] = team

\* The oldest team goes when a new one finds the map full.
Room(teams, team) ==
  IF ~ Holds(teams, team) /\ Len(teams) >= TeamTribeMax THEN Tail(teams) ELSE teams

\* A dict: a key keeps its place.
Learned(teams, team, name) ==
  LET rest == Room(teams, team) IN
  IF Holds(rest, team)
  THEN [i \in DOMAIN rest |-> IF rest[i][1] = team THEN <<team, name>> ELSE rest[i]]
  ELSE Append(rest, <<team, name>>)

\* A partial frame may lack the team.
Tamed(t, team) ==
  /\ Noted(DinoEvent("dino_tamed", team, named[t], t))
  /\ IF team # Unknown /\ named[t] # Unknown
     THEN /\ teamTribe' = [teamTribe EXCEPT ![t.cluster] = Learned(@, team, named[t])]
          /\ tamed' = tamed \cup {t}
     ELSE UNCHANGED <<teamTribe, tamed>>
  /\ UNCHANGED <<worldVars, askVars>>

Died(t) ==
  /\ Noted(DinoEvent("dino_death", t.team, Unknown, t))
  /\ UNCHANGED <<worldVars, teamTribe, tamed, askVars>>

-----------------------------------------------------------------------------
(* A turn that asks *)

\* Mutant of TeamsFor: whatever cluster knows the team.
TeamsForAny(c) == FlattenSeq(SetToSeq({teamTribe[d] : d \in DOMAIN teamTribe}))

TeamsFor(c) == teamTribe[c]

AskTribe(t) ==
  /\ ~ asking
  /\ asking' = TRUE
  /\ given' = [by |-> t, events |-> dinoRing, teams |-> TeamsFor(t.cluster), tamed |-> tamed]
  /\ told' = <<>>
  /\ UNCHANGED <<worldVars, frames, dinoRing, teamTribe, tamed>>

NameOf(team) ==
  IF Holds(given.teams, team)
  THEN given.teams[CHOOSE i \in DOMAIN given.teams : given.teams[i][1] = team][2]
  ELSE Unknown

\* By the team, and by name what has no team; or by name, a death's from its team.
Matching(e, team, name) ==
  IF team # Unknown
  THEN e.team = team \/ (e.team = Unknown /\ e.tribe # Unknown /\ e.tribe = name)
  ELSE LET tribe == IF e.tribe # Unknown THEN e.tribe ELSE NameOf(e.team)
       IN tribe # Unknown /\ tribe = name

Returns(events) ==
  /\ asking
  /\ asking' = FALSE /\ given' = NoTurn
  /\ told' = events
  /\ UNCHANGED <<worldVars, frames, dinoRing, teamTribe, tamed>>

\* The n-th largest of a set of numbers.
NthNewest(I, n) == CHOOSE i \in I : Cardinality({j \in I : j > i}) = n - 1

\* get_tribe replies; a mod that is old does not report the team.
TribeAnswer(team) ==
  LET mine == {i \in DOMAIN given.events : Matching(given.events[i], team, named[given.by])}
      shown == IF Cardinality(mine) < Limit THEN Cardinality(mine) ELSE Limit
  IN Returns([n \in 1 .. shown |-> given.events[NthNewest(mine, n)]])

\* The getter fails or times out: the tribe is not resolved, nothing is told.
NoAnswer == Returns(<<>>)

TribeNext ==
  \/ \E t \in Tribes :
       \/ \E name \in Names : Rename(t, name)
       \/ \E team \in {t.team, Unknown} : Tamed(t, team)
       \/ Died(t) \/ AskTribe(t)
  \/ \E team \in {given.by.team, Unknown} : TribeAnswer(team)
  \/ NoAnswer

TribeSpec == TribeInit /\ [][TribeNext]_tribeVars

-----------------------------------------------------------------------------
(* Properties *)

DinoEvents ==
  [n : 1 .. MaxFrames, event : {"dino_tamed", "dino_death"},
   team : {t.team : t \in Tribes} \cup {Unknown}, tribe : Names \cup {Unknown}, of : Tribes]

TribeTypeOK ==
  /\ named \in [Tribes -> Names \cup {Unknown}] /\ renames \in 0 .. MaxRenames
  /\ frames \in 0 .. MaxFrames /\ tamed \subseteq Tribes
  /\ Len(dinoRing) <= DinoRingSize /\ ToSet(dinoRing) \cup ToSet(told) \subseteq DinoEvents
  /\ \A c \in DOMAIN teamTribe : Len(teamTribe[c]) <= TeamTribeMax
  /\ asking \in BOOLEAN /\ given.by \in Tribes

\* Names that two tribes of the asker's cluster have had cannot be told apart.
Ambiguous(name) ==
  \E t \in Tribes : t # given.by /\ t.cluster = given.by.cluster /\ <<t, name>> \in used

NobodyElses ==
  \A e \in ToSet(told') :
    e.of.cluster = given.by.cluster => e.of = given.by \/ Ambiguous(named[given.by])

KeepsName(t) == named[t] # Unknown /\ \A pair \in used : pair[1] = t => pair[2] = named[t]

Attributable ==
  /\ KeepsName(given.by) /\ given.by \in given.tamed
  /\ Cardinality({t \in given.tamed : t.cluster = given.by.cluster}) <= TeamTribeMax

NothingMissed ==
  Attributable =>
    \A e \in ToSet(given.events) \ ToSet(told') : e.of = given.by =>
      Len(told') = Limit /\ \A f \in ToSet(told') : f.n > e.n

\* "it never shows another tribe's dinos": whatever is renamed, tamed or forgotten
\* before and while the tool asks, what a survivor is told of their cluster's dinos is
\* about their own tribe's (of other clusters' events it does not hold: the ring does
\* not say which cluster an event is of).  And a tribe that keeps its name and has
\* tamed a dino is told of all its dinos in the ring, or of the newest Limit, as long
\* as no more than TeamTribeMax teams of its cluster have tamed.
OwnDinosAreTold ==
  [][\A team \in {given.by.team, Unknown} :
       TribeAnswer(team) => NobodyElses /\ NothingMissed]_tribeVars
=============================================================================
