------------------------------ MODULE MCStores ------------------------------
(* What a turn works with.  What lies in the SQLite files, how they are      *)
(* opened and what is read from them: the dino index with two dinos, two     *)
(* regions and two tasks that write; the opening of the two files by two     *)
(* tasks; the campaign while a survivor is re-keyed twice; what a turn is    *)
(* told of what is remembered and of what happened.  The cache of answers.   *)
(* The agent that runs the turn, and one tool of it that keeps what it was   *)
(* handed across an await.  They share no state here, so each is explored    *)
(* while the others rest: focus says which.                                  *)
EXTENDS DinoIndex, Databases, CampaignStore, SemanticCache, ContextAssembly, AgentLoop,
        TribeEvents

CONSTANTS campaign, telemetry, weather, base, map, look, destroy, island, ridge, wolves, bears

\* Databases: two files; 003 cannot be run twice.
FileSet == {campaign, telemetry}
Schema == campaign :> <<TRUE>> @@ telemetry :> <<TRUE, TRUE, FALSE>>

\* SemanticCache: two questions of one kind, and the same one on two maps, are alike.
Alike ==
  [p \in CacheKeys \X CacheKeys |->
     IF p[1] = p[2] THEN 3 ELSE IF p[1][1] = p[2][1] THEN 1
     ELSE IF p[1][2] = p[2][2] THEN 2 ELSE 0]

\* ContextAssembly: something for good, and two entries of which one fits better.
MCFacts == {[sticky |-> TRUE, words |-> {}], [sticky |-> FALSE, words |-> {base}],
            [sticky |-> FALSE, words |-> {base, weather}]}
MCQuestions == {{}, {base, weather}}

\* AgentLoop: players and admins, who inherit from players and have higher limits, a
\* tool for each, and a chat-only endpoint as last resort.
TierList == <<"player", "admin">>
Inherits == [player |-> NoTier, admin |-> "player"]
ToolSet == {look, destroy}
Declared == look :> "player" @@ destroy :> "admin"
Patterns == [player |-> {}, admin |-> {look}]
RequestLimits == [player |-> 1, admin |-> 2]
CallLimits == [player |-> 1, admin |-> 2]
LimitsOfTools == look :> <<>> @@ destroy :> [max |-> 2, min |-> 1]
LimitsOfTiers ==
  [player |-> look :> <<>> @@ destroy :> <<>>, admin |-> look :> <<>> @@ destroy :> [max |-> 1]]
Values == look :> {NotGiven} @@ destroy :> {0, 1, 2, NotANumber}
FallbackModels == <<"relay">>
Models == [sonnet |-> TRUE, relay |-> FALSE]

\* TribeEvents: three tribes of one cluster, one of them solo, and one of another
\* with the team of the first and the name of the second.
Tribe(c, n) == [cluster |-> c, team |-> n]
TribeSet == {Tribe(island, 1), Tribe(island, 2), Tribe(island, 3), Tribe(ridge, 1)}
NamesAtFirst ==
  [t \in TribeSet |-> CASE t = Tribe(island, 1) -> wolves
                       [] t = Tribe(island, 3) -> Unknown
                       [] OTHER -> bears]

VARIABLE focus

doingVars == <<agentVars, tribeVars>>
allVars == <<vars, dbVars, campaignVars, cacheVars, contextVars, doingVars, focus>>

MCInit ==
  /\ Init /\ DbInit /\ CampaignInit /\ CacheInit /\ ContextInit /\ AgentInit /\ TribeInit
  /\ focus \in {"index", "opening", "campaign", "cache", "memory", "news", "agent", "tribes"}
  /\ focus # "campaign" => rows = NoRows

IndexStep ==
  /\ focus = "index" /\ Next
  /\ UNCHANGED <<dbVars, campaignVars, cacheVars, contextVars, doingVars, focus>>
OpeningStep ==
  /\ focus = "opening" /\ DbNext
  /\ UNCHANGED <<vars, campaignVars, cacheVars, contextVars, doingVars, focus>>
CampaignStep ==
  /\ focus = "campaign" /\ CampaignNext
  /\ UNCHANGED <<vars, dbVars, cacheVars, contextVars, doingVars, focus>>
CacheStep ==
  /\ focus = "cache" /\ CacheNext
  /\ UNCHANGED <<vars, dbVars, campaignVars, contextVars, doingVars, focus>>

\* The context once with memories and once with news, else it has too many states.
ContextStep ==
  /\ focus \in {"memory", "news"} /\ ContextNext
  /\ IF focus = "memory" THEN combat' = combat /\ captured' = captured ELSE loreId' = loreId
  /\ UNCHANGED <<vars, dbVars, campaignVars, cacheVars, doingVars, focus>>

RunStep ==
  /\ focus = "agent" /\ AgentNext
  /\ UNCHANGED <<vars, dbVars, campaignVars, cacheVars, contextVars, tribeVars, focus>>
TribesStep ==
  /\ focus = "tribes" /\ TribeNext
  /\ UNCHANGED <<vars, dbVars, campaignVars, cacheVars, contextVars, agentVars, focus>>

\* The bounds of the others end; the index must go on.
Rest == focus # "index" /\ UNCHANGED allVars

MCSpec ==
  MCInit /\ [][\/ IndexStep \/ OpeningStep \/ CampaignStep \/ CacheStep \/ ContextStep
               \/ RunStep \/ TribesStep \/ Rest]_allVars

-----------------------------------------------------------------------------
TypesOK ==
  /\ DbTypeOK /\ CampaignTypeOK /\ CacheTypeOK /\ ContextTypeOK
  /\ AgentTypeOK /\ TribeTypeOK
=============================================================================
