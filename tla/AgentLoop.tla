----------------------------- MODULE AgentLoop ------------------------------
(***************************************************************************)
(* One survivor's turns as the agent runs them (agent.py), with what they  *)
(* share: the working conversation (session.py), the tiers' tools          *)
(* (tools/registry.py), the rate limiter (auth.py) and the chain of LLM    *)
(* endpoints (providers/llm.py, catalog.py).                               *)
(*                                                                         *)
(* A turn asks the LLM at most MaxIterations times.  Each answer either    *)
(* ends the turn or calls tools, every call of which gets one result in    *)
(* the conversation, whatever happens to it.  An overflow truncates the    *)
(* conversation, a rate limit waits, another failure of the whole chain    *)
(* ends the turn, as do arguments that validation chokes on.  The turns of *)
(* a survivor come one after the other (TurnPipeline); their tiers may     *)
(* differ.                                                                 *)
(*                                                                         *)
(* A request to the chain is one step: nothing the model sees changes      *)
(* between its attempts.  A message's size is its estimated tokens.        *)
(***************************************************************************)
EXTENDS Naturals, Sequences, SequencesExt, FiniteSets

CONSTANTS
  Tiers,          \* the tiers in the order of the configuration
  Parent,         \* tier -> the tier it inherits from, or NoTier
  NoTier,
  Tools,
  DeclaredTier,   \* tool -> @tool(tier=...)
  Granted,        \* tier -> tools its patterns match
  ToolLimits,     \* tool -> [max, min] of its parameter: both, one or neither
  TierLimits,     \* tier -> tool -> the same, from the configuration
  Arguments,      \* tool -> what the LLM may pass: numbers, or
  NotGiven, NotANumber,
  Requests, ToolCalls,   \* tier -> requests and tool calls per minute
  Fallbacks,      \* fallback_models: catalog ids, or bare model names
  Catalog,        \* catalog id -> supports_tools
  Attempts,       \* of each endpoint: max(3, num_retries + 1)
  MaxIterations,  \* MAX_ITERATIONS
  MaxCalls,       \* bound: tool calls in one answer
  Sizes,          \* sizes of messages
  Budget,         \* the model's context less the system prompt and 4096
  TightBudget,    \* ... and 8192
  Window,         \* 60 s
  CleanupAge,     \* RateLimiter.cleanup's max_age
  MaxTurns, MaxNow   \* bounds: turns and time

TierNames == Range(Tiers)

ASSUME TierAssumption ==
  /\ Tiers \in Seq(TierNames) /\ Tiers # <<>> /\ NoTier \notin TierNames /\ IsInjective(Tiers)
  /\ Parent \in [TierNames -> TierNames \cup {NoTier}]
  /\ DeclaredTier \in [Tools -> TierNames]
  /\ Granted \in [TierNames -> SUBSET Tools]
  /\ Requests \in [TierNames -> Nat] /\ ToolCalls \in [TierNames -> Nat]

ASSUME AgentAssumption ==
  /\ Catalog \in [DOMAIN Catalog -> BOOLEAN] /\ DOMAIN Fallbacks = 1 .. Len(Fallbacks) /\ Attempts \in Nat \ {0}
  /\ MaxIterations \in Nat \ {0} /\ MaxCalls \in Nat \ {0}
  /\ Sizes \subseteq Nat /\ Budget \in Nat /\ TightBudget \in Nat
  /\ Window \in Nat \ {0} /\ CleanupAge \in Nat /\ Window <= CleanupAge
  /\ MaxTurns \in Nat /\ MaxNow \in Nat

VARIABLES
  doing,        \* "idle", "asking" the LLM, "waiting" to, "calling" tools
  tier,         \* the turn's tier
  iteration,    \* requests to the LLM that are behind it
  conversation, \* Session.conversation without the system prompt
  pending,      \* ids of the tool calls still to be handled
  result,       \* of the last turn
  turns,
  now,          \* time.time()
  requests,     \* the limiter's time stamps of the survivor's requests
  toolCalls,    \* ... and of the tool calls
  executed       \* history: every call that was run: [tool, value, tier, at]

runVars == <<doing, tier, iteration, conversation, pending, result, turns>>
limiterVars == <<requests, toolCalls>>
agentVars == <<runVars, limiterVars, now, executed>>

AgentInit ==
  /\ doing = "idle" /\ tier = Tiers[1] /\ iteration = 0 /\ result = "none" /\ turns = 0
  /\ conversation = <<>> /\ pending = <<>>
  /\ now = 0 /\ requests = <<>> /\ toolCalls = <<>> /\ executed = <<>>

-----------------------------------------------------------------------------
(* ToolRegistry *)

\* A parent's tools are inherited if it was resolved before.
Inherited(resolved, i) ==
  UNION {resolved[j] : j \in {k \in 1 .. i - 1 : Parent[Tiers[i]] = Tiers[k]}}

\* _resolve_tiers, one tier after the other.
Resolved ==
  LET r[i \in 0 .. Len(Tiers)] ==
        IF i = 0 THEN <<>>
        ELSE Append(r[i - 1],
                    {t \in Tools : DeclaredTier[t] = Tiers[i]} \cup Granted[Tiers[i]]
                      \cup Inherited(r[i - 1], i))
  IN [name \in TierNames |-> r[Len(Tiers)][CHOOSE i \in DOMAIN Tiers : Tiers[i] = name]]

\* validate_tool_call: the tier's limits take the place of the tool's; what has a
\* limit must be a number, if it is given.
Within(limits, value) ==
  value # NotGiven /\ limits # <<>> =>
    /\ value # NotANumber
    /\ "max" \in DOMAIN limits => value <= limits.max
    /\ "min" \in DOMAIN limits => value >= limits.min

Limits(t, tool) ==
  LET own == TierLimits[t][tool] IN
  [kind \in DOMAIN own \cup DOMAIN ToolLimits[tool] |->
     IF kind \in DOMAIN own THEN own[kind] ELSE ToolLimits[tool][kind]]

Permits(t, tool, value) == tool \in Resolved[t] /\ Within(Limits(t, tool), value)

-----------------------------------------------------------------------------
(* RateLimiter *)

\* check drops the stamps that have left the window.
Recent(stamps) ==
  LET kept[i \in 0 .. Len(stamps)] ==
        IF i = 0 THEN <<>>
        ELSE IF stamps[i] + Window > now THEN Append(kept[i - 1], stamps[i])
        ELSE kept[i - 1]
  IN kept[Len(stamps)]

\* Mutant of HasRoom: off by one.
HasRoomForMore(stamps, limit) == Len(Recent(stamps)) <= limit

HasRoom(stamps, limit) == Len(Recent(stamps)) < limit

Idle(stamps) == stamps # <<>> => Last(stamps) + CleanupAge < now

\* cleanup, every minute.
ForgetIdle ==
  /\ requests \o toolCalls # <<>>
  /\ Idle(requests) /\ Idle(toolCalls)
  /\ requests' = <<>> /\ toolCalls' = <<>>
  /\ UNCHANGED <<runVars, now, executed>>

Tick ==
  /\ now < MaxNow
  /\ now' = now + 1
  /\ UNCHANGED <<runVars, limiterVars, executed>>

-----------------------------------------------------------------------------
(* LLMProvider.complete *)

\* resolve_endpoint: what is not in the catalog is taken for a model with tools.
ResolveEndpoint(spec) == spec \in DOMAIN Catalog => Catalog[spec]

\* The endpoints: does each support tools?  The primary does.
Chain == <<TRUE>> \o [i \in DOMAIN Fallbacks |-> ResolveEndpoint(Fallbacks[i])]

Failures == {"overflow", "unauthorized", "rejected", "limited", "unavailable"}
Transient == {"limited", "unavailable"}

\* What comes of one endpoint: only transient failures are tried again.
Attempted(a) ==
  IF \E i \in 1 .. Attempts : a[i] \notin Transient
  THEN a[CHOOSE i \in 1 .. Attempts :
           a[i] \notin Transient /\ \A j \in 1 .. i - 1 : a[j] \in Transient]
  ELSE a[Attempts]

EndpointResults == {Attempted(a) : a \in [1 .. Attempts -> Failures \cup {"served"}]}

Eligible(withTools) == {e \in DOMAIN Chain : withTools => Chain[e]}

\* Who decides: the first endpoint that serves the request or finds it too long.
Decisive(o, withTools) ==
  {e \in Eligible(withTools) :
     /\ o[e] \in {"served", "overflow"}
     /\ \A f \in Eligible(withTools) : f < e => o[f] \notin {"served", "overflow"}}

\* If none does: the last one's failure.
Completion(o, withTools) ==
  IF Decisive(o, withTools) # {} THEN o[CHOOSE e \in Decisive(o, withTools) : TRUE]
  ELSE IF Eligible(withTools) = {} THEN "rejected"
  ELSE o[CHOOSE e \in Eligible(withTools) : \A f \in Eligible(withTools) : f <= e]

-----------------------------------------------------------------------------
(* The conversation *)

Message(role, ids, size) == [role |-> role, ids |-> ids, size |-> size]

SizeOf(c) == FoldLeft(LAMBDA n, m : n + m.size, 0, c)

\* truncate_to_budget: the longest end of the conversation that fits, if need be none.
Truncated(c, budget) ==
  LET fits == {n \in 1 .. Len(c) + 1 : n = Len(c) + 1 \/ SizeOf(SubSeq(c, n, Len(c))) <= budget}
  IN SubSeq(c, CHOOSE n \in fits : \A k \in fits : n <= k, Len(c))

-----------------------------------------------------------------------------
(* A turn *)

\* A message over the limit is refused before it becomes a turn.
TurnDown(t) ==
  /\ doing = "idle" /\ turns < MaxTurns
  /\ ~ HasRoom(requests, Requests[t])
  /\ requests' = Recent(requests)
  /\ turns' = turns + 1
  /\ UNCHANGED <<doing, tier, iteration, conversation, pending, result, toolCalls, now, executed>>

\* set_context(history) and the beginning of run.
TakeTurn(t, history, size) ==
  /\ doing = "idle" /\ turns < MaxTurns
  /\ HasRoom(requests, Requests[t])
  /\ requests' = Append(Recent(requests), now)
  /\ turns' = turns + 1
  /\ doing' = "asking" /\ tier' = t /\ iteration' = 0 /\ result' = "none" /\ pending' = <<>>
  /\ conversation' = Truncated(Append(history, Message("user", {}, size)), Budget)
  /\ UNCHANGED <<toolCalls, now, executed>>

End(r) == doing' = "idle" /\ result' = r

WithTools == Resolved[tier] # {} /\ iteration < MaxIterations - 1

\* Mutant of MayAsk: one iteration too many.
MayAskOnceMore == iteration <= MaxIterations

MayAsk == iteration < MaxIterations

\* The LLM's last word, or calls of tools.
Answered(size) ==
  /\ End("answer")
  /\ conversation' = Append(conversation, Message("assistant", {}, size))
  /\ UNCHANGED <<iteration, pending>>

Called(n, size) ==
  LET ids == [i \in 1 .. n |-> <<iteration, i>>] IN
  /\ doing' = "calling" /\ pending' = ids
  /\ conversation' = Append(conversation, Message("assistant", Range(ids), size))
  /\ UNCHANGED <<iteration, result>>

\* ContextWindowExceededError
Overflowed ==
  /\ conversation' = Truncated(conversation, TightBudget)
  /\ iteration' = iteration + 1
  /\ UNCHANGED <<doing, pending, result>>

\* RateLimitError: sleep, longer with every iteration, and ask again.
Limited == doing' = "waiting" /\ UNCHANGED <<iteration, conversation, pending, result>>

Failed == End("error") /\ UNCHANGED <<iteration, conversation, pending>>

Ask ==
  /\ doing = "asking" /\ MayAsk
  /\ \E outcome \in {Completion(o, WithTools) : o \in [DOMAIN Chain -> EndpointResults]} :
       \/ outcome = "served" /\ \E size \in Sizes :
            Answered(size) \/ \E n \in 1 .. MaxCalls : Called(n, size)
       \/ outcome = "overflow" /\ Overflowed
       \/ outcome = "limited" /\ Limited
       \/ outcome \notin {"served", "overflow", "limited"} /\ Failed
  /\ UNCHANGED <<tier, turns, limiterVars, now, executed>>

\* Mutant of Waited: waiting for the provider is no iteration.
WaitedForFree ==
  /\ doing = "waiting"
  /\ doing' = "asking"
  /\ UNCHANGED <<tier, iteration, conversation, pending, result, turns, limiterVars, now, executed>>

Waited ==
  /\ doing = "waiting"
  /\ doing' = "asking" /\ iteration' = iteration + 1
  /\ UNCHANGED <<tier, conversation, pending, result, turns, limiterVars, now, executed>>

\* The iterations are used up.
TooMany ==
  /\ doing = "asking" /\ ~ MayAsk
  /\ End("transient")
  /\ UNCHANGED <<tier, iteration, conversation, pending, turns, limiterVars, now, executed>>

Resulted(size) ==
  /\ conversation' = Append(conversation, Message("tool", {Head(pending)}, size))
  /\ pending' = Tail(pending)
  /\ UNCHANGED <<doing, tier, iteration, result, turns, requests, now>>

\* Mutant of TurnAway: the refused call gets no result.
TurnAwaySilently(size) ==
  /\ doing = "calling" /\ pending # <<>>
  /\ pending' = Tail(pending)
  /\ UNCHANGED <<conversation, doing, tier, iteration, result, turns, limiterVars, now, executed>>

\* Arguments that are no JSON, a tool the tier has not, or a broken constraint.
TurnAway(size) ==
  /\ doing = "calling" /\ pending # <<>>
  /\ Resulted(size)
  /\ UNCHANGED <<toolCalls, executed>>

Throttle(tool, value, size) ==
  /\ doing = "calling" /\ pending # <<>>
  /\ Permits(tier, tool, value) /\ ~ HasRoom(toolCalls, ToolCalls[tier])
  /\ toolCalls' = Recent(toolCalls)
  /\ Resulted(size)
  /\ UNCHANGED executed

\* The tool is run; it returns, raises or is cut off after 30 s.
CallTool(tool, value, size) ==
  /\ doing = "calling" /\ pending # <<>>
  /\ Permits(tier, tool, value) /\ HasRoom(toolCalls, ToolCalls[tier])
  /\ toolCalls' = Append(Recent(toolCalls), now)
  /\ executed' = Append(executed, [tool |-> tool, value |-> value, tier |-> tier, at |-> now])
  /\ Resulted(size)

NextIteration ==
  /\ doing = "calling" /\ pending = <<>>
  /\ doing' = "asking" /\ iteration' = iteration + 1
  /\ UNCHANGED <<tier, conversation, pending, result, turns, limiterVars, now, executed>>

\* _TURN_WALLCLOCK_TIMEOUT: the run is cancelled at whatever await.
CutOff ==
  /\ doing # "idle"
  /\ End("canned")
  /\ UNCHANGED <<tier, iteration, conversation, pending, turns, limiterVars, now, executed>>

\* Arguments that are JSON but no object: run raises, and the turn with it.
RunRaises ==
  /\ doing = "calling" /\ pending # <<>>
  /\ End("none")
  /\ UNCHANGED <<tier, iteration, conversation, pending, turns, limiterVars, now, executed>>

\* What the assembler may give as history: nothing, or the last exchange.
PastTurns ==
  {<<>>} \cup {<<Message("user", {}, m), Message("assistant", {}, n)>> : m, n \in Sizes}

\* What the agent does of itself: every request and every tool has a timeout, every
\* wait ends.
AgentStep ==
  \/ Ask \/ Waited \/ TooMany \/ NextIteration
  \/ \E size \in Sizes : TurnAway(size)
  \/ \E tool \in Tools : \E value \in Arguments[tool], size \in Sizes :
       Throttle(tool, value, size) \/ CallTool(tool, value, size)

AgentNext ==
  \/ AgentStep \/ CutOff \/ RunRaises \/ ForgetIdle \/ Tick
  \/ \E t \in TierNames : TurnDown(t) \/ \E h \in PastTurns, size \in Sizes : TakeTurn(t, h, size)

AgentSpec == AgentInit /\ [][AgentNext]_agentVars

-----------------------------------------------------------------------------
(* Properties *)

Messages == [role : {"user", "assistant", "tool"}, ids : SUBSET (Nat \X Nat), size : Sizes]

AgentTypeOK ==
  /\ doing \in {"idle", "asking", "waiting", "calling"} /\ tier \in TierNames
  /\ iteration \in 0 .. MaxIterations
  /\ conversation \in Seq(Messages) /\ pending \in Seq(Nat \X Nat)
  /\ result \in {"none", "answer", "error", "transient", "canned"}
  /\ turns \in 0 .. MaxTurns /\ now \in 0 .. MaxNow
  /\ requests \in Seq(0 .. now) /\ toolCalls \in Seq(0 .. now)
  /\ executed \in Seq([tool : Tools, value : UNION {Arguments[t] : t \in Tools},
                        tier : TierNames, at : 0 .. now])

\* When the LLM is asked, every tool call of the conversation is followed by its
\* results, one each, whatever became of the call; a result without its call can
\* only stand at the front, where a truncation cut the call off.
CallsAreAnswered ==
  doing = "asking" =>
    LET c == conversation
        AnswersTo(j, id) == {i \in j + 1 .. j + Cardinality(c[j].ids) :
                               i \in DOMAIN c /\ c[i].role = "tool" /\ c[i].ids = {id}}
        IsOwned(i) == \E j \in 1 .. i - 1 : c[j].role = "assistant" /\ c[i].ids \subseteq c[j].ids
    IN /\ \A j \in DOMAIN c : c[j].role = "assistant" =>
            \A id \in c[j].ids : Cardinality(AnswersTo(j, id)) = 1
       /\ \A i \in DOMAIN c : c[i].role = "tool" /\ ~ IsOwned(i) =>
            \A k \in 1 .. i : c[k].role = "tool"

\* The tiers a tier inherits from, itself included.
Line(t) ==
  LET up[n \in 0 .. Len(Tiers)] ==
        IF n = 0 THEN {t} ELSE up[n - 1] \cup ({Parent[u] : u \in up[n - 1]} \ {NoTier})
  IN up[Len(Tiers)]

\* The limits in force: of each kind the tier's, or else the tool's.
InForce(g, kind) ==
  LET own == TierLimits[g.tier][g.tool] IN
  IF kind \in DOMAIN own THEN {own[kind]}
  ELSE IF kind \in DOMAIN ToolLimits[g.tool] THEN {ToolLimits[g.tool][kind]} ELSE {}

\* A tool is run only if the turn's tier or one it inherits from has it, with a value
\* that keeps every limit in force for the tier, and never more often within a window
\* than that tier allows, through changes of the tier and clean-ups of the limiter.
EveryCallIsCleared ==
  \A i \in DOMAIN executed :
    LET g == executed[i] IN
    /\ DeclaredTier[g.tool] \in Line(g.tier) \/ \E u \in Line(g.tier) : g.tool \in Granted[u]
    /\ g.value # NotGiven =>
         /\ \A n \in InForce(g, "max") : g.value <= n
         /\ \A n \in InForce(g, "min") : g.value >= n
    /\ Cardinality({j \in 1 .. i : executed[j].at + Window > g.at}) <= ToolCalls[g.tier]

\* Every turn ends, however often the provider refuses and whatever becomes of the
\* calls: the agent is never stuck in a turn, and each thing it does uses up one of
\* MAX_ITERATIONS, turns an answer into calls, or settles one call more.
EveryRunEnds ==
  [][doing # "idle" =>
       /\ ENABLED AgentStep
       /\ doing' # "idle" /\ runVars' # runVars =>
            \/ iteration < MaxIterations /\ iteration' = iteration + 1
            \/ iteration' = iteration /\ doing = "asking" /\ doing' # "asking"
            \/ iteration' = iteration /\ doing' = "calling" /\ Len(pending') < Len(pending)]_agentVars
=============================================================================
