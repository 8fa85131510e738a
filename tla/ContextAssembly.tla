-------------------------- MODULE ContextAssembly ---------------------------
(***************************************************************************)
(* What the LLM is told in one survivor's turns (db/assembler.py), from    *)
(* what the stores hold then (db/campaign_store.py, tools/memory.py).      *)
(*                                                                         *)
(* The assembler reads one thing after the other: what was last read from  *)
(* the survivor's implant, the events the turn was handed, what is remembered   *)
(* for good, what is remembered and fits the message, and as much of the   *)
(* history as the rest of the token budget allows.  Between two reads      *)
(* other tasks write: the previous turn's rows come after its lock is      *)
(* released, and a tool call that a turn left behind may still remember    *)
(* or forget.                                                              *)
(*                                                                         *)
(* A text is the words it holds or its estimated tokens; a line of a block *)
(* is one token.  Entries are as old as their ids say.                     *)
(***************************************************************************)
EXTENDS Integers, Sequences, SequencesExt, FiniteSets, FiniteSetsExt

CONSTANTS
  Facts,          \* what can be remembered: [sticky, words]
  Questions,      \* sets of words: what can be asked
  RowSizes,       \* tokens of a row of the history
  TokenBudget,    \* token_budget
  ChatReserve,    \* _CHAT_RESERVE
  MinChat,        \* 1000: what the history is given at least
  MaxRead,        \* max_rows
  LoreLimit,      \* search_lore's limit
  DeathLimit,     \* _DEATH_PUSH_MAX
  DeathAge,       \* _DEATH_PUSH_MAX_AGE_S
  StaleAfter,     \* _STALE_AFTER_S
  MaxLore, MaxHistory, MaxEvents, MaxMinutes   \* bounds

ASSUME ContextAssumption ==
  /\ \A f \in Facts : f.sticky \in BOOLEAN /\ IsFiniteSet(f.words)
  /\ RowSizes \subseteq Nat \ {0}
  /\ {TokenBudget, ChatReserve, MinChat, DeathAge, StaleAfter} \subseteq Nat
  /\ {MaxRead, LoreLimit, DeathLimit, MaxLore, MaxHistory, MaxEvents, MaxMinutes} \subseteq Nat

VARIABLES
  minute,       \* time
  lore,         \* lorebook_entries: [id, fact, used], used being last_used_at
  loreId,       \* the last id given
  history,      \* conversation_messages: sizes of the rows, oldest first
  combat,       \* the survivor's recent events: [death, at], oldest first
  captured,     \* player_state.captured_at, or -1 without a row
  vitalsAt,     \* history: when the row's vitals were read, or -1
  reading,      \* which read of the assembler is next
  draft         \* what it has so far

contextVars == <<minute, lore, loreId, history, combat, captured, vitalsAt, reading, draft>>
storeVars == <<minute, lore, loreId, history, combat, captured, vitalsAt>>

Nothing ==
  [asked |-> {}, since |-> 0, at |-> 0, events |-> <<>>, sensors |-> "none",
   deaths |-> <<>>, remembered |-> <<>>, rows |-> <<>>]

ContextInit ==
  /\ minute = 0 /\ lore = {} /\ loreId = 0 /\ history = <<>>
  /\ combat = <<>> /\ captured = -1 /\ vitalsAt = -1
  /\ reading = "idle" /\ draft = Nothing

-----------------------------------------------------------------------------
(* What others write meanwhile *)

\* remember
Remember(f) ==
  /\ loreId < MaxLore
  /\ loreId' = loreId + 1
  /\ lore' = lore \cup {[id |-> loreId', fact |-> f, used |-> 0]}
  /\ UNCHANGED <<minute, history, combat, captured, vitalsAt, reading, draft>>

\* forget
Forget(e) ==
  /\ e \in lore
  /\ lore' = lore \ {e}
  /\ UNCHANGED <<minute, loreId, history, combat, captured, vitalsAt, reading, draft>>

\* add_message
Persist(size) ==
  /\ Len(history) < MaxHistory
  /\ history' = Append(history, size)
  /\ UNCHANGED <<minute, lore, loreId, combat, captured, vitalsAt, reading, draft>>

\* An event of the survivor reaches the ring.
Happens(death) ==
  /\ Len(combat) < MaxEvents
  /\ combat' = Append(combat, [death |-> death, at |-> minute])
  /\ UNCHANGED <<minute, lore, loreId, history, captured, vitalsAt, reading, draft>>

\* A getter stores what it has read, vitals or something else; the row keeps the rest.
Capture(ofVitals) ==
  /\ captured' = minute
  /\ vitalsAt' = IF ofVitals THEN minute ELSE vitalsAt
  /\ UNCHANGED <<minute, lore, loreId, history, combat, reading, draft>>

MinutePasses ==
  /\ minute < MaxMinutes
  /\ minute' = minute + 1
  /\ UNCHANGED <<lore, loreId, history, combat, captured, vitalsAt, reading, draft>>

-----------------------------------------------------------------------------
(* The assembler *)

\* The turn hands its events over as they are now.
Assemble(words) ==
  /\ reading \in {"idle", "done"}
  /\ reading' = "telemetry"
  /\ draft' = [Nothing EXCEPT !.asked = words, !.since = loreId, !.at = minute, !.events = combat]
  /\ UNCHANGED storeVars

\* _telemetry_block: a row that is too old carries a warning.
Sensors ==
  IF captured < 0 THEN "none" ELSE IF minute - captured > StaleAfter THEN "stale" ELSE "current"

\* The members of a set, each before those that come after it.
Sorted(S, Before(_, _)) ==
  CHOOSE s \in [1 .. Cardinality(S) -> S] : \A j \in DOMAIN s : \A i \in 1 .. j - 1 : Before(s[i], s[j])

Top(s, n) == SubSeq(s, 1, Min({n, Len(s)}))
Picked(s, places) == [n \in DOMAIN places |-> s[places[n]]]

\* _recent_deaths_block: the newest ones of those not too old.
RecentDeaths(events) ==
  LET young == {i \in DOMAIN events : events[i].death /\ minute - events[i].at <= DeathAge}
  IN Picked(events, Top(Sorted(young, >), DeathLimit))

ReadTelemetry ==
  /\ reading = "telemetry"
  /\ reading' = "sticky"
  /\ draft' = [draft EXCEPT !.sensors = Sensors, !.deaths = RecentDeaths(draft.events)]
  /\ UNCHANGED storeVars

Newer(e, f) == e.id > f.id

\* get_sticky_lore: sticky entries are all equally salient.
ReadSticky ==
  /\ reading = "sticky"
  /\ reading' = "hits"
  /\ draft' = [draft EXCEPT !.remembered = Sorted({e \in lore : e.fact.sticky}, Newer)]
  /\ UNCHANGED storeVars

WordsHit(e) == Cardinality(e.fact.words \cap draft.asked)

\* As search_lore ranks them: the others are all equally salient.
Outranks(e, f) == WordsHit(e) > WordsHit(f) \/ (WordsHit(e) = WordsHit(f) /\ Newer(e, f))

Found == Top(Sorted({e \in lore : ~ e.fact.sticky /\ WordsHit(e) > 0}, Outranks), LoreLimit)

\* An entry is listed once.
ReadHits ==
  /\ reading = "hits"
  /\ LET seen == {e.id : e \in ToSet(draft.remembered)}
         new == {i \in DOMAIN Found : Found[i].id \notin seen}
         all == draft.remembered \o Picked(Found, Sorted(new, <))
     IN /\ draft' = [draft EXCEPT !.remembered = all]
        /\ reading' = IF all = <<>> THEN "history" ELSE "touch"
  /\ UNCHANGED storeVars

\* touch_lore: entries that are gone are not touched.
Touch ==
  /\ reading = "touch"
  /\ reading' = "history"
  /\ lore' = {[e EXCEPT !.used = IF e.id \in {d.id : d \in ToSet(draft.remembered)}
                                 THEN minute ELSE @] : e \in lore}
  /\ UNCHANGED <<minute, loreId, history, combat, captured, vitalsAt, draft>>

\* Who is speaking, the vitals, the deaths, what is remembered.
SystemTokens ==
  1 + (IF draft.sensors = "none" THEN 0 ELSE IF draft.sensors = "stale" THEN 2 ELSE 1)
    + Len(draft.deaths) + Len(draft.remembered)

\* What is left; written without a negative difference.
ChatBudget ==
  IF SystemTokens + ChatReserve + MinChat > TokenBudget THEN MinChat
  ELSE TokenBudget - SystemTokens - ChatReserve

Total(rows) ==
  LET sum[n \in 0 .. Len(rows)] == IF n = 0 THEN 0 ELSE sum[n - 1] + rows[n]
  IN sum[Len(rows)]

\* Mutant of Kept: a row that does not fit is passed over.
KeptWithHoles(rows, budget) ==
  LET kept[n \in 0 .. Len(rows)] ==
        IF n = 0 THEN <<>>
        ELSE LET row == rows[Len(rows) + 1 - n]
             IN IF Total(kept[n - 1]) + row > budget THEN kept[n - 1] ELSE <<row>> \o kept[n - 1]
  IN kept[Len(rows)]

\* recent_within_budget: from the newest back to the first that does not fit.
Kept(rows, budget) ==
  LET Newest(n) == SubSeq(rows, Len(rows) + 1 - n, Len(rows))
      over == {n \in DOMAIN rows : Total(Newest(n)) > budget}
  IN IF over = {} THEN rows ELSE Newest(Min(over) - 1)

ReadHistory ==
  /\ reading = "history"
  /\ reading' = "done"
  /\ LET fetched == SubSeq(history, Max({1, Len(history) + 1 - MaxRead}), Len(history))
     IN draft' = [draft EXCEPT !.rows = Kept(fetched, ChatBudget)]
  /\ UNCHANGED storeVars

ContextNext ==
  \/ \E words \in Questions : Assemble(words)
  \/ ReadTelemetry \/ ReadSticky \/ ReadHits \/ Touch \/ ReadHistory
  \/ \E f \in Facts : Remember(f)
  \/ \E e \in lore : Forget(e)
  \/ \E size \in RowSizes : Persist(size)
  \/ \E death \in BOOLEAN : Happens(death)
  \/ \E ofVitals \in BOOLEAN : Capture(ofVitals)
  \/ MinutePasses

ContextSpec == ContextInit /\ [][ContextNext]_contextVars

-----------------------------------------------------------------------------
(* Properties *)

Entries == [id : 1 .. loreId, fact : Facts, used : 0 .. minute]
CombatEvents == [death : BOOLEAN, at : 0 .. minute]

ContextTypeOK ==
  /\ minute \in 0 .. MaxMinutes /\ {captured, vitalsAt} \subseteq -1 .. minute
  /\ loreId \in 0 .. MaxLore /\ lore \subseteq Entries
  /\ reading \in {"idle", "telemetry", "sticky", "hits", "touch", "history", "done"}
  /\ draft.sensors \in {"none", "stale", "current"}
  /\ Len(combat) <= MaxEvents /\ ToSet(combat) \cup ToSet(draft.deaths) \subseteq CombatEvents
  /\ Len(history) <= MaxHistory /\ ToSet(history) \cup ToSet(draft.rows) \subseteq RowSizes
  /\ ToSet(draft.remembered) \subseteq Entries

\* The history is the newest rows without a gap, as many as fit, and leaves what the
\* rest needs unless that alone is too much.
HistoryFits ==
  LET n == Len(draft'.rows)
      longer == SubSeq(history, Len(history) - n, Len(history))
  IN /\ draft'.rows = SubSeq(history, Len(history) + 1 - n, Len(history))
     /\ SystemTokens + ChatReserve + Total(draft'.rows)
          <= Max({TokenBudget, SystemTokens + ChatReserve + MinChat})
     /\ n < Min({MaxRead, Len(history)}) => Total(longer) > ChatBudget

\* Of what was known when the turn began and still is: all that is remembered for
\* good, and nothing that fits the question less well than something left out.
NothingForgotten ==
  LET given == ToSet(draft.remembered)
      missed == {e \in lore : e.id <= draft.since /\ e.id \notin {g.id : g \in given}}
      hits == {g \in given : ~ g.fact.sticky}
  IN /\ Cardinality({g.id : g \in given}) = Len(draft.remembered)
     /\ \A e \in missed : ~ e.fact.sticky
     /\ \A e \in missed : WordsHit(e) > 0 =>
          Cardinality(hits) = LoreLimit /\ \A h \in hits : Outranks(h, e)
     /\ \A e \in lore : e.id \in {g.id : g \in given} => e.used >= draft.at

\* No old death is news, no new one is held back for an older one.
NewsIsNews ==
  /\ \A i \in DOMAIN draft.deaths : draft.at - draft.deaths[i].at <= DeathAge
  /\ \A i \in 1 .. Len(draft.deaths) - 1 : draft.deaths[i].at >= draft.deaths[i + 1].at
  /\ \A e \in ToSet(draft.events) \ ToSet(draft.deaths) :
       e.death /\ minute - e.at <= DeathAge =>
         Len(draft.deaths) = DeathLimit /\ \A d \in ToSet(draft.deaths) : d.at >= e.at

\* What a turn is told is true of the stores, however much they change while it is
\* being put together.
ContextIsSound ==
  [][reading = "history" /\ reading' = "done" =>
       HistoryFits /\ NothingForgotten /\ NewsIsNews]_contextVars

\* "when the read is stale, tell the LLM to take a fresh reading instead of quoting
\* these numbers": vitals without the warning are at most StaleAfter old.
OldVitalsAreFlagged ==
  [][reading' = "sticky" /\ draft'.sensors = "current" /\ vitalsAt >= 0 =>
       minute - vitalsAt <= StaleAfter]_contextVars
=============================================================================
