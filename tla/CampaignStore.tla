--------------------------- MODULE CampaignStore ----------------------------
(***************************************************************************)
(* campaign.db, the survivors' memory (db/campaign_store.py), and the tool *)
(* that gives a survivor a new key (tools/migrate_campaign_eos.py).        *)
(*                                                                         *)
(* The bridge writes while turns run; each of its write units is one       *)
(* statement and its commit.  The tool is another process on the same      *)
(* file: it counts what there is table by table, decides, and then deletes *)
(* and renames in one transaction.  BEGIN takes no lock: until the first   *)
(* of its statements the bridge goes on writing; from then on the bridge   *)
(* waits (busy_timeout).  The tool may die anywhere.                       *)
(*                                                                         *)
(* A row is who it belongs to and an id that the tool does not change.     *)
(* touch_lore and what updates leave behind in a row are left out, and     *)
(* curation state is written by nobody yet.                                *)
(***************************************************************************)
EXTENDS Naturals, Sequences, FiniteSets

CONSTANTS
  Old, New,     \* --old and --new
  MaxRows,      \* bound: rows ever written
  MaxRekeys     \* bound: runs of the tool

ASSUME KeysAssumption == Old # New /\ MaxRows \in Nat /\ MaxRekeys \in Nat

Keys == {Old, New}
TABLES == <<"survivors", "lorebook_entries", "conversation_messages", "curation_state">>
TableNames == {"survivors", "lorebook_entries", "conversation_messages", "curation_state"}
Keyed == {"survivors", "curation_state"}            \* PRIMARY KEY on the survivor
Histories == {"lorebook_entries", "conversation_messages"}

VARIABLES
  rows,       \* committed: table -> set of [id, owner]
  inTurn,     \* keys with a turn under way
  written,    \* rows ever written
  tool,       \* "off", "counting", "begun"
  options,    \* subset of {"commit", "absorb"}
  step,       \* the tool's next count or statement
  found,      \* tables in which it found rows of New
  work,       \* the tables as its transaction sees them
  rekeys,
  overtaken   \* history: has New been written to since the counting began?

bridgeVars == <<inTurn, written>>
toolVars == <<tool, options, step, found, work, rekeys>>
campaignVars == <<rows, bridgeVars, toolVars, overtaken>>

Of(tables, t, k) == {r \in tables[t] : r.owner = k}

NoRows == [t \in TableNames |-> {}]

CampaignInit ==
  /\ rows \in {NoRows, [NoRows EXCEPT !["curation_state"] = {[id |-> 0, owner |-> Old]}]}
  /\ inTurn = {} /\ written = 0
  /\ tool = "off" /\ options = {} /\ step = 1 /\ found = {} /\ work = NoRows
  /\ rekeys = 0 /\ overtaken = FALSE

-----------------------------------------------------------------------------
(* The bridge *)

ToolWrites == tool = "begun" /\ step > 1

\* A write of key k's, which the tool's counts may have missed.
Overtakes(k) == overtaken' = (overtaken \/ (k = New /\ tool # "off"))

Add(t, k) ==
  /\ written < MaxRows
  /\ written' = written + 1
  /\ rows' = [rows EXCEPT ![t] = @ \cup {[id |-> written', owner |-> k]}]
  /\ Overtakes(k)

\* A turn begins with upsert_survivor.
BeginTurn(k) ==
  /\ k \notin inTurn /\ ~ ToolWrites
  /\ inTurn' = inTurn \cup {k}
  /\ IF Of(rows, "survivors", k) = {} THEN Add("survivors", k)
     ELSE UNCHANGED <<rows, written, overtaken>>
  /\ UNCHANGED toolVars

\* add_message at its end, add_lore by a tool call.
Store(k, t) ==
  /\ k \in inTurn /\ ~ ToolWrites
  /\ Add(t, k)
  /\ UNCHANGED <<inTurn, toolVars>>

Removable(k) == Of(rows, "lorebook_entries", k)

RemoveLore(k) ==
  /\ k \in inTurn /\ ~ ToolWrites
  /\ \E r \in Removable(k) : rows' = [rows EXCEPT !["lorebook_entries"] = @ \ {r}]
  /\ Overtakes(k)
  /\ UNCHANGED <<bridgeVars, toolVars>>

EndTurn(k) ==
  /\ k \in inTurn
  /\ inTurn' = inTurn \ {k}
  /\ UNCHANGED <<rows, written, toolVars, overtaken>>

-----------------------------------------------------------------------------
(* The tool *)

\* The OLD key has rows.
Start(o) ==
  /\ tool = "off" /\ rekeys < MaxRekeys
  /\ \E t \in TableNames : Of(rows, t, Old) # {}
  /\ tool' = "counting" /\ options' = o /\ step' = 1 /\ found' = {}
  /\ rekeys' = rekeys + 1 /\ overtaken' = FALSE
  /\ UNCHANGED <<rows, bridgeVars, work>>

Count ==
  /\ tool = "counting" /\ step <= Len(TABLES)
  /\ found' = IF Of(rows, TABLES[step], New) = {} THEN found ELSE found \cup {TABLES[step]}
  /\ step' = step + 1
  /\ UNCHANGED <<rows, bridgeVars, tool, options, work, rekeys, overtaken>>

TargetExists == found \cap Keyed # {}
TargetEmpty == found \cap Histories = {}

Off ==
  /\ tool' = "off" /\ options' = {} /\ step' = 1 /\ found' = {} /\ work' = NoRows
  /\ UNCHANGED <<bridgeVars, rekeys>>

\* Mutant of MayWrite: a target that has history is absorbed, too.
MayWriteOver == "commit" \in options /\ (TargetExists => "absorb" \in options)

MayWrite ==
  /\ "commit" \in options
  /\ TargetExists => "absorb" \in options /\ TargetEmpty

\* A dry run, or a target it must not touch.
Declines ==
  /\ tool = "counting" /\ step > Len(TABLES) /\ ~ MayWrite
  /\ Off
  /\ UNCHANGED <<rows, overtaken>>

Begin ==
  /\ tool = "counting" /\ step > Len(TABLES) /\ MayWrite
  /\ tool' = "begun" /\ step' = 1
  /\ UNCHANGED <<rows, bridgeVars, options, found, work, rekeys, overtaken>>

\* DELETE FROM t of New's rows, if the target exists; then UPDATE t.
RekeyStatements ==
  (IF TargetExists THEN [i \in DOMAIN TABLES |-> <<"delete", TABLES[i]>>] ELSE <<>>)
    \o [i \in DOMAIN TABLES |-> <<"update", TABLES[i]>>]

\* Mutant of Conflicts: a table without a PRIMARY KEY.
ConflictsNever(tables, s) == FALSE

Conflicts(tables, s) ==
  s[1] = "update" /\ s[2] \in Keyed /\ \A k \in Keys : Of(tables, s[2], k) # {}

Renamed(r) == IF r.owner = Old THEN [r EXCEPT !.owner = New] ELSE r

Result(tables, s) ==
  [tables EXCEPT ![s[2]] = IF s[1] = "delete" THEN @ \ Of(tables, s[2], New)
                           ELSE {Renamed(r) : r \in @}]

Seen == IF step = 1 THEN rows ELSE work

\* Mutant of Execute: every statement is committed.
ExecuteAndCommit ==
  /\ tool = "begun" /\ step <= Len(RekeyStatements)
  /\ ~ Conflicts(Seen, RekeyStatements[step])
  /\ work' = Result(Seen, RekeyStatements[step])
  /\ rows' = work'
  /\ step' = step + 1
  /\ UNCHANGED <<bridgeVars, tool, options, found, rekeys, overtaken>>

Execute ==
  /\ tool = "begun" /\ step <= Len(RekeyStatements)
  /\ ~ Conflicts(Seen, RekeyStatements[step])
  /\ work' = Result(Seen, RekeyStatements[step])
  /\ step' = step + 1
  /\ UNCHANGED <<rows, bridgeVars, tool, options, found, rekeys, overtaken>>

\* IntegrityError: ROLLBACK, and nothing has changed.
Aborts ==
  /\ tool = "begun" /\ step <= Len(RekeyStatements)
  /\ Conflicts(Seen, RekeyStatements[step])
  /\ Off
  /\ UNCHANGED <<rows, overtaken>>

Commits ==
  /\ tool = "begun" /\ step > Len(RekeyStatements)
  /\ rows' = work
  /\ Off
  /\ UNCHANGED overtaken

\* Killed, or locked out by a write of the bridge for 5 s.
Dies ==
  /\ tool # "off"
  /\ Off
  /\ UNCHANGED <<rows, overtaken>>

CampaignNext ==
  \/ \E k \in Keys :
       BeginTurn(k) \/ RemoveLore(k) \/ EndTurn(k) \/ \E t \in Histories : Store(k, t)
  \/ \E o \in SUBSET {"commit", "absorb"} : Start(o)
  \/ Count \/ Declines \/ Begin \/ Execute \/ Aborts \/ Commits \/ Dies

CampaignSpec == CampaignInit /\ [][CampaignNext]_campaignVars

-----------------------------------------------------------------------------
(* Properties *)

CampaignTypeOK ==
  /\ \A t \in TableNames : \A tables \in {rows, work} :
       /\ tables[t] \subseteq [id : 0 .. written, owner : Keys]
       /\ t \in Keyed => \A k \in Keys : Cardinality(Of(tables, t, k)) <= 1
  /\ inTurn \subseteq Keys /\ written \in 0 .. MaxRows /\ rekeys \in 0 .. MaxRekeys
  /\ tool \in {"off", "counting", "begun"} /\ options \subseteq {"commit", "absorb"}
  /\ step \in 1 .. 9 /\ found \subseteq TableNames /\ overtaken \in BOOLEAN

\* "a fast single transaction": if any row changes hands, then all of Old's rows in
\* all the tables do, in that same step, whatever the bridge writes and wherever the
\* tool dies; never is one survivor's memory spread over two keys by the tool.
RekeyIsWhole ==
  [][(\E t \in TableNames : \E r \in Of(rows, t, Old) : Renamed(r) \in rows'[t])
       => \A t \in TableNames : /\ Of(rows', t, Old) = {}
                                /\ \A r \in Of(rows, t, Old) : Renamed(r) \in rows'[t]]_campaignVars

\* "this tool never merges two identities' histories", nor loses any: unless the
\* bridge wrote to New between the counts and the transaction, what the tool commits
\* keeps every message and every lore entry, and New, if it was a survivor, had none.
HistoriesSurvive ==
  [][(tool # "off" /\ tool' = "off" /\ rows' # rows /\ ~ overtaken)
       => \A t \in Histories :
            /\ {r.id : r \in rows[t]} \subseteq {r.id : r \in rows'[t]}
            /\ Of(rows, "survivors", New) # {} => Of(rows, t, New) = {}]_campaignVars
=============================================================================
