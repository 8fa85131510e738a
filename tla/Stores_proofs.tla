---------------------------- MODULE Stores_proofs ----------------------------
(***************************************************************************)
(* What is stored keeps its promises, for any rows, files, scripts, tasks, *)
(* answers and similarities, and wherever deaths and cancellations fall:   *)
(* a survivor's memory moves to a new key as a whole and no history is     *)
(* lost or merged; a lookup in the cache of answers is sound; whoever uses *)
(* a file finds its whole schema on one connection, and opening it fails   *)
(* only after a stop.                                                      *)
(***************************************************************************)
EXTENDS Databases, CampaignStore, SemanticCache, FiniteSetTheorems, SequenceTheorems,
        WellFoundedInduction, TLAPS

-----------------------------------------------------------------------------
(* The tool's transaction *)

\* DELETEs before the UPDATEs.
Deletes == IF TargetExists THEN 4 ELSE 0

\* What a statement makes of its table.
Changed(kind, all) ==
  IF kind = "delete" THEN {r \in all : r.owner # New} ELSE {Renamed(r) : r \in all}

\* The i-th table when statement n is next.
After(i, n) ==
  LET all == rows[TABLES[i]]
      left == IF i <= Deletes /\ i < n THEN Changed("delete", all) ELSE all
  IN IF Deletes + i < n THEN Changed("update", left) ELSE left

\* What the transaction sees is what its statements so far made of the committed rows:
\* from the first on nobody else writes.
WorkIsOwn ==
  tool = "begun" => /\ MayWrite /\ step <= Deletes + 5
                    /\ \A i \in 1 .. 4 : Seen[TABLES[i]] = After(i, step)

\* What was counted still stands, if New was not written to.
CountsHold ==
  tool # "off" /\ ~ overtaken =>
    /\ tool = "counting" => step <= 5
    /\ \A i \in 1 .. 4 : tool = "begun" \/ i < step =>
         (TABLES[i] \in found <=> Of(rows, TABLES[i], New) # {})

\* A table is found to hold rows of New when it is counted.
CountsAreNew == tool = "counting" => \A i \in 1 .. 4 : TABLES[i] \in found => i < step

\* A row's number is its own; a survivor has one row of each keyed table.
OneEach(tables) ==
  \A t \in TableNames : \A r, q \in tables[t] :
    r.id = q.id \/ (t \in Keyed /\ r.owner = q.owner) => r = q

CampaignIInv ==
  /\ {rows, work} \subseteq [TableNames -> SUBSET [id : 0 .. written, owner : Keys]]
  /\ OneEach(rows) /\ OneEach(work)
  /\ inTurn \subseteq Keys /\ written \in 0 .. MaxRows /\ rekeys \in 0 .. MaxRekeys
  /\ tool \in {"off", "counting", "begun"} /\ options \subseteq {"commit", "absorb"}
  /\ step \in 1 .. 9 /\ found \subseteq TableNames /\ overtaken \in BOOLEAN
  /\ WorkIsOwn /\ CountsHold /\ CountsAreNew

LEMMA TablesAre ==
  /\ Len(TABLES) = 4 /\ DOMAIN TABLES = 1 .. 4
  /\ \A i \in 1 .. 4 : TABLES[i] \in TableNames
  /\ \A i, j \in 1 .. 4 : TABLES[i] = TABLES[j] => i = j
  /\ \A t \in TableNames : \E i \in 1 .. 4 : TABLES[i] = t
<1>1. /\ Len(TABLES) = 4 /\ DOMAIN TABLES = 1 .. 4
      /\ TABLES[1] = "survivors" /\ TABLES[2] = "lorebook_entries"
      /\ TABLES[3] = "conversation_messages" /\ TABLES[4] = "curation_state"
  BY DEF TABLES
<1>2. \A i \in 1 .. 4 : i = 1 \/ i = 2 \/ i = 3 \/ i = 4
  OBVIOUS
<1>3. \A t \in TableNames : \E i \in 1 .. 4 : TABLES[i] = t
  BY <1>1 DEF TableNames
<1>4. \A i \in 1 .. 4 : TABLES[i] \in TableNames
  BY <1>1, <1>2 DEF TableNames
<1>5. \A i, j \in 1 .. 4 : TABLES[i] = TABLES[j] => i = j
  BY <1>1, <1>2
<1> QED BY <1>1, <1>3, <1>4, <1>5

LEMMA StatementsAre ==
  /\ Deletes \in {0, 4} /\ Len(RekeyStatements) = Deletes + 4
  /\ \A i \in 1 .. Deletes + 4 :
       RekeyStatements[i] = IF i <= Deletes THEN <<"delete", TABLES[i]>>
                            ELSE <<"update", TABLES[i - Deletes]>>
<1> DEFINE W == {"delete", "update"} \X TableNames
           d == [i \in 1 .. 4 |-> <<"delete", TABLES[i]>>]
           u == [i \in 1 .. 4 |-> <<"update", TABLES[i]>>]
           e == IF TargetExists THEN d ELSE <<>>
<1>1. d \in Seq(W) /\ u \in Seq(W) /\ Len(d) = 4 /\ Len(u) = 4
  <2>1. \A i \in 1 .. 4 : <<"delete", TABLES[i]>> \in W /\ <<"update", TABLES[i]>> \in W
    BY TablesAre
  <2> HIDE DEF W
  <2>2. d \in [1 .. 4 -> W] /\ u \in [1 .. 4 -> W]
    BY <2>1
  <2> HIDE DEF d, u
  <2>3. d \in Seq(W) /\ u \in Seq(W)
    <3> DEFINE n == 4
    <3>1. n \in Nat /\ d \in [1 .. n -> W] /\ u \in [1 .. n -> W]
      BY <2>2
    <3> HIDE DEF n
    <3> QED BY <3>1
  <2>4. DOMAIN d = 1 .. 4 /\ DOMAIN u = 1 .. 4
    BY <2>2
  <2>5. Len(d) = 4
    BY <2>3, <2>4
  <2>6. Len(u) = 4
    BY <2>3, <2>4
  <2> QED BY <2>3, <2>5, <2>6
<1>2. RekeyStatements = e \o u
  BY TablesAre DEF RekeyStatements
<1>3. /\ \A i \in 1 .. 4 : d[i] = <<"delete", TABLES[i]>>
      /\ \A i \in 1 .. 4 : u[i] = <<"update", TABLES[i]>>
  OBVIOUS
<1> HIDE DEF d, u, W
<1>4. e \in Seq(W) /\ Len(e) = Deletes /\ (Deletes # 0 => e = d) /\ Deletes \in {0, 4}
  <2>1. CASE TargetExists
    BY <1>1, <2>1 DEF Deletes
  <2>2. CASE ~ TargetExists
    BY <2>2 DEF Deletes
  <2> QED BY <2>1, <2>2
<1> HIDE DEF e
<1>5. /\ Len(e \o u) = Len(e) + Len(u)
      /\ \A i \in 1 .. Len(e) + Len(u) : (e \o u)[i] = IF i <= Len(e) THEN e[i] ELSE u[i - Len(e)]
  BY <1>1, <1>4, ConcatProperties
<1>6. ASSUME NEW i \in 1 .. Deletes + 4
      PROVE  RekeyStatements[i] = IF i <= Deletes THEN <<"delete", TABLES[i]>>
                                  ELSE <<"update", TABLES[i - Deletes]>>
  <2>1. CASE i <= Deletes
    <3>1. i \in 1 .. 4 /\ e = d /\ i \in 1 .. Len(e) + Len(u) /\ i <= Len(e)
      BY <1>1, <1>4, <2>1
    <3> QED BY <1>2, <1>3, <1>5, <2>1, <3>1
  <2>2. CASE ~ (i <= Deletes)
    <3>1. i - Deletes \in 1 .. 4 /\ i \in 1 .. Len(e) + Len(u) /\ ~ (i <= Len(e))
      BY <1>1, <1>4, <2>2
    <3> QED BY <1>2, <1>3, <1>4, <1>5, <2>2, <3>1
  <2> QED BY <2>1, <2>2
<1> QED BY <1>1, <1>2, <1>4, <1>5, <1>6

\* A statement changes its own table.
LEMMA ResultIs ==
  ASSUME NEW tables, DOMAIN tables = TableNames, NEW kind, NEW u \in TableNames
  PROVE  /\ Result(tables, <<kind, u>>)[u] = Changed(kind, tables[u])
         /\ \A t \in TableNames : t # u => Result(tables, <<kind, u>>)[t] = tables[t]
<1> DEFINE s == <<kind, u>>
<1>1. s[1] = kind /\ s[2] = u
  OBVIOUS
<1> HIDE DEF s
<1> DEFINE x == IF s[1] = "delete" THEN tables[s[2]] \ Of(tables, s[2], New)
                ELSE {Renamed(r) : r \in tables[s[2]]}
<1>2. Result(tables, s) = [tables EXCEPT ![s[2]] = x]
  BY DEF Result
<1>3. x = Changed(kind, tables[u])
  BY <1>1 DEF Changed, Of
<1> HIDE DEF x
<1>4. /\ Result(tables, s)[u] = x /\ \A t \in TableNames : t # u => Result(tables, s)[t] = tables[t]
  BY <1>1, <1>2
<1> QED BY <1>3, <1>4 DEF s

LEMMA ResultIsFunction ==
  ASSUME NEW tables, DOMAIN tables = TableNames, NEW s
  PROVE  Result(tables, s) = [t \in TableNames |-> Result(tables, s)[t]]
<1> DEFINE x == IF s[1] = "delete" THEN tables[s[2]] \ Of(tables, s[2], New)
                ELSE {Renamed(r) : r \in tables[s[2]]}
<1>1. Result(tables, s) = [tables EXCEPT ![s[2]] = x]
  BY DEF Result
<1> HIDE DEF x
<1> QED BY <1>1

\* One statement more.
LEMMA StatementIs ==
  ASSUME CampaignIInv, tool = "begun", step <= Len(RekeyStatements)
  PROVE  \A i \in 1 .. 4 : Result(Seen, RekeyStatements[step])[TABLES[i]] = After(i, step + 1)
<1>1. /\ DOMAIN Seen = TableNames /\ step \in 1 .. Deletes + 4 /\ Deletes \in {0, 4}
      /\ \A i \in 1 .. 4 : Seen[TABLES[i]] = After(i, step)
  BY StatementsAre DEF CampaignIInv, WorkIsOwn, Seen
<1> TAKE i \in 1 .. 4
<1>2. CASE step <= Deletes
  <2>1. step \in 1 .. 4 /\ Deletes = 4 /\ RekeyStatements[step] = <<"delete", TABLES[step]>>
    BY <1>1, <1>2, StatementsAre
  <2>2. TABLES[step] \in TableNames /\ TABLES[i] \in TableNames /\ (TABLES[i] = TABLES[step] => i = step)
    BY <2>1, TablesAre
  <2>2a. /\ Result(Seen, RekeyStatements[step])[TABLES[step]] = Changed("delete", Seen[TABLES[step]])
         /\ TABLES[i] # TABLES[step] =>
              Result(Seen, RekeyStatements[step])[TABLES[i]] = Seen[TABLES[i]]
    <3>0. PICK S : S = Seen
      OBVIOUS
    <3>1. DOMAIN S = TableNames
      BY <1>1, <3>0
    <3>2. ASSUME NEW u \in TableNames, NEW t \in TableNames
          PROVE  /\ Result(S, <<"delete", u>>)[u] = Changed("delete", S[u])
                 /\ t # u => Result(S, <<"delete", u>>)[t] = S[t]
      BY <3>1, ResultIs
    <3> QED BY <2>1, <2>2, <3>0, <3>2
  <2>3. ~ (Deletes + i < step) /\ ~ (Deletes + i < step + 1) /\ i <= Deletes
    BY <2>1
  <2>4. CASE i = step
    <3>1. Result(Seen, RekeyStatements[step])[TABLES[i]] = Changed("delete", Seen[TABLES[i]])
      BY <2>2a, <2>4
    <3>2. ~ (i < step) /\ i < step + 1
      BY <2>1, <2>4
    <3>3. Seen[TABLES[i]] = rows[TABLES[i]]
      BY <1>1, <2>3, <3>2 DEF After
    <3> QED BY <2>3, <3>1, <3>2, <3>3 DEF After
  <2>5. CASE i # step
    <3>1. Result(Seen, RekeyStatements[step])[TABLES[i]] = Seen[TABLES[i]]
      BY <2>2, <2>2a, <2>5
    <3>2. i < step <=> i < step + 1
      BY <2>1, <2>5
    <3>3. Seen[TABLES[i]] = IF i < step THEN Changed("delete", rows[TABLES[i]]) ELSE rows[TABLES[i]]
      BY <1>1, <2>3 DEF After
    <3> QED BY <2>3, <3>1, <3>2, <3>3 DEF After
  <2> QED BY <2>4, <2>5
<1>3. CASE ~ (step <= Deletes)
  <2> DEFINE k == step - Deletes
  <2>1. k \in 1 .. 4 /\ RekeyStatements[step] = <<"update", TABLES[k]>> /\ Deletes + k = step
    BY <1>1, <1>3, StatementsAre
  <2> HIDE DEF k
  <2>2. TABLES[k] \in TableNames /\ TABLES[i] \in TableNames /\ (TABLES[i] = TABLES[k] => i = k)
    BY <2>1, TablesAre
  <2> DEFINE left == IF i <= Deletes THEN Changed("delete", rows[TABLES[i]]) ELSE rows[TABLES[i]]
  <2>2a. /\ Result(Seen, RekeyStatements[step])[TABLES[k]] = Changed("update", Seen[TABLES[k]])
         /\ TABLES[i] # TABLES[k] =>
              Result(Seen, RekeyStatements[step])[TABLES[i]] = Seen[TABLES[i]]
    <3>0. PICK S : S = Seen
      OBVIOUS
    <3>1. DOMAIN S = TableNames
      BY <1>1, <3>0
    <3>2. ASSUME NEW u \in TableNames, NEW t \in TableNames
          PROVE  /\ Result(S, <<"update", u>>)[u] = Changed("update", S[u])
                 /\ t # u => Result(S, <<"update", u>>)[t] = S[t]
      BY <3>1, ResultIs
    <3> QED BY <2>1, <2>2, <3>0, <3>2
  <2>3. /\ After(i, step) = IF Deletes + i < step THEN Changed("update", left) ELSE left
        /\ After(i, step + 1) = IF Deletes + i < step + 1 THEN Changed("update", left) ELSE left
    <3>1. (i <= Deletes /\ i < step <=> i <= Deletes) /\ (i <= Deletes /\ i < step + 1 <=> i <= Deletes)
      BY <1>1, <1>3
    <3> QED BY <3>1 DEF After
  <2> HIDE DEF left
  <2>4. CASE i = k
    <3>1. Result(Seen, RekeyStatements[step])[TABLES[i]] = Changed("update", Seen[TABLES[i]])
      BY <2>2a, <2>4
    <3>2. ~ (Deletes + i < step) /\ Deletes + i < step + 1
      BY <1>1, <2>1, <2>4
    <3> QED BY <1>1, <2>3, <3>1, <3>2
  <2>5. CASE i # k
    <3>1. Result(Seen, RekeyStatements[step])[TABLES[i]] = Seen[TABLES[i]]
      BY <2>2, <2>2a, <2>5
    <3>2. Deletes + i < step <=> Deletes + i < step + 1
      BY <1>1, <2>1, <2>5
    <3> QED BY <1>1, <2>3, <3>1, <3>2
  <2> QED BY <2>4, <2>5
<1> QED BY <1>2, <1>3

\* No statement that does not fail makes two rows one survivor's in a keyed table.
LEMMA ResultFits ==
  ASSUME NEW w \in Nat, NEW tables \in [TableNames -> SUBSET [id : 0 .. w, owner : Keys]],
         OneEach(tables), NEW kind \in {"delete", "update"}, NEW u \in TableNames,
         ~ Conflicts(tables, <<kind, u>>)
  PROVE  /\ Result(tables, <<kind, u>>) \in [TableNames -> SUBSET [id : 0 .. w, owner : Keys]]
         /\ OneEach(Result(tables, <<kind, u>>))
<1> DEFINE s == <<kind, u>>
           X == [id : 0 .. w, owner : Keys]
           T == Result(tables, s)
<1>1. /\ T[u] = Changed(kind, tables[u])
      /\ \A t \in TableNames : t # u => T[t] = tables[t]
      /\ T = [t \in TableNames |-> T[t]]
  <2>1. DOMAIN tables = TableNames
    OBVIOUS
  <2> HIDE DEF X
  <2>2. T[u] = Changed(kind, tables[u]) /\ \A t \in TableNames : t # u => T[t] = tables[t]
    BY <2>1, ResultIs
  <2>3. T = [t \in TableNames |-> T[t]]
    BY <2>1, ResultIsFunction
  <2> QED BY <2>2, <2>3
<1>2. ASSUME kind = "update", u \in Keyed PROVE \E k \in Keys : Of(tables, u, k) = {}
  <2>1. s[1] = kind /\ s[2] = u
    OBVIOUS
  <2> HIDE DEF s
  <2> QED BY <1>2, <2>1 DEF Conflicts, s
<1>3. tables[u] \in SUBSET X
  OBVIOUS
<1>4. \A r \in X : /\ Renamed(r) \in X /\ Renamed(r).id = r.id
                   /\ Renamed(r).owner = New /\ r.owner \in {Old, New}
  BY DEF Renamed, Keys
<1> HIDE DEF X, T
<1>5. T[u] \in SUBSET X
  BY <1>1, <1>3, <1>4 DEF Changed
<1>6. ASSUME NEW r \in T[u], NEW q \in T[u], r.id = q.id \/ (u \in Keyed /\ r.owner = q.owner)
      PROVE  r = q
  <2>1. CASE kind = "delete"
    <3>1. r \in tables[u] /\ q \in tables[u]
      BY <1>1, <2>1 DEF Changed
    <3> QED BY <1>6, <3>1 DEF OneEach
  <2>2. CASE kind = "update"
    <3>1. PICK a \in tables[u], b \in tables[u] : r = Renamed(a) /\ q = Renamed(b)
      BY <1>1, <2>2 DEF Changed
    <3>2. CASE r.id = q.id
      <4>1. a.id = b.id
        BY <1>3, <1>4, <3>1, <3>2
      <4> QED BY <3>1, <4>1 DEF OneEach
    <3>3. CASE u \in Keyed
      <4>1. PICK k \in Keys : Of(tables, u, k) = {}
        BY <1>2, <2>2, <3>3
      <4>2. a.owner # k /\ b.owner # k /\ a.owner \in {Old, New} /\ b.owner \in {Old, New}
        BY <1>3, <1>4, <4>1 DEF Of
      <4>3. a.owner = b.owner
        BY <4>1, <4>2 DEF Keys
      <4> QED BY <3>1, <3>3, <4>3 DEF OneEach
    <3> QED BY <1>6, <3>2, <3>3
  <2> QED BY <2>1, <2>2
<1>7. T \in [TableNames -> SUBSET X]
  <2>1. \A t \in TableNames : T[t] \in SUBSET X
    <3>1. \A t \in TableNames : tables[t] \in SUBSET X
      BY DEF X
    <3> QED BY <1>1, <1>5, <3>1
  <2> QED BY <1>1, <2>1
<1>8. OneEach(T)
  BY <1>1, <1>6 DEF OneEach
<1> QED BY <1>7, <1>8 DEF T, X
-----------------------------------------------------------------------------
(* The steps *)

LEMMA CampaignStarts == CampaignInit => CampaignIInv
<1> SUFFICES ASSUME CampaignInit PROVE CampaignIInv
  OBVIOUS
<1> DEFINE X == [id : 0 .. written, owner : Keys]
           seed == [id |-> 0, owner |-> Old]
<1>1. written = 0 /\ 0 \in 0 .. written /\ Old \in Keys
  BY DEF CampaignInit, Keys
<1>2. seed \in X
  BY <1>1
<1> HIDE DEF X, seed
<1>3. NoRows \in [TableNames -> SUBSET X] /\ OneEach(NoRows)
  BY DEF NoRows, OneEach
<1>4. /\ [NoRows EXCEPT !["curation_state"] = {seed}] \in [TableNames -> SUBSET X]
      /\ OneEach([NoRows EXCEPT !["curation_state"] = {seed}])
  BY <1>2 DEF NoRows, OneEach
<1>5. rows \in {NoRows, [NoRows EXCEPT !["curation_state"] = {seed}]} /\ work = NoRows
  BY DEF CampaignInit, seed
<1>6. {rows, work} \subseteq [TableNames -> SUBSET X] /\ OneEach(rows) /\ OneEach(work)
  BY <1>3, <1>4, <1>5
<1>7. tool = "off" /\ WorkIsOwn /\ CountsHold /\ CountsAreNew
  BY DEF CampaignInit, WorkIsOwn, CountsHold, CountsAreNew
<1>8. /\ inTurn \subseteq Keys /\ written \in 0 .. MaxRows /\ rekeys \in 0 .. MaxRekeys
      /\ options \subseteq {"commit", "absorb"}
      /\ step \in 1 .. 9 /\ found \subseteq TableNames /\ overtaken \in BOOLEAN
  <2>1. /\ inTurn = {} /\ written = 0 /\ rekeys = 0 /\ options = {} /\ step = 1
        /\ found = {} /\ overtaken = FALSE
    BY DEF CampaignInit
  <2>2. written \in 0 .. MaxRows /\ rekeys \in 0 .. MaxRekeys /\ step \in 1 .. 9
    BY <2>1, KeysAssumption
  <2>3. inTurn \subseteq Keys /\ options \subseteq {"commit", "absorb"}
    BY <2>1
  <2>4. found \subseteq TableNames /\ overtaken \in BOOLEAN
    BY <2>1
  <2> QED BY <2>2, <2>3, <2>4
<1> QED BY <1>6, <1>7, <1>8 DEF CampaignIInv, X

\* A write of the bridge's to k's rows of one table, while the tool has executed nothing.
BridgeWrites(k, t, A) ==
  /\ ~ ToolWrites /\ UNCHANGED toolVars /\ Overtakes(k)
  /\ inTurn' \subseteq Keys /\ written' \in 0 .. MaxRows /\ written' >= written
  /\ k \in Keys /\ t \in TableNames /\ A \in SUBSET [id : 0 .. written', owner : Keys]
  /\ rows' = [rows EXCEPT ![t] = A]
  /\ \A r, q \in A : r.id = q.id \/ (t \in Keyed /\ r.owner = q.owner) => r = q
  /\ \A r \in A \cup rows[t] : r.owner # k => (r \in A <=> r \in rows[t])

LEMMA BridgeKeeps ==
  ASSUME CampaignIInv, NEW k, NEW t0, NEW A, BridgeWrites(k, t0, A)
  PROVE  CampaignIInv'
<1>0. /\ ~ ToolWrites /\ UNCHANGED toolVars /\ Overtakes(k)
      /\ inTurn' \subseteq Keys /\ written' \in 0 .. MaxRows /\ written' >= written
      /\ k \in Keys /\ t0 \in TableNames /\ A \in SUBSET [id : 0 .. written', owner : Keys]
      /\ rows' = [rows EXCEPT ![t0] = A]
      /\ \A r, q \in A : r.id = q.id \/ (t0 \in Keyed /\ r.owner = q.owner) => r = q
      /\ \A r \in A \cup rows[t0] : r.owner # k => (r \in A <=> r \in rows[t0])
  BY DEF BridgeWrites
<1> DEFINE X == [id : 0 .. written, owner : Keys]
           Y == [id : 0 .. written', owner : Keys]
<1>1. /\ rows \in [TableNames -> SUBSET X] /\ work \in [TableNames -> SUBSET X]
      /\ OneEach(rows) /\ OneEach(work) /\ written \in Nat /\ written' \in Nat
      /\ step \in 1 .. 9 /\ overtaken \in BOOLEAN
  BY <1>0, KeysAssumption DEF CampaignIInv
<1>1a. /\ rekeys \in 0 .. MaxRekeys /\ tool \in {"off", "counting", "begun"}
       /\ options \subseteq {"commit", "absorb"} /\ found \subseteq TableNames
  BY DEF CampaignIInv
<1>2. UNCHANGED <<tool, options, step, found, work, rekeys>>
  BY <1>0 DEF toolVars
<1>3. X \subseteq Y
  BY <1>0, <1>1
<1> HIDE DEF X
<1>4. rows' \in [TableNames -> SUBSET Y] /\ work' \in [TableNames -> SUBSET Y]
  <2> HIDE DEF Y
  <2>1. A \in SUBSET Y
    BY <1>0 DEF Y
  <2> QED BY <1>0, <1>1, <1>2, <1>3, <2>1
<1>5. /\ rows'[t0] = A /\ \A t \in TableNames : t # t0 => rows'[t] = rows[t]
  BY <1>0, <1>1
<1>6. OneEach(rows') /\ OneEach(work')
  <2>1. \A t \in TableNames : \A r, q \in rows'[t] :
          r.id = q.id \/ (t \in Keyed /\ r.owner = q.owner) => r = q
    BY <1>0, <1>1, <1>5 DEF OneEach
  <2> QED BY <1>0, <1>1, <1>2, <2>1 DEF OneEach
<1>7. (TargetExists' <=> TargetExists) /\ (MayWrite' <=> MayWrite) /\ Deletes' = Deletes
  BY <1>0, <1>2 DEF TargetExists, TargetEmpty, MayWrite, Deletes
<1>8. WorkIsOwn'
  <2>1. ASSUME tool = "begun" PROVE step = 1 /\ MayWrite /\ step <= Deletes + 5
    BY <1>0, <1>1, <2>1 DEF ToolWrites, CampaignIInv, WorkIsOwn
  <2>2. ASSUME tool = "begun", NEW i \in 1 .. 4 PROVE (Seen[TABLES[i]] = After(i, step))'
    <3>1. Seen' = rows' /\ step' = 1
      BY <1>0, <1>2, <2>1, <2>2 DEF Seen
    <3>2. ~ (Deletes' + i < 1) /\ ~ (i < 1)
      BY DEF Deletes
    <3>3. After(i, step)' = rows'[TABLES[i]]
      BY <1>0, <3>1, <3>2 DEF After
    <3> QED BY <1>0, <3>1, <3>3
  <2> QED BY <1>0, <1>2, <1>7, <2>1, <2>2 DEF WorkIsOwn
<1>9. CountsHold'
  <2> SUFFICES ASSUME tool # "off", ~ overtaken'
               PROVE  /\ tool = "counting" => step <= 5
                      /\ \A i \in 1 .. 4 : tool = "begun" \/ i < step =>
                           (TABLES[i] \in found <=> Of(rows', TABLES[i], New) # {})
    BY <1>0, <1>2 DEF CountsHold, Of
  <2>1. k # New /\ ~ overtaken
    BY <1>0, <1>1 DEF Overtakes
  <2>2. \A t \in TableNames : Of(rows', t, New) = Of(rows, t, New)
    BY <1>0, <1>5, <2>1 DEF Of
  <2> QED BY <1>0, <2>1, <2>2, TablesAre DEF CampaignIInv, CountsHold
<1>10. overtaken' \in BOOLEAN /\ CountsAreNew'
  BY <1>0, <1>1, <1>2 DEF Overtakes, CampaignIInv, CountsAreNew
<1> HIDE DEF Y
<1>11. {rows', work'} \subseteq [TableNames -> SUBSET Y]
  BY <1>0, <1>4
<1> QED BY <1>0, <1>1, <1>1a, <1>2, <1>6, <1>8, <1>9, <1>10, <1>11 DEF CampaignIInv, Y

LEMMA AddKeeps ==
  ASSUME CampaignIInv, ~ ToolWrites, UNCHANGED toolVars, inTurn' \subseteq Keys,
         NEW k \in Keys, NEW t \in TableNames, Add(t, k),
         t \in Keyed => Of(rows, t, k) = {}
  PROVE  CampaignIInv'
<1> DEFINE e == [id |-> written + 1, owner |-> k]
           A == rows[t] \cup {e}
<1>1. /\ written \in 0 .. MaxRows /\ written < MaxRows /\ written' = written + 1 /\ Overtakes(k)
      /\ rows' = [rows EXCEPT ![t] = rows[t] \cup {[id |-> written', owner |-> k]}]
      /\ rows \in [TableNames -> SUBSET [id : 0 .. written, owner : Keys]]
  BY DEF Add, CampaignIInv
<1>2. rows' = [rows EXCEPT ![t] = A]
  BY <1>1
<1>3. e.id = written + 1 /\ e.owner = k /\ written' \in 0 .. MaxRows /\ written' >= written
  BY <1>1, KeysAssumption
<1>4. \A r \in rows[t] : r \in [id : 0 .. written', owner : Keys] /\ r.id # e.id
  BY <1>1, <1>3, KeysAssumption
<1>5. e \in [id : 0 .. written', owner : Keys]
  BY <1>1, <1>3, KeysAssumption
<1> HIDE DEF e
<1>6. A \in SUBSET [id : 0 .. written', owner : Keys]
  BY <1>4, <1>5
<1>7. ASSUME NEW r \in A, NEW q \in A, r.id = q.id \/ (t \in Keyed /\ r.owner = q.owner) PROVE r = q
  <2>1. OneEach(rows)
    BY DEF CampaignIInv
  <2>2. CASE r \in rows[t] /\ q \in rows[t]
    BY <1>7, <2>1, <2>2 DEF OneEach
  <2>3. \A p \in rows[t] : ~ (p.id = e.id \/ (t \in Keyed /\ p.owner = e.owner))
    BY <1>3, <1>4 DEF Of
  <2> QED BY <1>7, <2>2, <2>3
<1>8. \A r \in A \cup rows[t] : r.owner # k => (r \in A <=> r \in rows[t])
  BY <1>3
<1> HIDE DEF A
<1>9. BridgeWrites(k, t, A)
  BY <1>1, <1>2, <1>3, <1>6, <1>7, <1>8 DEF BridgeWrites
<1> QED BY <1>9, BridgeKeeps

LEMMA BridgeSteps ==
  ASSUME CampaignIInv, NEW k \in Keys,
         BeginTurn(k) \/ RemoveLore(k) \/ EndTurn(k) \/ \E t \in Histories : Store(k, t)
  PROVE  CampaignIInv'
<1>1. inTurn \subseteq Keys /\ written \in 0 .. MaxRows /\ "survivors" \in TableNames
  BY DEF CampaignIInv, TableNames
<1>2. ASSUME UNCHANGED <<rows, written, toolVars, overtaken>>, inTurn' \subseteq Keys
      PROVE  CampaignIInv'
  BY <1>2 DEF toolVars, CampaignIInv, OneEach, WorkIsOwn, CountsHold, CountsAreNew, MayWrite, TargetExists, TargetEmpty,
              Deletes, Seen, After, Of
<1>3. CASE BeginTurn(k)
  <2>1. inTurn' \subseteq Keys /\ ~ ToolWrites /\ UNCHANGED toolVars
    BY <1>1, <1>3 DEF BeginTurn
  <2>2. CASE Of(rows, "survivors", k) = {}
    <3>1. Add("survivors", k)
      BY <1>3, <2>2 DEF BeginTurn
    <3> QED BY <1>1, <2>1, <2>2, <3>1, AddKeeps
  <2>3. CASE Of(rows, "survivors", k) # {}
    BY <1>2, <1>3, <2>1, <2>3 DEF BeginTurn
  <2> QED BY <2>2, <2>3
<1>4. ASSUME NEW t \in Histories, Store(k, t) PROVE CampaignIInv'
  <2>1. t \in TableNames /\ t \notin Keyed
    BY DEF Histories, TableNames, Keyed
  <2> QED BY <1>1, <1>4, <2>1, AddKeeps DEF Store
<1>5. CASE RemoveLore(k)
  <2> DEFINE t == "lorebook_entries"
  <2>1. PICK r \in Removable(k) : rows' = [rows EXCEPT ![t] = rows[t] \ {r}]
    BY <1>5 DEF RemoveLore
  <2> DEFINE A == rows[t] \ {r}
  <2>2. t \in TableNames /\ r \in rows[t] /\ r.owner = k
    BY DEF TableNames, Removable, Of
  <2>3. UNCHANGED <<inTurn, written, toolVars>> /\ ~ ToolWrites /\ Overtakes(k)
    BY <1>5 DEF RemoveLore, bridgeVars
  <2> HIDE DEF t
  <2>4. A \in SUBSET [id : 0 .. written', owner : Keys]
    BY <2>2, <2>3 DEF CampaignIInv
  <2>5. \A p, q \in A : p.id = q.id \/ (t \in Keyed /\ p.owner = q.owner) => p = q
    BY <2>2 DEF CampaignIInv, OneEach
  <2>6. \A p \in A \cup rows[t] : p.owner # k => (p \in A <=> p \in rows[t])
    BY <2>2
  <2>7. rows' = [rows EXCEPT ![t] = A] /\ inTurn' \subseteq Keys /\ written' \in 0 .. MaxRows /\ written' >= written
    BY <1>1, <2>1, <2>3, KeysAssumption DEF t
  <2> HIDE DEF A
  <2>8. BridgeWrites(k, t, A)
    BY <2>2, <2>3, <2>4, <2>5, <2>6, <2>7 DEF BridgeWrites
  <2> QED BY <2>8, BridgeKeeps
<1>6. CASE EndTurn(k)
  BY <1>1, <1>2, <1>6 DEF EndTurn
<1> QED BY <1>3, <1>4, <1>5, <1>6
\* The tool leaves, whatever it has done so far.
LEMMA OffKeeps ==
  ASSUME CampaignIInv, Off, UNCHANGED overtaken,
         rows' \in [TableNames -> SUBSET [id : 0 .. written, owner : Keys]], OneEach(rows')
  PROVE  CampaignIInv'
<1> DEFINE X == [id : 0 .. written, owner : Keys]
<1>1. /\ tool' = "off" /\ options' = {} /\ step' = 1 /\ found' = {} /\ work' = NoRows
      /\ UNCHANGED <<inTurn, written, rekeys>>
  BY DEF Off, bridgeVars
<1>2. NoRows \in [TableNames -> SUBSET X] /\ OneEach(NoRows)
  BY DEF NoRows, OneEach
<1>3. rows' \in [TableNames -> SUBSET X]
  OBVIOUS
<1> HIDE DEF X
<1>4. {rows', work'} \subseteq [TableNames -> SUBSET X] /\ OneEach(rows') /\ OneEach(work')
  BY <1>1, <1>2, <1>3 DEF OneEach
<1>5. WorkIsOwn' /\ CountsHold' /\ CountsAreNew'
  BY <1>1 DEF WorkIsOwn, CountsHold, CountsAreNew
<1>6. /\ inTurn' \subseteq Keys /\ written' \in 0 .. MaxRows /\ rekeys' \in 0 .. MaxRekeys
      /\ overtaken' \in BOOLEAN
  BY <1>1 DEF CampaignIInv
<1>7. step' \in 1 .. 9 /\ found' \subseteq TableNames /\ options' \subseteq {"commit", "absorb"}
  BY <1>1
<1> QED BY <1>1, <1>4, <1>5, <1>6, <1>7 DEF CampaignIInv, X, OneEach

LEMMA RowsFit ==
  CampaignIInv => /\ rows \in [TableNames -> SUBSET [id : 0 .. written, owner : Keys]]
                  /\ work \in [TableNames -> SUBSET [id : 0 .. written, owner : Keys]]
                  /\ OneEach(rows) /\ OneEach(work)
BY DEF CampaignIInv

LEMMA ToolCounts ==
  ASSUME CampaignIInv, Count \/ Begin \/ \E o \in SUBSET {"commit", "absorb"} : Start(o)
  PROVE  CampaignIInv'
<1>1. /\ UNCHANGED <<rows, inTurn, written, work>>
      /\ step \in 1 .. 9 /\ found \subseteq TableNames /\ rekeys \in 0 .. MaxRekeys
  BY DEF Count, Begin, Start, bridgeVars, CampaignIInv
<1>2. /\ {rows', work'} \subseteq [TableNames -> SUBSET [id : 0 .. written', owner : Keys]]
      /\ OneEach(rows') /\ OneEach(work')
      /\ inTurn' \subseteq Keys /\ written' \in 0 .. MaxRows
  BY <1>1 DEF CampaignIInv, OneEach
<1>3. CASE \E o \in SUBSET {"commit", "absorb"} : Start(o)
  <2>1. /\ tool' = "counting" /\ options' \subseteq {"commit", "absorb"} /\ step' = 1 /\ found' = {}
        /\ rekeys < MaxRekeys /\ rekeys' = rekeys + 1 /\ overtaken' = FALSE
    BY <1>3 DEF Start
  <2>2. rekeys' \in 0 .. MaxRekeys
    BY <1>1, <2>1, KeysAssumption
  <2>3. step' \in 1 .. 9
    BY <2>1
  <2>4. found' \subseteq TableNames /\ overtaken' \in BOOLEAN
    BY <2>1
  <2>5. WorkIsOwn' /\ CountsHold' /\ CountsAreNew'
    <3>1. \A i \in 1 .. 4 : ~ (i < 1)
      OBVIOUS
    <3> QED BY <2>1, <3>1 DEF WorkIsOwn, CountsHold, CountsAreNew
  <2> QED BY <1>2, <2>1, <2>2, <2>3, <2>4, <2>5 DEF CampaignIInv
<1>4. CASE Count
  <2>1. /\ tool = "counting" /\ step <= 4 /\ step' = step + 1 /\ UNCHANGED <<tool, options, rekeys, overtaken>>
        /\ found' = IF Of(rows, TABLES[step], New) = {} THEN found ELSE found \cup {TABLES[step]}
    BY <1>4, TablesAre DEF Count
  <2>2. step \in 1 .. 4 /\ TABLES[step] \in TableNames
    BY <1>1, <2>1, TablesAre
  <2>3. step' \in 1 .. 9 /\ found' \subseteq TableNames
    BY <1>1, <2>1, <2>2
  <2>4. CountsHold'
    <3> SUFFICES ASSUME ~ overtaken
                 PROVE  \A i \in 1 .. 4 : i < step + 1 =>
                          (TABLES[i] \in found' <=> Of(rows, TABLES[i], New) # {})
      BY <1>1, <2>1, <2>2 DEF CountsHold, Of
    <3>1. \A i \in 1 .. 4 : i < step => (TABLES[i] \in found <=> Of(rows, TABLES[i], New) # {})
      BY <2>1 DEF CampaignIInv, CountsHold
    <3>2. TABLES[step] \notin found
      <4>1. TABLES[step] \in found => step < step
        BY <2>1, <2>2 DEF CampaignIInv, CountsAreNew
      <4> QED BY <2>2, <4>1
    <3> TAKE i \in 1 .. 4
    <3>3. CASE i < step
      <4>1. TABLES[i] # TABLES[step]
        BY <2>2, <3>3, TablesAre
      <4> QED BY <2>1, <3>1, <3>3, <4>1
    <3>4. CASE i = step
      BY <2>1, <3>2, <3>4
    <3> QED BY <2>2, <3>3, <3>4
  <2>5. WorkIsOwn'
    BY <2>1 DEF WorkIsOwn
  <2>6. CountsAreNew'
    <3> SUFFICES ASSUME NEW i \in 1 .. 4, TABLES[i] \in found' PROVE i < step + 1
      BY <2>1 DEF CountsAreNew
    <3>1. CASE TABLES[i] \in found
      <4>1. i < step
        BY <2>1, <3>1 DEF CampaignIInv, CountsAreNew
      <4> QED BY <2>2, <4>1
    <3>2. CASE TABLES[i] \notin found
      <4>1. TABLES[i] = TABLES[step]
        BY <2>1, <3>2
      <4>2. i = step
        BY <2>2, <4>1, TablesAre
      <4> QED BY <2>2, <4>2
    <3> QED BY <3>1, <3>2
  <2> QED BY <1>2, <2>1, <2>3, <2>4, <2>5, <2>6 DEF CampaignIInv
<1>5. CASE Begin
  <2>1. /\ tool = "counting" /\ step > 4 /\ MayWrite /\ tool' = "begun" /\ step' = 1
        /\ UNCHANGED <<options, found, rekeys, overtaken>>
    BY <1>5, TablesAre DEF Begin
  <2>2. CountsHold'
    <3> SUFFICES ASSUME ~ overtaken
                 PROVE  \A i \in 1 .. 4 : TABLES[i] \in found <=> Of(rows, TABLES[i], New) # {}
      BY <1>1, <2>1 DEF CountsHold, Of
    <3>1. \A i \in 1 .. 4 : i < step
      BY <1>1, <2>1
    <3> QED BY <2>1, <3>1 DEF CampaignIInv, CountsHold
  <2>3. WorkIsOwn'
    <3>1. MayWrite' /\ 1 <= Deletes' + 5
      BY <2>1 DEF MayWrite, TargetExists, TargetEmpty, Deletes
    <3>2. ASSUME NEW i \in 1 .. 4 PROVE (Seen[TABLES[i]] = After(i, step))'
      <4>1. Seen' = rows'
        BY <2>1 DEF Seen
      <4>2. ~ (Deletes' + i < 1) /\ ~ (i < 1)
        BY DEF Deletes
      <4>3. After(i, step)' = rows'[TABLES[i]]
        BY <2>1, <4>2 DEF After
      <4> QED BY <4>1, <4>3
    <3> QED BY <2>1, <3>1, <3>2 DEF WorkIsOwn
  <2>4. /\ options' \subseteq {"commit", "absorb"} /\ found' \subseteq TableNames
        /\ rekeys' \in 0 .. MaxRekeys /\ overtaken' \in BOOLEAN /\ step' \in 1 .. 9
    BY <2>1 DEF CampaignIInv
  <2>5. CountsAreNew'
    BY <2>1 DEF CountsAreNew
  <2> QED BY <1>2, <2>1, <2>2, <2>3, <2>4, <2>5 DEF CampaignIInv
<1> QED BY <1>3, <1>4, <1>5

LEMMA ExecuteKeeps == ASSUME CampaignIInv, Execute PROVE CampaignIInv'
<1>1. /\ tool = "begun" /\ step <= Len(RekeyStatements)
      /\ work' = Result(Seen, RekeyStatements[step]) /\ step' = step + 1
      /\ UNCHANGED <<rows, inTurn, written, tool, options, found, rekeys, overtaken>>
      /\ ~ Conflicts(Seen, RekeyStatements[step])
  BY DEF Execute, bridgeVars
<1>2. step \in 1 .. Deletes + 4 /\ Deletes \in {0, 4} /\ written \in Nat
  BY <1>1, StatementsAre, KeysAssumption DEF CampaignIInv
<1>3. PICK kind \in {"delete", "update"}, u \in TableNames : RekeyStatements[step] = <<kind, u>>
  <2>1. step <= Deletes => step \in 1 .. 4
    BY <1>2
  <2>2. ~ (step <= Deletes) => step - Deletes \in 1 .. 4
    BY <1>2
  <2> QED BY <1>2, <2>1, <2>2, StatementsAre, TablesAre
<1>4. /\ work' \in [TableNames -> SUBSET [id : 0 .. written, owner : Keys]] /\ OneEach(work')
  <2>1. /\ Seen \in [TableNames -> SUBSET [id : 0 .. written, owner : Keys]] /\ OneEach(Seen)
    BY RowsFit DEF Seen
  <2>2. PICK S : S = Seen
    OBVIOUS
  <2>3. /\ Result(S, <<kind, u>>) \in [TableNames -> SUBSET [id : 0 .. written, owner : Keys]]
        /\ OneEach(Result(S, <<kind, u>>))
    BY <1>1, <1>2, <1>3, <2>1, <2>2, ResultFits
  <2>4. work' = Result(S, <<kind, u>>)
    BY <1>1, <1>3, <2>2
  <2> QED BY <2>3, <2>4
<1>5. WorkIsOwn'
  <2>1. MayWrite' /\ step' <= Deletes' + 5 /\ Deletes' = Deletes /\ step' # 1
    <3>1. MayWrite
      BY <1>1 DEF CampaignIInv, WorkIsOwn
    <3>2. (MayWrite' <=> MayWrite) /\ Deletes' = Deletes
      BY <1>1 DEF MayWrite, TargetExists, TargetEmpty, Deletes
    <3> QED BY <1>1, <1>2, <3>1, <3>2
  <2>2. ASSUME NEW i \in 1 .. 4 PROVE (Seen[TABLES[i]] = After(i, step))'
    <3>1. Seen' = work'
      BY <2>1 DEF Seen
    <3>2. work'[TABLES[i]] = After(i, step + 1)
      BY <1>1, StatementIs
    <3>3. After(i, step)' = After(i, step + 1)
      BY <1>1, <2>1 DEF After
    <3> QED BY <3>1, <3>2, <3>3
  <2> QED BY <1>1, <2>1, <2>2 DEF WorkIsOwn
<1>6. CountsHold' /\ CountsAreNew'
  BY <1>1 DEF CampaignIInv, CountsHold, CountsAreNew, Of
<1>7. rows' \in [TableNames -> SUBSET [id : 0 .. written, owner : Keys]] /\ OneEach(rows')
  BY <1>1, RowsFit
<1>8. /\ {rows', work'} \subseteq [TableNames -> SUBSET [id : 0 .. written', owner : Keys]]
      /\ OneEach(rows') /\ OneEach(work')
  BY <1>1, <1>4, <1>7
<1>9. /\ inTurn' \subseteq Keys /\ written' \in 0 .. MaxRows /\ rekeys' \in 0 .. MaxRekeys
      /\ tool' \in {"off", "counting", "begun"} /\ options' \subseteq {"commit", "absorb"}
      /\ found' \subseteq TableNames /\ overtaken' \in BOOLEAN
  BY <1>1 DEF CampaignIInv
<1>10. step' \in 1 .. 9
  BY <1>1, <1>2
<1> QED BY <1>5, <1>6, <1>8, <1>9, <1>10 DEF CampaignIInv

LEMMA CampaignStepKeeps == CampaignIInv /\ [CampaignNext]_campaignVars => CampaignIInv'
<1> SUFFICES ASSUME CampaignIInv, [CampaignNext]_campaignVars PROVE CampaignIInv'
  OBVIOUS
<1>1. CASE \E k \in Keys : BeginTurn(k) \/ RemoveLore(k) \/ EndTurn(k) \/ \E t \in Histories : Store(k, t)
  BY <1>1, BridgeSteps
<1>2. CASE Count \/ Begin \/ \E o \in SUBSET {"commit", "absorb"} : Start(o)
  BY <1>2, ToolCounts
<1>3. CASE Execute
  BY <1>3, ExecuteKeeps
<1>4. CASE Declines \/ Aborts \/ Dies
  <2>1. Off /\ UNCHANGED <<rows, overtaken>>
    BY <1>4 DEF Declines, Aborts, Dies
  <2> QED BY <2>1, RowsFit, OffKeeps
<1>5. CASE Commits
  <2>1. Off /\ UNCHANGED overtaken /\ rows' = work
    BY <1>5 DEF Commits
  <2> QED BY <2>1, RowsFit, OffKeeps
<1>6. CASE UNCHANGED campaignVars
  <2>1. UNCHANGED <<rows, inTurn, written, tool, options, step, found, work, rekeys, overtaken>>
    BY <1>6 DEF campaignVars, bridgeVars, toolVars
  <2> QED BY <2>1 DEF CampaignIInv, OneEach, WorkIsOwn, CountsHold, CountsAreNew, MayWrite, TargetExists, TargetEmpty,
              Deletes, Seen, After, Of
<1> QED BY <1>1, <1>2, <1>3, <1>4, <1>5, <1>6 DEF CampaignNext

LEMMA CampaignInvariant == CampaignSpec => []CampaignIInv
<1> QED BY CampaignStarts, CampaignStepKeeps, PTL DEF CampaignSpec

-----------------------------------------------------------------------------
(* What it is for *)

\* Rows have owners that are keys, ids that were given out, and a survivor has at most
\* one row in a table keyed by survivor, also inside the tool's transaction.
THEOREM CampaignTypeCorrect == CampaignSpec => []CampaignTypeOK
<1>1. CampaignIInv => CampaignTypeOK
  <2> SUFFICES ASSUME CampaignIInv PROVE CampaignTypeOK
    OBVIOUS
  <2>1. ASSUME NEW t \in TableNames, NEW tables \in {rows, work}
        PROVE  tables[t] \subseteq [id : 0 .. written, owner : Keys]
    <3>1. tables \in [TableNames -> SUBSET [id : 0 .. written, owner : Keys]]
      BY RowsFit
    <3> QED BY <3>1
  <2>2. ASSUME NEW t \in Keyed, NEW tables \in {rows, work}, NEW k \in Keys
        PROVE  Cardinality(Of(tables, t, k)) <= 1
    <3>1. t \in TableNames /\ OneEach(tables)
      BY RowsFit DEF Keyed, TableNames
    <3>2. \A r, q \in Of(tables, t, k) : r = q
      BY <3>1 DEF OneEach, Of
    <3>3. CASE Of(tables, t, k) = {}
      BY <3>3, FS_EmptySet
    <3>4. CASE Of(tables, t, k) # {}
      <4>1. PICK r : Of(tables, t, k) = {r}
        BY <3>2, <3>4
      <4>2. Cardinality({r}) = 1
        BY FS_Singleton
      <4> QED BY <4>1, <4>2
    <3> QED BY <3>3, <3>4
  <2> QED BY <2>1, <2>2 DEF CampaignTypeOK, CampaignIInv
<1> QED BY <1>1, CampaignInvariant, PTL

\* Only the tool's commit gives a row another owner.
LEMMA OthersRenameNothing ==
  ASSUME CampaignIInv, [CampaignNext]_campaignVars, ~ Commits
  PROVE  \A t \in TableNames : \A r \in rows'[t] : r \in rows[t] \/ r.id = written + 1
<1>1. rows \in [TableNames -> SUBSET [id : 0 .. written, owner : Keys]]
  BY RowsFit
<1>2. ASSUME NEW k \in Keys, NEW u \in TableNames, Add(u, k)
      PROVE  \A t \in TableNames : \A r \in rows'[t] : r \in rows[t] \/ r.id = written + 1
  <2> DEFINE e == [id |-> written + 1, owner |-> k]
  <2>1. rows' = [rows EXCEPT ![u] = rows[u] \cup {e}]
    BY <1>2 DEF Add
  <2>2. e.id = written + 1
    OBVIOUS
  <2> HIDE DEF e
  <2>3. \A t \in TableNames : rows'[t] = IF t = u THEN rows[u] \cup {e} ELSE rows[t]
    BY <1>1, <2>1
  <2> QED BY <2>2, <2>3
<1>3. CASE UNCHANGED rows
  BY <1>3
<1>4. "survivors" \in TableNames /\ Histories \subseteq TableNames
  BY DEF TableNames, Histories
<1>5. ASSUME NEW k \in Keys, RemoveLore(k)
      PROVE  \A t \in TableNames : rows'[t] \subseteq rows[t]
  <2>1. PICK r : rows' = [rows EXCEPT !["lorebook_entries"] = rows["lorebook_entries"] \ {r}]
    BY <1>5 DEF RemoveLore
  <2> QED BY <1>1, <2>1
<1>6. ASSUME NEW k \in Keys, BeginTurn(k)
      PROVE  Add("survivors", k) \/ UNCHANGED rows
  BY <1>6 DEF BeginTurn
<1>7. ASSUME NEW k \in Keys, NEW t \in Histories, Store(k, t) PROVE Add(t, k)
  BY <1>7 DEF Store
<1>8. ASSUME NEW k \in Keys, EndTurn(k) PROVE UNCHANGED rows
  BY <1>8 DEF EndTurn
<1>9. CASE \/ UNCHANGED campaignVars \/ \E o \in SUBSET {"commit", "absorb"} : Start(o)
           \/ Count \/ Declines \/ Begin \/ Execute \/ Aborts \/ Dies
  BY <1>3, <1>9 DEF campaignVars, Start, Count, Declines, Begin, Execute, Aborts, Dies
<1> QED BY <1>2, <1>3, <1>4, <1>5, <1>6, <1>7, <1>8, <1>9 DEF CampaignNext

\* At the commit every statement has been executed.
LEMMA CommitIs ==
  ASSUME CampaignIInv, Commits
  PROVE  /\ MayWrite
         /\ \A i \in 1 .. 4 : rows'[TABLES[i]] =
              Changed("update", IF TargetExists THEN Changed("delete", rows[TABLES[i]])
                                ELSE rows[TABLES[i]])
<1>1. /\ tool = "begun" /\ step > Len(RekeyStatements) /\ rows' = work /\ step \in 1 .. 9
      /\ MayWrite /\ step <= Deletes + 5 /\ \A i \in 1 .. 4 : Seen[TABLES[i]] = After(i, step)
  BY DEF Commits, CampaignIInv, WorkIsOwn
<1>2. step = Deletes + 5 /\ Deletes \in {0, 4} /\ step # 1
  BY <1>1, StatementsAre
<1>3. Seen = work
  BY <1>2 DEF Seen
<1> SUFFICES ASSUME NEW i \in 1 .. 4
             PROVE  After(i, step) = Changed("update", IF TargetExists THEN Changed("delete", rows[TABLES[i]])
                                                      ELSE rows[TABLES[i]])
  BY <1>1, <1>3
<1>4. Deletes + i < step /\ i < step /\ (i <= Deletes <=> Deletes = 4) /\ (Deletes = 4 <=> TargetExists)
  BY <1>2 DEF Deletes
<1> QED BY <1>4 DEF After

\* If any row changes hands, then all of Old's rows in all the tables do, in one step:
\* at its commit the tool has run every statement of its transaction on what it found.
THEOREM MemoryMovesWhole == CampaignSpec => RekeyIsWhole
<1> DEFINE Whole ==
      (\E t \in TableNames : \E r \in Of(rows, t, Old) : Renamed(r) \in rows'[t])
        => \A t \in TableNames : /\ Of(rows', t, Old) = {}
                                 /\ \A r \in Of(rows, t, Old) : Renamed(r) \in rows'[t]
<1>1. ASSUME CampaignIInv, [CampaignNext]_campaignVars PROVE Whole
  <2>1. /\ rows \in [TableNames -> SUBSET [id : 0 .. written, owner : Keys]] /\ OneEach(rows)
        /\ Old # New /\ written \in Nat
    BY <1>1, RowsFit, KeysAssumption DEF CampaignIInv
  <2>2. ASSUME NEW t \in TableNames, NEW r \in rows[t]
        PROVE  /\ r.id \in 0 .. written /\ r.owner \in {Old, New}
               /\ Renamed(r).id = r.id /\ Renamed(r).owner = New
    <3>1. r \in [id : 0 .. written, owner : Keys]
      BY <2>1, <2>2
    <3> QED BY <3>1 DEF Keys, Renamed
  <2>3. CASE ~ Commits
    <3>1. \A t \in TableNames : \A r \in rows'[t] : r \in rows[t] \/ r.id = written + 1
      BY <1>1, <2>3, OthersRenameNothing
    <3>2. ASSUME NEW t \in TableNames, NEW r \in Of(rows, t, Old), Renamed(r) \in rows'[t]
          PROVE  FALSE
      <4>1. r \in rows[t] /\ r.owner = Old
        BY DEF Of
      <4>2. Renamed(r) \in rows[t]
        <5>1. ~ (r.id = written + 1)
          BY <2>1, <2>2, <4>1
        <5> QED BY <2>2, <3>1, <3>2, <4>1, <5>1
      <4>3. r = Renamed(r)
        BY <2>1, <2>2, <4>1, <4>2 DEF OneEach
      <4>4. Renamed(r).owner = New
        BY <2>2, <4>1
      <4> QED BY <2>1, <4>1, <4>3, <4>4
    <3> QED BY <3>2
  <2>4. CASE Commits
    <3> SUFFICES ASSUME NEW i \in 1 .. 4
                 PROVE  /\ Of(rows', TABLES[i], Old) = {}
                        /\ \A r \in Of(rows, TABLES[i], Old) : Renamed(r) \in rows'[TABLES[i]]
      BY TablesAre
    <3> DEFINE all == rows[TABLES[i]]
               left == IF TargetExists THEN Changed("delete", all) ELSE all
    <3>1. rows'[TABLES[i]] = {Renamed(r) : r \in left}
      BY <1>1, <2>4, CommitIs DEF Changed
    <3>2. left \subseteq all /\ \A r \in all : r.owner = Old => r \in left
      BY <2>1 DEF Changed
    <3> HIDE DEF left
    <3>3. \A r \in all : Renamed(r).owner = New
      BY <2>2, TablesAre
    <3> QED BY <2>1, <3>1, <3>2, <3>3 DEF Of
  <2> QED BY <2>3, <2>4
<1> QED BY <1>1, CampaignInvariant, PTL DEF RekeyIsWhole, CampaignSpec

\* Unless the bridge wrote to New between the counts and the transaction, a commit of
\* the tool loses no message and no lore entry, and never merges two histories: it
\* deletes and renames only when what it counted allows it, and that still stands.
THEOREM NoHistoryIsLost == CampaignSpec => HistoriesSurvive
<1> DEFINE Survive ==
      (tool # "off" /\ tool' = "off" /\ rows' # rows /\ ~ overtaken)
        => \A t \in Histories :
             /\ {r.id : r \in rows[t]} \subseteq {r.id : r \in rows'[t]}
             /\ Of(rows, "survivors", New) # {} => Of(rows, t, New) = {}
<1>1. ASSUME CampaignIInv, [CampaignNext]_campaignVars PROVE Survive
  <2> SUFFICES ASSUME tool # "off", tool' = "off", rows' # rows, ~ overtaken,
                      NEW t \in Histories
               PROVE  /\ {r.id : r \in rows[t]} \subseteq {r.id : r \in rows'[t]}
                      /\ Of(rows, "survivors", New) # {} => Of(rows, t, New) = {}
    OBVIOUS
  <2>1. Commits
    BY <1>1 DEF CampaignNext, campaignVars, toolVars, BeginTurn, RemoveLore, EndTurn, Store, Start,
                Count, Declines, Begin, Execute, Aborts, Dies
  <2>2. /\ t \in TableNames /\ "survivors" \in TableNames /\ "survivors" \in Keyed
        /\ rows \in [TableNames -> SUBSET [id : 0 .. written, owner : Keys]]
    BY <1>1, RowsFit DEF Histories, TableNames, Keyed
  <2>3. \A u \in TableNames : u \in found <=> Of(rows, u, New) # {}
    <3>1. tool = "begun"
      BY <2>1 DEF Commits
    <3> QED BY <1>1, <3>1, TablesAre DEF CampaignIInv, CountsHold
  <2>4. TargetExists => Of(rows, t, New) = {}
    BY <1>1, <2>1, <2>2, <2>3, CommitIs DEF MayWrite, TargetEmpty
  <2>5. Of(rows, "survivors", New) # {} => TargetExists
    BY <2>2, <2>3 DEF TargetExists
  <2>6. rows'[t] = {Renamed(r) : r \in rows[t]}
    <3>1. TargetExists => Changed("delete", rows[t]) = rows[t]
      BY <2>4 DEF Changed, Of
    <3>2. rows'[t] = Changed("update", IF TargetExists THEN Changed("delete", rows[t]) ELSE rows[t])
      BY <1>1, <2>1, <2>2, CommitIs, TablesAre
    <3> QED BY <3>1, <3>2 DEF Changed
  <2>7. \A r \in rows[t] : Renamed(r).id = r.id
    <3>1. \A r \in rows[t] : r \in [id : 0 .. written, owner : Keys]
      BY <2>2
    <3> QED BY <3>1 DEF Renamed
  <2>8. {r.id : r \in rows[t]} \subseteq {r.id : r \in rows'[t]}
    BY <2>6, <2>7
  <2> QED BY <2>4, <2>5, <2>8
<1> QED BY <1>1, CampaignInvariant, PTL DEF HistoriesSurvive, CampaignSpec

-----------------------------------------------------------------------------
(* The cache of answers *)

Entry(n, h) == [key : CacheKeys, answer : 1 .. n, created : 0 .. h, ttl : Ttls]

\* Two parallel arrays: the i-th embedding is that of the i-th entry.  No answer is
\* stored twice.
Parallel(em, en, n, h) ==
  /\ em \in Seq(CacheKeys) /\ en \in Seq(Entry(n, h))
  /\ Len(em) = Len(en) /\ Len(en) <= MaxEntries
  /\ \A i \in 1 .. Len(en) : em[i] = en[i].key
  /\ \A i, j \in 1 .. Len(en) : en[i].answer = en[j].answer => i = j

CacheIInv ==
  /\ hours \in Nat /\ stored \in Nat /\ served \in 0 .. stored
  /\ Parallel(embeddings, entries, stored, hours) /\ Parallel(disk[1], disk[2], stored, hours)

\* Induction, for a set of numbers.
LEMMA FromZero ==
  ASSUME NEW P \in SUBSET Nat, 0 \in P, \A n \in P : n + 1 \in P
  PROVE  P = Nat
<1> SUFFICES ASSUME Nat \ P # {} PROVE FALSE
  OBVIOUS
<1> DEFINE T == Nat \ P
<1>1. \E x \in T : \A y \in T : ~ (<<y, x>> \in OpToRel(<, Nat))
  BY NatLessThanWellFounded, WFMin
<1>2. ASSUME NEW x \in Nat, NEW y \in Nat, y < x PROVE <<y, x>> \in OpToRel(<, Nat)
  <2>1. <<y, x>> \in {ss \in Nat \X Nat : ss[1] < ss[2]}
    BY <1>2
  <2> QED BY <2>1 DEF OpToRel
<1>3. \E x \in T : \A y \in T : ~ (y < x)
  BY <1>1, <1>2
<1>4. PICK x \in T : \A y \in T : ~ (y < x)
  BY <1>3
<1>5. x # 0 /\ x - 1 \in Nat /\ x - 1 < x
  BY <1>4
<1>6. x - 1 \in P
  BY <1>4, <1>5
<1> QED BY <1>4, <1>5, <1>6

\* A total preorder of 1 .. n has a first element.
LEMMA FirstExists ==
  ASSUME NEW n \in Nat \ {0}, NEW R,
         \A i, j \in 1 .. n : <<i, j>> \in R \/ <<j, i>> \in R,
         \A i, j, k \in 1 .. n : <<i, j>> \in R /\ <<j, k>> \in R => <<i, k>> \in R
  PROVE  \E i \in 1 .. n : \A j \in 1 .. n : <<i, j>> \in R
<1> DEFINE Has(m) == m \in 1 .. n => \E i \in 1 .. m : \A j \in 1 .. m : <<i, j>> \in R
           P == {m \in Nat : Has(m)}
<1>1. 0 \in P
  OBVIOUS
<1>2. ASSUME NEW m \in P PROVE m + 1 \in P
  <2> SUFFICES ASSUME m + 1 \in 1 .. n
               PROVE  \E i \in 1 .. m + 1 : \A j \in 1 .. m + 1 : <<i, j>> \in R
    OBVIOUS
  <2>1. CASE m = 0
    <3>1. 1 .. m + 1 = {1} /\ 1 \in 1 .. n
      BY <2>1
    <3> QED BY <3>1
  <2>2. CASE m # 0
    <3>1. PICK i \in 1 .. m : \A j \in 1 .. m : <<i, j>> \in R
      BY <2>2
    <3>2. /\ \A j \in 1 .. m + 1 : j \in 1 .. m \/ j = m + 1
          /\ 1 .. m + 1 \subseteq 1 .. n /\ i \in 1 .. m + 1 /\ 1 .. m \subseteq 1 .. m + 1
      OBVIOUS
    <3>3. CASE <<i, m + 1>> \in R
      BY <3>1, <3>2, <3>3
    <3>4. CASE <<m + 1, i>> \in R
      <4>1. \A j \in 1 .. m : <<m + 1, j>> \in R
        BY <3>1, <3>2, <3>4
      <4>2. <<m + 1, m + 1>> \in R
        OBVIOUS
      <4>3. m + 1 \in 1 .. m + 1 /\ \A j \in 1 .. m + 1 : <<m + 1, j>> \in R
        BY <3>2, <4>1, <4>2
      <4> QED BY <4>3
    <3> QED BY <3>2, <3>3, <3>4
  <2> QED BY <2>1, <2>2
<1>3. P = Nat
  <2> HIDE DEF Has
  <2>1. P \in SUBSET Nat
    OBVIOUS
  <2> HIDE DEF P
  <2> QED BY <1>1, <1>2, <2>1, FromZero
<1> QED
  <2>1. n \in P
    BY <1>3
  <2> QED BY <2>1

\* The first of the greatest.
LEMMA MostExists ==
  ASSUME NEW n \in Nat \ {0}, NEW f \in [1 .. n -> Nat]
  PROVE  \E i \in 1 .. n : \A j \in 1 .. n : f[j] < f[i] \/ (f[j] = f[i] /\ i <= j)
<1> DEFINE Before(i, j) == f[j] < f[i] \/ (f[j] = f[i] /\ i <= j)
           R == {p \in (1 .. n) \X (1 .. n) : Before(p[1], p[2])}
<1>1. \A i, j \in 1 .. n : <<i, j>> \in R <=> Before(i, j)
  OBVIOUS
<1> HIDE DEF R
<1>2. \A i, j \in 1 .. n : Before(i, j) \/ Before(j, i)
  OBVIOUS
<1>3. \A i, j, m \in 1 .. n : Before(i, j) /\ Before(j, m) => Before(i, m)
  OBVIOUS
<1> HIDE DEF Before
<1>4. \E i \in 1 .. n : \A j \in 1 .. n : <<i, j>> \in R
  <2>1. \A i, j \in 1 .. n : <<i, j>> \in R \/ <<j, i>> \in R
    BY <1>1, <1>2
  <2>2. \A i, j, m \in 1 .. n : <<i, j>> \in R /\ <<j, m>> \in R => <<i, m>> \in R
    BY <1>1, <1>3
  <2> QED BY <2>1, <2>2, FirstExists
<1>5. \E i \in 1 .. n : \A j \in 1 .. n : Before(i, j)
  BY <1>1, <1>4
<1> QED BY <1>5 DEF Before

\* Every number from 1 to the size of a set of numbers is the place of one of them.
LEMMA NthIs ==
  ASSUME NEW m \in Nat, NEW I \in SUBSET (1 .. m)
  PROVE  /\ Cardinality(I) \in 0 .. m
         /\ \A n \in 1 .. Cardinality(I) : Nth(I, n) \in I
         /\ \A n, p \in 1 .. Cardinality(I) : Nth(I, n) = Nth(I, p) => n = p
<1> DEFINE c == Cardinality(I)
           Below(i) == {j \in I : j < i}
           f == [i \in I |-> Cardinality(Below(i))]
           T == 0 .. c - 1
<1>1. IsFiniteSet(1 .. m) /\ Cardinality(1 .. m) = m
  BY FS_Interval
<1>2. IsFiniteSet(I) /\ c \in Nat /\ c <= m
  BY <1>1, FS_Subset, FS_CardinalityType
<1>3. IsFiniteSet(T) /\ Cardinality(T) = c
  <2>1. 0 \in Int /\ c - 1 \in Int
    BY <1>2
  <2>2. IsFiniteSet(0 .. c - 1) /\ Cardinality(0 .. c - 1) = IF 0 > c - 1 THEN 0 ELSE c - 1 - 0 + 1
    BY <2>1, FS_Interval
  <2> QED BY <1>2, <2>2
<1>4. ASSUME NEW i \in I
      PROVE  /\ IsFiniteSet(Below(i)) /\ Cardinality(Below(i)) \in T
             /\ \A k \in I : i < k => Cardinality(Below(i)) < Cardinality(Below(k))
  <2>1. Below(i) \in SUBSET I /\ Below(i) # I
    <3>1. ~ (i < i)
      OBVIOUS
    <3> QED BY <3>1
  <2>2. IsFiniteSet(Below(i)) /\ Cardinality(Below(i)) <= c /\ Cardinality(Below(i)) # c
    BY <1>2, <2>1, FS_Subset
  <2>3. Cardinality(Below(i)) \in T
    <3>1. Cardinality(Below(i)) \in Nat
      BY <2>2, FS_CardinalityType
    <3> HIDE DEF Below
    <3> QED BY <1>2, <2>2, <3>1
  <2>4. ASSUME NEW k \in I, i < k PROVE Cardinality(Below(i)) < Cardinality(Below(k))
    <3>1. Below(i) \in SUBSET Below(k) /\ i \in Below(k) /\ i \notin Below(i)
      <4>1. I \subseteq Nat /\ i \in Nat /\ k \in Nat
        OBVIOUS
      <4>2. \A j \in I : j < i => j < k
        BY <2>4, <4>1
      <4>3. ~ (i < i)
        BY <4>1
      <4> QED BY <2>4, <4>2, <4>3
    <3>2. IsFiniteSet(Below(k))
      <4>1. Below(k) \in SUBSET I
        OBVIOUS
      <4> QED BY <1>2, <4>1, FS_Subset
    <3> HIDE DEF Below
    <3>3. /\ Cardinality(Below(i)) <= Cardinality(Below(k)) /\ Cardinality(Below(i)) # Cardinality(Below(k))
          /\ Cardinality(Below(i)) \in Nat /\ Cardinality(Below(k)) \in Nat
      BY <2>2, <3>1, <3>2, FS_Subset, FS_CardinalityType
    <3> QED BY <3>3
  <2> QED BY <2>2, <2>3, <2>4
<1>5. f \in Surjection(I, T)
  <2>1. f \in [I -> T]
    BY <1>4
  <2>2. ASSUME NEW i \in I, NEW k \in I, f[i] = f[k] PROVE i = k
    <3>1. i < k \/ k < i \/ i = k
      OBVIOUS
    <3>2. f[i] \in T /\ f[k] \in T /\ (i < k => f[i] < f[k]) /\ (k < i => f[k] < f[i])
      <4> HIDE DEF Below, T
      <4> QED BY <1>4
    <3> HIDE DEF f
    <3> QED BY <1>2, <2>2, <3>1, <3>2
  <2> HIDE DEF f, T
  <2>3. f \in Injection(I, T)
    BY <2>1, <2>2 DEF Injection, IsInjective
  <2> QED BY <1>2, <1>3, <2>3, FS_Injection
<1>6. ASSUME NEW n \in 1 .. c PROVE Nth(I, n) \in I /\ f[Nth(I, n)] = n - 1
  <2>1. n - 1 \in T
    BY <1>2
  <2>2. PICK i \in I : f[i] = n - 1
    <3> HIDE DEF f, T
    <3> QED BY <1>5, <2>1 DEF Surjection
  <2>3. Cardinality({j \in I : j < i}) = n - 1
    BY <2>2
  <2>4. Nth(I, n) \in I /\ Cardinality({j \in I : j < Nth(I, n)}) = n - 1
    BY <2>3 DEF Nth
  <2> QED BY <2>4
<1>7. ASSUME NEW n \in 1 .. c, NEW p \in 1 .. c, Nth(I, n) = Nth(I, p) PROVE n = p
  <2>1. n - 1 = p - 1
    BY <1>6, <1>7
  <2> QED BY <1>2, <2>1
<1> HIDE DEF f
<1> QED BY <1>2, <1>6, <1>7

LEMMA RemovedIs ==
  ASSUME NEW W, NEW s \in Seq(W), NEW i \in 1 .. Len(s)
  PROVE  /\ RemoveAt(s, i) \in Seq(W) /\ Len(RemoveAt(s, i)) = Len(s) - 1
         /\ \A j \in 1 .. Len(s) - 1 : RemoveAt(s, i)[j] = IF j < i THEN s[j] ELSE s[j + 1]
<1> DEFINE n == Len(s)
           a == SubSeq(s, 1, i - 1)
           b == SubSeq(s, i + 1, n)
<1>1. n \in Nat /\ i \in 1 .. n /\ \A j \in 1 .. n : s[j] \in W
  OBVIOUS
<1> HIDE DEF n
<1>2. /\ a \in Seq(W) /\ Len(a) = i - 1 /\ \A j \in 1 .. i - 1 : a[j] = s[j]
  <2>1. 1 \in Int /\ i - 1 \in Int /\ \A j \in 1 .. i - 1 : s[j] \in W
    BY <1>1
  <2>2. /\ SubSeq(s, 1, i - 1) \in Seq(W)
        /\ Len(SubSeq(s, 1, i - 1)) = IF 1 <= i - 1 THEN i - 1 - 1 + 1 ELSE 0
        /\ \A j \in 1 .. i - 1 - 1 + 1 : SubSeq(s, 1, i - 1)[j] = s[1 + j - 1]
    BY <2>1, SubSeqProperties
  <2> HIDE DEF a
  <2>3. a \in Seq(W) /\ Len(a) = IF 1 <= i - 1 THEN i - 1 - 1 + 1 ELSE 0
    BY <2>2 DEF a
  <2>4. ASSUME NEW j \in 1 .. i - 1 PROVE a[j] = s[j]
    <3>1. j \in 1 .. i - 1 - 1 + 1 /\ 1 + j - 1 = j
      BY <1>1
    <3>2. SubSeq(s, 1, i - 1)[j] = s[1 + j - 1]
      BY <2>2, <3>1
    <3> QED BY <3>1, <3>2 DEF a
  <2>5. (IF 1 <= i - 1 THEN i - 1 - 1 + 1 ELSE 0) = i - 1
    BY <1>1
  <2>6. Len(a) = i - 1
    BY <2>3, <2>5
  <2> QED BY <2>3, <2>4, <2>6
<1>3. /\ b \in Seq(W) /\ Len(b) = n - i /\ \A j \in 1 .. n - i : b[j] = s[i + j]
  <2>1. i + 1 \in Int /\ n \in Int /\ \A j \in i + 1 .. n : s[j] \in W
    BY <1>1
  <2>2. /\ SubSeq(s, i + 1, n) \in Seq(W)
        /\ Len(SubSeq(s, i + 1, n)) = IF i + 1 <= n THEN n - (i + 1) + 1 ELSE 0
        /\ \A j \in 1 .. n - (i + 1) + 1 : SubSeq(s, i + 1, n)[j] = s[i + 1 + j - 1]
    BY <2>1, SubSeqProperties
  <2> HIDE DEF b
  <2>3. b \in Seq(W) /\ Len(b) = IF i + 1 <= n THEN n - (i + 1) + 1 ELSE 0
    BY <2>2 DEF b
  <2>4. ASSUME NEW j \in 1 .. n - i PROVE b[j] = s[i + j]
    <3>1. j \in 1 .. n - (i + 1) + 1 /\ i + 1 + j - 1 = i + j
      BY <1>1
    <3>2. SubSeq(s, i + 1, n)[j] = s[i + 1 + j - 1]
      BY <2>2, <3>1
    <3> QED BY <3>1, <3>2 DEF b
  <2>5. (IF i + 1 <= n THEN n - (i + 1) + 1 ELSE 0) = n - i
    BY <1>1
  <2>6. Len(b) = n - i
    BY <2>3, <2>5
  <2> QED BY <2>3, <2>4, <2>6
<1>4. RemoveAt(s, i) = a \o b
  BY DEF RemoveAt, n
<1> HIDE DEF a, b
<1>5. /\ a \o b \in Seq(W) /\ Len(a \o b) = Len(a) + Len(b)
      /\ \A j \in 1 .. Len(a) + Len(b) : (a \o b)[j] = IF j <= Len(a) THEN a[j] ELSE b[j - Len(a)]
  BY <1>2, <1>3, ConcatProperties
<1>6. Len(a \o b) = n - 1
  BY <1>1, <1>2, <1>3, <1>5
<1>7. ASSUME NEW j \in 1 .. n - 1 PROVE (a \o b)[j] = IF j < i THEN s[j] ELSE s[j + 1]
  <2>1. j \in 1 .. Len(a) + Len(b) /\ (j <= Len(a) <=> j < i)
    BY <1>1, <1>2, <1>3
  <2>2. CASE j < i
    <3>1. j \in 1 .. i - 1
      BY <2>2
    <3> QED BY <1>2, <1>5, <2>1, <2>2, <3>1
  <2>3. CASE ~ (j < i)
    <3>1. j - Len(a) \in 1 .. n - i /\ i + (j - Len(a)) = j + 1
      BY <1>1, <1>2, <2>3
    <3> QED BY <1>3, <1>5, <2>1, <2>3, <3>1
  <2> QED BY <2>2, <2>3
<1> QED BY <1>4, <1>5, <1>6, <1>7 DEF n

LEMMA ParallelStays ==
  ASSUME NEW em, NEW en, NEW n \in Nat, NEW h \in Nat, NEW p \in Nat, NEW g \in Nat,
         Parallel(em, en, n, h), n <= p, h <= g
  PROVE  Parallel(em, en, p, g)
<1>1. Entry(n, h) \subseteq Entry(p, g)
  <2>1. 1 .. n \subseteq 1 .. p /\ 0 .. h \subseteq 0 .. g
    OBVIOUS
  <2> QED BY <2>1 DEF Entry
<1>2. \A i \in 1 .. Len(en) : en[i] \in Entry(p, g)
  BY <1>1 DEF Parallel
<1>3. en \in Seq(Entry(p, g))
  <2> HIDE DEF Entry
  <2>1. en \in Seq(Entry(n, h)) /\ Entry(n, h) \subseteq Entry(p, g)
    BY <1>1 DEF Parallel
  <2> DEFINE A == Entry(n, h)
             B == Entry(p, g)
  <2> HIDE DEF A, B
  <2>2. en \in Seq(A) /\ A \subseteq B
    BY <2>1 DEF A, B
  <2>3. en \in Seq(B)
    BY <2>2
  <2> QED BY <2>3 DEF B
<1> QED BY <1>3 DEF Parallel

LEMMA NoneAreParallel == ASSUME NEW n \in Nat, NEW h \in Nat PROVE Parallel(<<>>, <<>>, n, h)
<1>1. MaxEntries \in Nat
  BY CacheAssumption
<1> QED BY <1>1 DEF Parallel

\* The two arrays lose the same place.
LEMMA EvictedIs ==
  ASSUME NEW em, NEW en, NEW n \in Nat, NEW h \in Nat, Parallel(em, en, n, h), NEW i \in 1 .. Len(en)
  PROVE  /\ Parallel(RemoveAt(em, i), RemoveAt(en, i), n, h)
         /\ Len(RemoveAt(en, i)) = Len(en) - 1
         /\ \A j \in 1 .. Len(en) - 1 : RemoveAt(en, i)[j].answer # en[i].answer
<1> DEFINE E == Entry(n, h)
           a == RemoveAt(em, i)
           b == RemoveAt(en, i)
<1>1. /\ em \in Seq(CacheKeys) /\ en \in Seq(E) /\ Len(em) = Len(en) /\ Len(en) <= MaxEntries
      /\ \A j \in 1 .. Len(en) : em[j] = en[j].key
      /\ \A j, k \in 1 .. Len(en) : en[j].answer = en[k].answer => j = k
  BY DEF Parallel
<1>2. MaxEntries \in Nat /\ Len(en) \in Nat
  BY <1>1, CacheAssumption
<1> HIDE DEF E
<1>3. /\ a \in Seq(CacheKeys) /\ Len(a) = Len(en) - 1
      /\ \A j \in 1 .. Len(en) - 1 : a[j] = IF j < i THEN em[j] ELSE em[j + 1]
  <2>1. i \in 1 .. Len(em)
    BY <1>1
  <2> QED BY <1>1, <2>1, RemovedIs
<1>4. /\ b \in Seq(E) /\ Len(b) = Len(en) - 1
      /\ \A j \in 1 .. Len(en) - 1 : b[j] = IF j < i THEN en[j] ELSE en[j + 1]
  BY <1>1, RemovedIs
<1> HIDE DEF a, b
<1>5. \A j \in 1 .. Len(en) - 1 : j \in 1 .. Len(en) /\ j + 1 \in 1 .. Len(en) /\ j \in Nat
  BY <1>2
<1>6. \A j \in 1 .. Len(b) : a[j] = b[j].key
  BY <1>1, <1>3, <1>4, <1>5
<1>7. ASSUME NEW j \in 1 .. Len(en) - 1
      PROVE  \E p \in 1 .. Len(en) : /\ p = (IF j < i THEN j ELSE j + 1) /\ p # i /\ b[j] = en[p]
  <2>1. CASE j < i
    BY <1>4, <1>5, <2>1
  <2>2. CASE ~ (j < i)
    BY <1>4, <1>5, <2>2
  <2> QED BY <2>1, <2>2
<1>8. ASSUME NEW j \in 1 .. Len(b), NEW k \in 1 .. Len(b), b[j].answer = b[k].answer PROVE j = k
  <2>1. j \in 1 .. Len(en) - 1 /\ k \in 1 .. Len(en) - 1
    BY <1>4
  <2>2. PICK p \in 1 .. Len(en) : p = (IF j < i THEN j ELSE j + 1) /\ b[j] = en[p]
    BY <1>7, <2>1
  <2>3. PICK q \in 1 .. Len(en) : q = (IF k < i THEN k ELSE k + 1) /\ b[k] = en[q]
    BY <1>7, <2>1
  <2>4. p = q
    BY <1>1, <1>8, <2>2, <2>3
  <2> QED BY <2>1, <2>2, <2>3, <2>4
<1>9. \A j \in 1 .. Len(en) - 1 : b[j].answer # en[i].answer
  BY <1>1, <1>7
<1>10. Len(a) = Len(b) /\ Len(b) <= MaxEntries
  BY <1>1, <1>2, <1>3, <1>4
<1>11. Parallel(a, b, n, h)
  BY <1>3, <1>4, <1>6, <1>8, <1>10 DEF Parallel, E
<1> QED BY <1>4, <1>9, <1>11 DEF a, b

\* The two arrays gain the same place.
LEMMA StoredIs ==
  ASSUME NEW em, NEW en, NEW n \in Nat, NEW h \in Nat, Parallel(em, en, n, h), Len(en) < MaxEntries,
         NEW k \in CacheKeys, NEW t \in Ttls
  PROVE  Parallel(Append(em, k),
                  Append(en, [key |-> k, answer |-> n + 1, created |-> h, ttl |-> t]), n + 1, h)
<1> DEFINE E == Entry(n + 1, h)
           e == [key |-> k, answer |-> n + 1, created |-> h, ttl |-> t]
           a == Append(em, k)
           b == Append(en, e)
<1>0. Parallel(em, en, n + 1, h)
  <2>1. n + 1 \in Nat /\ n <= n + 1 /\ h <= h
    OBVIOUS
  <2> QED BY <2>1, ParallelStays
<1>1. /\ em \in Seq(CacheKeys) /\ en \in Seq(E) /\ Len(em) = Len(en)
      /\ \A j \in 1 .. Len(en) : em[j] = en[j].key
      /\ \A i, j \in 1 .. Len(en) : en[i].answer = en[j].answer => i = j
  BY <1>0 DEF Parallel
<1>2. \A j \in 1 .. Len(en) : en[j].answer # n + 1
  <2>1. \A j \in 1 .. Len(en) : en[j] \in Entry(n, h)
    BY DEF Parallel
  <2>2. \A f \in Entry(n, h) : f.answer \in 1 .. n
    BY DEF Entry
  <2>3. n + 1 \notin 1 .. n
    OBVIOUS
  <2> QED BY <2>1, <2>2, <2>3
<1>3. e \in E /\ e.key = k /\ e.answer = n + 1
  BY DEF Entry
<1>4. MaxEntries \in Nat /\ Len(en) \in Nat
  BY <1>1, CacheAssumption
<1> HIDE DEF E, e
<1>5. /\ a \in Seq(CacheKeys) /\ Len(a) = Len(en) + 1 /\ a[Len(en) + 1] = k
      /\ \A j \in 1 .. Len(en) : a[j] = em[j]
  BY <1>1, AppendProperties
<1>6. /\ b \in Seq(E) /\ Len(b) = Len(en) + 1 /\ b[Len(en) + 1] = e
      /\ \A j \in 1 .. Len(en) : b[j] = en[j]
  BY <1>1, <1>3, AppendProperties
<1> HIDE DEF a, b
<1>7. \A j \in 1 .. Len(b) : j \in 1 .. Len(en) \/ j = Len(en) + 1
  BY <1>4, <1>6
<1>8. Len(a) = Len(b) /\ Len(b) <= MaxEntries
  BY <1>4, <1>5, <1>6
<1>9. \A j \in 1 .. Len(b) : a[j] = b[j].key
  BY <1>1, <1>3, <1>5, <1>6, <1>7
<1>10. \A i, j \in 1 .. Len(b) : b[i].answer = b[j].answer => i = j
  BY <1>1, <1>2, <1>3, <1>6, <1>7
<1>11. Parallel(a, b, n + 1, h)
  BY <1>5, <1>6, <1>8, <1>9, <1>10 DEF Parallel, E
<1> QED BY <1>11 DEF a, b, e

\* The two arrays keep the same places.
LEMMA PurgedIs ==
  ASSUME NEW em, NEW en, NEW n \in Nat, NEW h \in Nat, Parallel(em, en, n, h),
         NEW I \in SUBSET (1 .. Len(en))
  PROVE  Parallel([j \in 1 .. Cardinality(I) |-> em[Nth(I, j)]],
                  [j \in 1 .. Cardinality(I) |-> en[Nth(I, j)]], n, h)
<1> DEFINE E == Entry(n, h)
           c == Cardinality(I)
           a == [j \in 1 .. c |-> em[Nth(I, j)]]
           b == [j \in 1 .. c |-> en[Nth(I, j)]]
<1>1. /\ em \in Seq(CacheKeys) /\ en \in Seq(E) /\ Len(em) = Len(en) /\ Len(en) <= MaxEntries
      /\ \A j \in 1 .. Len(en) : em[j] = en[j].key
      /\ \A i, j \in 1 .. Len(en) : en[i].answer = en[j].answer => i = j
  BY DEF Parallel
<1>2. Len(en) \in Nat /\ MaxEntries \in Nat
  BY <1>1, CacheAssumption
<1>3. /\ c \in 0 .. Len(en) /\ \A j \in 1 .. c : Nth(I, j) \in I
      /\ \A i, j \in 1 .. c : Nth(I, i) = Nth(I, j) => i = j
  BY <1>2, NthIs
<1> HIDE DEF E, c
<1>4. /\ \A j \in 1 .. c : Nth(I, j) \in 1 .. Len(en) /\ em[Nth(I, j)] \in CacheKeys /\ en[Nth(I, j)] \in E
  <2>1. \A j \in 1 .. Len(en) : em[j] \in CacheKeys /\ en[j] \in E
    BY <1>1
  <2> QED BY <1>3, <2>1
<1>5. a \in [1 .. c -> CacheKeys] /\ b \in [1 .. c -> E]
  <2> HIDE DEF Nth
  <2> QED BY <1>4
<1>6. \A j \in 1 .. c : a[j] = em[Nth(I, j)] /\ b[j] = en[Nth(I, j)]
  OBVIOUS
<1> HIDE DEF a, b
<1>7. a \in Seq(CacheKeys) /\ b \in Seq(E) /\ Len(a) = c /\ Len(b) = c
  <2>1. c \in Nat
    BY <1>3
  <2> QED BY <1>5, <2>1
<1>8. Len(b) <= MaxEntries
  BY <1>1, <1>2, <1>3, <1>7
<1>9. \A j \in 1 .. c : a[j] = b[j].key
  BY <1>1, <1>4, <1>6
<1>10. \A i, j \in 1 .. c : b[i].answer = b[j].answer => i = j
  BY <1>1, <1>3, <1>4, <1>6
<1>11. Parallel(a, b, n, h)
  BY <1>7, <1>8, <1>9, <1>10 DEF Parallel, E
<1> QED BY <1>11 DEF a, b, c

LEMMA EntriesAre ==
  ASSUME CacheIInv
  PROVE  /\ Len(entries) \in Nat /\ DOMAIN entries = 1 .. Len(entries)
         /\ DOMAIN embeddings = 1 .. Len(entries) /\ (entries = <<>> <=> Len(entries) = 0)
         /\ \A i \in 1 .. Len(entries) :
              /\ entries[i] \in Entry(stored, hours) /\ entries[i].key \in CacheKeys
              /\ entries[i].answer \in 1 .. stored /\ entries[i].created \in Nat
              /\ embeddings[i] = entries[i].key
<1> DEFINE E == Entry(stored, hours)
<1>1. /\ embeddings \in Seq(CacheKeys) /\ entries \in Seq(E) /\ Len(embeddings) = Len(entries)
      /\ \A i \in 1 .. Len(entries) : embeddings[i] = entries[i].key
      /\ hours \in Nat
  BY DEF CacheIInv, Parallel
<1>2. \A e \in E : e.key \in CacheKeys /\ e.answer \in 1 .. stored /\ e.created \in Nat
  <2>1. 0 .. hours \subseteq Nat
    BY <1>1
  <2> QED BY <2>1 DEF Entry
<1> HIDE DEF E
<1>3. \A i \in 1 .. Len(entries) : entries[i] \in E
  BY <1>1
<1>4. /\ Len(entries) \in Nat /\ DOMAIN entries = 1 .. Len(entries)
      /\ DOMAIN embeddings = 1 .. Len(entries)
  BY <1>1
<1>5. entries = <<>> <=> Len(entries) = 0
  BY <1>1
<1> QED BY <1>1, <1>2, <1>3, <1>4, <1>5 DEF E

\* What a lookup finds is as similar as any entry.
LEMMA BestIs ==
  ASSUME CacheIInv, NEW k \in CacheKeys, entries # <<>>
  PROVE  /\ Best(k) \in 1 .. Len(entries)
         /\ \A i \in 1 .. Len(entries) :
              /\ Score(i, k) = Similarity[<<entries[i].key, k>>] /\ Score(i, k) \in Nat
              /\ Score(i, k) <= Score(Best(k), k)
<1> DEFINE n == Len(entries)
           f == [i \in 1 .. n |-> Score(i, k)]
           Before(i, j) == Score(j, k) < Score(i, k) \/ (Score(j, k) = Score(i, k) /\ i <= j)
<1>1. n \in Nat \ {0} /\ DOMAIN embeddings = 1 .. n
  BY EntriesAre
<1>2. \A i \in 1 .. n : Score(i, k) = Similarity[<<entries[i].key, k>>] /\ Score(i, k) \in Nat
  BY EntriesAre, CacheAssumption DEF Score
<1>3. \E i \in 1 .. n : \A j \in 1 .. n : Before(i, j)
  <2> HIDE DEF n
  <2>1. f \in [1 .. n -> Nat] /\ \A i \in 1 .. n : f[i] = Score(i, k)
    BY <1>2
  <2> HIDE DEF f
  <2>2. \E i \in 1 .. n : \A j \in 1 .. n : f[j] < f[i] \/ (f[j] = f[i] /\ i <= j)
    BY <1>1, <2>1, MostExists
  <2> QED BY <2>1, <2>2
<1>4. Best(k) = CHOOSE i \in 1 .. n : \A j \in 1 .. n : Before(i, j)
  BY <1>1 DEF Best
<1>5. Best(k) \in 1 .. n /\ \A j \in 1 .. n : Before(Best(k), j)
  <2> HIDE DEF Before, n
  <2> QED BY <1>3, <1>4
<1> HIDE DEF n
<1>6. ASSUME NEW i \in 1 .. n PROVE Score(i, k) <= Score(Best(k), k)
  <2>1. Score(i, k) \in Nat /\ Score(Best(k), k) \in Nat
    BY <1>2, <1>5
  <2>2. Score(i, k) < Score(Best(k), k) \/ Score(i, k) = Score(Best(k), k)
    BY <1>5
  <2> QED BY <2>1, <2>2
<1> QED BY <1>2, <1>5, <1>6 DEF n

LEMMA OldestIs ==
  ASSUME CacheIInv, entries # <<>>
  PROVE  Oldest \in 1 .. Len(entries)
<1> DEFINE n == Len(entries)
           Before(i, j) == entries[i].created < entries[j].created
                             \/ (entries[i].created = entries[j].created /\ i <= j)
           R == {p \in (1 .. n) \X (1 .. n) : Before(p[1], p[2])}
<1>1. n \in Nat \ {0} /\ DOMAIN entries = 1 .. n
  BY EntriesAre
<1>2. \A i \in 1 .. n : entries[i].created \in Nat
  BY EntriesAre
<1>3. \E i \in 1 .. n : \A j \in 1 .. n : Before(i, j)
  <2>1. \A i, j \in 1 .. n : <<i, j>> \in R <=> Before(i, j)
    OBVIOUS
  <2> HIDE DEF R, n
  <2>2. \A i, j \in 1 .. n : Before(i, j) \/ Before(j, i)
    BY <1>1, <1>2
  <2>3. \A i, j, m \in 1 .. n : Before(i, j) /\ Before(j, m) => Before(i, m)
    BY <1>1, <1>2
  <2> HIDE DEF Before
  <2>4. \E i \in 1 .. n : \A j \in 1 .. n : <<i, j>> \in R
    <3>1. \A i, j \in 1 .. n : <<i, j>> \in R \/ <<j, i>> \in R
      BY <2>1, <2>2
    <3>2. \A i, j, m \in 1 .. n : <<i, j>> \in R /\ <<j, m>> \in R => <<i, m>> \in R
      BY <2>1, <2>3
    <3> QED BY <1>1, <3>1, <3>2, FirstExists
  <2> QED BY <2>1, <2>4
<1>4. Oldest = CHOOSE i \in 1 .. n : \A j \in 1 .. n : Before(i, j)
  BY <1>1 DEF Oldest
<1> QED
  <2> HIDE DEF Before
  <2> QED BY <1>3, <1>4 DEF n

LEMMA CacheStarts == CacheInit => CacheIInv
<1> SUFFICES ASSUME CacheInit PROVE CacheIInv
  OBVIOUS
<1>1. Parallel(<<>>, <<>>, 0, 0)
  BY NoneAreParallel
<1> QED BY <1>1 DEF CacheInit, CacheIInv

LEMMA CacheStepKeeps == CacheIInv /\ [CacheNext]_cacheVars => CacheIInv'
<1> SUFFICES ASSUME CacheIInv, [CacheNext]_cacheVars PROVE CacheIInv'
  OBVIOUS
<1>1. /\ hours \in Nat /\ stored \in Nat /\ served \in 0 .. stored
      /\ Parallel(embeddings, entries, stored, hours) /\ Parallel(disk[1], disk[2], stored, hours)
  BY DEF CacheIInv
<1>2. ASSUME NEW k \in CacheKeys, Lookup(k) PROVE CacheIInv'
  <2>1. UNCHANGED <<disk, hours, stored>>
    BY <1>2 DEF Lookup
  <2>2. CASE Misses(k)
    <3>1. served' = 0 /\ UNCHANGED <<embeddings, entries>>
      BY <2>2 DEF Misses
    <3> QED BY <1>1, <2>1, <3>1 DEF CacheIInv
  <2>3. CASE FindsExpired(k)
    <3>1. /\ entries # <<>> /\ served' = 0
          /\ embeddings' = RemoveAt(embeddings, Best(k)) /\ entries' = RemoveAt(entries, Best(k))
      BY <2>3 DEF FindsExpired, Evict
    <3>2. PICK i \in 1 .. Len(entries) : i = Best(k)
      BY <3>1, <1>2, BestIs
    <3>3. Parallel(RemoveAt(embeddings, i), RemoveAt(entries, i), stored, hours)
      BY <1>1, EvictedIs
    <3> QED BY <1>1, <2>1, <3>1, <3>2, <3>3 DEF CacheIInv
  <2>4. CASE Hits(k)
    <3>1. entries # <<>> /\ served' = entries[Best(k)].answer /\ UNCHANGED <<embeddings, entries>>
      BY <2>4 DEF Hits
    <3>2. served' \in 0 .. stored
      <4>1. entries[Best(k)].answer \in 1 .. stored
        BY <1>2, <3>1, BestIs, EntriesAre
      <4> QED BY <1>1, <3>1, <4>1
    <3> QED BY <1>1, <2>1, <3>1, <3>2 DEF CacheIInv
  <2> QED BY <1>2, <2>2, <2>3, <2>4 DEF Lookup
<1>3. ASSUME NEW k \in CacheKeys, NEW t \in Ttls, StoreAnswer(k, t) PROVE CacheIInv'
  <2> DEFINE full == Len(entries) >= MaxEntries
             em == IF full THEN RemoveAt(embeddings, Oldest) ELSE embeddings
             en == IF full THEN RemoveAt(entries, Oldest) ELSE entries
             e == [key |-> k, answer |-> stored + 1, created |-> hours, ttl |-> t]
  <2>1. /\ stored' = stored + 1 /\ UNCHANGED <<disk, hours, served>>
        /\ embeddings' = Append(em, k) /\ entries' = Append(en, e)
    BY <1>3 DEF StoreAnswer
  <2>2. MaxEntries \in Nat \ {0} /\ Len(entries) \in Nat /\ Len(entries) <= MaxEntries
    BY <1>1, EntriesAre, CacheAssumption DEF Parallel
  <2>3. Parallel(em, en, stored, hours) /\ Len(en) < MaxEntries
    <3>1. CASE full
      <4>1. entries # <<>>
        BY <2>2, <3>1, EntriesAre
      <4>2. PICK i \in 1 .. Len(entries) : i = Oldest
        BY <4>1, OldestIs
      <4>3. /\ Parallel(RemoveAt(embeddings, i), RemoveAt(entries, i), stored, hours)
            /\ Len(RemoveAt(entries, i)) = Len(entries) - 1
        BY <1>1, EvictedIs
      <4> QED BY <2>2, <3>1, <4>2, <4>3
    <3>2. CASE ~ full
      BY <1>1, <2>2, <3>2
    <3> QED BY <3>1, <3>2
  <2> HIDE DEF em, en
  <2>4. Parallel(Append(em, k), Append(en, e), stored + 1, hours)
    BY <1>1, <2>3, StoredIs
  <2>5. Parallel(disk[1], disk[2], stored + 1, hours)
    <3>1. stored + 1 \in Nat /\ stored <= stored + 1 /\ hours <= hours
      BY <1>1
    <3> QED BY <1>1, <3>1, ParallelStays
  <2>6. stored' \in Nat /\ served' \in 0 .. stored'
    BY <1>1, <2>1
  <2> QED BY <1>1, <2>1, <2>4, <2>5, <2>6 DEF CacheIInv
<1>4. CASE PurgeExpired
  <2> DEFINE keep == {i \in DOMAIN entries : ~ Expired(entries[i])}
  <2>1. /\ embeddings' = [n \in 1 .. Cardinality(keep) |-> embeddings[Nth(keep, n)]]
        /\ entries' = [n \in 1 .. Cardinality(keep) |-> entries[Nth(keep, n)]]
        /\ UNCHANGED <<disk, hours, stored, served>>
    BY <1>4 DEF PurgeExpired
  <2>2. keep \in SUBSET (1 .. Len(entries))
    BY EntriesAre
  <2> HIDE DEF keep
  <2>3. Parallel([n \in 1 .. Cardinality(keep) |-> embeddings[Nth(keep, n)]],
                 [n \in 1 .. Cardinality(keep) |-> entries[Nth(keep, n)]], stored, hours)
    BY <1>1, <2>2, PurgedIs
  <2> QED BY <1>1, <2>1, <2>3 DEF CacheIInv
<1>5. CASE Save
  <2>1. disk' = <<embeddings, entries>> /\ UNCHANGED <<embeddings, entries, hours, stored, served>>
    BY <1>5 DEF Save
  <2>2. disk'[1] = embeddings /\ disk'[2] = entries
    BY <2>1
  <2> QED BY <1>1, <2>1, <2>2 DEF CacheIInv
<1>6. CASE SaveBreaks
  <2>1. /\ disk' = <<<<>>, <<>>>> /\ embeddings' = <<>> /\ entries' = <<>>
        /\ UNCHANGED <<hours, stored, served>>
    BY <1>6 DEF SaveBreaks
  <2>2. Parallel(<<>>, <<>>, stored, hours)
    BY <1>1, NoneAreParallel
  <2>3. disk'[1] = <<>> /\ disk'[2] = <<>>
    BY <2>1
  <2> QED BY <1>1, <2>1, <2>2, <2>3 DEF CacheIInv
<1>7. CASE Load
  BY <1>1, <1>7 DEF Load, CacheIInv
<1>8. CASE HourPasses
  <2>1. hours' = hours + 1 /\ UNCHANGED <<embeddings, entries, disk, stored, served>>
    BY <1>8 DEF HourPasses
  <2>2. hours + 1 \in Nat /\ hours <= hours + 1 /\ stored <= stored
    BY <1>1
  <2>3. /\ Parallel(embeddings, entries, stored, hours + 1)
        /\ Parallel(disk[1], disk[2], stored, hours + 1)
    BY <1>1, <2>2, ParallelStays
  <2> QED BY <1>1, <2>1, <2>2, <2>3 DEF CacheIInv
<1>9. CASE UNCHANGED cacheVars
  BY <1>1, <1>9 DEF cacheVars, CacheIInv
<1>10. \A q \in Queries, c \in Contexts \cup {NoContext} : Key(q, c) \in CacheKeys
  BY DEF Key, CacheKeys
<1> QED BY <1>2, <1>3, <1>4, <1>5, <1>6, <1>7, <1>8, <1>9, <1>10 DEF CacheNext

LEMMA CacheInvariant == CacheSpec => []CacheIInv
<1> QED BY CacheStarts, CacheStepKeeps, PTL DEF CacheSpec

\* The cache never outgrows max_entries, and every entry is a stored answer.
THEOREM CacheTypeCorrect == CacheSpec => []CacheTypeOK
<1>1. CacheIInv => CacheTypeOK
  <2> SUFFICES ASSUME CacheIInv PROVE CacheTypeOK
    OBVIOUS
  <2>1. embeddings \in Seq(CacheKeys) /\ Len(entries) <= MaxEntries /\ served \in 0 .. stored
    BY DEF CacheIInv, Parallel
  <2>2. \A i \in DOMAIN entries :
          entries[i] \in [key : CacheKeys, answer : 1 .. stored, created : 0 .. hours, ttl : Ttls]
    BY EntriesAre DEF Entry
  <2> QED BY <2>1, <2>2 DEF CacheTypeOK
<1> QED BY <1>1, CacheInvariant, PTL

\* An answer that is served has not expired, fits the question and no stored one fits it
\* better; and if a live one that fits is not served, an expired one that fits as well
\* was in its way and is gone: the arrays stay parallel through every eviction, purge,
\* save and load, and no answer is in them twice.
THEOREM LookupsHold == CacheSpec => LookupsAreSound
<1> DEFINE Near(k) == {e \in ToSet(entries) : Similarity[<<e.key, k>>] >= Threshold}
           AsNear(e, k) == \A n \in Near(k) : Similarity[<<e.key, k>>] >= Similarity[<<n.key, k>>]
           Sound(k) ==
             IF served' # 0
             THEN \E e \in Near(k) : e.answer = served' /\ ~ Expired(e) /\ AsNear(e, k)
             ELSE (\E n \in Near(k) : ~ Expired(n)) =>
                    \E e \in Near(k) \ ToSet(entries') : Expired(e) /\ AsNear(e, k)
<1>1. ASSUME CacheIInv, NEW k \in CacheKeys, Lookup(k) PROVE Sound(k)
  <2> DEFINE b == Best(k)
  <2>0. Threshold \in Nat
    BY CacheAssumption
  <2>1. ToSet(entries) = {entries[i] : i \in 1 .. Len(entries)}
    BY <1>1, EntriesAre DEF ToSet
  <2>2. CASE entries = <<>>
    <3>1. Near(k) = {} /\ served' = 0
      BY <1>1, <2>1, <2>2, EntriesAre DEF Lookup, Misses, FindsExpired, Hits
    <3> QED BY <3>1
  <2>3. CASE entries # <<>>
    <3>1. /\ b \in 1 .. Len(entries)
          /\ \A i \in 1 .. Len(entries) :
               /\ Score(i, k) = Similarity[<<entries[i].key, k>>] /\ Score(i, k) \in Nat
               /\ Score(i, k) <= Score(b, k)
      BY <1>1, <2>3, BestIs
    <3> DEFINE e == entries[b]
    <3>2. \A n \in Near(k) : /\ Similarity[<<n.key, k>>] <= Similarity[<<e.key, k>>]
                             /\ Similarity[<<n.key, k>>] \in Nat /\ Similarity[<<n.key, k>>] >= Threshold
      BY <2>1, <3>1
    <3>3. Similarity[<<e.key, k>>] \in Nat /\ Score(b, k) = Similarity[<<e.key, k>>] /\ e \in ToSet(entries)
      BY <2>1, <3>1
    <3> HIDE DEF b
    <3>4. AsNear(e, k)
      BY <3>2, <3>3
    <3>5. (\E n \in Near(k) : TRUE) => e \in Near(k)
      <4> SUFFICES ASSUME NEW n \in Near(k) PROVE Similarity[<<e.key, k>>] >= Threshold
        BY <3>3
      <4> QED BY <2>0, <3>2, <3>3
    <3>6. CASE Misses(k)
      <4>1. served' = 0 /\ ~ Expired(e) /\ Score(b, k) < Threshold
        BY <2>3, <3>6 DEF Misses, b
      <4>2. ~ (Similarity[<<e.key, k>>] >= Threshold)
        BY <2>0, <3>3, <4>1
      <4>3. Near(k) = {}
        BY <3>5, <4>2
      <4> QED BY <4>1, <4>3
    <3>7. CASE FindsExpired(k)
      <4>1. served' = 0 /\ Expired(e) /\ entries' = RemoveAt(entries, b)
        BY <3>7 DEF FindsExpired, Evict, b
      <4>2. e \notin ToSet(entries')
        <5>1. /\ Parallel(RemoveAt(embeddings, b), RemoveAt(entries, b), stored, hours)
              /\ Len(RemoveAt(entries, b)) = Len(entries) - 1
              /\ \A j \in 1 .. Len(entries) - 1 : RemoveAt(entries, b)[j].answer # entries[b].answer
          BY <1>1, <3>1, EvictedIs DEF CacheIInv
        <5>2. DOMAIN entries' = 1 .. Len(entries')
          BY <4>1, <5>1 DEF Parallel
        <5> QED BY <4>1, <5>1, <5>2 DEF ToSet
      <4> QED BY <3>4, <3>5, <4>1, <4>2
    <3>8. CASE Hits(k)
      <4>1. served' = e.answer /\ ~ Expired(e) /\ Score(b, k) >= Threshold
        BY <3>8 DEF Hits, b
      <4>2. e.answer # 0
        BY <1>1, <3>1, EntriesAre DEF CacheIInv
      <4>3. e \in Near(k)
        BY <3>3, <4>1
      <4> QED BY <3>4, <4>1, <4>2, <4>3
    <3> QED BY <1>1, <3>6, <3>7, <3>8 DEF Lookup
  <2> QED BY <2>2, <2>3
<1> DEFINE AllSound == \A k \in CacheKeys : Lookup(k) => Sound(k)
<1>2. CacheIInv => AllSound
  BY <1>1
<1>3. AllSound =>
        \A k \in CacheKeys : Lookup(k) =>
          LET near == {e \in ToSet(entries) : Similarity[<<e.key, k>>] >= Threshold}
              Close(e) == \A n \in near : Similarity[<<e.key, k>>] >= Similarity[<<n.key, k>>]
          IN IF served' # 0
             THEN \E e \in near : e.answer = served' /\ ~ Expired(e) /\ Close(e)
             ELSE (\E n \in near : ~ Expired(n)) =>
                    \E e \in near \ ToSet(entries') : Expired(e) /\ Close(e)
  OBVIOUS
<1> HIDE DEF AllSound
<1> QED BY <1>2, <1>3, CacheInvariant, PTL DEF LookupsAreSound, CacheSpec

-----------------------------------------------------------------------------
(* Opening the files *)

USE FilesAssumption

Opening == {"migrating", "recording", "committing"}

\* The manager's lock is held by the one task that opens a file, and nobody has yet
\* cached a connection to it.
LockIsTheOpeners ==
  \A t \in Openers :
    /\ holder = t <=> at[t] \in Opening
    /\ at[t] \in Opening => conn[t] # 0 /\ cache[wants[t]] = 0

\* A file with a cached connection has all its scripts, and who uses it has that one.
UsersShare ==
  /\ \A f \in Files : cache[f] # 0 => effects[f] = DOMAIN Scripts[f]
  /\ \A t \in Openers : at[t] = "using" => cache[wants[t]] # 0 /\ conn[t] = cache[wants[t]]

\* The loop has passed by recorded versions only, and the script it waits to record
\* is the one the file is ahead.
LoopIsBehind ==
  \A t \in Openers :
    /\ IF at[t] \in Opening THEN 1 .. next[t] - 1 \subseteq recorded[wants[t]] ELSE next[t] = 1
    /\ at[t] \in {"recording", "committing"} => effects[wants[t]] # recorded[wants[t]]

\* A file that is ahead of its versions, or locked, is being opened or was stopped.
TornIsKnown ==
  \A f \in Files :
    /\ effects[f] # recorded[f] =>
         f \in torn \/ \E t \in Openers : wants[t] = f /\ at[t] \in {"recording", "committing"}
    /\ open[f] # 0 =>
         f \in torn \/ \E t \in Openers : wants[t] = f /\ at[t] = "committing" /\ conn[t] = open[f]

DbIInv ==
  /\ DbTypeOK /\ LockIsTheOpeners /\ UsersShare
  /\ OneScriptAhead /\ LoopIsBehind /\ TornIsKnown

-----------------------------------------------------------------------------
(* The loop over the scripts *)

\* The scripts that are left are those after the last recorded one.
LEMMA LeftToRun ==
  ASSUME DbIInv, NEW t \in Openers, at[t] \in Opening
  PROVE  \E n \in 0 .. Len(Scripts[wants[t]]) :
           /\ recorded[wants[t]] = 1 .. n
           /\ effects[wants[t]] \in {1 .. n, 1 .. n + 1}
           /\ Pending(t) = n + 1 .. Len(Scripts[wants[t]])
           /\ n < Len(Scripts[wants[t]]) => NextScript(t) = n + 1
<1> DEFINE f == wants[t]
<1>1. f \in Files /\ next[t] \in Nat \ {0} /\ DOMAIN Scripts[f] = 1 .. Len(Scripts[f]) /\ Len(Scripts[f]) \in Nat
  BY DEF DbIInv, DbTypeOK
<1>2. PICK n \in 0 .. Len(Scripts[f]) : recorded[f] = 1 .. n /\ effects[f] \in {1 .. n, 1 .. n + 1}
  BY <1>1 DEF DbIInv, OneScriptAhead
<1>3. 1 .. next[t] - 1 \subseteq 1 .. n
  BY <1>2 DEF DbIInv, LoopIsBehind
<1>4. next[t] - 1 <= n
  <2>1. CASE next[t] = 1
    BY <1>2, <2>1
  <2>2. CASE next[t] # 1
    <3>1. next[t] - 1 \in 1 .. next[t] - 1
      BY <1>1, <2>2
    <3> QED BY <1>3, <3>1
  <2> QED BY <2>1, <2>2
<1>5. Pending(t) = n + 1 .. Len(Scripts[f])
  BY <1>1, <1>2, <1>4 DEF Pending, Applied
<1>6. ASSUME n < Len(Scripts[f]) PROVE NextScript(t) = n + 1
  BY <1>1, <1>5, <1>6 DEF NextScript
<1> QED BY <1>2, <1>5, <1>6

\* Only the holder of the lock opens.
LEMMA OneOpener ==
  ASSUME DbIInv, NEW t \in Openers, at[t] \in Opening, NEW u \in Openers, u # t
  PROVE  at[u] \notin Opening
BY DEF DbIInv, LockIsTheOpeners

LEMMA DbStarts == DbInit => DbIInv
<1> SUFFICES ASSUME DbInit PROVE DbIInv
  OBVIOUS
<1> USE DEF DbInit, Opening
<1>1. DbTypeOK
  <2>1. (CHOOSE f \in Files : TRUE) \in Files
    OBVIOUS
  <2>2. conns \in 0 .. MaxConns /\ stops \in 0 .. MaxStops
    OBVIOUS
  <2>3. open \in [Files -> 0 .. conns] /\ cache \in [Files -> 0 .. conns]
    OBVIOUS
  <2>4. conn \in [Openers -> 0 .. conns] /\ next \in [Openers -> Nat \ {0}]
    OBVIOUS
  <2> QED BY <2>1, <2>2, <2>3, <2>4 DEF DbTypeOK
<1>2. LockIsTheOpeners /\ UsersShare /\ LoopIsBehind /\ TornIsKnown
  BY DEF LockIsTheOpeners, UsersShare, LoopIsBehind, TornIsKnown
<1>3. OneScriptAhead
  <2> SUFFICES ASSUME NEW f \in Files
               PROVE  \E n \in 0 .. Len(Scripts[f]) :
                        recorded[f] = 1 .. n /\ effects[f] \in {1 .. n, 1 .. n + 1}
    BY DEF OneScriptAhead
  <2>1. 0 \in 0 .. Len(Scripts[f]) /\ recorded[f] = 1 .. 0 /\ effects[f] = 1 .. 0
    OBVIOUS
  <2> QED BY <2>1
<1> QED BY <1>1, <1>2, <1>3 DEF DbIInv

-----------------------------------------------------------------------------
(* The steps that leave the files alone *)

LEMMA AskForKeeps ==
  ASSUME DbIInv, NEW t \in Openers, NEW f \in Files, AskFor(t, f)
  PROVE  DbIInv'
<1> USE DEF AskFor, Goes, DbIInv, DbTypeOK, Opening
<1>1. DbTypeOK'
  OBVIOUS
<1>2. \A u \in Openers : u # t => at'[u] = at[u] /\ wants'[u] = wants[u]
  OBVIOUS
<1>3. at'[t] = "waiting" /\ at[t] = "idle"
  OBVIOUS
<1>4. LockIsTheOpeners' /\ UsersShare' /\ LoopIsBehind'
  BY <1>2, <1>3 DEF LockIsTheOpeners, UsersShare, LoopIsBehind
<1>5. TornIsKnown'
  <2> SUFFICES ASSUME NEW g \in Files
               PROVE  /\ effects'[g] # recorded'[g] =>
                           \/ g \in torn'
                           \/ \E u \in Openers : wants'[u] = g /\ at'[u] \in {"recording", "committing"}
                      /\ open'[g] # 0 =>
                           \/ g \in torn'
                           \/ \E u \in Openers : wants'[u] = g /\ at'[u] = "committing" /\ conn'[u] = open'[g]
    BY DEF TornIsKnown
  <2> QED BY <1>2, <1>3 DEF TornIsKnown
<1>6. OneScriptAhead'
  BY DEF OneScriptAhead
<1> QED BY <1>1, <1>4, <1>5, <1>6 DEF DbIInv

LEMMA CachedKeeps ==
  ASSUME DbIInv, NEW t \in Openers, Cached(t)
  PROVE  DbIInv'
<1> USE DEF Cached, Goes, LockIsFree, DbIInv, DbTypeOK, Opening
<1>1. DbTypeOK'
  OBVIOUS
<1>2. LockIsTheOpeners' /\ UsersShare'
  BY DEF LockIsTheOpeners, UsersShare
<1>3. LoopIsBehind' /\ OneScriptAhead'
  BY DEF LoopIsBehind, OneScriptAhead
<1>4. TornIsKnown'
  BY DEF TornIsKnown
<1> QED BY <1>1, <1>2, <1>3, <1>4 DEF DbIInv

LEMMA OpenKeeps ==
  ASSUME DbIInv, NEW t \in Openers, Open(t)
  PROVE  DbIInv'
<1> USE DEF Open, Goes, LockIsFree, DbIInv, DbTypeOK, Opening
<1>1. DbTypeOK'
  <2>1. conns' \in 0 .. MaxConns /\ conns \in 0 .. conns'
    OBVIOUS
  <2>2. open' \in [Files -> 0 .. conns'] /\ cache' \in [Files -> 0 .. conns']
    OBVIOUS
  <2>3. conn' \in [Openers -> 0 .. conns']
    OBVIOUS
  <2> QED BY <2>1, <2>2, <2>3
<1>2. LockIsTheOpeners' /\ UsersShare'
  BY DEF LockIsTheOpeners, UsersShare
<1>3. LoopIsBehind' /\ OneScriptAhead'
  BY DEF LoopIsBehind, OneScriptAhead
<1>4. TornIsKnown'
  BY DEF TornIsKnown
<1> QED BY <1>1, <1>2, <1>3, <1>4 DEF DbIInv

LEMMA FinishKeeps ==
  ASSUME DbIInv, NEW t \in Openers, Finish(t)
  PROVE  DbIInv'
<1> USE DEF Finish, Goes, DbIInv, DbTypeOK, Opening
<1>1. DbTypeOK'
  OBVIOUS
<1>2. LockIsTheOpeners' /\ UsersShare'
  BY DEF LockIsTheOpeners, UsersShare
<1>3. LoopIsBehind' /\ OneScriptAhead'
  BY DEF LoopIsBehind, OneScriptAhead
<1>4. TornIsKnown'
  BY DEF TornIsKnown
<1> QED BY <1>1, <1>2, <1>3, <1>4 DEF DbIInv

LEMMA CollectedKeeps ==
  ASSUME DbIInv, NEW f \in Files, Collected(f)
  PROVE  DbIInv'
<1> USE DEF Collected, DbIInv, DbTypeOK
<1>1. DbTypeOK'
  OBVIOUS
<1>2. LockIsTheOpeners' /\ UsersShare' /\ LoopIsBehind' /\ OneScriptAhead'
  BY DEF LockIsTheOpeners, UsersShare, LoopIsBehind, OneScriptAhead
<1>3. TornIsKnown'
  BY DEF TornIsKnown
<1> QED BY <1>1, <1>2, <1>3 DEF DbIInv

-----------------------------------------------------------------------------
(* The migration *)

LEMMA RunScriptKeeps ==
  ASSUME DbIInv, NEW t \in Openers, RunScript(t)
  PROVE  DbIInv'
<1> DEFINE f == wants[t]
           S == Scripts[f]
<1>1. at[t] = "migrating" /\ at' = [at EXCEPT ![t] = "recording"] /\ f \in Files
  BY DEF RunScript, Goes, DbIInv, DbTypeOK
<1>2. PICK n \in 0 .. Len(S) :
        /\ recorded[f] = 1 .. n /\ effects[f] \in {1 .. n, 1 .. n + 1}
        /\ Pending(t) = n + 1 .. Len(S)
        /\ n < Len(S) => NextScript(t) = n + 1
  BY <1>1, LeftToRun DEF Opening
<1>3. n < Len(S) /\ Len(S) \in Nat /\ DOMAIN S = 1 .. Len(S)
  BY <1>1, <1>2 DEF RunScript, ScriptRuns
<1>4. effects' = [effects EXCEPT ![f] = 1 .. n + 1]
  <2>1. effects' = [effects EXCEPT ![f] = @ \cup {n + 1}]
    BY <1>2, <1>3 DEF RunScript, ScriptRuns
  <2>2. effects[f] \cup {n + 1} = 1 .. n + 1
    BY <1>2, <1>3
  <2> QED BY <2>1, <2>2
<1>5. UNCHANGED <<recorded, open, cache, holder, wants, conn, next, conns, stops, torn>>
  BY DEF RunScript
<1>6. DbTypeOK'
  <2>1. effects' \in [Files -> SUBSET Nat] /\ effects'[f] = 1 .. n + 1
    BY <1>1, <1>4 DEF DbIInv, DbTypeOK
  <2>2. \A g \in Files : effects'[g] \subseteq DOMAIN Scripts[g] /\ recorded[g] \subseteq effects'[g]
    BY <1>1, <1>2, <1>3, <1>4 DEF DbIInv, DbTypeOK
  <2>3. at' \in [Openers -> {"idle", "waiting", "migrating", "recording", "committing", "using"}]
    BY <1>1 DEF DbIInv, DbTypeOK
  <2> QED BY <1>5, <2>1, <2>2, <2>3 DEF DbIInv, DbTypeOK
<1>7. effects'[f] = 1 .. n + 1 /\ \A g \in Files : g # f => effects'[g] = effects[g]
  BY <1>1, <1>4 DEF DbIInv, DbTypeOK
<1>8. at'[t] = "recording" /\ \A u \in Openers : u # t => at'[u] = at[u]
  BY <1>1 DEF DbIInv, DbTypeOK
<1>9. cache[f] = 0 /\ \A u \in Openers : u # t => at[u] \notin Opening
  BY <1>1, OneOpener DEF DbIInv, LockIsTheOpeners, Opening
<1>10. LockIsTheOpeners'
  BY <1>1, <1>5, <1>8, <1>9 DEF DbIInv, LockIsTheOpeners, Opening
<1>11. UsersShare'
  BY <1>5, <1>7, <1>8, <1>9 DEF DbIInv, UsersShare
<1>12. OneScriptAhead'
  BY <1>2, <1>5, <1>7 DEF DbIInv, OneScriptAhead
<1>13. LoopIsBehind'
  <2>1. 1 .. n + 1 # 1 .. n
    BY <1>3
  <2> QED BY <1>1, <1>2, <1>5, <1>7, <1>8, <1>9, <2>1 DEF DbIInv, LoopIsBehind, Opening
<1>14. TornIsKnown'
  BY <1>1, <1>5, <1>7, <1>8 DEF DbIInv, TornIsKnown
<1> QED BY <1>6, <1>10, <1>11, <1>12, <1>13, <1>14 DEF DbIInv

LEMMA RecordKeeps ==
  ASSUME DbIInv, NEW t \in Openers, Record(t)
  PROVE  DbIInv'
<1>1. /\ at[t] = "recording" /\ wants[t] \in Files /\ conn[t] \in 0 .. conns
      /\ UNCHANGED <<effects, recorded, cache, holder, wants, conn, next, conns, stops, torn>>
  BY DEF Record, Goes, DbIInv, DbTypeOK
<1>2. at'[t] = "committing" /\ \A u \in Openers : u # t => at'[u] = at[u]
  BY DEF Record, Goes, DbIInv, DbTypeOK
<1>3. /\ open' \in [Files -> 0 .. conns]
      /\ open'[wants[t]] = conn[t] /\ \A g \in Files : g # wants[t] => open'[g] = open[g]
  BY <1>1 DEF Record, DbIInv, DbTypeOK
<1>4. DbTypeOK'
  <2>1. at' \in [Openers -> {"idle", "waiting", "migrating", "recording", "committing", "using"}]
    BY DEF Record, Goes, DbIInv, DbTypeOK
  <2> QED BY <1>1, <1>3, <2>1 DEF DbIInv, DbTypeOK
<1>5. LockIsTheOpeners' /\ UsersShare' /\ OneScriptAhead' /\ LoopIsBehind'
  BY <1>1, <1>2 DEF DbIInv, LockIsTheOpeners, UsersShare, OneScriptAhead, LoopIsBehind, Opening
<1>6. TornIsKnown'
  <2>1. \A u \in Openers : u # t => at[u] \notin Opening
    BY <1>1, OneOpener DEF Opening
  <2> QED BY <1>1, <1>2, <1>3, <2>1 DEF DbIInv, TornIsKnown, Opening
<1> QED BY <1>4, <1>5, <1>6 DEF DbIInv

\* Recorded(t) makes the file's versions those of its scripts.
LEMMA RecordedCatchesUp ==
  ASSUME DbIInv, NEW t \in Openers, at[t] = "committing", Recorded(t)
  PROVE  \E n \in 1 .. Len(Scripts[wants[t]]) :
           /\ NextScript(t) = n /\ recorded[wants[t]] = 1 .. n - 1
           /\ recorded' = [recorded EXCEPT ![wants[t]] = 1 .. n]
           /\ effects[wants[t]] = 1 .. n
           /\ open' = [open EXCEPT ![wants[t]] = 0]
<1> DEFINE f == wants[t]
<1>1. f \in Files /\ Len(Scripts[f]) \in Nat /\ DOMAIN Scripts[f] = 1 .. Len(Scripts[f])
  BY DEF DbIInv, DbTypeOK
<1>2. PICK m \in 0 .. Len(Scripts[f]) :
        /\ recorded[f] = 1 .. m /\ effects[f] \in {1 .. m, 1 .. m + 1}
        /\ Pending(t) = m + 1 .. Len(Scripts[f])
        /\ m < Len(Scripts[f]) => NextScript(t) = m + 1
  BY LeftToRun DEF Opening
<1>3. effects[f] = 1 .. m + 1
  BY <1>2 DEF DbIInv, LoopIsBehind
<1>4. m + 1 \in DOMAIN Scripts[f]
  <2>1. m + 1 \in effects[f]
    BY <1>2, <1>3
  <2> QED BY <1>1, <2>1 DEF DbIInv, DbTypeOK
<1>5. m + 1 \in 1 .. Len(Scripts[f]) /\ NextScript(t) = m + 1 /\ (m + 1) - 1 = m
  BY <1>1, <1>2, <1>4
<1>6. recorded[f] \cup {m + 1} = 1 .. m + 1
  BY <1>2
<1>7. recorded' = [recorded EXCEPT ![f] = @ \cup {m + 1}] /\ open' = [open EXCEPT ![f] = 0]
  BY <1>5 DEF Recorded
<1>8. recorded' = [recorded EXCEPT ![f] = 1 .. m + 1]
  BY <1>6, <1>7
<1> QED BY <1>2, <1>3, <1>5, <1>7, <1>8

LEMMA CommitVersionKeeps ==
  ASSUME DbIInv, NEW t \in Openers, CommitVersion(t)
  PROVE  DbIInv'
<1> DEFINE f == wants[t]
<1>1. /\ at[t] = "committing" /\ f \in Files
      /\ UNCHANGED <<effects, cache, holder, wants, conn, conns, stops, torn>>
  BY DEF CommitVersion, Goes, DbIInv, DbTypeOK
<1>2. PICK n \in 1 .. Len(Scripts[f]) :
        /\ NextScript(t) = n /\ recorded[f] = 1 .. n - 1
        /\ recorded' = [recorded EXCEPT ![f] = 1 .. n]
        /\ effects[f] = 1 .. n
        /\ open' = [open EXCEPT ![f] = 0]
  BY <1>1, RecordedCatchesUp DEF CommitVersion
<1>3. at' \in [Openers -> {"idle", "waiting", "migrating", "recording", "committing", "using"}]
  BY DEF CommitVersion, Goes, DbIInv, DbTypeOK
<1>4. at'[t] = "migrating" /\ \A u \in Openers : u # t => at'[u] = at[u]
  BY DEF CommitVersion, Goes, DbIInv, DbTypeOK
<1>5. /\ next' \in [Openers -> Nat \ {0}] /\ next'[t] = n + 1
      /\ \A u \in Openers : u # t => next'[u] = next[u]
  BY <1>1, <1>2 DEF CommitVersion, DbIInv, DbTypeOK
<1>6. /\ recorded' \in [Files -> SUBSET Nat] /\ recorded'[f] = 1 .. n
      /\ \A g \in Files : g # f => recorded'[g] = recorded[g]
  BY <1>1, <1>2 DEF DbIInv, DbTypeOK
<1>7. /\ open' \in [Files -> 0 .. conns] /\ open'[f] = 0
      /\ \A g \in Files : g # f => open'[g] = open[g]
  BY <1>1, <1>2 DEF DbIInv, DbTypeOK
<1>8. \A u \in Openers : u # t => at[u] \notin Opening
  BY <1>1, OneOpener DEF Opening
<1>9. DbTypeOK'
  BY <1>1, <1>2, <1>3, <1>5, <1>6, <1>7 DEF DbIInv, DbTypeOK
<1>10. LockIsTheOpeners' /\ UsersShare'
  BY <1>1, <1>4 DEF DbIInv, LockIsTheOpeners, UsersShare, Opening
<1>11. OneScriptAhead'
  <2>1. n \in 0 .. Len(Scripts[f])
    BY <1>2
  <2> QED BY <1>1, <1>2, <1>6, <2>1 DEF DbIInv, OneScriptAhead
<1>12. LoopIsBehind'
  <2>1. (n + 1) - 1 = n
    BY <1>2
  <2> QED BY <1>1, <1>4, <1>5, <1>6, <1>8, <2>1 DEF DbIInv, LoopIsBehind, Opening
<1>13. TornIsKnown'
  <2> SUFFICES ASSUME NEW g \in Files
               PROVE  /\ effects[g] # recorded'[g] =>
                           \/ g \in torn
                           \/ \E u \in Openers : wants[u] = g /\ at'[u] \in {"recording", "committing"}
                      /\ open'[g] # 0 =>
                           \/ g \in torn
                           \/ \E u \in Openers : wants[u] = g /\ at'[u] = "committing" /\ conn[u] = open'[g]
    BY <1>1 DEF TornIsKnown
  <2>1. CASE g = f
    BY <1>2, <1>6, <1>7, <2>1
  <2>2. CASE g # f
    <3>1. recorded'[g] = recorded[g] /\ open'[g] = open[g]
      BY <1>6, <1>7, <2>2
    <3>2. \A u \in Openers : wants[u] = g => at'[u] = at[u]
      BY <1>4, <2>2
    <3> QED BY <3>1, <3>2 DEF DbIInv, TornIsKnown
  <2> QED BY <2>1, <2>2
<1> QED BY <1>9, <1>10, <1>11, <1>12, <1>13 DEF DbIInv

LEMMA OpenedKeeps ==
  ASSUME DbIInv, NEW t \in Openers, Opened(t)
  PROVE  DbIInv'
<1> DEFINE f == wants[t]
<1>1. /\ at[t] = "migrating" /\ f \in Files /\ Pending(t) = {} /\ holder' = Nobody
      /\ UNCHANGED <<effects, recorded, open, wants, conn, conns, stops, torn>>
  BY DEF Opened, Goes, DbIInv, DbTypeOK
<1>2. effects[f] = DOMAIN Scripts[f]
  <2>1. Len(Scripts[f]) \in Nat /\ DOMAIN Scripts[f] = 1 .. Len(Scripts[f])
    BY <1>1
  <2>2. PICK n \in 0 .. Len(Scripts[f]) :
          recorded[f] = 1 .. n /\ Pending(t) = n + 1 .. Len(Scripts[f])
    BY <1>1, LeftToRun DEF Opening
  <2>3. n = Len(Scripts[f])
    <3>1. n + 1 \notin n + 1 .. Len(Scripts[f])
      BY <1>1, <2>2
    <3> QED BY <2>1, <2>2, <3>1
  <2> QED BY <1>1, <2>1, <2>2, <2>3 DEF DbIInv, DbTypeOK
<1>3. /\ at' \in [Openers -> {"idle", "waiting", "migrating", "recording", "committing", "using"}]
      /\ at'[t] = "using" /\ \A u \in Openers : u # t => at'[u] = at[u]
  BY DEF Opened, Goes, DbIInv, DbTypeOK
<1>4. /\ cache' \in [Files -> 0 .. conns] /\ cache'[f] = conn[t]
      /\ \A g \in Files : g # f => cache'[g] = cache[g]
  BY <1>1 DEF Opened, DbIInv, DbTypeOK
<1>5. /\ next' \in [Openers -> Nat \ {0}] /\ next'[t] = 1
      /\ \A u \in Openers : u # t => next'[u] = next[u]
  BY DEF Opened, DbIInv, DbTypeOK
<1>6. cache[f] = 0 /\ holder = t /\ conn[t] # 0 /\ \A u \in Openers : u # t => at[u] \notin Opening
  BY <1>1, OneOpener DEF DbIInv, LockIsTheOpeners, Opening
<1>7. DbTypeOK'
  BY <1>1, <1>3, <1>4, <1>5 DEF DbIInv, DbTypeOK
<1>8. LockIsTheOpeners'
  BY <1>1, <1>3, <1>6 DEF LockIsTheOpeners, Opening
<1>9. UsersShare'
  <2>1. ASSUME NEW g \in Files, cache'[g] # 0 PROVE effects[g] = DOMAIN Scripts[g]
    BY <1>2, <1>4, <2>1 DEF DbIInv, UsersShare
  <2>2. ASSUME NEW u \in Openers, at'[u] = "using"
        PROVE  cache'[wants[u]] # 0 /\ conn[u] = cache'[wants[u]]
    <3>1. CASE u = t
      BY <1>4, <1>6, <3>1
    <3>2. CASE u # t
      <4>1. wants[u] \in Files /\ cache[wants[u]] # 0 /\ conn[u] = cache[wants[u]]
        BY <1>3, <2>2, <3>2 DEF DbIInv, DbTypeOK, UsersShare
      <4> QED BY <1>4, <1>6, <4>1
    <3> QED BY <3>1, <3>2
  <2> QED BY <1>1, <2>1, <2>2 DEF UsersShare
<1>10. OneScriptAhead'
  BY <1>1 DEF DbIInv, OneScriptAhead
<1>11. LoopIsBehind'
  BY <1>1, <1>3, <1>5 DEF DbIInv, LoopIsBehind, Opening
<1>12. TornIsKnown'
  BY <1>1, <1>3 DEF DbIInv, TornIsKnown
<1> QED BY <1>7, <1>8, <1>9, <1>10, <1>11, <1>12 DEF DbIInv

-----------------------------------------------------------------------------
(* What may stop it *)

\* A task that leaves lets go of the lock; what it was opening is torn if it is ahead
\* of its versions or locked.
LEMMA LeavesWell ==
  ASSUME DbIInv, NEW t \in Openers, at[t] \in Opening, LeftOpen(t),
         NEW f \in Files, f = wants[t],
         UNCHANGED <<cache, wants, conns>>, stops' \in 0 .. MaxStops,
         effects' \in [Files -> SUBSET Nat], recorded' \in [Files -> SUBSET Nat],
         open' \in [Files -> 0 .. conns], torn' \in SUBSET Files, torn \subseteq torn',
         \A g \in Files : g # f =>
           effects'[g] = effects[g] /\ recorded'[g] = recorded[g] /\ open'[g] = open[g],
         effects'[f] \subseteq DOMAIN Scripts[f],
         \E n \in 0 .. Len(Scripts[f]) :
           recorded'[f] = 1 .. n /\ effects'[f] \in {1 .. n, 1 .. n + 1},
         effects'[f] # recorded'[f] => f \in torn',
         open'[f] # 0 => f \in torn'
  PROVE  DbIInv'
<1>1. /\ at' \in [Openers -> {"idle", "waiting", "migrating", "recording", "committing", "using"}]
      /\ at'[t] = "idle" /\ \A u \in Openers : u # t => at'[u] = at[u]
  BY DEF LeftOpen, DbIInv, DbTypeOK
<1>2. /\ conn' \in [Openers -> 0 .. conns]
      /\ \A u \in Openers : u # t => conn'[u] = conn[u]
  BY DEF LeftOpen, DbIInv, DbTypeOK
<1>3. /\ next' \in [Openers -> Nat \ {0}] /\ next'[t] = 1
      /\ \A u \in Openers : u # t => next'[u] = next[u]
  BY DEF LeftOpen, DbIInv, DbTypeOK
<1>4. f \in Files /\ cache[f] = 0 /\ holder' = Nobody
  BY DEF LeftOpen, DbIInv, DbTypeOK, LockIsTheOpeners
<1>5. \A u \in Openers : u # t => at[u] \notin Opening
  BY OneOpener
<1>6. DbTypeOK'
  <2>1. recorded'[f] \subseteq effects'[f]
    OBVIOUS
  <2>2. \A g \in Files : effects'[g] \subseteq DOMAIN Scripts[g] /\ recorded'[g] \subseteq effects'[g]
    BY <2>1 DEF DbIInv, DbTypeOK
  <2> QED BY <1>1, <1>2, <1>3, <1>4, <2>2 DEF DbIInv, DbTypeOK
<1>7. LockIsTheOpeners'
  BY <1>1, <1>4, <1>5 DEF LockIsTheOpeners, Opening
<1>8. UsersShare'
  <2>1. \A g \in Files : cache[g] # 0 => effects'[g] = DOMAIN Scripts[g]
    BY <1>4 DEF DbIInv, UsersShare
  <2>2. \A u \in Openers : at'[u] = "using" => cache[wants[u]] # 0 /\ conn'[u] = cache[wants[u]]
    BY <1>1, <1>2 DEF DbIInv, UsersShare
  <2> QED BY <2>1, <2>2 DEF UsersShare
<1>9. OneScriptAhead'
  <2> SUFFICES ASSUME NEW g \in Files
               PROVE  \E n \in 0 .. Len(Scripts[g]) :
                        recorded'[g] = 1 .. n /\ effects'[g] \in {1 .. n, 1 .. n + 1}
    BY DEF OneScriptAhead
  <2>1. CASE g = f
    BY <2>1
  <2>2. CASE g # f
    <3>1. recorded'[g] = recorded[g] /\ effects'[g] = effects[g]
      BY <2>2
    <3> QED BY <3>1 DEF DbIInv, OneScriptAhead
  <2> QED BY <2>1, <2>2
<1>10. LoopIsBehind'
  <2>1. \A u \in Openers : at'[u] \notin Opening /\ next'[u] = 1
    BY <1>1, <1>3, <1>5 DEF DbIInv, LoopIsBehind, Opening
  <2> QED BY <2>1 DEF LoopIsBehind, Opening
<1>11. TornIsKnown'
  <2> SUFFICES ASSUME NEW g \in Files
               PROVE  (effects'[g] # recorded'[g] => g \in torn') /\ (open'[g] # 0 => g \in torn')
    BY DEF TornIsKnown
  <2>1. CASE g = f
    BY <2>1
  <2>2. CASE g # f
    <3>1. \A u \in Openers : wants[u] = g => at[u] \notin Opening
      BY <1>5, <2>2
    <3>2. (effects[g] # recorded[g] => g \in torn) /\ (open[g] # 0 => g \in torn)
      BY <3>1 DEF DbIInv, TornIsKnown, Opening
    <3> QED BY <2>2, <3>2
  <2> QED BY <2>1, <2>2
<1> QED BY <1>6, <1>7, <1>8, <1>9, <1>10, <1>11 DEF DbIInv

LEMMA OpenFailsKeeps ==
  ASSUME DbIInv, NEW t \in Openers, OpenFails(t)
  PROVE  DbIInv' /\ wants[t] \in torn
<1> DEFINE f == wants[t]
<1>1. /\ at[t] \in {"migrating", "recording"} /\ f \in Files /\ LeftOpen(t)
      /\ UNCHANGED <<effects, recorded, open, cache, wants, conns, stops, torn>>
  BY DEF OpenFails, DbIInv, DbTypeOK
<1>2. \A u \in Openers : u # t => at[u] \notin Opening
  BY <1>1, OneOpener DEF Opening
<1>3. PICK n \in 0 .. Len(Scripts[f]) :
        /\ recorded[f] = 1 .. n /\ effects[f] \in {1 .. n, 1 .. n + 1}
        /\ Pending(t) = n + 1 .. Len(Scripts[f])
        /\ n < Len(Scripts[f]) => NextScript(t) = n + 1
  BY <1>1, LeftToRun DEF Opening
<1>4. (open[f] # 0 => f \in torn) /\ (Locked(t) => f \in torn)
  <2>1. open[f] # 0 => f \in torn
    BY <1>1, <1>2 DEF DbIInv, TornIsKnown, Opening
  <2> QED BY <1>1, <2>1 DEF Locked
<1>5. f \in torn
  <2>1. CASE Locked(t)
    BY <1>4, <2>1
  <2>2. CASE at[t] = "migrating" /\ Pending(t) # {} /\ Repeats(t)
    <3>1. n + 1 \in effects[f]
      BY <1>1, <1>3, <2>2 DEF Repeats
    <3>2. effects[f] # recorded[f]
      BY <1>3, <3>1
    <3> QED BY <1>1, <1>2, <2>2, <3>2 DEF DbIInv, TornIsKnown, Opening
  <2> QED BY <1>1, <2>1, <2>2 DEF OpenFails
<1>6. DbIInv'
  <2>1. effects[f] \subseteq DOMAIN Scripts[f] /\ stops \in 0 .. MaxStops /\ torn \subseteq Files
    BY <1>1 DEF DbIInv, DbTypeOK
  <2>2. /\ effects \in [Files -> SUBSET Nat] /\ recorded \in [Files -> SUBSET Nat]
        /\ open \in [Files -> 0 .. conns]
    BY DEF DbIInv, DbTypeOK
  <2> QED BY <1>1, <1>3, <1>5, <2>1, <2>2, LeavesWell DEF Opening
<1> QED BY <1>5, <1>6

\* Whatever the cancelled task awaits is done all the same.
LEMMA CancelOpeningKeeps ==
  ASSUME DbIInv, NEW t \in Openers, CancelOpening(t)
  PROVE  DbIInv'
<1> DEFINE f == wants[t]
<1>1. /\ at[t] \in Opening /\ f \in Files /\ LeftOpen(t) /\ stops' \in 0 .. MaxStops
      /\ UNCHANGED <<cache, wants, conns>>
  BY DEF CancelOpening, Opening, DbIInv, DbTypeOK
<1>2. /\ effects \in [Files -> SUBSET Nat] /\ recorded \in [Files -> SUBSET Nat]
      /\ open \in [Files -> 0 .. conns] /\ torn \subseteq Files /\ conn[t] \in 0 .. conns
      /\ DOMAIN Scripts[f] = 1 .. Len(Scripts[f]) /\ Len(Scripts[f]) \in Nat
      /\ effects[f] \subseteq DOMAIN Scripts[f]
  BY <1>1 DEF DbIInv, DbTypeOK
<1>3. \A u \in Openers : u # t => at[u] \notin Opening
  BY <1>1, OneOpener
<1>4. PICK n \in 0 .. Len(Scripts[f]) :
        /\ recorded[f] = 1 .. n /\ effects[f] \in {1 .. n, 1 .. n + 1}
        /\ Pending(t) = n + 1 .. Len(Scripts[f])
        /\ n < Len(Scripts[f]) => NextScript(t) = n + 1
  BY <1>1, LeftToRun
<1>5. CASE at[t] = "migrating"
  <2>1. /\ UNCHANGED <<recorded, open>>
        /\ torn' = IF effects' # effects THEN torn \cup {f} ELSE torn
        /\ ScriptRuns(t) \/ UNCHANGED effects
    BY <1>5 DEF CancelOpening
  <2>2. /\ effects[f] # recorded[f] => f \in torn
        /\ open[f] # 0 => f \in torn
    BY <1>1, <1>3, <1>5 DEF DbIInv, TornIsKnown, Opening
  <2>3. effects' = effects \/ (n + 1 \in DOMAIN Scripts[f] /\ effects' = [effects EXCEPT ![f] = 1 .. n + 1])
    <3> SUFFICES ASSUME ScriptRuns(t)
                 PROVE  n + 1 \in DOMAIN Scripts[f] /\ effects' = [effects EXCEPT ![f] = 1 .. n + 1]
      BY <2>1
    <3>1. n < Len(Scripts[f])
      BY <1>2, <1>4 DEF ScriptRuns
    <3>2. effects' = [effects EXCEPT ![f] = @ \cup {n + 1}]
      BY <1>4, <3>1 DEF ScriptRuns
    <3>3. effects[f] \cup {n + 1} = 1 .. n + 1
      BY <1>4
    <3>4. effects' = [effects EXCEPT ![f] = 1 .. n + 1]
      BY <3>2, <3>3
    <3>5. n + 1 \in DOMAIN Scripts[f]
      BY <1>2, <3>1
    <3> QED BY <3>4, <3>5
  <2>4. CASE effects' = effects
    BY <1>1, <1>2, <1>4, <2>1, <2>2, <2>4, LeavesWell
  <2>5. CASE effects' # effects
    <3>1. n + 1 \in DOMAIN Scripts[f] /\ effects' = [effects EXCEPT ![f] = 1 .. n + 1]
      BY <2>3, <2>5
    <3>2. /\ effects' \in [Files -> SUBSET Nat] /\ effects'[f] = 1 .. n + 1
          /\ \A g \in Files : g # f => effects'[g] = effects[g]
      BY <1>1, <1>2, <3>1
    <3>3. effects'[f] \subseteq DOMAIN Scripts[f]
      BY <1>2, <3>1, <3>2
    <3>4. torn' \in SUBSET Files /\ torn \subseteq torn' /\ f \in torn'
      BY <1>1, <1>2, <2>1, <2>5
    <3> QED BY <1>1, <1>2, <1>4, <2>1, <3>2, <3>3, <3>4, LeavesWell
  <2> QED BY <2>4, <2>5
<1>6. CASE at[t] = "recording"
  <2>1. /\ open' = IF Locked(t) THEN open ELSE [open EXCEPT ![f] = conn[t]]
        /\ torn' = torn \cup {f} /\ UNCHANGED <<effects, recorded>>
    BY <1>6 DEF CancelOpening
  <2>2. open' \in [Files -> 0 .. conns] /\ \A g \in Files : g # f => open'[g] = open[g]
    BY <1>1, <1>2, <2>1
  <2>3. torn' \in SUBSET Files /\ torn \subseteq torn' /\ f \in torn'
    BY <1>1, <1>2, <2>1
  <2> QED BY <1>1, <1>2, <1>4, <2>1, <2>2, <2>3, LeavesWell
<1>7. CASE at[t] = "committing"
  <2>1. Recorded(t) /\ UNCHANGED <<effects, torn>>
    BY <1>7 DEF CancelOpening
  <2>2. PICK m \in 1 .. Len(Scripts[f]) :
          /\ recorded' = [recorded EXCEPT ![f] = 1 .. m]
          /\ effects[f] = 1 .. m
          /\ open' = [open EXCEPT ![f] = 0]
    BY <1>7, <2>1, RecordedCatchesUp
  <2>3. 1 .. m \in SUBSET Nat /\ 0 \in 0 .. conns
    BY DEF DbIInv, DbTypeOK
  <2>4. /\ recorded' \in [Files -> SUBSET Nat] /\ recorded'[f] = 1 .. m
        /\ \A g \in Files : g # f => recorded'[g] = recorded[g]
    BY <1>1, <1>2, <2>2, <2>3
  <2>5. /\ open' \in [Files -> 0 .. conns] /\ open'[f] = 0
        /\ \A g \in Files : g # f => open'[g] = open[g]
    BY <1>1, <1>2, <2>2, <2>3
  <2>6. \E k \in 0 .. Len(Scripts[f]) :
          recorded'[f] = 1 .. k /\ effects'[f] \in {1 .. k, 1 .. k + 1}
    <3>1. m \in 0 .. Len(Scripts[f]) /\ effects'[f] = 1 .. m
      BY <2>1, <2>2
    <3> QED BY <2>4, <3>1
  <2>7. effects'[f] = recorded'[f]
    BY <2>1, <2>2, <2>4
  <2>8. /\ effects' \in [Files -> SUBSET Nat] /\ recorded' \in [Files -> SUBSET Nat]
        /\ open' \in [Files -> 0 .. conns]
        /\ torn' \in SUBSET Files /\ torn \subseteq torn'
    BY <1>2, <2>1, <2>4, <2>5
  <2>9. effects'[f] \subseteq DOMAIN Scripts[f]
    BY <1>2, <2>1
  <2>10. \A g \in Files : g # f =>
           effects'[g] = effects[g] /\ recorded'[g] = recorded[g] /\ open'[g] = open[g]
    BY <2>1, <2>4, <2>5
  <2>11. effects'[f] # recorded'[f] => f \in torn'
    BY <2>7
  <2>12. open'[f] # 0 => f \in torn'
    BY <2>5
  <2>13. f = wants[t]
    OBVIOUS
  <2> HIDE DEF f
  <2> QED
    BY <1>1, <2>6, <2>8, <2>9, <2>10, <2>11, <2>12, <2>13, LeavesWell, Zenon
<1> QED BY <1>1, <1>5, <1>6, <1>7 DEF Opening

LEMMA OpenBreaksKeeps ==
  ASSUME DbIInv, NEW t \in Openers, OpenBreaks(t)
  PROVE  DbIInv'
<1> DEFINE f == wants[t]
<1>1. /\ f \in Files /\ LeftOpen(t) /\ stops' \in 0 .. MaxStops
      /\ UNCHANGED <<effects, recorded, open, cache, wants, conns>>
      /\ torn' = IF at[t] \in {"recording", "committing"} THEN torn \cup {f} ELSE torn
  BY DEF OpenBreaks, DbIInv, DbTypeOK
<1>2. /\ effects \in [Files -> SUBSET Nat] /\ recorded \in [Files -> SUBSET Nat]
      /\ open \in [Files -> 0 .. conns] /\ torn' \in SUBSET Files /\ torn \subseteq torn'
      /\ effects[f] \subseteq DOMAIN Scripts[f]
  BY <1>1 DEF DbIInv, DbTypeOK
<1>3. CASE at[t] = "waiting"
  <2>1. holder = Nobody /\ holder' = Nobody /\ torn' = torn
    BY <1>1, <1>3 DEF OpenBreaks, LockIsFree, LeftOpen
  <2>2. /\ at' = [at EXCEPT ![t] = "idle"] /\ conn' = [conn EXCEPT ![t] = 0]
        /\ next' = [next EXCEPT ![t] = 1]
    BY <1>1 DEF LeftOpen
  <2>3. /\ at' \in [Openers -> {"idle", "waiting", "migrating", "recording", "committing", "using"}]
        /\ conn' \in [Openers -> 0 .. conns] /\ next' \in [Openers -> Nat \ {0}]
    BY <2>2 DEF DbIInv, DbTypeOK
  <2>4. \A u \in Openers : u # t => at'[u] = at[u] /\ conn'[u] = conn[u] /\ next'[u] = next[u]
    BY <2>2 DEF DbIInv, DbTypeOK
  <2>5. at'[t] = "idle" /\ next'[t] = 1
    BY <2>2 DEF DbIInv, DbTypeOK
  <2>6. DbTypeOK'
    BY <1>1, <2>1, <2>3 DEF DbIInv, DbTypeOK
  <2>7. /\ LockIsTheOpeners /\ UsersShare /\ OneScriptAhead /\ LoopIsBehind /\ TornIsKnown
        /\ UNCHANGED <<effects, recorded, open, cache, wants, torn, holder>>
        /\ at[t] = "waiting" /\ t \in Openers
    BY <1>1, <1>3, <2>1 DEF DbIInv
  <2>8. LockIsTheOpeners' /\ UsersShare'
    BY <2>4, <2>5, <2>7 DEF LockIsTheOpeners, UsersShare, Opening
  <2>9. LoopIsBehind'
    BY <2>4, <2>5, <2>7 DEF LoopIsBehind, Opening
  <2>10. OneScriptAhead'
    BY <2>7 DEF OneScriptAhead
  <2>11. TornIsKnown'
    <3> SUFFICES ASSUME NEW g \in Files
                 PROVE  /\ effects[g] # recorded[g] =>
                             g \in torn \/ \E u \in Openers :
                               wants[u] = g /\ at'[u] \in {"recording", "committing"}
                        /\ open[g] # 0 =>
                             g \in torn \/ \E u \in Openers :
                               wants[u] = g /\ at'[u] = "committing" /\ conn'[u] = open[g]
      BY <2>7 DEF TornIsKnown
    <3> QED BY <2>4, <2>7 DEF TornIsKnown
  <2> QED BY <2>6, <2>8, <2>9, <2>10, <2>11 DEF DbIInv
<1>4. CASE at[t] # "waiting"
  <2>1. at[t] \in Opening
    BY <1>4 DEF OpenBreaks, Opening
  <2>2. \A u \in Openers : u # t => at[u] \notin Opening
    BY <2>1, OneOpener
  <2>3. \E n \in 0 .. Len(Scripts[f]) : recorded[f] = 1 .. n /\ effects[f] \in {1 .. n, 1 .. n + 1}
    BY <1>1 DEF DbIInv, OneScriptAhead
  <2>4. (effects[f] # recorded[f] => f \in torn') /\ (open[f] # 0 => f \in torn')
    BY <1>1, <2>1, <2>2 DEF DbIInv, TornIsKnown, Opening
  <2> QED BY <1>1, <1>2, <2>1, <2>3, <2>4, LeavesWell
<1> QED BY <1>3, <1>4

LEMMA RestartKeeps ==
  ASSUME DbIInv, Restart
  PROVE  DbIInv'
<1> USE DEF Restart
<1>1. DbTypeOK'
  <2>1. torn' \subseteq Files /\ stops' \in 0 .. MaxStops
    BY DEF DbIInv, DbTypeOK
  <2>2. open' \in [Files -> 0 .. conns'] /\ cache' \in [Files -> 0 .. conns']
    BY DEF DbIInv, DbTypeOK
  <2>3. /\ at' \in [Openers -> {"idle", "waiting", "migrating", "recording", "committing", "using"}]
        /\ conn' \in [Openers -> 0 .. conns'] /\ next' \in [Openers -> Nat \ {0}]
    BY DEF DbIInv, DbTypeOK
  <2> QED BY <2>1, <2>2, <2>3 DEF DbIInv, DbTypeOK
<1>2. LockIsTheOpeners' /\ UsersShare' /\ LoopIsBehind'
  BY DEF LockIsTheOpeners, UsersShare, LoopIsBehind, Opening
<1>3. OneScriptAhead'
  BY DEF DbIInv, OneScriptAhead
<1>4. TornIsKnown'
  <2> SUFFICES ASSUME NEW f \in Files, effects[f] # recorded[f] PROVE f \in torn'
    BY DEF TornIsKnown
  <2> QED BY DEF DbIInv, TornIsKnown
<1> QED BY <1>1, <1>2, <1>3, <1>4 DEF DbIInv

LEMMA DbStep == DbIInv /\ [DbNext]_dbVars => DbIInv'
<1> SUFFICES ASSUME DbIInv, [DbNext]_dbVars PROVE DbIInv'
  OBVIOUS
<1>1. ASSUME NEW t \in Openers, NEW f \in Files, AskFor(t, f) PROVE DbIInv'
  BY <1>1, AskForKeeps
<1>2. ASSUME NEW t \in Openers, Cached(t) PROVE DbIInv'
  BY <1>2, CachedKeeps
<1>3. ASSUME NEW t \in Openers, Open(t) PROVE DbIInv'
  BY <1>3, OpenKeeps
<1>4. ASSUME NEW t \in Openers, RunScript(t) PROVE DbIInv'
  BY <1>4, RunScriptKeeps
<1>5. ASSUME NEW t \in Openers, Record(t) PROVE DbIInv'
  BY <1>5, RecordKeeps
<1>6. ASSUME NEW t \in Openers, CommitVersion(t) PROVE DbIInv'
  BY <1>6, CommitVersionKeeps
<1>7. ASSUME NEW t \in Openers, Opened(t) PROVE DbIInv'
  BY <1>7, OpenedKeeps
<1>8. ASSUME NEW t \in Openers, OpenFails(t) PROVE DbIInv'
  BY <1>8, OpenFailsKeeps
<1>9. ASSUME NEW t \in Openers, Finish(t) PROVE DbIInv'
  BY <1>9, FinishKeeps
<1>10. ASSUME NEW t \in Openers, CancelOpening(t) PROVE DbIInv'
  BY <1>10, CancelOpeningKeeps
<1>11. ASSUME NEW f \in Files, Collected(f) PROVE DbIInv'
  BY <1>11, CollectedKeeps
<1>12. CASE Restart
  BY <1>12, RestartKeeps
<1>13. ASSUME NEW t \in Openers, OpenBreaks(t) PROVE DbIInv'
  BY <1>13, OpenBreaksKeeps
<1>14. CASE UNCHANGED dbVars
  BY <1>14 DEF dbVars, DbIInv, DbTypeOK, LockIsTheOpeners, UsersShare, OneScriptAhead,
               LoopIsBehind, TornIsKnown
<1> QED
  BY <1>1, <1>2, <1>3, <1>4, <1>5, <1>6, <1>7, <1>8, <1>9, <1>10, <1>11, <1>12, <1>13, <1>14 DEF DbNext

LEMMA DbInvariant == DbSpec => []DbIInv
BY DbStarts, DbStep, PTL DEF DbSpec

-----------------------------------------------------------------------------
(* What it comes to *)

\* Every reachable state of the connections and files is well formed, and no version
\* is recorded whose script has not run.
THEOREM DbTypeCorrect == DbSpec => []DbTypeOK
<1>1. DbIInv => DbTypeOK
  BY DEF DbIInv
<1> QED BY <1>1, DbInvariant, PTL

\* Who uses a file uses its one cached connection and finds every script in it; a
\* file is never more than one script ahead of the versions it records.
THEOREM EveryoneFindsTheSchema == DbSpec => []SchemaIsWhole
<1>1. DbIInv => SchemaIsWhole
  <2> SUFFICES ASSUME DbIInv PROVE OneConnection /\ OneScriptAhead
    BY DEF SchemaIsWhole
  <2>1. OneConnection
    BY DEF DbIInv, DbTypeOK, UsersShare, OneConnection
  <2> QED BY <2>1 DEF DbIInv
<1> QED BY <1>1, DbInvariant, PTL

\* What is in a file, or who has it locked, makes opening fail only if somebody was
\* stopped at it, or failed, between a script and its version row.
THEOREM OnlyStopsTear == DbSpec => FailsOnlyTorn
<1> DEFINE OnlyTorn == \A t \in Openers : OpenFails(t) => wants[t] \in torn
<1>1. DbIInv /\ [DbNext]_dbVars => [OnlyTorn]_dbVars
  BY OpenFailsKeeps
<1> QED BY <1>1, DbInvariant, PTL DEF DbSpec, FailsOnlyTorn

=============================================================================
