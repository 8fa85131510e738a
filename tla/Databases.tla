----------------------------- MODULE Databases ------------------------------
(***************************************************************************)
(* The connections to the SQLite files (db/manager.py) and the migrations  *)
(* that run when one is opened (db/migrations.py).                         *)
(*                                                                         *)
(* A file is opened when a task first asks for it, under the manager's     *)
(* lock, and brought up to date script by script: a script commits by      *)
(* itself, then the row that records its version is inserted and           *)
(* committed.  The bridge may die, a statement may fail, and the opening   *)
(* task may be cancelled, between any two of these statements.  The one    *)
(* that a cancelled task awaits is still carried out by the connection's   *)
(* thread, and nobody closes a connection that was not cached: an insert   *)
(* it has not committed keeps the file's write lock until it is collected. *)
(***************************************************************************)
EXTENDS Naturals, Sequences

CONSTANTS
  Files,      \* campaign.db of a cluster, telemetry.db of a server
  Scripts,    \* file -> its schema/<kind>/*.sql: can each be run once more?
  Openers,    \* tasks that use the stores, one file at a time
  Nobody,
  MaxStops,   \* bound: deaths, cancellations and failures
  MaxConns    \* bound: connections

\* A bridge without a file to open would have no database to manage.
ASSUME FilesAssumption ==
  /\ Scripts \in [Files -> Seq(BOOLEAN)] /\ Files # {} /\ Nobody \notin Openers
  /\ MaxStops \in Nat /\ MaxConns \in Nat

VARIABLES
  effects,   \* file -> scripts whose effects are in it
  recorded,  \* file -> versions in its schema_migrations
  open,      \* file -> connection that holds its write lock, or 0
  cache,     \* file -> its cached connection, or 0
  holder,    \* holder of DBManager._lock
  at,        \* task -> where it is
  wants,     \* task -> the file it asked for
  conn,      \* task -> the connection it works on, or 0
  next,      \* task -> the next script its loop looks at
  conns,     \* connections made
  stops,
  torn       \* history: files stopped between a script and its version row

dbVars == <<effects, recorded, open, cache, holder, at, wants, conn, next, conns, stops, torn>>

DbInit ==
  /\ effects = [f \in Files |-> {}] /\ recorded = [f \in Files |-> {}]
  /\ open = [f \in Files |-> 0] /\ cache = [f \in Files |-> 0]
  /\ holder = Nobody
  /\ at = [t \in Openers |-> "idle"] /\ conn = [t \in Openers |-> 0]
  /\ next = [t \in Openers |-> 1]
  /\ wants = [t \in Openers |-> CHOOSE f \in Files : TRUE]   \* nothing yet
  /\ conns = 0 /\ stops = 0 /\ torn = {}

Goes(t, from, to) == at[t] = from /\ at' = [at EXCEPT ![t] = to]

-----------------------------------------------------------------------------
(* DBManager.campaign and .telemetry *)

AskFor(t, f) ==
  /\ Goes(t, "idle", "waiting")
  /\ wants' = [wants EXCEPT ![t] = f]
  /\ UNCHANGED <<effects, recorded, open, cache, holder, conn, next, conns, stops, torn>>

\* Mutant of LockIsFree: the lock is not asked for.
LockIsFreeAlways == TRUE

LockIsFree == holder = Nobody

Cached(t) ==
  /\ LockIsFree /\ cache[wants[t]] # 0
  /\ Goes(t, "waiting", "using")
  /\ conn' = [conn EXCEPT ![t] = cache[wants[t]]]
  /\ UNCHANGED <<effects, recorded, open, cache, holder, wants, next, conns, stops, torn>>

\* A new connection, its pragmas, schema_migrations, and the SELECT of versions.
Open(t) ==
  /\ LockIsFree /\ cache[wants[t]] = 0 /\ conns < MaxConns
  /\ Goes(t, "waiting", "migrating")
  /\ holder' = t
  /\ conns' = conns + 1 /\ conn' = [conn EXCEPT ![t] = conns']
  /\ UNCHANGED <<effects, recorded, open, cache, wants, next, stops, torn>>

\* Mutant of Applied: scripts are run whatever has been recorded.
AppliedNever(f, k) == FALSE

\* Versions of no script of this build (a newer one's) change nothing.
Applied(f, k) == k \in recorded[f]

Pending(t) == {k \in DOMAIN Scripts[wants[t]] : k >= next[t] /\ ~ Applied(wants[t], k)}

\* Mutant of NextScript: the directory's order, whatever it is.
NextScriptUnsorted(t) == CHOOSE k \in Pending(t) : \A j \in Pending(t) : k >= j

NextScript(t) == CHOOSE k \in Pending(t) : \A j \in Pending(t) : k <= j

\* Another connection has an open transaction: "database is locked" after 5 s.
Locked(t) == open[wants[t]] \notin {0, conn[t]}

Repeats(t) == NextScript(t) \in effects[wants[t]]

\* Mutant of ScriptRuns: it is not waited for.
ScriptRunsLater(t) == Pending(t) # {} /\ UNCHANGED effects

\* executescript, statement by statement, each its own transaction; one that only
\* creates what exists writes nothing.
ScriptRuns(t) ==
  /\ Pending(t) # {}
  /\ IF Repeats(t) THEN Scripts[wants[t]][NextScript(t)] ELSE ~ Locked(t)
  /\ effects' = [effects EXCEPT ![wants[t]] = @ \cup {NextScript(t)}]

RunScript(t) ==
  /\ Goes(t, "migrating", "recording")
  /\ ScriptRuns(t)
  /\ UNCHANGED <<recorded, open, cache, holder, wants, conn, next, conns, stops, torn>>

\* The INSERT opens a transaction.
Record(t) ==
  /\ Goes(t, "recording", "committing")
  /\ ~ Locked(t)
  /\ open' = [open EXCEPT ![wants[t]] = conn[t]]
  /\ UNCHANGED <<effects, recorded, cache, holder, wants, conn, next, conns, stops, torn>>

Recorded(t) ==
  /\ recorded' = [recorded EXCEPT ![wants[t]] = @ \cup {NextScript(t)}]
  /\ open' = [open EXCEPT ![wants[t]] = 0]

CommitVersion(t) ==
  /\ Goes(t, "committing", "migrating")
  /\ Recorded(t)
  /\ next' = [next EXCEPT ![t] = NextScript(t) + 1]
  /\ UNCHANGED <<effects, cache, holder, wants, conn, conns, stops, torn>>

\* Up to date: the connection is cached, the lock given back.
Opened(t) ==
  /\ Goes(t, "migrating", "using")
  /\ Pending(t) = {}
  /\ cache' = [cache EXCEPT ![wants[t]] = conn[t]]
  /\ holder' = Nobody /\ next' = [next EXCEPT ![t] = 1]
  /\ UNCHANGED <<effects, recorded, open, wants, conn, conns, stops, torn>>

LeftOpen(t) ==
  /\ at' = [at EXCEPT ![t] = "idle"] /\ conn' = [conn EXCEPT ![t] = 0]
  /\ next' = [next EXCEPT ![t] = 1]
  /\ holder' = Nobody

\* A column that exists already, or a locked file: the exception reaches the caller.
OpenFails(t) ==
  /\ \/ /\ at[t] = "migrating" /\ Pending(t) # {}
        /\ IF Repeats(t) THEN ~ Scripts[wants[t]][NextScript(t)] ELSE Locked(t)
     \/ at[t] = "recording" /\ Locked(t)
  /\ LeftOpen(t)
  /\ UNCHANGED <<effects, recorded, open, cache, wants, conns, stops, torn>>

Finish(t) ==
  /\ Goes(t, "using", "idle")
  /\ conn' = [conn EXCEPT ![t] = 0]
  /\ UNCHANGED <<effects, recorded, open, cache, holder, wants, next, conns, stops, torn>>

-----------------------------------------------------------------------------
(* What may stop them *)

\* The task is cancelled; what it awaits is done nevertheless.
CancelOpening(t) ==
  LET f == wants[t] IN
  /\ at[t] \in {"migrating", "recording", "committing"} /\ stops < MaxStops
  /\ CASE at[t] = "migrating" ->
            /\ ScriptRuns(t) \/ UNCHANGED effects
            /\ torn' = IF effects' # effects THEN torn \cup {f} ELSE torn
            /\ UNCHANGED <<recorded, open>>
       [] at[t] = "recording" ->
            /\ open' = IF Locked(t) THEN open ELSE [open EXCEPT ![f] = conn[t]]
            /\ torn' = torn \cup {f}
            /\ UNCHANGED <<effects, recorded>>
       [] at[t] = "committing" -> Recorded(t) /\ UNCHANGED <<effects, torn>>
  /\ stops' = stops + 1
  /\ LeftOpen(t)
  /\ UNCHANGED <<cache, wants, conns>>

\* Something else goes wrong (the file cannot be opened, the disk is full), and the
\* exception reaches the caller; a transaction that cannot be committed stays open.
OpenBreaks(t) ==
  /\ \/ at[t] = "waiting" /\ LockIsFree /\ cache[wants[t]] = 0
     \/ at[t] \in {"migrating", "recording", "committing"}
  /\ stops < MaxStops
  /\ stops' = stops + 1
  /\ torn' = IF at[t] \in {"recording", "committing"} THEN torn \cup {wants[t]} ELSE torn
  /\ LeftOpen(t)
  /\ UNCHANGED <<effects, recorded, open, cache, wants, conns>>

\* An abandoned connection is collected and its transaction rolled back; whether
\* this ever happens depends on the version of aiosqlite.
Collected(f) ==
  /\ open[f] # 0 /\ \A t \in Openers : conn[t] # open[f]
  /\ open' = [open EXCEPT ![f] = 0]
  /\ UNCHANGED <<effects, recorded, cache, holder, at, wants, conn, next, conns, stops, torn>>

\* The bridge dies, or closes its connections and ends.
Restart ==
  /\ stops < MaxStops
  /\ stops' = stops + 1
  /\ torn' = torn \cup {wants[t] : t \in {u \in Openers : at[u] \in {"recording", "committing"}}}
  /\ open' = [f \in Files |-> 0] /\ cache' = [f \in Files |-> 0] /\ holder' = Nobody
  /\ at' = [t \in Openers |-> "idle"] /\ conn' = [t \in Openers |-> 0]
  /\ next' = [t \in Openers |-> 1]
  /\ UNCHANGED <<effects, recorded, wants, conns>>

DbNext ==
  \/ \E t \in Openers :
       \/ \E f \in Files : AskFor(t, f)
       \/ Cached(t) \/ Open(t) \/ RunScript(t) \/ Record(t) \/ CommitVersion(t) \/ Opened(t)
       \/ OpenFails(t) \/ Finish(t) \/ CancelOpening(t) \/ OpenBreaks(t)
  \/ \E f \in Files : Collected(f)
  \/ Restart

DbSpec == DbInit /\ [][DbNext]_dbVars

-----------------------------------------------------------------------------
(* Properties *)

DbTypeOK ==
  /\ effects \in [Files -> SUBSET Nat] /\ recorded \in [Files -> SUBSET Nat]
  /\ \A f \in Files : effects[f] \subseteq DOMAIN Scripts[f] /\ recorded[f] \subseteq effects[f]
  /\ open \in [Files -> 0 .. conns] /\ cache \in [Files -> 0 .. conns]
  /\ holder \in Openers \cup {Nobody}
  /\ at \in [Openers -> {"idle", "waiting", "migrating", "recording", "committing", "using"}]
  /\ wants \in [Openers -> Files] /\ conn \in [Openers -> 0 .. conns]
  /\ next \in [Openers -> Nat \ {0}]
  /\ conns \in 0 .. MaxConns /\ stops \in 0 .. MaxStops /\ torn \subseteq Files

OneConnection ==
  \A t \in Openers : at[t] = "using" =>
    /\ conn[t] = cache[wants[t]]
    /\ effects[wants[t]] = DOMAIN Scripts[wants[t]]

OneScriptAhead ==
  \A f \in Files : \E n \in 0 .. Len(Scripts[f]) :
    recorded[f] = 1 .. n /\ effects[f] \in {1 .. n, 1 .. n + 1}

\* The stores' write locks are per connection (locks.py): all who use a file, use the
\* same connection, and find the whole schema.  Scripts run in order, and wherever
\* deaths, failures and cancellations fall, a file is never more than one script ahead of the
\* versions it records: there is never more than one to repeat.
SchemaIsWhole == OneConnection /\ OneScriptAhead

\* "idempotent and safe to call on every open": what is in a file, or who has it
\* locked, makes opening fail only if somebody was stopped at it, or failed, between a
\* script and its version row.
FailsOnlyTorn ==
  [][\A t \in Openers : OpenFails(t) => wants[t] \in torn]_dbVars
=============================================================================
