# Sheldon AI for ARK: a TLA+ model of the MCP bridge

The bridge (`src/mcp-bridge/sheldon_bridge`) is one asyncio process between an
ARK game server and a language model.  The game mod opens one WebSocket, the
*server link*, over which all players' chat, the mod's replies to data requests
and its event frames arrive; the bridge runs an agent loop for every chat
message, asks the mod for live data on its behalf, keeps history and a dino
index in SQLite, and answers over the same link.

All of it is one thread, but every `await` is a point where another task may
run, so the hard part of the code is not computation: it is what is still true
after an await, a timeout, a cancellation or a dropped link.  That is what the
modules here are about.

## 1. Inventory

| component | state | operations | talks to |
|---|---|---|---|
| getter correlation (`server.py` 241-297, 1077-1311, 1384-1420) | `_query_waiters`, `_getter_req_counter`, `_getter_lock` | `_query_once`, retry, `_deliver_typed_reply`, `_census_scan` | tools and census call it; replies come from the receive loop |
| turn pipeline (`server.py` 607-638, 860-1075) | `_turn_tasks`, `_turn_semaphore`, rows of `campaign.db` | admission, turn, error wrapper, persistence | session map, agent, databases, reply pacing |
| session map (`session.py` 138-242) | `_sessions`, each session's lock, `last_active` | `create`, `get_or_create`, `_evict_if_full`, `cleanup_expired`, `remove` | link handler, turns, cleanup task |
| dino index (`db/telemetry_store.py`, `db/locks.py`) | `dino_index`, `dino_rtree`, one connection and its write lock | `upsert_region`, `reap_stale`, spatial and text readers | census writes, turns read and write other tables |
| link lifecycle (`server.py` 459-605, 1359-1382, 1422-1458) | `_server_link_ws`, `_census_task`, `_state_task`, `_connections` | connect, supersede, tear down, server-state requester | starts and cancels the census |
| census controller (`census.py`) | learned bounds, last count, wipe timer | active layer, full pass, subdivision, reaping | scans through the getters, writes the dino index |
| game events (`server.py` 687-835) | two rings of 20, damage window, team-to-tribe table | ingest, rate cap, coalescing, per-player view | turns read copies |
| replies and pins (`server.py` 1175-1188, 1313-1357) | `_last_reply_send`, `_map_pins`, `_pin_counter` | paced send, add, remove, clear | link |
| agent loop (`agent.py`), provider (`providers/llm.py`), conversation (`session.py` 21-135) | conversation, usage | iterate, call tools, fail over, truncate | registry, rate limiter, getters |
| tool registry (`tools/registry.py`) | tiers | resolve, validate, execute | agent |
| rate limiter (`auth.py`) | windows of timestamps | `check`, `cleanup` | turns, agent |
| databases (`db/manager.py`, `db/migrations.py`, `db/campaign_store.py`) | connections, schema versions, survivors, lore | open, migrate, append | everybody |
| re-keying tool (`tools/migrate_campaign_eos.py`) | `campaign.db` | one transaction | runs beside the bridge |
| semantic cache (`cache.py`) | entries and embeddings | lookup, store, purge | not reached by the server |
| the rest (wire strings, GPS, names, catalogues, config, TLS, CLI, audit, data build) | none that changes at run time | | |

How they interact: the receive loop must never wait for a turn, because a
turn's own getter replies come in over it; so turns are tasks.  A turn goes
through the session map, the session's lock, the semaphore, the databases and
the agent, whose tools go through the getters.  The census is one more caller
of the getters and the only writer of the dino index; it lives and dies with
the link.  Cancellation goes downwards (link to census, wall clock to agent to
tool to getter), and `CancelledError` passes every `except Exception` on its way.

What makes each part correct, and what is hard about it:

* **getters**: a reply reaches exactly the caller it answers, or nobody; a
  caller that waits can still be reached; every call ends.  Late, lost and
  retried replies, tombstones, cancellation in mid-wait, replies without an id.
* **turns**: locks and slots always come back; a message is answered once;
  the stored history is well formed; every turn ends; one player's turns are
  serial.  Failure at every await, a link that closes under a running turn.
* **session map**: bounded, and never replaces the session of a running turn.
* **dino index**: readers see whole scans; the two tables agree; the census is
  never stopped by a constraint.  Interleaved writers, failures, cancellation,
  crashes.
* **link**: one link, the newest; a census for it and for nobody else; an old
  socket's teardown leaves the new one alone.  Sockets overlap at every await.
* **replies and pins**: a reply stays on the mod's single replicated variable long
  enough; registry and map agree on whose pins there are.  Slow, failed and lost sends.
* **census**: no sweep on a scan without an answer, a whole pass misses nothing, in
  the end the index is what the world is.  Dinos that move between a scan and its
  upsert, timeouts, passes cut short, links that come and go.
* **events**: nobody is shown another player's events or another tribe's dinos; a
  damage flood is capped and deaths survive it.
* **agent**: bounded work whatever the provider does; a result for every tool call;
  no tool without its tier, its limits and its quota.
* **stores**: opening a file survives stops anywhere; re-keying moves everything or
  nothing and loses no history; what a turn is told is true of the stores while
  others write to them; the answer cache's two arrays stay in step.

`PROJECT.json` lists the hazards one by one, each at its line, with the
properties that would catch it.

## 2. Modules

| module | models | against |
|---|---|---|
| `GetterCorrelation` | request/reply correlation | its own properties |
| `GetterCorrelation_proofs` | theorems about it | |
| `TurnPipeline` | admission, session map, turn, persistence | its own properties |
| `TurnPipeline_proofs` | theorems about it | |
| `RegionIndex` | abstract: what the index promises | |
| `DinoIndex` | the write units, statement by statement | implements `RegionIndex` |
| `DinoIndex_proofs` | theorems about it, the refinement among them | |
| `GameEvents` | combat events: rate cap, coalescing, ring, per-player view | its own properties |
| `TribeEvents` | dino events: ring, team-to-tribe map, the tribe's filter | its own property |
| `Census` | the census loop over a world that changes | the world itself (`Converges`) |
| `Census_proofs` | theorems about it | |
| `ServerLink` | sockets of the game server and the tasks on the link | its own properties |
| `ReplyPacing` | paced replies | its own property |
| `MapPins` | map pins, registry against game | its own property |
| `LinkEvents_proofs` | theorems about `GameEvents`, `ServerLink`, `ReplyPacing`, `MapPins` and `MCLinkEvents` | |
| `AgentLoop` | agent, conversation, tiers, rate limiter, endpoint chain | its own properties |
| `AgentLoop_proofs` | theorems about it | |
| `Databases` | opening and migrating the SQLite files | its own properties |
| `CampaignStore` | `campaign.db` and the re-keying tool beside it | its own properties |
| `ContextAssembly` | what a turn is told, from stores that change | its own properties |
| `SemanticCache` | the cache of answers by meaning | its own property |
| `Stores_proofs` | theorems about `Databases`, `CampaignStore` and `SemanticCache` | |
| `Told_proofs` | theorems about `TribeEvents`, `ContextAssembly` and `MCStores` | |
| `MC*` | one per run | |

Components meet through what the modules take as given: `Census` takes a write as one
step, or as a part of one that stays in the open transaction when the task is cancelled
in it, which is what `DinoIndex` shows of upserts and reaping; `TurnPipeline` takes the agent as
a stage that ends, which `AgentLoop` shows, and the limiter's verdict as a choice;
`Census` and `GetterCorrelation` take the link as something that comes and goes,
which `ServerLink` details.

### GetterCorrelation

The FIFO of a reply type is a function from request ids to `[age, mark]`.  Ids
come from one counter that is read and appended without an await in between, so
the order of the ids *is* the FIFO's order; nothing is lost by dropping the
list.  Marks: `live`, `abandoned` (a tombstone), `cancelled` (its future was
cancelled but nobody marked it; `fut.done()` makes a reply to it vanish).
`Query` registers and sends; the stages `sending`, `waiting` and `backoff` are
the three awaits of a call.  `Reply` is `_deliver_typed_reply` for a reply to any
request that may still be answered: the id path for players' getters, whose id
the mod echoes, and the FIFO path for scans, which have none.  `Cancel` and
`LinkDown` are the two ways a `CancelledError` arrives.  Time passes by `Tick`,
and ages stop growing when the code can no longer tell them apart.

One assumption on the environment is named: `ReplyLateness <= Lateness`, a scan
answered at all is answered within `_GETTER_REPLY_LATENESS`.  The code's comment
says so, and without it the FIFO path cannot be right.

### TurnPipeline

Turns and sessions are numbered as they begin.  A turn's `pc` is the await it
stands at; `lost` are the turns whose socket closed.  Of `last_active` the model
keeps the order (`older`) and whether an hour has passed (`aged`), which is all
that eviction and cleanup look at.  `Insert` includes the eviction, as `create`
and `get_or_create` do.  `Age` may make a session old only when it has no turn in
flight, or just before its next message comes; it cannot age in the middle of a
turn, whose 150 s are no hour.  A turn leaves the agent with an answer, with a canned one
(`Finish`), or by an exception that `agent.run` lets out (`RunFails`).

### DinoIndex and RegionIndex

`DinoIndex` runs a write unit one statement at a time.  `index` and `tree` are
what anyone on the connection sees, the open transaction included; `saved` is
the last commit.  A position is abstracted to its region, a row's age to
`stale`.  A call that waits for the lock has done nothing yet and is left out: `Enter`
is the moment it gets it.

A unit may be cut off at any of its statements (`Cancel`): its link drops, its turn
times out.  It then gives the lock back with its transaction open, and the next unit
goes on in it, to commit both or to roll both back.  `before` is history: the tables as
the last unit to end left them, by whichever way, and in `before.hurt` the row ids that
such a unit has left in one of the two tables only, having been cut off between the two
DELETEs or the two INSERTs.  The properties say what holds nevertheless: nobody's
statements run between those of another, and no unit that *fails* leaves anything
(`NoStrayChanges`); index and R-tree agree, and an insert meets no row in its way, but
at torn ids (`InSync`, `NoCollision`).  At a torn id that has been committed inserts do
fail: that is what hazard and finding are about.

`RegionIndex` has the region each dino was last seen in, as committed (`dinos`) and in
the open transaction (`open`).  It changes by scans of a region and by reaping, which
are committed as a whole, or, cut off, stay open without the dinos that had not been
put back; by a commit of, or a rollback to, what there is.  The mapping takes both from
`saved` and `before` (`OnlyScansMoveDinos`): no dino ever comes to a place where no scan
saw it, and what a cut-off scan may lose are dinos of the region or of the scan.

### GameEvents

`_handle_game_event` has no await, so each frame is one step: `Death`,
`DamageDropped` (the cap refuses it) or `DamageTaken` (merged into the newest entry
or appended).  Frames below the report floor return before anything changes and are
left out.  Of an entry the model keeps kind, victim, time and count; `hit`,
`admitted` and `deaths` are history, for the properties to speak of.  `time.time()`
is taken not to go back.

Two properties pull in opposite directions.  Merging damage of the same victim only
would repair `OwnDamage`, but with two fighters in turns every frame would then be
an entry of its own, and `DeathsOutliveBursts` breaks (that is its mutant): a ring
that keeps both promises has to look further back than its newest entry.

### TribeEvents

Tames and deaths go into one ring (`Noted`); a tame with team and tribe also into
its cluster's map (`Learned`, a dict with FIFO eviction).  `AskTribe` is the turn being
handed copies of both, `TribeAnswer` the tool after `get_tribe` has replied, with or
without the team; what it shows are the newest places of the ring that match
(`NthNewest`).  Tribes are what their cluster and their team say they are.
`OwnDinosAreTold` has two exceptions, both the code's: names two
tribes of a cluster have had cannot be told apart, and an event of *another cluster*
is shown when its team has the asker's id, because the ring keeps no cluster although
`server.py:432` means to exclude just that.

### Census

The map is a line, a cell is cut into halves (of an odd one, one half is longer), and a full pass takes no ticks.
`where` is the world, `index` and `age` are the rows, the `census_*` values of
`server_state` have a variable each, and `stage` is the await at which `run_census`
stands.  A cell takes two steps, the mod's answer and what the code makes of it, so
that the world may change in between; the circle of a scan reaches beyond its square
(`Reach`), and only the square is swept.  The three or four writes at the end of a
pass are steps of their own, so that a cancellation may fall between them.  The active
layer scans one player's cell per iteration.  Cells at the floor that time out are
skipped; a link that is superseded ends the pass but still lets it learn.

The task may be cancelled where it writes nothing (`Cancel`) or in the middle of any of
its writes (`CutOff`), which then lies in the connection's open transaction: `undo`
keeps the rows and the state as of the last commit, to which the next upsert that fails
goes back (`UpsertFails`), unless a write of the census or of another user of the
connection (`OthersCommit`) has made it durable.  An upsert that is cut off has swept
its cell and put back some of its dinos.  `SweepsAreHonest` excepts just that and such a
rollback; that the index recovers from it is part of `Converges`.  An error of the
census's own that ends the task (`ServerLink`'s `CensusBreaks`) is a `Cancel` here: it
goes on when a link comes up again.

### ServerLink

Each socket is used once and goes through `handle_connection`: authenticating,
creating its session, registering, welcoming, open, closed.  `censusTask` and
`stateTask` are the references; `census` and `asking` say which tasks really run, so
that a task nobody refers to any more is visible.  Both tasks may end by an error of
their own while their link stays open, and nobody starts them again: the database does
not open, or a read of `server_state` raises (`CensusBreaks`, `RequesterBreaks`).  So
`CensusFollowsLink` promises that no *other socket* ends the newest link's census, not
that it lives.  Two handshakes that overlap
overwrite a reference: then two census loops may run until one asks `should_run`,
which is why `CensusFollowsLink` promises a single one only without such an overlap
and `TasksEnd` that the other one does end.

### ReplyPacing and MapPins

`ReplyPacing`: the lock, the wait computed once from `_last_reply_send`, and a send that is
over when the transport has taken the frame.  Frames on the `wire` reach the mod in their
order, at any time from the beginning of the send on, or are lost with the link.  The
pacing counts from the end of the send, so what a reply is sure of is `Gap` less what the
network held it back after that (`HeldBack`), all of `Gap` if it has arrived by then:
that is `RepliesLast`.  A reply whose send failed after the transport had taken it does
not move `_last_reply_send` and may be overwritten at once; it is excepted.  `MapPins`: a call sends its frames one at a time
under `_pin_lock`; each may arrive and fail, or be lost and succeed, or be cut off.
Pins of such frames (`unsure`) may be ghosts on the map or in the registry.

### AgentLoop

One survivor's turns, one after the other, with the conversation as a sequence of
messages of a size, the tiers resolved as `_resolve_tiers` does (in the order of the
configuration, so a parent listed later gives nothing), the two sliding windows of
the limiter, and the chain of endpoints as a function from what each attempt meets to
what the agent gets.  `NaN` arguments are left out; arguments that are JSON but no
object end the turn by an exception (`RunRaises`), calls unanswered.  What the code does not promise is
not claimed: a truncation may leave results without their call at the front of the
conversation, and even drop the user's message, and a second overflow truncates to
the same budget again.

### Databases and CampaignStore

`Databases` steps through `apply_migrations`: a script, the insert of its version,
its commit.  A cancelled opener's statement is still carried out, and its connection
keeps the write lock.  Any statement may also fail by itself, as when the disk is full
(`OpenBreaks`).  003 (`ALTER TABLE`) cannot be run twice: a stop or a failure between that
script and its version row makes every later opening fail, which is what the history
variable `torn` excepts in `FailsOnlyTorn`.  `CampaignStore` has the bridge's writes,
each a statement and its commit, and the re-keying tool, whose `BEGIN` takes no lock:
what the bridge writes to the new key between the tool's counts and its first
statement may be deleted or merged (`overtaken`; the tool's documentation says to run
it while the chat link is quiet).

### ContextAssembly and SemanticCache

`ContextAssembly` reads telemetry, lore and history one after the other while turns
and tools write; a line of a block is a token, a text the words it holds.  `vitalsAt`
is history: when the vitals that `player_state` holds were really read.
`SemanticCache` keeps the two parallel arrays; a lookup looks at the most similar
entry alone, so that a live one behind an expired one is missed once, as
`LookupsAreSound` says.  What a purge keeps is in the order of the places it had
(`Nth`).

## 3. Runs

| run | instance | shows |
|---|---|---|
| `getter` | 2 players, 2 successive census tasks, 2 requests and a retry each may overlap, 1 link drop | nobody gets another's reply, no waiter is lost, scans are serial, every call ends |
| `scan_cascade` (violation) | 1 census task, timeouts in the code's ratio, one lost reply | a lost scan reply keeps harming scans long after its tombstone's time |
| `turns` | 3 players, 3 messages, 2 admission places, 1 slot, 3 sessions | locks, slots, cap, answers, history |
| `turns_live` | 2 players, 2 messages, 1 session place, the link comes up twice | eviction spares locked sessions; every turn ends |
| `turns_split` (violation) | 1 player, room for every session | cleanup splits a player in two |
| `stores` | index: 2 dinos, 2 regions, 2 writers, 3 row ids, 1 unit cut off; opening: 2 files, 4 scripts, 2 openers, 2 stops or failures; campaign: 4 rows, 2 runs of the tool; cache: 2 entries, 3 stores; context: 2 memories, 3 rows, 2 events; agent: 2 tiers, 2 tools, 2 endpoints, 2 turns of 2 iterations; tribes: 4 tribes in 2 clusters, 3 frames, 1 renaming | nobody's changes stray, tables in step, no collision, refinement, one unit cut off; schemas whole, failures explained; re-keying whole and lossless; sound lookups; a true context; every call answered and cleared, every run ends; dino events go to their tribe |
| `upsert_cancel` (violation) | the index alone, one unit cut off anywhere | half a region is seen and committed |
| `stale_vitals` (violation) | the context, 4 minutes | old vitals pass for fresh |
| `link_events` | events: 1 player and frames without victim, ring of 3, cap of 2, 4 damage frames, 2 deaths; link: 3 sockets; replies: 3; pins: 2 survivors, 3 calls | the cap holds in every window, a death outlives bursts; one link, its census, no task left; replies last; pins agree |
| `combat_mixup` (violation) | 2 players, 2 damage frames | a player is shown another's damage |
| `census` | 2 dinos, 5 places, tiles of 2, 1 change in the world, 2 faults | honest sweeps, complete passes, convergence |
| `census_shrinks` (violation) | 2 dinos that stay, 1 timeout | a live dino outside of the shrunk bounds is reaped |

`stores` and `link_events` check components that share no state in one run.
A variable `focus`, chosen at the start, says which of them moves; the others keep
their initial state, so each is explored exactly as in a run of its own.  The
`Rest` of `MCStores` lets the bounded components stop there while the index, which
must always be able to go on, is still checked for deadlock.  The context is explored
once with memories and once with news, its two halves being read from different
tables.

Bounds.  `MaxRequests` and `MaxDrops` bound the getter run: two requests of one
type and a retry are what it takes for a tombstone, a late reply and a live
waiter to meet, and one drop for a census task to be replaced.  In `turns` three
messages over two places give one shed, one waiting and one running turn; three
keys plus the link over three places make every insert evict.  A shorter map is
used for the liveness run, where the only other session is locked and eviction
has to give up.  For the index (`stores`, `upsert_cancel`) two uids and two regions let a dino move into
the region being replaced while another one stays, and `MaxId = 3` lets an id be
given again after its row was deleted (with a full table the insert simply
cannot happen, SQLite's own error).  `MaxCuts = 1` unit is cut off: what it leaves meets every
unit, failure and crash after it; the theorems are for any number.  In the
getter run sending, waiting and backing off take 0 or 1 ticks: what matters is which of two timers fires first, not by how much.
`MCScanCascade` uses the code's own values in ticks of 2.5 s.

In `link_events` four damage frames over a cap of two give a refusal, a window that
slides and enough windows of damage to push one death out of the ring; seven
instants hold two coalescing windows and a rate window on either side.

Three sockets let one be superseded while another is still being welcomed and a third
is on its way out.  Three replies make one wait behind another that waits, and six ticks
over a gap of two let each of them arrive late.  Two pins and
three calls let a call of one survivor come between two of the other.

In the agent's part two iterations are one with tools and the last one without; sizes
are 1 and the budgets 4 and 3, so that truncation cuts inside a group of tool results;
the window is 2 of 4 instants and the clean-up comes as early as the code's ratio
allows.  In the tribes' part the map has room for one team, so that the second one to
tame pushes the first one out.

In `census` one dino starts at one edge and the other beside it, in the middle or at the
other edge; one change may be a move, a birth or a death at any moment, and two faults
are, say, a timeout at the floor with a cancellation in the same pass, or an upsert cut
off and another that fails upon it.  The intervals keep the code's order
(`FullEvery < Ttl < ReprobeEvery`), which is what `Converges` turns on: a pass over
learned bounds, reaping, then the re-probe of the whole map.

The files of `Databases` have the code's scripts: one for the campaign, three for
telemetry, the last of which cannot be repeated.  Four rows and two runs of the tool
let a key be re-keyed, written to again and re-keyed once more.

The turn runs switch deadlock checking off: with `MaxMessages` messages handled
and the link gone for the last time the instance has nothing left to do.  So do the
link and event runs, which end when every socket is used and every frame has come, and
`stale_vitals`, which ends with its last minute.

### Fairness

`GetterCorrelation`: timers fire (`Tick`, the timeouts, the retry), and a coroutine
whose future is resolved runs again.  That is the event loop; nothing makes the
mod answer, a send complete, a turn be cancelled or a link come up.

`TurnPipeline`: each stage of a turn is left eventually (weak fairness per turn).
The agent is cut off by `asyncio.wait_for` after 150 s, the databases answer or
raise, and a send ends because the server's keep-alive (ping every 20 s,
`run_server`) closes a socket that takes no data.  For lock and semaphore strong
fairness is assumed: asyncio wakes their waiters in order, so one who waits while
they come free again and again is served.

`ServerLink`: handlers and tasks of every socket are run (weak fairness per socket); a
dead peer is noticed because of the keep-alive.  Nothing makes a peer connect, die, or
publish its constants, nor a task break.

`Census`: the loop is run, the mod answers or times out, the database answers
(`WF(Step)`), and sleeping ends.  After a task that has ended a link comes up again; for
one that ended by an error of its own that is an assumption on the server's
reconnecting.  Strong fairness for `Wake(1)` says that time goes
on: many sleeps of `active_interval` make a tick, so that waking without one may be
repeated, but not for ever.

`EveryRunEnds` (the agent) needs no fairness: it says that the agent can always go on
and that everything it does uses up something bounded.

### Findings

1. *A lost scan reply is passed on for ever* (`scan_cascade`).  The comment at
   `server.py:244` promises that a lost reply cannot eat the next getter's
   indefinitely, because its tombstone is purged after 12 s.  The next scan comes
   before that, is eaten, times out after 5 s and leaves a fresh tombstone.
2. *Cleanup ignores the locks* (`turns_split`).  Eviction was taught not to take
   away a session with a turn in flight (`session.py:158`); `cleanup_expired` was
   not, and `last_active` is touched only once the agent starts.
3. *A cancelled write unit leaves its transaction open* (`upsert_cancel`).  The
   rollback is in an `except Exception`, and cancellation is none.  Readers see half a
   region, the next writer's commit makes it durable, and an id torn between the two
   tables makes inserts that are given it fail from then on.
4. *Two fights are merged into one* (`combat_mixup`).  `_recent_events_for` promises
   that concurrent events cannot cross-attribute; `_coalesce_into_recent_damage`
   (`server.py:803`) does not ask whose damage the newest entry is.
5. *A timed-out cell shrinks the census* (`census_shrinks`).  A cell that does not
   answer is skipped so that its dinos are not swept, but the pass learns its bounds
   without them; they are out of the next passes' area for up to 6 h and reaped after
   90 min, although `staleness_ttl` is meant to let live rows survive.
6. *Old vitals look fresh* (`stale_vitals`).  Any getter that writes `player_state`
   moves `captured_at` on (`telemetry_store.py:83`), also one that read no vitals; the
   assembler's warning, which is there for hours-old vitals, goes by that column.

Seen while modelling, and not findings of a run: a census that ends by an error of its
own is not started again before the next link (see ServerLink); the ring of dino events
keeps no cluster (see TribeEvents); a stop between 003 and its version row needs a repair by
hand; overlapping handshakes may run two censuses for a moment; a failed reply send
does not pace the next one; a closing link socket removes the session `server-link`
by its id, whoever has it by then (`server.py:605`).

## 4. Proofs

`GetterCorrelation_proofs` proves, for every set of callers and all values of the
timeouts, from the three named assumptions of `GetterCorrelation`:
`TypeCorrect`, `NoCrossDelivery` (`[]OwnReply`), `NobodyWaitsInVain`
(`[]AwaitedIsRegistered`), `ScansAreSerial` (`[]OneLiveScan`) and `RepliesArrive`
(`PromptReply`).

None of these is inductive.  `IInv` adds to the type invariant: callers that wait
wait for different requests (`FreshRequests`); a scan that waits holds
`_getter_lock` and its request is the newest of its FIFO (`NewestScanWaits`); a
live waiter belongs to a caller that still waits without a reply
(`LiveIsAwaited`); and, the heart of it, a scan that may still be answered has
its waiter in the FIFO, exactly as old as itself (`ScanInFlightHasWaiter`), so
that a tombstone is purged only when no reply to it can come any more.  That is
where `LatenessAssumption` is used.  The step lemmas follow the actions: a query
(`QueryStep`), leaving a wait (`LeaveStep`), a reply (`ReplyStep`), the link going
down, a tick.

`TurnPipeline_proofs` proves, for any number of players, messages, places, slots and
sessions: `TypeCorrect`, `LocksComeBack` (`[]NothingLeaks`), `EveryoneIsAnswered`
(`[]AnsweredOnce`), `HistoryHolds` (`[]HistoryIsSound`), `EvictionSparesTurns`
(`LockedStays`) and `MapIsCapped` (`[]SessionCap`, which itself says
`MaxInflight < MaxSessions`).  The inductive core is `TypeOK`, `TurnsFit` (messages
are numbered as they come, a turn past admission has a session) and `NothingLeaks`.
Most steps do not cross the borders of the two `with` blocks (`Outside`), and those
that leave them give back what was taken (`GivesBack`).  What a turn answers and
stores is a fact about that turn alone (`Accounts`), proved on top of the core.  For
the map, `InsertEffect` says which sessions an insert may remove: unlocked ones,
until the map fits.  That it does fit is a pigeonhole argument: locked sessions
belong to different turns (`NothingLeaks`), of which at most `MaxInflight` exist, so
a map at its cap has one that may go (`LockedKeys`, `InsertKeepsCap`).

`DinoIndex_proofs` proves, for every set of dinos, regions and writers, every `MaxId` and
any number of units cut off: `TypeCorrect`, `NoStrayChangesHolds`, `InSyncHolds`,
`NoCollisionHolds` and the refinement `Implements` (`Spec => OnlyScansMoveDinos`), from
`NamesAssumption` and `BoundsAssumption` alone.

Its `IInv` says what a unit under way has done so far.  Only the holder of the
lock is between two statements (`Holder`); with the lock free the tables are as the
last unit to end left them, in step but at the torn ids and with unique uids
(`Settled`).  For the holder, `InStep` says how far the two tables are apart at each
statement (by what was torn before it, the deleted ids, or the one row just inserted),
and `Progress` which dinos the open transaction has where, in terms of what the unit
found (`before`), the scan and what of it is still to be inserted.  Wherever the unit
ends, its `InStep` tells the ids it leaves torn (`EndsInStep`, for `HurtBy`) and its
`Progress` becomes the abstract `Scan` or `Reap` (`ScanImplements`, `ReapImplements`):
nothing is lost at the commit (`CommitImplements`), and what is still to be inserted
when it is cut off (`CancelImplements`).  `NoCollision` follows from `Progress` too: a
uid still to be inserted is nowhere in the index.  There is one lemma per action, each on top
of `GoesOn` (the unit continues) or `LetsGo` (it ends).

`Census_proofs` proves, for any herd, map, tile, floor and intervals,
`CensusTypeCorrect` (`[]TypeOK`), `NothingIsMissed` (`[]PassIsComplete`) and
`NoRowIsSweptBlindly` (`SweepsAreHonest`), from `SizesAssumption` and
`IntervalsAssumption`.  The invariant behind `PassIsComplete` is about places instead of
cells (`PassCovers`): every place of the area that no remaining cell covers is done,
that is, its rows were refreshed by this pass and, in a world that stands still, whoever
lives there has a row.  It holds at the start because the tiles of an area cover it
(`TilesCover`), goes on because the halves of a cell cover it (`HalvesCover`), and says
what is wanted when no cell is left.  What was answered is what was there as long as the
world stands still (`StillWorldIsKnown`).  For the sweeps, an upsert that ends takes from
the rows only what its own reply replaces, so a row that goes without a fault is of a
dino the mod saw elsewhere or not at all; that a transaction was open before is no
matter, for the upsert sees what is in it.

`LinkEvents_proofs` has what goes over the link.

* *Game events*, for any players, ring size, cap and windows: `TypeCorrect`,
  `FloodIsCapped` (`[]RateIsCapped`) and `DeathsOutlive` (`[]DeathsOutliveBursts`), from
  `LimitsAssumption` and `PlayersAssumption`.  For the cap, the window is the end of the
  list of admitted frames and what has left it was too old: then the frame `DamageCap`
  before the one admitted now has left it (`TakenStep`).  For the deaths, `Spaced`
  accounts for the entries between any two of the ring: at most two for every death
  among them and one for every coalescing window they span.  An entry is no older than
  the deaths that came before it (`EarlierDeaths`), and only a full ring loses deaths
  (`LostIfFull`); so the `RingSize` entries that came after a lost death say how old it
  is.
* *The link*, for any number of sockets and tries: `LinkTypeCorrect` and
  `NewestLinkIsServed` (`[]CensusFollowsLink`), from `LinkAssumption`.  A link that is
  there is the socket that registered last (`LinkIsNewest`), so a superseded socket's
  teardown never touches it; and while no two handshakes have overlapped, `_census_task`
  is the only census, with none before the link's welcome is out (`CensusIsReferenced`),
  so that cancelling the reference cancels all there is.  A census that breaks leaves
  both facts alone, as it is nobody's reference that ends it.
* *Replies*, for any replies, gap and horizon: `PacingTypeCorrect` and `ShownForGap`
  (`RepliesLast`), from `PacingAssumption`.  A reply with another one behind it, in
  transit or shown, has been served: its send was over, `Gap` ago or more
  (`OthersFollow`), since the other slept until `Gap` after the last send, of which all
  before it are no later (`WaitIsServed`, `LastIsLatest`).  What overwrites a reply was
  behind it on the wire.
* *Pins*, for any survivors, calls and number of pins: `PinsTypeCorrect` and
  `RegistryHolds` (`[]PinsAgree`), from `PinsAssumption`.  A pin has one owner in registry
  and map together (`OneOwner`), and what a call still has to send is a number nobody has
  used or pins of the caller's own (`ToBeSent`); so removing a pin takes nothing of anyone
  else's.  That the pin sent next, a minimum, is one of those still to be sent (`MinIsIn`)
  comes from the library's theorem that `<` on the naturals is well founded.
* `LinkTypesCorrect`: the composition `MCLinkEvents` keeps all their types, since each of
  the four goes its own way in it (`EachIsImplemented`).

`Stores_proofs` has what lies in the files.

* *The re-keying tool*, for any keys, rows and runs: `CampaignTypeCorrect`,
  `MemoryMovesWhole` (`RekeyIsWhole`) and `NoHistoryIsLost` (`HistoriesSurvive`), from
  `KeysAssumption`.  `WorkIsOwn` says what the tool's transaction sees at each of its
  statements, in terms of the rows as of the last commit (`After`); this is where it
  matters that the first statement takes the write lock and nobody else writes from then
  on.  At the commit it is every table with all rows renamed (`CommitIs`).  `CountsHold`
  says that what was counted still stands unless the bridge wrote to the new key
  (`overtaken`), so that a target with a history is never taken for an empty one.
* *The cache of answers*, for any similarity, threshold, capacity and lives:
  `CacheTypeCorrect` and `LookupsHold` (`LookupsAreSound`), from `CacheAssumption`.  The
  arrays in memory and on disk are `Parallel`, and no answer is in them twice, through
  stores, evictions, purges, saves that are cut off and loads.  That `argmax` and
  `argmin` find a first greatest and a first least place takes an induction on the
  number of entries (`FirstExists`, `MostExists`).
* *Opening the files*, for any files, scripts and openers: `DbTypeCorrect`,
  `EveryoneFindsTheSchema` (`[]SchemaIsWhole`) and `OnlyStopsTear` (`FailsOnlyTorn`), from
  `FilesAssumption`.  The manager's lock is held by the one task that opens a file, which
  has no cached connection yet (`LockIsTheOpeners`); the loop has passed by recorded
  versions only (`LoopIsBehind`), so the scripts that are left are those after the last
  recorded one (`LeftToRun`); and a file that is ahead of its versions, or locked, is
  being opened or was stopped (`TornIsKnown`).

`AgentLoop_proofs` proves, for any tiers, tools, limits, endpoints and budgets,
`AgentTypeCorrect`, `OnlyClearedCallsRun` (`[]EveryCallIsCleared`) and `CallsGetResults`
(`[]CallsAreAnswered`), from `TierAssumption` and `AgentAssumption`.

* Clearance has two halves.  What `_resolve_tiers` gives a tier comes from its line, the
  tier itself and those it inherits from (`ResolvedIsLines`); the recursive definitions
  behind this are unfolded one step at a time (`RecursionExists`, `UpIs`).  And the
  limiter's stamps are those of the latest calls, while the calls it has forgotten have
  left the window (`LimiterKnows`), which is where the clean-up's age being no shorter
  than the window is used; so counting stamps counts calls.
* `CallsAreFollowed` says of every message with calls that its results stand right behind
  it, one each and in order, as far as the calls are settled, the others being pending;
  `ResultsAreOwned` that between a result and its call there are results only.  Both are
  about neighbours, so they survive a truncation, which keeps an end of the conversation
  (`TruncatedIsEnd`), but for results at its front.

`Told_proofs` has what a turn is told.

* *The tribe's dinos*, for any tribes, clusters, names, sizes of the ring and of the map:
  `TribeTypeCorrect` and `OwnDinosHold` (`OwnDinosAreTold`), from `TribesAssumption`.
  Its invariant: an event in the ring, or in the copy a turn was handed, says what was so
  when it came, and events are in the order they came in (`RingFits`); a cluster's map
  names only tribes of that cluster that tamed, as they were once called, and has all of
  them while they are not too many (`TeamsFit`, kept by `LearnedFits`).  Then an event
  that matches the asker is of their tribe or of one that was called the same
  (`MatchesAreOwn`), and one that is theirs matches (`OwnMatch`).  That the newest are
  shown is a fact about ranks (`NewestAre`): as many numbers of a set are larger than its
  n-th largest as places come before the n-th.
* *The context*, for any facts, questions, row sizes, limits and budgets:
  `ContextTypeCorrect` and `ContextHolds` (`ContextIsSound`), from `ContextAssumption`.
  The invariant says at each read what the draft still has to do with stores that have
  moved on.  What was read is listed once, and an id there and in the store stands for
  one fact (`MemoryIInv`); from the second read on it has all that is remembered for
  good and was known when the turn began (`StickyFits`), from the third on nothing left
  out fits better (`HitsFit`), and after the touch what is told and still there has been
  touched (`TouchedIn`).  Deaths that were news when they were read are the newest ones,
  which time only makes fewer (`NewsIInv`).  A list obtained by sorting is a `CHOOSE`, so
  one first has to exist, which ranks give (`SortedExists`), and to have every member
  (`SortedHasAll`).  The history is about sums of the newest rows (`KeptFits`, `TotalIs`),
  whose recursive definition is unfolded by `SumsExist`.
* `PartTypesCorrect`: the composition `MCStores` keeps the types of its six components,
  since each goes its own way in it (`EachPartIsImplemented`).

The inductive invariants of `Census_proofs`, `LinkEvents_proofs`, `Stores_proofs`,
`AgentLoop_proofs` and `Told_proofs` hold on the instances of the runs too, as TLC
finds (`PassCovers` with the places of the instance for the integers).

What the model had to be told, which the code takes for granted, are named assumptions:
a herd is finite (`SizesAssumption`), so are the words of what is remembered
(`ContextAssumption`), and there is a tribe, a tier and a file at all.

Only model-checked: liveness (`EveryCallReturns`, `EveryTurnEnds`, `TasksEnd`,
`Converges`) and `EveryRunEnds`, which are out of the prover's reach, as `ENABLED` is.
Every other invariant and action property of the passing runs is a theorem.

## 5. Not modelled, and the plan

Left out for good: string handling on the wire, GPS and name conversions,
read-only catalogues, configuration, command line, data build, and the mod
itself, of which only the replies are modelled (as external).  `swap_dino_index`
is left out because nothing but its test calls it.  Players' own sockets are left
out because the mod opens none.

Left out of modelled components: wildcard patterns of tiers, schema generation and
`config.py`'s parsing (the model starts from the tiers' tools and limits); backoff
lengths and usage records of the provider; curation state, which nobody writes yet; the
`_connections` map and the session of a player's own socket; in the census, writes of
its state and reapings that fail (only upserts do), and the permanent failures that an
id torn between the index's two tables causes (`DinoIndex` has the torn ids).

Next:

1. A composition of `ServerLink` and `Census` over `DinoIndex` instead of its abstract
   steps, with the scans through `GetterCorrelation`.
2. The tier of the shared session (`server.py:963`), which a later message may change
   while an earlier turn waits: a composition of `TurnPipeline` and `AgentLoop`.
