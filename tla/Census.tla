------------------------------- MODULE Census -------------------------------
(***************************************************************************)
(* The continuous dino census of one game server (census.py), which keeps  *)
(* the dino index as true to the world as scans of small cells can.        *)
(*                                                                         *)
(* The loop scans around the players, and every FullEvery, or after a wipe *)
(* has settled, makes a full pass over the bounds it learned from the last *)
(* pass, or over the whole map every ReprobeEvery; then it reaps the rows  *)
(* not seen for Ttl.  A cell that is too dense or times out is split; one  *)
(* that still times out at the floor is skipped.  Between a scan and its   *)
(* upsert the world goes on.  The link may drop (the task is cancelled) or *)
(* be superseded (should_run turns FALSE), or an error end the task; the   *)
(* next link's task starts with the persisted state and fresh stats.       *)
(*                                                                         *)
(* A task that is cancelled in a write leaves it in the open transaction   *)
(* of the connection (DinoIndex), which everybody sees: the next write     *)
(* that ends commits it, the next upsert that fails takes it back.  But    *)
(* for that, a write is a step.                                            *)
(*                                                                         *)
(* The map is a line of places; a cell is cut into halves, not quadrants.  *)
(* A pass takes no time: it lasts minutes and a tick is FullEvery's unit.  *)
(***************************************************************************)
EXTENDS Integers, Sequences, SequencesExt, FiniteSetsExt

CONSTANTS
  Dinos,
  Extent,         \* the map: places 1 .. Extent (map_extent)
  Start,          \* the worlds the census may find
  PlayerSpots,    \* places where players may be
  Tile, Floor,    \* tile_size and min_tile_size
  ActiveSize,     \* side of a player's cell (active_radius * sqrt 2)
  Reach,          \* how far a cell's circle reaches beyond its square
  Dense,          \* subdivide_threshold
  FullEvery,      \* full_pass_interval
  Ttl,            \* staleness_ttl
  ReprobeEvery,   \* reprobe_interval
  SettleFor,      \* wipe_settle
  WipeMin,        \* wipe_min_prev
  MaxChanges,     \* bound: moves, births and deaths
  MaxFaults       \* bound: timeouts, failing upserts, lost links, tasks cut off

ASSUME SizesAssumption ==
  /\ IsFiniteSet(Dinos)
  /\ Extent \in Nat \ {0} /\ PlayerSpots \subseteq 1 .. Extent
  /\ Start \subseteq [Dinos -> 0 .. Extent]
  /\ Tile \in Nat \ {0} /\ Floor \in Nat \ {0} /\ ActiveSize \in Nat \ {0}
  /\ Reach \in Nat /\ Dense \in Nat

ASSUME IntervalsAssumption ==
  /\ FullEvery \in Nat /\ Ttl \in Nat /\ ReprobeEvery \in Nat /\ SettleFor \in Nat
  /\ FullEvery < Ttl /\ Ttl < ReprobeEvery
  /\ WipeMin \in Nat /\ MaxChanges \in Nat /\ MaxFaults \in Nat

Places == 1 .. Extent
Nowhere == 0
Never == ReprobeEvery + 1   \* longer ago than any interval asks

VARIABLES
  where,       \* dino -> its place in the world, Nowhere when it is dead
  index,       \* dino -> the place of its row in dino_index, Nowhere without
  age,         \* dino -> time since its row's captured_at
  bounds,      \* census_bounds: <<lo, hi>>, or <<>> when unset
  lastFull, lastReprobe,   \* time since census_lastfull and census_lastreprobe
  lastCount,   \* census_lastcount
  undo,        \* <<>>, or in an open transaction <<the rows and state of the last commit>>
  wipe,        \* stats.wipe_pending
  settle,      \* time until stats.wipe_settle_until
  stage,       \* where run_census is
  layer,       \* "active" or "full": whose cells these are
  todo,        \* cells still to scan: [at, size]
  area,        \* the area of the full pass
  reprobe,     \* does the full pass re-probe the map?
  heard,       \* did the cell's scan get a reply?
  reply,       \* that reply: where the dinos were when the mod answered
  collected,   \* <<dino, place>> upserted by the full pass
  skipped,     \* has the full pass left out a cell?
  mine,        \* should_run(): is the task's link the current one?
  changes, faults

world == <<where, changes>>
rows == <<index, age>>
state == <<bounds, lastFull, lastReprobe, lastCount, undo>>
stats == <<wipe, settle>>
scan == <<heard, reply>>
pass == <<layer, todo, area, reprobe, collected, skipped>>
vars == <<world, rows, state, stats, scan, pass, stage, mine, faults>>

Absent == [d \in Dinos |-> Nowhere]

Init ==
  /\ where \in Start
  /\ index = Absent /\ age = [d \in Dinos |-> 0]
  /\ bounds = <<>> /\ lastFull = Never /\ lastReprobe = Never /\ lastCount = 0
  /\ undo = <<>>
  /\ wipe = FALSE /\ settle = 0
  /\ stage = "loop"
  /\ layer = "active" /\ todo = <<>> /\ area = <<>> /\ reprobe = FALSE
  /\ collected = {} /\ skipped = FALSE
  /\ heard = FALSE /\ reply = Absent
  /\ mine = TRUE
  /\ changes = 0 /\ faults = 0

-----------------------------------------------------------------------------
(* Geometry *)

Cell(at, size) == [at |-> at, size |-> size]
InSquare(c, p) == c.at <= p /\ p < c.at + c.size
InCircle(c, p) == p # Nowhere /\ c.at - Reach <= p /\ p < c.at + c.size + Reach

\* Mutant of Tiles: the last tile is left out when it sticks out of the area.
TilesInside(a) ==
  [i \in 1 .. (a[2] - a[1]) \div Tile |-> Cell(a[1] + (i - 1) * Tile, Tile)]

Tiles(a) ==
  [i \in 1 .. (a[2] - a[1] + Tile - 1) \div Tile |-> Cell(a[1] + (i - 1) * Tile, Tile)]

\* Mutant of Halves: the second one starts a place too far.
HalvesApart(c) ==
  <<Cell(c.at, c.size \div 2), Cell(c.at + c.size \div 2 + 1, c.size \div 2)>>

\* Of an odd number of places one half has one more: they cover the cell, as they do in
\* the source, whose places are not whole numbers.
Halves(c) ==
  <<Cell(c.at, c.size \div 2), Cell(c.at + c.size \div 2, c.size - c.size \div 2)>>

-----------------------------------------------------------------------------
(* The world *)

Change(d, p) ==
  /\ changes < MaxChanges /\ p # where[d]
  /\ where' = [where EXCEPT ![d] = p]
  /\ changes' = changes + 1
  /\ UNCHANGED <<rows, state, stats, scan, pass, stage, mine, faults>>

-----------------------------------------------------------------------------
(* The connection's transaction *)

Now == [index |-> index, age |-> age, bounds |-> bounds, lastFull |-> lastFull,
        lastReprobe |-> lastReprobe, lastCount |-> lastCount]

Committed == IF undo = <<>> THEN Now ELSE undo[1]

\* A write is done, and not committed.
StaysOpen == undo' = <<Committed>>

\* Another writer of the connection commits, with its own what is open.
OthersCommit ==
  /\ undo # <<>> /\ undo' = <<>>
  /\ UNCHANGED <<world, rows, bounds, lastFull, lastReprobe, lastCount, stats, scan, pass,
                 stage, mine, faults>>

-----------------------------------------------------------------------------
(* The loop *)

\* The active layer of an iteration: the cell around a player seen lately, if there
\* is one and players_fn does not raise.
Loop ==
  /\ stage = "loop" /\ mine
  /\ todo' \in {<<>>} \cup {<<Cell(p - ActiveSize \div 2, ActiveSize)>> : p \in PlayerSpots}
  /\ layer' = "active"
  /\ stage' = "scanning"
  /\ UNCHANGED <<world, rows, state, stats, scan, area, reprobe, collected, skipped,
                 mine, faults>>

PassIsDue ==
  mine /\ (bounds = <<>> \/ lastFull >= FullEvery \/ (wipe /\ settle = 0))

Asleep ==
  /\ stage' = "asleep"
  /\ todo' = <<>> /\ area' = <<>> /\ reprobe' = FALSE /\ collected' = {}
  /\ skipped' = FALSE /\ layer' = "active"

StartPass ==
  /\ stage = "decide" /\ PassIsDue
  /\ reprobe' = (bounds = <<>> \/ lastReprobe >= ReprobeEvery)
  /\ area' = IF reprobe' THEN <<1, Extent + 1>> ELSE <<bounds[1] - Tile, bounds[2] + Tile>>
  /\ todo' = Tiles(area')
  /\ layer' = "full"
  /\ stage' = "scanning"
  /\ UNCHANGED <<world, rows, state, stats, scan, collected, skipped, mine, faults>>

NoPass ==
  /\ stage = "decide" /\ ~ PassIsDue
  /\ Asleep
  /\ UNCHANGED <<world, rows, state, stats, scan, mine, faults>>

Sum(a, b, cap) == IF a + b > cap THEN cap ELSE a + b

Aged(at, a, ticks) ==
  [d \in Dinos |-> IF at[d] = Nowhere THEN 0 ELSE Sum(a[d], ticks, Ttl + 1)]

Older(then, ticks) ==
  [then EXCEPT !.age = Aged(then.index, then.age, ticks),
               !.lastFull = Sum(then.lastFull, ticks, Never),
               !.lastReprobe = Sum(then.lastReprobe, ticks, Never)]

\* sleep(active_interval): many of them make a tick.
Wake(ticks) ==
  /\ stage = "asleep"
  /\ stage' = "loop"
  /\ age' = Aged(index, age, ticks)
  /\ lastFull' = Sum(lastFull, ticks, Never)
  /\ lastReprobe' = Sum(lastReprobe, ticks, Never)
  /\ undo' = [i \in DOMAIN undo |-> Older(undo[i], ticks)]
  /\ settle' = IF settle > ticks THEN settle - ticks ELSE 0
  /\ UNCHANGED <<world, index, bounds, lastCount, wipe, scan, pass, mine, faults>>

-----------------------------------------------------------------------------
(* _scan_cell *)

\* The mod answers with the dinos of the cell's circle.
Answer ==
  /\ stage = "scanning" /\ todo # <<>>
  /\ heard' = TRUE /\ reply' = where
  /\ stage' = "answered"
  /\ UNCHANGED <<world, rows, state, stats, pass, mine, faults>>

\* No answer in scan_timeout, or the send fails: None.
TimeOut ==
  /\ stage = "scanning" /\ todo # <<>> /\ faults < MaxFaults
  /\ heard' = FALSE /\ reply' = where
  /\ faults' = faults + 1
  /\ stage' = "answered"
  /\ UNCHANGED <<world, rows, state, stats, pass, mine>>

Found(c) == {d \in Dinos : heard /\ InCircle(c, reply[d])}
TooDense(c) == ~ heard \/ Cardinality(Found(c)) >= Dense

\* Mutant of Splits: no floor.
SplitsForEver(c) == TooDense(c)

Splits(c) == TooDense(c) /\ c.size \div 2 >= Floor

\* After a cell: the next one, if the link is still the current one.
Continue(cells) ==
  /\ stage' = "scanning"
  /\ todo' = IF mine THEN cells ELSE <<>>
  /\ skipped' = (skipped \/ (layer = "full" /\ ~ mine /\ cells # <<>>))
  /\ heard' = FALSE /\ reply' = Absent

Split ==
  /\ stage = "answered" /\ Splits(Head(todo))
  /\ Continue(Halves(Head(todo)) \o Tail(todo))
  /\ UNCHANGED <<world, rows, state, stats, layer, area, reprobe, collected, mine, faults>>

\* At the floor and still no answer: no upsert, not to sweep what may be there.
Skip ==
  /\ stage = "answered" /\ ~ Splits(Head(todo)) /\ ~ heard
  /\ stage' = "scanning"
  /\ todo' = IF mine THEN Tail(todo) ELSE <<>>
  /\ skipped' = (layer = "full")
  /\ heard' = FALSE /\ reply' = Absent
  /\ UNCHANGED <<world, rows, state, stats, layer, area, reprobe, collected, mine, faults>>

Inside(c) == {d \in Found(c) : InSquare(c, reply[d])}

\* upsert_region(bounds of c, the dinos in it): the departures and the old rows of the
\* dinos seen go, and these come back; back is who has.
Swept(c, back) ==
  /\ index' = [d \in Dinos |->
                 IF d \in back THEN reply[d]
                 ELSE IF d \in Inside(c) \/ InSquare(c, index[d]) THEN Nowhere ELSE index[d]]
  /\ age' = [d \in Dinos |-> IF d \in back \/ index'[d] = Nowhere THEN 0 ELSE age[d]]

\* Mutant of Upserts: a cell without an answer counts as empty.
UpsertsAnyway(c) == TRUE

Upserts(c) == heard

\* The cell's upsert is made.
IsUpserted(c) == stage = "answered" /\ ~ Splits(c) /\ Upserts(c)

Upsert ==
  LET c == Head(todo) IN
  /\ IsUpserted(c)
  /\ Swept(c, Inside(c))
  /\ collected' = IF layer = "full" THEN collected \cup {<<d, reply[d]>> : d \in Inside(c)}
                  ELSE collected
  /\ Continue(Tail(todo))
  /\ undo' = <<>>
  /\ UNCHANGED <<world, bounds, lastFull, lastReprobe, lastCount, stats, layer, area,
                 reprobe, mine, faults>>

\* upsert_region raises and rolls back: the layer is given up, the loop goes on.
UpsertFails ==
  /\ stage = "answered" /\ heard /\ ~ Splits(Head(todo)) /\ faults < MaxFaults
  /\ faults' = faults + 1
  /\ index' = Committed.index /\ age' = Committed.age
  /\ bounds' = Committed.bounds /\ lastFull' = Committed.lastFull
  /\ lastReprobe' = Committed.lastReprobe /\ lastCount' = Committed.lastCount
  /\ undo' = <<>>
  /\ heard' = FALSE /\ reply' = Absent
  /\ \/ /\ layer = "active"
        /\ stage' = "decide" /\ todo' = <<>>
        /\ UNCHANGED <<layer, area, reprobe, collected, skipped>>
     \/ layer = "full" /\ Asleep
  /\ UNCHANGED <<world, stats, mine>>

\* should_run() is asked again before every tile of the pass.
GiveUp ==
  /\ stage = "scanning" /\ layer = "full" /\ ~ mine
  /\ todo # <<>> /\ Head(todo).size = Tile
  /\ todo' = <<>> /\ skipped' = TRUE
  /\ UNCHANGED <<world, rows, state, stats, scan, layer, area, reprobe, collected, stage,
                 mine, faults>>

\* The players' cells are done.
ActiveDone ==
  /\ stage = "scanning" /\ todo = <<>> /\ layer = "active"
  /\ stage' = "decide"
  /\ UNCHANGED <<world, rows, state, stats, scan, pass, mine, faults>>

-----------------------------------------------------------------------------
(* The end of a full pass; every write of its state is a commit of its own. *)

Total == Cardinality({pair[1] : pair \in collected})
Seen == {pair[2] : pair \in collected}

\* The dinos' bounding box, a tile wider.
WriteBounds ==
  /\ stage = "scanning" /\ todo = <<>> /\ layer = "full"
  /\ bounds' = IF Seen = {} THEN bounds ELSE <<Min(Seen) - Tile, Max(Seen) + Tile>>
  /\ UNCHANGED <<rows, lastFull, lastReprobe, lastCount>>

LearnBounds ==
  /\ WriteBounds
  /\ undo' = IF Seen = {} THEN undo ELSE <<>>
  /\ stage' = "stamp"
  /\ UNCHANGED <<world, stats, scan, pass, mine, faults>>

WriteFull ==
  /\ stage = "stamp"
  /\ lastFull' = 0
  /\ UNCHANGED <<rows, bounds, lastReprobe, lastCount>>

StampFull ==
  /\ WriteFull
  /\ undo' = <<>>
  /\ stage' = "count"
  /\ UNCHANGED <<world, stats, scan, pass, mine, faults>>

IsWipe(total, prev) == prev >= WipeMin /\ 10 * total < 4 * prev

WriteCount ==
  /\ stage = "count"
  /\ lastCount' = Total
  /\ UNCHANGED <<rows, bounds, lastFull, lastReprobe>>

\* Mutant of StoreCount: a pass over the learned bounds is stamped as a re-probe.
StoreCountStamps ==
  /\ WriteCount
  /\ undo' = <<>>
  /\ wipe' = IsWipe(Total, lastCount)
  /\ settle' = IF wipe' THEN SettleFor ELSE settle
  /\ stage' = "reprobed"
  /\ UNCHANGED <<world, scan, pass, mine, faults>>

\* The count, and in memory whether it is a crater.
StoreCount ==
  /\ WriteCount
  /\ undo' = <<>>
  /\ wipe' = IsWipe(Total, lastCount)
  /\ settle' = IF wipe' THEN SettleFor ELSE settle
  /\ stage' = IF reprobe THEN "reprobed" ELSE "reap"
  /\ UNCHANGED <<world, scan, pass, mine, faults>>

WriteReprobe ==
  /\ stage = "reprobed"
  /\ lastReprobe' = 0
  /\ UNCHANGED <<rows, bounds, lastFull, lastCount>>

StampReprobe ==
  /\ WriteReprobe
  /\ undo' = <<>>
  /\ stage' = "reap"
  /\ UNCHANGED <<world, stats, scan, pass, mine, faults>>

Stale == {d \in Dinos : index[d] # Nowhere /\ age[d] > Ttl}

DeleteStale ==
  /\ stage = "reap"
  /\ index' = [d \in Dinos |-> IF d \in Stale THEN Nowhere ELSE index[d]]
  /\ age' = [d \in Dinos |-> IF d \in Stale THEN 0 ELSE age[d]]
  /\ UNCHANGED <<bounds, lastFull, lastReprobe, lastCount>>

Reap ==
  /\ DeleteStale
  /\ undo' = IF Stale = {} THEN undo ELSE <<>>
  /\ Asleep
  /\ UNCHANGED <<world, stats, scan, mine, faults>>

-----------------------------------------------------------------------------
(* The link *)

\* The link is gone, for whatever time; the next one's task has fresh stats.
Fresh ==
  /\ stage' = "asleep" /\ mine' = TRUE
  /\ todo' = <<>> /\ area' = <<>> /\ reprobe' = FALSE /\ collected' = {}
  /\ skipped' = FALSE /\ layer' = "active"
  /\ heard' = FALSE /\ reply' = Absent
  /\ wipe' = FALSE /\ settle' = 0

\* _cancel_link_tasks at an await that writes nothing, or an error that run_census does
\* not catch (get_state raises) ends the task; then a link comes up again.
Cancel ==
  /\ faults < MaxFaults
  /\ faults' = faults + 1
  /\ Fresh
  /\ UNCHANGED <<world, rows, state>>

\* _cancel_link_tasks in the middle of the write under way; then a link comes up again.
CutOff ==
  /\ faults < MaxFaults
  /\ faults' = faults + 1
  /\ \/ /\ IsUpserted(Head(todo))
        /\ \E back \in SUBSET Inside(Head(todo)) : Swept(Head(todo), back)
        /\ UNCHANGED <<bounds, lastFull, lastReprobe, lastCount>>
     \/ WriteBounds \/ WriteFull \/ WriteCount \/ WriteReprobe \/ DeleteStale
  /\ StaysOpen
  /\ Fresh
  /\ UNCHANGED world

\* Another link is the current one and nobody cancelled this task.
Supersede ==
  /\ mine /\ faults < MaxFaults
  /\ mine' = FALSE
  /\ faults' = faults + 1
  /\ UNCHANGED <<world, rows, state, stats, scan, pass, stage>>

\* It leaves at the top of its loop.
Exit ==
  /\ stage = "loop" /\ ~ mine
  /\ Fresh
  /\ UNCHANGED <<world, rows, state, faults>>

Step ==
  \/ Loop \/ StartPass \/ NoPass
  \/ Answer \/ Split \/ Skip \/ Upsert \/ GiveUp \/ ActiveDone
  \/ LearnBounds \/ StampFull \/ StoreCount \/ StampReprobe \/ Reap
  \/ Exit

Next ==
  \/ Step
  \/ \E ticks \in {0, 1} : Wake(ticks)
  \/ TimeOut \/ UpsertFails \/ Cancel \/ CutOff \/ OthersCommit \/ Supersede
  \/ \E d \in Dinos, p \in Places \cup {Nowhere} : Change(d, p)

Spec == Init /\ [][Next]_vars

\* The event loop runs the task, the mod and the database answer, time passes.
FairSpec == Spec /\ WF_vars(Step) /\ WF_vars(\E ticks \in {0, 1} : Wake(ticks)) /\ SF_vars(Wake(1))

-----------------------------------------------------------------------------
(* Properties *)

Snapshots == [index : [Dinos -> Places \cup {Nowhere}], age : [Dinos -> 0 .. Ttl + 1],
              bounds : {<<>>} \cup (Int \X Int), lastFull : 0 .. Never,
              lastReprobe : 0 .. Never, lastCount : Nat]

TypeOK ==
  /\ where \in [Dinos -> Places \cup {Nowhere}] /\ changes \in 0 .. MaxChanges
  /\ index \in [Dinos -> Places \cup {Nowhere}]
  /\ age \in [Dinos -> 0 .. Ttl + 1]
  /\ bounds \in {<<>>} \cup (Int \X Int)
  /\ lastFull \in 0 .. Never /\ lastReprobe \in 0 .. Never /\ lastCount \in Nat
  /\ undo \in Seq(Snapshots) /\ Len(undo) <= 1
  /\ wipe \in BOOLEAN /\ settle \in 0 .. SettleFor
  /\ stage \in {"loop", "scanning", "answered", "decide", "stamp", "count", "reprobed",
                "reap", "asleep"}
  /\ layer \in {"active", "full"} /\ reprobe \in BOOLEAN
  /\ todo \in Seq([at : Int, size : Nat \ {0}])
  /\ area \in {<<>>} \cup (Int \X Int)
  /\ collected \subseteq Dinos \X Places /\ skipped \in BOOLEAN
  /\ heard \in BOOLEAN /\ reply \in [Dinos -> Places \cup {Nowhere}]
  /\ mine \in BOOLEAN /\ faults \in 0 .. MaxFaults

\* V21-2: an upsert that ends removes a dino's row only if, when the cell was asked
\* for, the dino was not at the row's place, whether or not the mod answered.  Only one
\* that is cut off takes the row of a dino that the scan has seen at its place, and one
\* that fails what such a one had written.
SweepsAreHonest ==
  [][\A d \in Dinos :
       (stage = "answered" /\ index[d] # Nowhere /\ index'[d] = Nowhere)
         => \/ reply[d] # index[d]
            \/ heard /\ faults' > faults /\ (undo' = <<Committed>> \/ index' = Committed.index)]_vars

\* "Nothing capped/missed": when a full pass has scanned its last cell and left
\* none out, every row of its area was refreshed by it and every dino that is now
\* where the pass saw it has a row there, however its cells were split.
PassIsComplete ==
  (stage = "scanning" /\ todo = <<>> /\ layer = "full" /\ ~ skipped) =>
     /\ \A d \in Dinos :
          (index[d] # Nowhere /\ area[1] <= index[d] /\ index[d] < area[2])
             => <<d, index[d]>> \in collected
     /\ changes = 0 =>
          \A d \in Dinos : area[1] <= where[d] /\ where[d] < area[2] => index[d] = where[d]

\* When world and links settle, the index becomes and stays what the world is:
\* dead dinos' rows go, moved ones' follow, nobody is forgotten.
Converges == <>[](index = where)

\* staleness_ttl "> full_pass_interval so live rows survive": reaping removes no
\* row of a dino that is alive at the row's place.
LiveRowsSurvive ==
  [][\A d \in Dinos :
       (stage = "reap" /\ index[d] # Nowhere /\ index'[d] = Nowhere) => where[d] # index[d]]_vars
=============================================================================
