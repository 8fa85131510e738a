----------------------------- MODULE Census_proofs -----------------------------
(***************************************************************************)
(* Why sweeps are honest and full passes complete: for any herd, map,      *)
(* sizes and intervals, whatever times out, fails, is cancelled, cut off   *)
(* in a write or superseded.                                               *)
(***************************************************************************)
EXTENDS Census, FiniteSetTheorems, SequenceTheorems, WellFoundedInduction, TLAPS

USE SizesAssumption, IntervalsAssumption

\* While the answer to a cell is worked on, the cell is there.
CellIsThere == stage = "answered" => todo # <<>>

\* As long as the world has stood still: what is indexed, would be after a rollback, or
\* was answered is so.
StillWorldIsKnown ==
  changes = 0 =>
    /\ \A d \in Dinos : index[d] \in {Nowhere, where[d]}
    /\ \A d \in Dinos : Committed.index[d] \in {Nowhere, where[d]}
    /\ stage = "answered" /\ heard => reply = where

\* A place that no remaining cell of the pass covers is done: its rows were collected
\* by the pass, and who lives there in a world that stands still has one.
Covered(p) == \E i \in DOMAIN todo : InSquare(todo[i], p)
Done(p) ==
  \A d \in Dinos :
    /\ index[d] = p /\ p # Nowhere => <<d, p>> \in collected
    /\ changes = 0 /\ where[d] = p => index[d] = p
PassCovers ==
  stage \in {"scanning", "answered"} /\ layer = "full" /\ ~ skipped =>
    \A p \in Int : area[1] <= p /\ p < area[2] => Covered(p) \/ Done(p)

CensusIInv == TypeOK /\ CellIsThere /\ StillWorldIsKnown /\ PassCovers

-----------------------------------------------------------------------------
(* Geometry *)

Cells == [at : Int, size : Nat \ {0}]

LEMMA TilesAreCells == ASSUME NEW a \in Int \X Int PROVE Tiles(a) \in Seq(Cells)
<1> DEFINE n == (a[2] - a[1] + Tile - 1) \div Tile
           at(i) == a[1] + (i - 1) * Tile
<1>1. n \in Int /\ \A i \in Int : at(i) \in Int
  OBVIOUS
<1>2. Tiles(a) = [i \in 1 .. n |-> Cell(at(i), Tile)]
  BY DEF Tiles
<1> HIDE DEF n, at
<1>3. \A i \in 1 .. n : Cell(at(i), Tile) \in Cells
  BY <1>1 DEF Cell, Cells
<1>4. PICK m \in Nat : 1 .. n = 1 .. m
  <2>1. CASE n < 0
    <3>1. 1 .. n = 1 .. 0
      BY <1>1, <2>1
    <3> QED BY <3>1
  <2>2. CASE ~ n < 0
    BY <1>1, <2>2
  <2> QED BY <2>1, <2>2
<1>5. Tiles(a) = [i \in 1 .. m |-> Cell(at(i), Tile)] /\ \A i \in 1 .. m : Cell(at(i), Tile) \in Cells
  BY <1>2, <1>3, <1>4
<1> QED BY <1>5

\* The tiles of an area cover it.
LEMMA TilesCover ==
  ASSUME NEW a \in Int \X Int, NEW p \in Int, a[1] <= p, p < a[2]
  PROVE  \E i \in DOMAIN Tiles(a) : InSquare(Tiles(a)[i], p)
<1> DEFINE q == (p - a[1]) \div Tile
           n == (a[2] - a[1] + Tile - 1) \div Tile
<1>1. q \in Int /\ q * Tile <= p - a[1] /\ p - a[1] < q * Tile + Tile
  OBVIOUS
<1>2. q + 1 <= n /\ n \in Int
  <2>1. p - a[1] < a[2] - a[1] /\ p - a[1] \in Int /\ a[2] - a[1] \in Int
    OBVIOUS
  <2>2. \A x \in Int, l \in Int : x < l => x \div Tile + 1 <= (l + Tile - 1) \div Tile
    OBVIOUS
  <2> QED BY <2>1, <2>2
<1>3. q >= 0
  <2>1. p - a[1] \in Nat
    OBVIOUS
  <2> QED BY <2>1
<1>4. Tiles(a) = [i \in 1 .. n |-> Cell(a[1] + (i - 1) * Tile, Tile)]
  BY DEF Tiles
<1> HIDE DEF q, n
<1>5. q + 1 \in 1 .. n /\ (q + 1) - 1 = q
  BY <1>1, <1>2, <1>3
<1>6. Tiles(a)[q + 1] = Cell(a[1] + q * Tile, Tile)
  BY <1>4, <1>5
<1>7. InSquare(Cell(a[1] + q * Tile, Tile), p)
  <2>1. q * Tile \in Int
    BY <1>1
  <2> HIDE DEF q
  <2> QED BY <1>1, <2>1 DEF InSquare, Cell
<1> QED BY <1>4, <1>5, <1>6, <1>7

\* So do the halves of a cell that may be split.
LEMMA HalvesCover ==
  ASSUME NEW c \in Cells, c.size \div 2 >= Floor
  PROVE  /\ Halves(c) \in Seq(Cells) /\ Len(Halves(c)) = 2
         /\ \A p \in Int : InSquare(c, p) => \E i \in 1 .. 2 : InSquare(Halves(c)[i], p)
<1> DEFINE h == c.size \div 2
<1>1. c.at \in Int /\ c.size \in Nat \ {0} /\ h \in Nat /\ 1 <= h /\ h < c.size
  BY DEF Cells
<1>2. Halves(c) = <<Cell(c.at, h), Cell(c.at + h, c.size - h)>>
  BY DEF Halves
<1> HIDE DEF h
<1>3. Cell(c.at, h) \in Cells /\ Cell(c.at + h, c.size - h) \in Cells
  BY <1>1 DEF Cell, Cells
<1>4. ASSUME NEW p \in Int, InSquare(c, p)
      PROVE  InSquare(Cell(c.at, h), p) \/ InSquare(Cell(c.at + h, c.size - h), p)
  BY <1>1, <1>4 DEF InSquare, Cell
<1>5. Halves(c) \in Seq(Cells) /\ Len(Halves(c)) = 2
  BY <1>2, <1>3
<1>6. Halves(c)[1] = Cell(c.at, h) /\ Halves(c)[2] = Cell(c.at + h, c.size - h)
  BY <1>2
<1>7. 1 \in 1 .. 2 /\ 2 \in 1 .. 2
  OBVIOUS
<1> QED BY <1>4, <1>5, <1>6, <1>7

-----------------------------------------------------------------------------
(* Types *)

DiskTyped ==
  /\ index \in [Dinos -> Places \cup {Nowhere}] /\ age \in [Dinos -> 0 .. Ttl + 1]
  /\ bounds \in {<<>>} \cup (Int \X Int)
  /\ lastFull \in 0 .. Never /\ lastReprobe \in 0 .. Never /\ lastCount \in Nat

UndoTyped == undo \in Seq(Snapshots) /\ Len(undo) <= 1

\* Nothing open, or one snapshot.
LEMMA UndoIsShort ==
  /\ <<>> \in Seq(Snapshots) /\ Len(<<>>) <= 1
  /\ \A s \in Snapshots : <<s>> \in Seq(Snapshots) /\ Len(<<s>>) <= 1 /\ <<s>> # <<>> /\ <<s>>[1] = s
OBVIOUS

LEMMA CommittedIsTyped ==
  ASSUME DiskTyped, UndoTyped
  PROVE  Committed \in Snapshots
<1>1. Now \in Snapshots
  BY DEF Now, Snapshots, DiskTyped
<1>2. undo # <<>> => undo[1] \in Snapshots
  BY DEF UndoTyped
<1> QED BY <1>1, <1>2 DEF Committed

LEMMA CensusStarts == Init => CensusIInv
<1> SUFFICES ASSUME Init PROVE CensusIInv
  OBVIOUS
<1> USE DEF Init, Absent, Places, Nowhere, Never
<1>1. TypeOK
  <2>1. where \in [Dinos -> Places \cup {Nowhere}] /\ changes \in 0 .. MaxChanges
    <3>1. where \in [Dinos -> 0 .. Extent]
      OBVIOUS
    <3>2. 0 .. Extent = Places \cup {Nowhere}
      OBVIOUS
    <3> QED BY <3>1, <3>2
  <2>2. index \in [Dinos -> Places \cup {Nowhere}] /\ reply \in [Dinos -> Places \cup {Nowhere}]
    OBVIOUS
  <2>3. age \in [Dinos -> 0 .. Ttl + 1]
    OBVIOUS
  <2>4. todo \in Seq([at : Int, size : Nat \ {0}])
    OBVIOUS
  <2>5. /\ bounds \in {<<>>} \cup (Int \X Int) /\ area \in {<<>>} \cup (Int \X Int)
        /\ collected \subseteq Dinos \X Places
        /\ lastFull \in 0 .. Never /\ lastReprobe \in 0 .. Never /\ lastCount \in Nat
    OBVIOUS
  <2>6. wipe \in BOOLEAN /\ reprobe \in BOOLEAN /\ skipped \in BOOLEAN /\ heard \in BOOLEAN
        /\ mine \in BOOLEAN
    BY Zenon
  <2>7. settle \in 0 .. SettleFor /\ faults \in 0 .. MaxFaults
    OBVIOUS
  <2>8. undo \in Seq(Snapshots) /\ Len(undo) <= 1
    BY UndoIsShort
  <2> QED BY <2>1, <2>2, <2>3, <2>4, <2>5, <2>6, <2>7, <2>8 DEF TypeOK
<1>2. CellIsThere /\ StillWorldIsKnown /\ PassCovers
  BY DEF CellIsThere, StillWorldIsKnown, PassCovers, Committed, Now
<1> QED BY <1>1, <1>2 DEF CensusIInv

\* The steps that give up what was scanned.
LEMMA FreshIsTyped ==
  ASSUME TypeOK, Fresh, UNCHANGED world, DiskTyped', UndoTyped', faults' \in 0 .. MaxFaults
  PROVE  TypeOK'
<1> USE DEF Fresh, Absent, Nowhere, world
<1>1. todo' \in Seq([at : Int, size : Nat \ {0}]) /\ settle' \in 0 .. SettleFor
  OBVIOUS
<1>2. reply' \in [Dinos -> Places \cup {Nowhere}]
  OBVIOUS
<1> QED BY <1>1, <1>2 DEF TypeOK, DiskTyped, UndoTyped

LEMMA AsleepIsTyped ==
  ASSUME TypeOK, Asleep, UNCHANGED <<world, stats, scan, mine>>, DiskTyped', UndoTyped',
         faults' \in 0 .. MaxFaults
  PROVE  TypeOK'
<1>1. todo' \in Seq([at : Int, size : Nat \ {0}])
  BY DEF Asleep
<1> QED BY <1>1 DEF Asleep, TypeOK, DiskTyped, UndoTyped, world, stats, scan

LEMMA TodoSplits ==
  ASSUME TypeOK, todo # <<>>
  PROVE  Head(todo) \in Cells /\ Tail(todo) \in Seq(Cells)
<1>1. todo \in Seq(Cells)
  BY DEF TypeOK, Cells
<1> QED BY <1>1, HeadTailProperties

LEMMA LoopIsTyped == ASSUME TypeOK, Loop PROVE TypeOK'
<1>1. todo' \in Seq([at : Int, size : Nat \ {0}])
  <2>1. CASE todo' = <<>>
    BY <2>1
  <2>2. CASE \E p \in PlayerSpots : todo' = <<Cell(p - ActiveSize \div 2, ActiveSize)>>
    <3>1. PICK p \in PlayerSpots : todo' = <<Cell(p - ActiveSize \div 2, ActiveSize)>>
      BY <2>2
    <3>2. p - ActiveSize \div 2 \in Int
      OBVIOUS
    <3> QED BY <3>1, <3>2 DEF Cell
  <2> QED BY <2>1, <2>2 DEF Loop
<1> QED BY <1>1 DEF Loop, TypeOK, world, rows, state, stats, scan

LEMMA StartPassIsTyped == ASSUME TypeOK, StartPass PROVE TypeOK' /\ area' \in Int \X Int
<1>1. area' \in Int \X Int
  <2>1. CASE reprobe'
    BY <2>1 DEF StartPass
  <2>2. CASE ~ reprobe'
    <3>1. bounds \in Int \X Int
      BY <2>2 DEF StartPass, TypeOK
    <3> QED BY <2>2, <3>1 DEF StartPass
  <2> QED BY <2>1, <2>2
<1>2. todo' \in Seq([at : Int, size : Nat \ {0}])
  BY <1>1, TilesAreCells DEF StartPass, Cells
<1>3. reprobe' \in BOOLEAN
  BY DEF StartPass
<1> QED BY <1>1, <1>2, <1>3 DEF StartPass, TypeOK, world, rows, state, stats, scan

LEMMA WakeIsTyped == ASSUME TypeOK, NEW ticks \in {0, 1}, Wake(ticks) PROVE TypeOK'
<1>1. \A a \in Nat, cap \in Nat : a \in 0 .. cap => Sum(a, ticks, cap) \in 0 .. cap
  BY DEF Sum
<1>2. Never \in Nat /\ Ttl + 1 \in Nat
  BY DEF Never
<1>3. \A at : \A a \in [Dinos -> 0 .. Ttl + 1] : Aged(at, a, ticks) \in [Dinos -> 0 .. Ttl + 1]
  BY <1>1, <1>2 DEF Aged
<1>4. age' \in [Dinos -> 0 .. Ttl + 1]
  BY <1>3 DEF Wake, TypeOK
<1>5. lastFull' \in 0 .. Never /\ lastReprobe' \in 0 .. Never
  BY <1>1, <1>2 DEF Wake, TypeOK
<1>6. settle' \in 0 .. SettleFor
  BY DEF Wake, TypeOK
<1>7. UndoTyped'
  <2>1. undo \in Seq(Snapshots) /\ Len(undo) <= 1
    BY DEF TypeOK
  <2>2. \A s \in Snapshots : Older(s, ticks) \in Snapshots
    <3> SUFFICES ASSUME NEW s \in Snapshots PROVE Older(s, ticks) \in Snapshots
      OBVIOUS
    <3> DEFINE a == Aged(s.index, s.age, ticks)
               f == Sum(s.lastFull, ticks, Never)
               r == Sum(s.lastReprobe, ticks, Never)
    <3>1. s.age \in [Dinos -> 0 .. Ttl + 1] /\ s.lastFull \in 0 .. Never /\ s.lastReprobe \in 0 .. Never
      BY DEF Snapshots
    <3>2. a \in [Dinos -> 0 .. Ttl + 1] /\ f \in 0 .. Never /\ r \in 0 .. Never
      BY <1>1, <1>2, <1>3, <3>1
    <3>3. Older(s, ticks) = [s EXCEPT !.age = a, !.lastFull = f, !.lastReprobe = r]
      BY DEF Older
    <3> HIDE DEF a, f, r
    <3> QED BY <3>2, <3>3 DEF Snapshots
  <2>3. \A i \in 1 .. Len(undo) : undo'[i] \in Snapshots
    BY <2>1, <2>2 DEF Wake
  <2>4. DOMAIN undo' = 1 .. Len(undo) /\ undo' = [i \in 1 .. Len(undo) |-> undo'[i]]
    BY <2>1 DEF Wake
  <2>5. Len(undo) \in Nat /\ Len(undo') = Len(undo)
    BY <2>1, <2>4
  <2> QED BY <2>1, <2>3, <2>4, <2>5 DEF UndoTyped
<1> QED BY <1>4, <1>5, <1>6, <1>7 DEF Wake, TypeOK, UndoTyped, world, scan, pass

LEMMA AnswerIsTyped == ASSUME TypeOK, Answer \/ TimeOut PROVE TypeOK'
<1>1. heard' \in BOOLEAN
  BY DEF Answer, TimeOut
<1>2. reply' \in [Dinos -> Places \cup {Nowhere}]
  BY DEF Answer, TimeOut, TypeOK
<1>3. faults' \in 0 .. MaxFaults
  BY DEF Answer, TimeOut, TypeOK
<1> QED BY <1>1, <1>2, <1>3 DEF Answer, TimeOut, TypeOK, world, rows, state, stats, pass

\* Continue(cells) with typed cells.
LEMMA ContinueIsTyped ==
  ASSUME TypeOK, NEW cells \in Seq(Cells), Continue(cells)
  PROVE  /\ todo' \in Seq([at : Int, size : Nat \ {0}])
         /\ skipped' \in BOOLEAN /\ heard' \in BOOLEAN
         /\ reply' \in [Dinos -> Places \cup {Nowhere}]
<1>1. todo' \in Seq([at : Int, size : Nat \ {0}])
  BY DEF Continue, Cells
<1>2. skipped' \in BOOLEAN /\ heard' \in BOOLEAN
  BY DEF Continue
<1>3. reply' \in [Dinos -> Places \cup {Nowhere}]
  BY DEF Continue, Absent
<1> QED BY <1>1, <1>2, <1>3

LEMMA SplitIsTyped == ASSUME TypeOK, CellIsThere, Split PROVE TypeOK'
<1>1. Head(todo) \in Cells /\ Tail(todo) \in Seq(Cells) /\ Head(todo).size \div 2 >= Floor
  BY TodoSplits DEF Split, CellIsThere, Splits
<1>2. Halves(Head(todo)) \in Seq(Cells)
  BY <1>1, HalvesCover
<1>3. Halves(Head(todo)) \o Tail(todo) \in Seq(Cells)
  BY <1>1, <1>2, ConcatProperties
<1>4. /\ todo' \in Seq([at : Int, size : Nat \ {0}])
      /\ skipped' \in BOOLEAN /\ heard' \in BOOLEAN
      /\ reply' \in [Dinos -> Places \cup {Nowhere}]
  BY <1>3, ContinueIsTyped DEF Split
<1> QED BY <1>4 DEF Split, Continue, TypeOK, world, rows, state, stats

LEMMA SkipIsTyped == ASSUME TypeOK, CellIsThere, Skip PROVE TypeOK'
<1>1. Tail(todo) \in Seq([at : Int, size : Nat \ {0}])
  BY TodoSplits DEF Skip, CellIsThere, Cells
<1>2. todo' \in Seq([at : Int, size : Nat \ {0}])
  BY <1>1 DEF Skip
<1>3. skipped' \in BOOLEAN /\ reply' \in [Dinos -> Places \cup {Nowhere}]
  BY DEF Skip, Absent
<1> QED BY <1>2, <1>3 DEF Skip, TypeOK, world, rows, state, stats

\* What a cell's upsert has made of the rows when those in back are in again.
LEMMA SweptIsTyped ==
  ASSUME TypeOK, NEW c \in Cells, NEW back \in SUBSET Inside(c), Swept(c, back)
  PROVE  index' \in [Dinos -> Places \cup {Nowhere}] /\ age' \in [Dinos -> 0 .. Ttl + 1]
<1>1. \A d \in back : d \in Dinos /\ reply[d] \in Places
  BY DEF Inside, Found, InCircle, TypeOK
<1>2. index' \in [Dinos -> Places \cup {Nowhere}]
  BY <1>1 DEF Swept, TypeOK
<1>3. age' \in [Dinos -> 0 .. Ttl + 1]
  BY DEF Swept, TypeOK
<1> QED BY <1>2, <1>3

LEMMA UpsertIsTyped == ASSUME TypeOK, CellIsThere, Upsert PROVE TypeOK'
<1> DEFINE c == Head(todo)
<1>1. /\ c \in Cells /\ Swept(c, Inside(c)) /\ Continue(Tail(todo)) /\ Tail(todo) \in Seq(Cells)
      /\ undo' = <<>>
      /\ UNCHANGED <<world, bounds, lastFull, lastReprobe, lastCount, stats, layer, area,
                    reprobe, mine, faults>>
  BY TodoSplits DEF Upsert, IsUpserted, CellIsThere
<1>2. \A d \in Inside(c) : d \in Dinos /\ reply[d] \in Places
  BY DEF Inside, Found, InCircle, TypeOK
<1>3. collected' = collected \/ collected' = collected \cup {<<d, reply[d]>> : d \in Inside(c)}
  BY DEF Upsert
<1> HIDE DEF c
<1>4. index' \in [Dinos -> Places \cup {Nowhere}] /\ age' \in [Dinos -> 0 .. Ttl + 1]
  BY <1>1, SweptIsTyped
<1>5. collected' \subseteq Dinos \X Places
  BY <1>2, <1>3 DEF TypeOK
<1>6. /\ todo' \in Seq([at : Int, size : Nat \ {0}])
      /\ skipped' \in BOOLEAN /\ heard' \in BOOLEAN
      /\ reply' \in [Dinos -> Places \cup {Nowhere}]
  BY <1>1, ContinueIsTyped
<1>7. UndoTyped'
  BY <1>1, UndoIsShort DEF UndoTyped
<1> QED BY <1>1, <1>4, <1>5, <1>6, <1>7 DEF Continue, TypeOK, UndoTyped, world, stats

\* Min and Max take an element of a set of places.
LEMMA LeastPlace == ASSUME NEW S \in SUBSET Nat, S # {} PROVE Min(S) \in S
<1>1. \E x \in S : \A y \in S : ~ (<<y, x>> \in OpToRel(<, Nat))
  BY NatLessThanWellFounded, WFMin
<1>2. ASSUME NEW x \in Nat, NEW y \in Nat, y < x PROVE <<y, x>> \in OpToRel(<, Nat)
  <2>1. <<y, x>> \in {ss \in Nat \X Nat : ss[1] < ss[2]}
    BY <1>2
  <2> QED BY <2>1 DEF OpToRel
<1>3. \E x \in S : \A y \in S : ~ (y < x)
  BY <1>1, <1>2, Zenon
<1>4. \E x \in S : \A y \in S : x <= y
  BY <1>3
<1> QED BY <1>4 DEF Min

LEMMA LastPlace == ASSUME NEW S \in SUBSET Places, S # {} PROVE Max(S) \in S
<1> DEFINE T == {Extent - x : x \in S}
<1>1. T \in SUBSET Nat /\ T # {}
  BY DEF Places
<1>2. \E m \in T : \A y \in T : m <= y
  <2>1. \E x \in T : \A y \in T : ~ (<<y, x>> \in OpToRel(<, Nat))
    BY <1>1, NatLessThanWellFounded, WFMin
  <2>2. ASSUME NEW x \in Nat, NEW y \in Nat, y < x PROVE <<y, x>> \in OpToRel(<, Nat)
    <3>1. <<y, x>> \in {ss \in Nat \X Nat : ss[1] < ss[2]}
      BY <2>2
    <3> QED BY <3>1 DEF OpToRel
  <2> HIDE DEF T
  <2>3. \E x \in T : \A y \in T : ~ (y < x)
    BY <1>1, <2>1, <2>2, Zenon
  <2> QED BY <1>1, <2>3
<1>3. PICK m \in T : \A y \in T : m <= y
  BY <1>2
<1>4. PICK x \in S : m = Extent - x
  BY <1>3
<1>5. \A y \in S : x >= y
  BY <1>3, <1>4 DEF Places
<1>6. \E z \in S : \A y \in S : z >= y
  BY <1>5
<1> QED BY <1>6 DEF Max

\* What the writes at the end of a pass store.
LEMMA WritesAreTyped ==
  ASSUME TypeOK, WriteBounds \/ WriteFull \/ WriteCount \/ WriteReprobe \/ DeleteStale
  PROVE  DiskTyped'
<1>1. CASE WriteBounds
  <2>1. bounds' \in {<<>>} \cup (Int \X Int)
    <3>1. CASE Seen = {}
      BY <1>1, <3>1 DEF WriteBounds, TypeOK
    <3>2. CASE Seen # {}
      <4>1. \A pair \in collected : pair[2] \in Places
        BY DEF TypeOK
      <4>2. Seen \in SUBSET Places /\ Seen \in SUBSET Nat
        BY <4>1 DEF Seen, Places
      <4>3. Min(Seen) \in Seen /\ Max(Seen) \in Seen
        BY <3>2, <4>2, LeastPlace, LastPlace
      <4>4. Min(Seen) \in Int /\ Max(Seen) \in Int
        <5>1. \A x \in Seen : x \in Int
          BY <4>2
        <5> QED BY <4>3, <5>1, Zenon
      <4>5. bounds' = <<Min(Seen) - Tile, Max(Seen) + Tile>>
        BY <1>1, <3>2 DEF WriteBounds
      <4> QED BY <4>4, <4>5
    <3> QED BY <3>1, <3>2
  <2> QED BY <1>1, <2>1 DEF WriteBounds, DiskTyped, TypeOK, rows
<1>2. CASE WriteCount
  <2>1. {pair[1] : pair \in collected} \subseteq Dinos
    <3>1. \A pair \in collected : pair[1] \in Dinos
      BY DEF TypeOK
    <3> QED BY <3>1
  <2>2. Total \in Nat
    BY <2>1, FS_Subset, FS_CardinalityType DEF Total
  <2> QED BY <1>2, <2>2 DEF WriteCount, DiskTyped, TypeOK, rows
<1>3. CASE WriteFull \/ WriteReprobe
  <2>1. 0 \in 0 .. Never
    BY DEF Never
  <2> QED BY <1>3, <2>1 DEF WriteFull, WriteReprobe, DiskTyped, TypeOK, rows
<1>4. CASE DeleteStale
  <2>1. index' \in [Dinos -> Places \cup {Nowhere}] /\ age' \in [Dinos -> 0 .. Ttl + 1]
    BY <1>4 DEF DeleteStale, TypeOK
  <2> QED BY <1>4, <2>1 DEF DeleteStale, DiskTyped, TypeOK
<1> QED BY <1>1, <1>2, <1>3, <1>4

LEMMA EndOfPassIsTyped ==
  ASSUME TypeOK, LearnBounds \/ StampFull \/ StoreCount \/ StampReprobe
  PROVE  TypeOK'
<1>1. DiskTyped'
  BY WritesAreTyped DEF LearnBounds, StampFull, StoreCount, StampReprobe
<1>2. UndoTyped'
  BY UndoIsShort DEF LearnBounds, StampFull, StoreCount, StampReprobe, TypeOK, UndoTyped
<1>3. wipe' \in BOOLEAN
  BY DEF LearnBounds, StampFull, StoreCount, StampReprobe, stats, IsWipe, TypeOK
<1>4. settle' \in 0 .. SettleFor
  BY DEF LearnBounds, StampFull, StoreCount, StampReprobe, stats, TypeOK
<1>5. stage' \in {"stamp", "count", "reprobed", "reap"}
  BY DEF LearnBounds, StampFull, StoreCount, StampReprobe
<1>6. UNCHANGED <<world, scan, pass, mine, faults>>
  BY DEF LearnBounds, StampFull, StoreCount, StampReprobe
<1> QED BY <1>1, <1>2, <1>3, <1>4, <1>5, <1>6 DEF DiskTyped, UndoTyped, TypeOK, world, scan, pass

LEMMA ReapIsTyped == ASSUME TypeOK, Reap PROVE TypeOK'
<1>1. DiskTyped'
  BY WritesAreTyped DEF Reap
<1>2. UndoTyped'
  BY UndoIsShort DEF Reap, TypeOK, UndoTyped
<1>3. faults' \in 0 .. MaxFaults /\ Asleep /\ UNCHANGED <<world, stats, scan, mine>>
  BY DEF Reap, TypeOK
<1> QED BY <1>1, <1>2, <1>3, AsleepIsTyped

LEMMA UpsertFailsIsTyped == ASSUME TypeOK, UpsertFails PROVE TypeOK'
<1>1. reply' \in [Dinos -> Places \cup {Nowhere}] /\ heard' = FALSE
  BY DEF UpsertFails, Absent
<1>2. faults' \in 0 .. MaxFaults
  BY DEF UpsertFails, TypeOK
<1>3. todo' = <<>> /\ stage' \in {"decide", "asleep"}
  BY DEF UpsertFails, Asleep
<1>4. todo' \in Seq([at : Int, size : Nat \ {0}])
  BY <1>3
<1>5. DiskTyped'
  <2>1. Committed \in Snapshots
    BY CommittedIsTyped DEF TypeOK, DiskTyped, UndoTyped
  <2> QED BY <2>1 DEF UpsertFails, Snapshots, DiskTyped
<1>6. UndoTyped'
  BY UndoIsShort DEF UpsertFails, UndoTyped
<1> QED BY <1>1, <1>2, <1>3, <1>4, <1>5, <1>6
        DEF UpsertFails, Asleep, TypeOK, DiskTyped, UndoTyped, world, stats

LEMMA CutOffIsTyped == ASSUME TypeOK, CellIsThere, CutOff PROVE TypeOK'
<1>1. DiskTyped'
  <2>1. CASE /\ IsUpserted(Head(todo))
             /\ \E back \in SUBSET Inside(Head(todo)) : Swept(Head(todo), back)
             /\ UNCHANGED <<bounds, lastFull, lastReprobe, lastCount>>
    <3>1. Head(todo) \in Cells
      BY <2>1, TodoSplits DEF IsUpserted, CellIsThere
    <3> QED BY <2>1, <3>1, SweptIsTyped DEF DiskTyped, TypeOK
  <2> QED BY <2>1, WritesAreTyped DEF CutOff
<1>2. UndoTyped'
  <2>1. Committed \in Snapshots
    BY CommittedIsTyped DEF TypeOK, DiskTyped, UndoTyped
  <2> QED BY <2>1, UndoIsShort DEF CutOff, StaysOpen, UndoTyped
<1>3. Fresh /\ UNCHANGED world /\ faults' \in 0 .. MaxFaults
  BY DEF CutOff, TypeOK
<1> QED BY <1>1, <1>2, <1>3, FreshIsTyped

LEMMA OthersCommitIsTyped == ASSUME TypeOK, OthersCommit PROVE TypeOK'
<1>1. undo' \in Seq(Snapshots) /\ Len(undo') <= 1
  BY UndoIsShort DEF OthersCommit
<1> QED BY <1>1 DEF OthersCommit, TypeOK, world, rows, stats, scan, pass

LEMMA ChangeIsTyped ==
  ASSUME TypeOK, NEW d \in Dinos, NEW p \in Places \cup {Nowhere}, Change(d, p)
  PROVE  TypeOK'
<1>1. where' \in [Dinos -> Places \cup {Nowhere}]
  BY DEF Change, TypeOK
<1>2. changes' \in 0 .. MaxChanges
  BY DEF Change, TypeOK
<1> QED BY <1>1, <1>2 DEF Change, TypeOK, rows, state, stats, scan, pass

LEMMA QuietIsTyped ==
  ASSUME TypeOK, GiveUp \/ ActiveDone \/ Supersede \/ UNCHANGED vars
  PROVE  TypeOK'
<1>1. todo' \in Seq([at : Int, size : Nat \ {0}])
  <2>1. todo' = <<>> \/ todo' = todo
    BY DEF GiveUp, ActiveDone, Supersede, pass, vars
  <2>2. todo \in Seq([at : Int, size : Nat \ {0}])
    BY DEF TypeOK
  <2> QED BY <2>1, <2>2, EmptySeq
<1>2. faults' \in 0 .. MaxFaults
  BY DEF GiveUp, ActiveDone, Supersede, TypeOK, vars
<1> QED
  BY <1>1, <1>2 DEF GiveUp, ActiveDone, Supersede, TypeOK, world, rows, state, stats, scan, pass, vars

LEMMA TypeStep == ASSUME TypeOK, CellIsThere, [Next]_vars PROVE TypeOK'
<1>1. ASSUME UNCHANGED <<rows, state>> PROVE NoPass \/ Cancel \/ Exit => TypeOK'
  <2>1. DiskTyped' /\ UndoTyped'
    BY <1>1 DEF rows, state, TypeOK, DiskTyped, UndoTyped
  <2>2. CASE NoPass
    <3>1. faults' \in 0 .. MaxFaults
      BY <2>2 DEF NoPass, TypeOK
    <3> QED BY <2>1, <2>2, <3>1, AsleepIsTyped DEF NoPass
  <2>3. CASE Cancel \/ Exit
    <3>1. faults' \in 0 .. MaxFaults
      BY <2>3 DEF Cancel, Exit, TypeOK
    <3> QED BY <2>1, <2>3, <3>1, FreshIsTyped DEF Cancel, Exit
  <2>4. NoPass \/ Cancel \/ Exit => TypeOK'
    BY <2>2, <2>3
  <2> QED BY <2>4
<1>2. NoPass \/ Cancel \/ Exit => TypeOK'
  BY <1>1 DEF NoPass, Cancel, Exit
<1> QED
  BY <1>2, LoopIsTyped, StartPassIsTyped, WakeIsTyped, AnswerIsTyped, SplitIsTyped,
     SkipIsTyped, UpsertIsTyped, EndOfPassIsTyped, ReapIsTyped, UpsertFailsIsTyped,
     CutOffIsTyped, OthersCommitIsTyped, ChangeIsTyped, QuietIsTyped, Zenon DEF Next, Step

-----------------------------------------------------------------------------
(* What a pass has covered *)

LEMMA CellStays == ASSUME TypeOK, CellIsThere, [Next]_vars PROVE CellIsThere'
BY DEF CellIsThere, Next, Step, Loop, StartPass, NoPass, Answer, Split, Skip, Upsert, GiveUp,
       ActiveDone, LearnBounds, StampFull, StoreCount, StampReprobe, Reap, Exit, Wake, TimeOut,
       UpsertFails, Cancel, CutOff, OthersCommit, Supersede, Change, Asleep, Fresh, Continue,
       pass, vars

\* The rows of the last commit are those of before the step, or it has committed.
LEMMA CommittedStays ==
  ASSUME TypeOK, [Next]_vars
  PROVE  Committed'.index \in {index', Committed.index}
<1>1. undo \in Seq(Snapshots)
  BY DEF TypeOK
<1>2. CASE undo' = <<>>
  BY <1>2 DEF Committed, Now
<1>3. CASE StaysOpen
  BY <1>3, <1>1 DEF StaysOpen, Committed
<1>4. CASE undo' = undo
  BY <1>4 DEF Committed, Now
<1>5. CASE \E ticks \in {0, 1} : undo' = [i \in DOMAIN undo |-> Older(undo[i], ticks)]
  <2>1. PICK ticks \in {0, 1} : undo' = [i \in DOMAIN undo |-> Older(undo[i], ticks)]
    BY <1>5
  <2>2. CASE undo = <<>>
    <3>1. undo' = <<>>
      BY <2>1, <2>2
    <3> QED BY <3>1, <1>2
  <2>3. CASE undo # <<>>
    <3>1. 1 \in DOMAIN undo /\ undo[1] \in Snapshots
      BY <1>1, <2>3
    <3>2. undo' # <<>> /\ undo'[1] = Older(undo[1], ticks)
      BY <2>1, <3>1
    <3>3. Older(undo[1], ticks).index = undo[1].index
      BY <3>1 DEF Older, Snapshots
    <3> QED BY <2>3, <3>2, <3>3 DEF Committed
  <2> QED BY <2>2, <2>3
<1>6. \/ undo' = <<>> \/ undo' = undo \/ StaysOpen
      \/ \E ticks \in {0, 1} : undo' = [i \in DOMAIN undo |-> Older(undo[i], ticks)]
  BY DEF Next, Step, Loop, StartPass, NoPass, Answer, Split, Skip, Upsert, GiveUp, ActiveDone,
         LearnBounds, StampFull, StoreCount, StampReprobe, Reap, Exit, Wake, TimeOut,
         UpsertFails, Cancel, CutOff, OthersCommit, Supersede, Change, state, vars
<1> QED BY <1>2, <1>3, <1>4, <1>5, <1>6

\* What an upsert puts in the index the scan has seen.
LEMMA SweptIsKnown ==
  ASSUME NEW c, NEW back, Swept(c, back), NEW d \in Dinos
  PROVE  index'[d] \in {Nowhere, index[d], reply[d]}
BY DEF Swept

\* The index of a world that stands still changes only by what is so, or to nothing.
LEMMA StillWorldStays ==
  ASSUME TypeOK, CellIsThere, StillWorldIsKnown, [Next]_vars
  PROVE  StillWorldIsKnown'
<1> DEFINE Known(f) == \A d \in Dinos : f[d] \in {Nowhere, where[d]}
<1>1. CASE changes' # 0
  BY <1>1 DEF StillWorldIsKnown
<1>2. CASE changes' = 0
  <2>1. UNCHANGED <<where, changes>>
    BY <1>2 DEF Next, Step, Loop, StartPass, NoPass, Answer, Split, Skip, Upsert, GiveUp,
       ActiveDone, LearnBounds, StampFull, StoreCount, StampReprobe, Reap, Exit, Wake, TimeOut,
       UpsertFails, Cancel, CutOff, OthersCommit, Supersede, Change, TypeOK, world, vars
  <2>2. Known(index) /\ Known(Committed.index) /\ (stage = "answered" /\ heard => reply = where)
    BY <1>2, <2>1 DEF StillWorldIsKnown
  <2>3. Known(index')
    <3>1. CASE UNCHANGED index
      BY <2>2, <3>1
    <3>2. CASE Upsert \/ (CutOff /\ IsUpserted(Head(todo)))
      <4>1. /\ stage = "answered" /\ heard
            /\ \E back : Swept(Head(todo), back)
        BY <3>2 DEF Upsert, CutOff, IsUpserted, Upserts, WriteBounds, WriteFull, WriteCount,
                    WriteReprobe, DeleteStale
      <4> QED BY <2>2, <4>1, SweptIsKnown
    <3>3. CASE DeleteStale
      BY <2>2, <3>3 DEF DeleteStale
    <3>4. CASE UpsertFails
      BY <2>2, <3>4 DEF UpsertFails
    <3>5. \/ UNCHANGED index \/ Upsert \/ (CutOff /\ IsUpserted(Head(todo)))
          \/ DeleteStale \/ UpsertFails
      BY DEF Next, Step, Loop, StartPass, NoPass, Answer, Split, Skip, GiveUp, ActiveDone,
             LearnBounds, StampFull, StoreCount, StampReprobe, Reap, Exit, Wake, TimeOut,
             Cancel, CutOff, OthersCommit, Supersede, Change, WriteBounds, WriteFull,
             WriteCount, WriteReprobe, rows, vars
    <3> QED BY <3>1, <3>2, <3>3, <3>4, <3>5
  <2>4. Known(Committed'.index)
    BY <2>2, <2>3, CommittedStays
  <2>5. stage' = "answered" /\ heard' => reply' = where'
    <3>1. CASE Answer \/ TimeOut
      BY <3>1 DEF Answer, TimeOut, world
    <3>2. CASE UNCHANGED <<stage, heard, reply>>
      BY <2>1, <2>2, <3>2
    <3>3. Answer \/ TimeOut \/ UNCHANGED <<stage, heard, reply>> \/ stage' # "answered"
      BY DEF Next, Step, Loop, StartPass, NoPass, Split, Skip, Upsert, GiveUp, ActiveDone,
             LearnBounds, StampFull, StoreCount, StampReprobe, Reap, Exit, Wake, UpsertFails,
             Cancel, CutOff, OthersCommit, Supersede, Change, Asleep, Fresh, Continue, scan, vars
    <3> QED BY <3>1, <3>2, <3>3
  <2> QED BY <2>1, <2>3, <2>4, <2>5 DEF StillWorldIsKnown
<1> QED BY <1>1, <1>2

\* A pass starts with tiles that cover its area.
LEMMA PassStarts ==
  ASSUME TypeOK, StartPass
  PROVE  PassCovers'
<1>1. area' \in Int \X Int /\ todo' = Tiles(area')
  BY StartPassIsTyped DEF StartPass
<1>2. \A p \in Int : area'[1] <= p /\ p < area'[2] => Covered(p)'
  BY <1>1, TilesCover DEF Covered
<1> QED BY <1>2 DEF PassCovers

LEMMA PassWaits ==
  ASSUME CensusIInv, Answer \/ TimeOut \/ OthersCommit \/ Supersede \/ UNCHANGED vars
  PROVE  PassCovers'
<1>1. /\ UNCHANGED <<where, changes, index, todo, area, collected, layer, skipped>>
      /\ stage' \in {"scanning", "answered"} => stage \in {"scanning", "answered"}
  BY DEF Answer, TimeOut, OthersCommit, Supersede, world, rows, pass, vars
<1>2. \A p \in Int : (Covered(p)' <=> Covered(p)) /\ (Done(p)' <=> Done(p))
  BY <1>1 DEF Covered, Done
<1> QED BY <1>1, <1>2 DEF CensusIInv, PassCovers

LEMMA WorldMoves ==
  ASSUME CensusIInv, NEW d \in Dinos, NEW q \in Places \cup {Nowhere}, Change(d, q)
  PROVE  PassCovers'
<1>1. /\ UNCHANGED <<index, todo, area, collected, layer, skipped, stage>>
      /\ changes' # 0
  BY DEF Change, rows, pass, CensusIInv, TypeOK
<1>2. \A p \in Int : (Covered(p)' <=> Covered(p)) /\ (Done(p) => Done(p)')
  BY <1>1 DEF Covered, Done
<1> QED BY <1>1, <1>2 DEF CensusIInv, PassCovers

\* Steps after which no pass is scanning, or one that has left a cell out.
LEMMA PassEnds ==
  ASSUME \/ Loop \/ NoPass \/ Skip \/ GiveUp \/ ActiveDone \/ LearnBounds \/ StampFull
         \/ StoreCount \/ StampReprobe \/ Reap \/ Exit \/ Cancel \/ CutOff \/ UpsertFails
         \/ \E ticks \in {0, 1} : Wake(ticks)
  PROVE  PassCovers'
BY DEF PassCovers, Loop, NoPass, Skip, GiveUp, ActiveDone, LearnBounds, StampFull, StoreCount,
       StampReprobe, Reap, Exit, Cancel, CutOff, UpsertFails, Wake, Asleep, Fresh

\* What Continue(cells) leaves to do, if it leaves the pass unharmed.
LEMMA ContinuesWith ==
  ASSUME NEW cells \in Seq(Cells), Continue(cells), layer = "full", ~ skipped'
  PROVE  todo' = cells /\ ~ skipped
BY DEF Continue

LEMMA SplitCovers == ASSUME CensusIInv, Split PROVE PassCovers'
<1> DEFINE c == Head(todo)
           cells == Halves(c) \o Tail(todo)
<1> SUFFICES ASSUME layer' = "full", ~ skipped',
                    NEW p \in Int, area'[1] <= p, p < area'[2]
             PROVE  Covered(p)' \/ Done(p)'
  BY DEF PassCovers
<1>1. /\ todo \in Seq(Cells) /\ todo # <<>>
      /\ UNCHANGED <<where, changes, index, area, collected, layer>> /\ Continue(cells)
      /\ stage = "answered" /\ c.size \div 2 >= Floor
  BY DEF CensusIInv, CellIsThere, TypeOK, Cells, Split, Splits, world, rows
<1>2. c \in Cells /\ Tail(todo) \in Seq(Cells) /\ Len(Tail(todo)) = Len(todo) - 1
      /\ \A i \in 1 .. Len(Tail(todo)) : Tail(todo)[i] = todo[i + 1]
  BY <1>1, HeadTailProperties
<1>3. /\ Halves(c) \in Seq(Cells) /\ Len(Halves(c)) = 2
      /\ InSquare(c, p) => \E i \in 1 .. 2 : InSquare(Halves(c)[i], p)
  BY <1>1, <1>2, HalvesCover
<1>4. /\ cells \in Seq(Cells) /\ Len(cells) = 2 + Len(Tail(todo))
      /\ \A i \in 1 .. 2 + Len(Tail(todo)) :
           cells[i] = IF i <= 2 THEN Halves(c)[i] ELSE Tail(todo)[i - 2]
  <2> DEFINE hs == Halves(c)
             ts == Tail(todo)
  <2>1. hs \in Seq(Cells) /\ Len(hs) = 2 /\ ts \in Seq(Cells)
    BY <1>2, <1>3
  <2> HIDE DEF hs, ts
  <2>2. /\ hs \o ts \in Seq(Cells) /\ Len(hs \o ts) = Len(hs) + Len(ts)
        /\ \A i \in 1 .. Len(hs) + Len(ts) :
             (hs \o ts)[i] = IF i <= Len(hs) THEN hs[i] ELSE ts[i - Len(hs)]
    BY <2>1, ConcatProperties
  <2>3. /\ hs \o ts \in Seq(Cells) /\ Len(hs \o ts) = 2 + Len(ts)
        /\ \A i \in 1 .. 2 + Len(ts) :
             (hs \o ts)[i] = IF i <= 2 THEN hs[i] ELSE ts[i - 2]
    BY <2>1, <2>2
  <2> QED BY <2>3 DEF hs, ts
<1> HIDE DEF cells
<1>5. todo' = cells /\ ~ skipped
  BY <1>1, <1>4, ContinuesWith
<1>6. Done(p) => Done(p)'
  BY <1>1 DEF Done
<1>7. Covered(p) => Covered(p)'
  <2> SUFFICES ASSUME NEW i \in DOMAIN todo, InSquare(todo[i], p)
               PROVE  \E j \in DOMAIN cells : InSquare(cells[j], p)
    BY <1>5 DEF Covered
  <2>1. i \in 1 .. Len(todo) /\ Len(todo) \in Nat /\ DOMAIN cells = 1 .. Len(todo) + 1
    BY <1>1, <1>2, <1>4, LenProperties
  <2>2. CASE i = 1
    <3>1. todo[i] = c
      BY <1>1, <2>2
    <3>2. PICK j \in 1 .. 2 : InSquare(Halves(c)[j], p)
      BY <1>3, <3>1
    <3>3. j \in DOMAIN cells /\ cells[j] = Halves(c)[j]
      BY <1>2, <1>4, <2>1, <3>2
    <3> QED BY <3>2, <3>3
  <2>3. CASE i # 1
    <3>1. i - 1 \in 1 .. Len(Tail(todo)) /\ (i - 1) + 1 = i /\ (i + 1) - 2 = i - 1
      BY <1>2, <2>1, <2>3
    <3>2. Tail(todo)[i - 1] = todo[i]
      BY <1>2, <3>1
    <3>3. i + 1 \in DOMAIN cells /\ cells[i + 1] = Tail(todo)[i - 1]
      BY <1>2, <1>4, <2>1, <2>3, <3>1
    <3> QED BY <3>2, <3>3
  <2> QED BY <2>2, <2>3
<1>8. Covered(p) \/ Done(p)
  BY <1>1, <1>5 DEF CensusIInv, PassCovers
<1> QED BY <1>6, <1>7, <1>8

LEMMA UpsertCovers == ASSUME CensusIInv, Upsert PROVE PassCovers'
<1> DEFINE c == Head(todo)
           inside == Inside(c)
<1> SUFFICES ASSUME layer' = "full", ~ skipped',
                    NEW p \in Int, area'[1] <= p, p < area'[2]
             PROVE  Covered(p)' \/ Done(p)'
  BY DEF PassCovers
<1>1. /\ todo \in Seq(Cells) /\ todo # <<>> /\ layer = "full" /\ heard
      /\ UNCHANGED <<where, changes, area, layer>> /\ Continue(Tail(todo))
      /\ stage = "answered" /\ Swept(c, inside)
      /\ collected' = collected \cup {<<d, reply[d]>> : d \in inside}
  BY DEF CensusIInv, CellIsThere, TypeOK, Cells, Upsert, IsUpserted, Upserts, world
<1>2. c \in Cells /\ Tail(todo) \in Seq(Cells) /\ Len(Tail(todo)) = Len(todo) - 1
      /\ \A i \in 1 .. Len(Tail(todo)) : Tail(todo)[i] = todo[i + 1]
  BY <1>1, HeadTailProperties
<1>3. todo' = Tail(todo) /\ ~ skipped
  BY <1>1, <1>2, ContinuesWith
<1>4. \A d \in Dinos : d \in inside <=>
        InSquare(c, reply[d]) /\ reply[d] # Nowhere
  <2> SUFFICES ASSUME NEW d \in Dinos
               PROVE  d \in inside <=> InSquare(c, reply[d]) /\ reply[d] # Nowhere
    OBVIOUS
  <2>1. heard /\ Reach \in Nat /\ c.at \in Int /\ c.size \in Nat
    BY <1>1, <1>2, SizesAssumption DEF Cells
  <2>2. reply[d] \in Int
    BY DEF CensusIInv, TypeOK, Places, Nowhere
  <2> HIDE DEF c
  <2>3. InSquare(c, reply[d]) /\ reply[d] # Nowhere => InCircle(c, reply[d])
    BY <2>1, <2>2 DEF InCircle, InSquare
  <2>4. InCircle(c, reply[d]) => reply[d] # Nowhere
    BY DEF InCircle
  <2> QED BY <2>1, <2>3, <2>4 DEF Inside, Found
<1>5. Covered(p) => InSquare(c, p) \/ Covered(p)'
  <2> SUFFICES ASSUME NEW i \in DOMAIN todo, InSquare(todo[i], p), i # 1
               PROVE  Covered(p)'
    BY <1>1 DEF Covered
  <2>1. i \in 1 .. Len(todo) /\ Len(todo) \in Nat
    BY <1>1, LenProperties
  <2>2. i - 1 \in 1 .. Len(Tail(todo)) /\ (i - 1) + 1 = i
    BY <1>2, <2>1
  <2>3. i - 1 \in DOMAIN Tail(todo) /\ Tail(todo)[i - 1] = todo[i]
    BY <1>2, <2>2, LenProperties
  <2> QED BY <1>3, <2>3 DEF Covered
<1>6. InSquare(c, p) \/ Done(p) => Done(p)'
  <2> SUFFICES ASSUME InSquare(c, p) \/ Done(p), NEW d \in Dinos
               PROVE  /\ index'[d] = p /\ p # Nowhere => <<d, p>> \in collected'
                      /\ changes = 0 /\ where[d] = p => index'[d] = p
    BY <1>1 DEF Done
  <2>1. index'[d] = IF d \in inside THEN reply[d]
                    ELSE IF InSquare(c, index[d]) THEN Nowhere ELSE index[d]
    BY <1>1 DEF Swept
  <2> HIDE DEF inside
  <2>2. ASSUME index'[d] = p, p # Nowhere PROVE <<d, p>> \in collected'
    <3>1. CASE d \in inside
      BY <1>1, <2>1, <2>2, <3>1
    <3>2. CASE d \notin inside
      <4>1. index[d] = p /\ ~ InSquare(c, p)
        BY <2>1, <2>2, <3>2
      <4> QED BY <1>1, <2>2, <4>1 DEF Done
    <3> QED BY <3>1, <3>2
  <2>3. ASSUME changes = 0, where[d] = p PROVE index'[d] = p
    <3>1. reply[d] = p /\ index[d] \in {Nowhere, p}
      BY <1>1, <2>3 DEF CensusIInv, StillWorldIsKnown
    <3>2. CASE InSquare(c, p)
      BY <1>4, <2>1, <3>1, <3>2
    <3>3. CASE ~ InSquare(c, p)
      <4>1. index[d] = p /\ d \notin inside
        BY <1>4, <2>3, <3>1, <3>3 DEF Done
      <4> QED BY <2>1, <3>3, <4>1
    <3> QED BY <3>2, <3>3
  <2> QED BY <2>2, <2>3
<1>7. Covered(p) \/ Done(p)
  BY <1>1, <1>3 DEF CensusIInv, PassCovers
<1> QED BY <1>5, <1>6, <1>7

LEMMA CensusStep == CensusIInv /\ [Next]_vars => CensusIInv'
<1> SUFFICES ASSUME CensusIInv, [Next]_vars PROVE CensusIInv'
  OBVIOUS
<1>1. TypeOK' /\ CellIsThere' /\ StillWorldIsKnown'
  BY TypeStep, CellStays, StillWorldStays DEF CensusIInv
<1>2. TypeOK
  BY DEF CensusIInv
<1>3. PassCovers'
  BY <1>2, PassStarts, PassWaits, WorldMoves, PassEnds, SplitCovers, UpsertCovers, Zenon
     DEF Next, Step
<1> QED BY <1>1, <1>3 DEF CensusIInv

LEMMA CensusInvariant == Spec => []CensusIInv
BY CensusStarts, CensusStep, PTL DEF Spec

-----------------------------------------------------------------------------
(* What it comes to *)

\* Every reachable state of the census is well formed.
THEOREM CensusTypeCorrect == Spec => []TypeOK
<1>1. CensusIInv => TypeOK
  BY DEF CensusIInv
<1> QED BY <1>1, CensusInvariant, PTL

\* A full pass that has left no cell out has refreshed every row of its area, and knows
\* everybody there if nobody moved.
THEOREM NothingIsMissed == Spec => []PassIsComplete
<1>1. CensusIInv => PassIsComplete
  <2> SUFFICES ASSUME CensusIInv, stage = "scanning", todo = <<>>, layer = "full", ~ skipped
               PROVE  /\ \A d \in Dinos :
                           (index[d] # Nowhere /\ area[1] <= index[d] /\ index[d] < area[2])
                              => <<d, index[d]>> \in collected
                      /\ changes = 0 =>
                           \A d \in Dinos :
                             area[1] <= where[d] /\ where[d] < area[2] => index[d] = where[d]
    BY DEF PassIsComplete
  <2>1. \A p \in Int : area[1] <= p /\ p < area[2] => Done(p)
    BY DEF CensusIInv, PassCovers, Covered
  <2>2. \A d \in Dinos : index[d] \in Int /\ where[d] \in Int
    BY DEF CensusIInv, TypeOK, Places, Nowhere
  <2> QED BY <2>1, <2>2 DEF Done
<1> QED BY <1>1, CensusInvariant, PTL

\* An upsert that ends removes a row only if its dino was not there when the cell was
\* asked for; what one that is cut off in a write takes beyond that, and what one that
\* fails takes back of it, is all there is.
THEOREM NoRowIsSweptBlindly == Spec => SweepsAreHonest
<1> DEFINE Honest ==
      \A d \in Dinos :
        (stage = "answered" /\ index[d] # Nowhere /\ index'[d] = Nowhere)
          => \/ reply[d] # index[d]
             \/ heard /\ faults' > faults /\ (undo' = <<Committed>> \/ index' = Committed.index)
<1>1. CensusIInv /\ [Next]_vars => [Honest]_vars
  <2> SUFFICES ASSUME CensusIInv, [Next]_vars, NEW d \in Dinos,
                      stage = "answered", index[d] # Nowhere, index'[d] = Nowhere,
                      reply[d] = index[d]
               PROVE  heard /\ faults' > faults /\ (undo' = <<Committed>> \/ index' = Committed.index)
    OBVIOUS
  <2>1. Upsert \/ UpsertFails \/ CutOff
    BY DEF Next, Step, Loop, StartPass, NoPass, Answer, Split, Skip, GiveUp,
           ActiveDone, LearnBounds, StampFull, StoreCount, StampReprobe, Reap, Exit, Wake,
           TimeOut, Cancel, OthersCommit, Supersede, Change, WriteBounds, WriteFull, WriteCount,
           WriteReprobe, DeleteStale, rows, vars
  <2>2. CASE UpsertFails
    <3>1. heard /\ faults' = faults + 1 /\ faults \in Nat /\ index' = Committed.index
      BY <2>2 DEF UpsertFails, CensusIInv, TypeOK
    <3> QED BY <3>1
  <2>3. CASE CutOff
    <3>1. faults' = faults + 1 /\ faults \in Nat /\ undo' = <<Committed>>
      BY <2>3 DEF CutOff, StaysOpen, CensusIInv, TypeOK
    <3>2. heard
      BY <2>3 DEF CutOff, IsUpserted, Upserts, WriteBounds, WriteFull, WriteCount, WriteReprobe,
                  DeleteStale
    <3> QED BY <3>1, <3>2
  <2>4. CASE Upsert
    <3> DEFINE c == Head(todo)
    <3>1. c \in Cells /\ heard /\ Swept(c, Inside(c))
      BY <2>4, TodoSplits DEF CensusIInv, CellIsThere, Upsert, IsUpserted, Upserts
    <3> HIDE DEF c
    <3>2. InSquare(c, index[d]) => d \in Inside(c)
      BY <3>1 DEF Inside, Found, InCircle, InSquare, CensusIInv, TypeOK, Cells, Places, Nowhere
    <3>3. d \in Inside(c) => d \in Inside(c) /\ index'[d] = reply[d]
      BY <3>1 DEF Swept
    <3>4. d \notin Inside(c) => index'[d] = index[d]
      BY <3>1, <3>2 DEF Swept
    <3> QED BY <3>3, <3>4
  <2> QED BY <2>1, <2>2, <2>3, <2>4
<1> QED BY <1>1, CensusInvariant, PTL DEF Spec, SweepsAreHonest
================================================================================
