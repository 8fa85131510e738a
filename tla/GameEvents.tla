----------------------------- MODULE GameEvents -----------------------------
(***************************************************************************)
(* Combat events (server.py, _handle_game_event and _recent_events_for).   *)
(*                                                                         *)
(* The mod pushes a frame when a player dies or takes damage.  The bridge  *)
(* keeps the last RingSize of them for the turns that ask "what killed     *)
(* me?".  Deaths are always taken.  Damage comes in floods: at most        *)
(* DamageCap frames are admitted within RateWindow, and one that follows   *)
(* another within CoalesceWindow is merged into the newest entry.  Damage  *)
(* below the report floor changes nothing and is left out.                 *)
(*                                                                         *)
(* Time is counted in ticks of a clock that does not go back.              *)
(***************************************************************************)
EXTENDS Integers, Sequences, FiniteSets

CONSTANTS
  Players,
  NoOne,            \* the victim of a frame without a usable victim id
  RingSize,         \* maxlen of _recent_game_events
  DamageCap,        \* _DAMAGE_RATE_CAP
  RateWindow,       \* _DAMAGE_RATE_WINDOW_S
  CoalesceWindow,   \* _DAMAGE_COALESCE_WINDOW_S
  MaxDamage,        \* bound: damage frames
  MaxDeaths,        \* bound: deaths
  MaxTime           \* bound: ticks

ASSUME PlayersAssumption == NoOne \notin Players

\* The deque of ingest times (maxlen 64) holds a full window.
ASSUME LimitsAssumption ==
  /\ RingSize \in Nat \ {0} /\ DamageCap \in 1 .. 64
  /\ RateWindow \in Nat /\ CoalesceWindow \in Nat
  /\ MaxDamage \in Nat /\ MaxDeaths \in Nat /\ MaxTime \in Nat

VARIABLES
  ring,       \* _recent_game_events, oldest first
  window,     \* _damage_ingest_times
  dropped,    \* _damage_dropped
  now,        \* the clock
  admitted,   \* history: when damage frames were admitted
  deaths      \* history: when somebody died

vars == <<ring, window, dropped, now, admitted, deaths>>

Victims == Players \cup {NoOne}

Init ==
  /\ ring = <<>> /\ window = <<>> /\ dropped = 0 /\ now = 0
  /\ admitted = <<>> /\ deaths = <<>>

\* hit is history: whose frames are in the entry.
Entry(kind, v, n, hit) ==
  [event |-> kind, victim |-> v, at |-> now, count |-> n, hit |-> hit]

\* Mutant of Pushed: a deque without a maxlen.
PushedUnbounded(r, e) == Append(r, e)

\* append to a deque with a maxlen.
Pushed(r, e) == IF Len(r) < RingSize THEN Append(r, e) ELSE Append(Tail(r), e)

Death(v) ==
  /\ Len(deaths) < MaxDeaths
  /\ ring' = Pushed(ring, Entry("death", v, 1, {v}))
  /\ deaths' = Append(deaths, now)
  /\ UNCHANGED <<window, dropped, now, admitted>>

\* popleft removes k times that are before the cutoff.
Pops(k) ==
  /\ \A i \in 1 .. k : window[i] < now - RateWindow
  /\ k < Len(window) => window[k + 1] >= now - RateWindow

Rest(k) == SubSeq(window, k + 1, Len(window))

\* Mutant of HasRoom: one frame too many.
HasRoomForMore(times) == Len(times) <= DamageCap

HasRoom(times) == Len(times) < DamageCap

DamageArrives == Len(admitted) + dropped < MaxDamage

\* _admit_damage_event refuses.
DamageDropped ==
  /\ DamageArrives
  /\ \E k \in 0 .. Len(window) :
       Pops(k) /\ ~ HasRoom(Rest(k)) /\ window' = Rest(k)
  /\ dropped' = dropped + 1
  /\ UNCHANGED <<ring, now, admitted, deaths>>

\* Mutant of Coalesces: only damage of one victim is merged.
CoalescesOwn(v) ==
  /\ ring # <<>>
  /\ LET last == ring[Len(ring)] IN
       last.event = "damage" /\ last.victim = v /\ now - last.at <= CoalesceWindow

\* Is the newest entry recent damage?  Whose, is not asked.
Coalesces(v) ==
  /\ ring # <<>>
  /\ LET last == ring[Len(ring)] IN
       last.event = "damage" /\ now - last.at <= CoalesceWindow

\* The newest entry takes over the frame's data, its time and one more count.
Merged(v) ==
  LET last == ring[Len(ring)] IN
    [ring EXCEPT ![Len(ring)] = Entry("damage", v, last.count + 1, last.hit \cup {v})]

DamageTaken(v) ==
  /\ DamageArrives
  /\ \E k \in 0 .. Len(window) :
       Pops(k) /\ HasRoom(Rest(k)) /\ window' = Append(Rest(k), now)
  /\ ring' = IF Coalesces(v) THEN Merged(v) ELSE Pushed(ring, Entry("damage", v, 1, {v}))
  /\ admitted' = Append(admitted, now)
  /\ UNCHANGED <<dropped, now, deaths>>

Tick ==
  /\ now < MaxTime
  /\ now' = now + 1
  /\ UNCHANGED <<ring, window, dropped, admitted, deaths>>

Next == Tick \/ DamageDropped \/ \E v \in Victims : Death(v) \/ DamageTaken(v)

Spec == Init /\ [][Next]_vars

\* What a turn of player p is given.
View(p) == SelectSeq(ring, LAMBDA e : e.victim \in {p, NoOne})

-----------------------------------------------------------------------------
(* Properties *)

Entries == [event : {"death", "damage"}, victim : Victims, at : 0 .. MaxTime,
            count : Nat \ {0}, hit : SUBSET Victims]

TypeOK ==
  /\ ring \in Seq(Entries) /\ Len(ring) <= RingSize
  /\ window \in Seq(0 .. MaxTime)
  /\ dropped \in 0 .. MaxDamage
  /\ now \in 0 .. MaxTime
  /\ admitted \in Seq(0 .. MaxTime)
  /\ deaths \in Seq(0 .. MaxTime)

\* "a raid-scale damage burst can neither overwhelm the turn pipeline": never are
\* more than DamageCap damage frames admitted within any RateWindow.
RateIsCapped ==
  \A i \in 1 .. Len(admitted) - DamageCap :
    admitted[i + DamageCap] - admitted[i] > RateWindow

\* "... nor evict rare death events": the ring keeps the latest deaths, and one it
\* has lost is older than the damage of that many coalescing windows, allowing each
\* later death its own entry and one of damage.  A lone death outlives RingSize - 1
\* windows of any combat.
DeathsOutliveBursts ==
  LET kept == Cardinality({i \in DOMAIN ring : ring[i].event = "death"}) IN
  \A i \in 1 .. Len(deaths) - kept :
    RingSize <= 2 * (Len(deaths) - i) + 1 + (now - deaths[i]) \div (CoalesceWindow + 1)

\* "scoped to THIS player ... so concurrent events can't cross-attribute": what a
\* player is told of damage is made of their own hits, and of those without a victim.
OwnDamage ==
  \A p \in Players : \A i \in DOMAIN View(p) :
    View(p)[i].event = "damage" => View(p)[i].hit \subseteq {p, NoOne}
=============================================================================
