--------------------------- MODULE LinkEvents_proofs ---------------------------
(***************************************************************************)
(* What goes over the server link, for every value of its constants: why   *)
(* deaths outlive bursts of damage; which socket is served, and by how     *)
(* many censuses; why replies last; why the registry of pins and the map   *)
(* agree; and that the four specifications of MCLinkEvents keep their      *)
(* types side by side.                                                     *)
(***************************************************************************)
EXTENDS MCLinkEvents, SequenceTheorems, FiniteSetTheorems, WellFoundedInduction, TLAPS

-----------------------------------------------------------------------------
(* Game events *)

USE PlayersAssumption, LimitsAssumption

\* How many of the admitted frames have left the window.
Left == Len(admitted) - Len(window)

\* The window is what is left of admitted; what has left it did so for its age.
WindowIsRecent ==
  /\ Len(window) <= DamageCap /\ Left >= 0
  /\ \A i \in 1 .. Len(window) : window[i] = admitted[Left + i]
  /\ \A i \in 1 .. Left : admitted[i] < now - RateWindow

IInv == TypeOK /\ WindowIsRecent /\ RateIsCapped

LEMMA InitHolds == Init => IInv
<1> SUFFICES ASSUME Init PROVE IInv
  OBVIOUS
<1>1. TypeOK
  BY DEF Init, TypeOK
<1> QED BY <1>1 DEF Init, IInv, WindowIsRecent, Left, RateIsCapped

\* Entries are well formed.
LEMMA EntryFits ==
  ASSUME TypeOK, NEW kind \in {"death", "damage"}, NEW v \in Victims,
         NEW n \in Nat \ {0}, NEW hit \in SUBSET Victims
  PROVE  Entry(kind, v, n, hit) \in Entries
BY DEF Entry, Entries, TypeOK

\* Pushing keeps the ring's bound.
LEMMA PushFits ==
  ASSUME TypeOK, NEW e \in Entries
  PROVE  Pushed(ring, e) \in Seq(Entries) /\ Len(Pushed(ring, e)) <= RingSize
<1>1. ring \in Seq(Entries) /\ Len(ring) \in Nat /\ Len(ring) <= RingSize
  BY DEF TypeOK
<1>2. CASE Len(ring) < RingSize
  BY <1>1, <1>2 DEF Pushed
<1>3. CASE ~ Len(ring) < RingSize
  <2>1. ring # <<>>
    BY <1>1, <1>3
  <2>2. Tail(ring) \in Seq(Entries) /\ Len(Tail(ring)) = Len(ring) - 1
    BY <1>1, <2>1
  <2> QED BY <1>1, <1>3, <2>2 DEF Pushed
<1> QED BY <1>2, <1>3

\* Merging replaces the newest entry.
LEMMA MergeFits ==
  ASSUME TypeOK, NEW v \in Victims, ring # <<>>
  PROVE  Merged(v) \in Seq(Entries) /\ Len(Merged(v)) = Len(ring)
<1> DEFINE last == ring[Len(ring)]
           e == Entry("damage", v, last.count + 1, last.hit \cup {v})
<1>1. ring \in Seq(Entries) /\ Len(ring) \in Nat /\ Len(ring) \in 1 .. Len(ring)
  BY DEF TypeOK
<1>2. last \in Entries
  BY <1>1
<1>3. last.count + 1 \in Nat \ {0} /\ last.hit \cup {v} \in SUBSET Victims
  BY <1>2 DEF Entries
<1>4. e \in Entries
  BY <1>3, EntryFits
<1>5. Merged(v) = [ring EXCEPT ![Len(ring)] = e]
  BY DEF Merged
<1> HIDE DEF e, last
<1> QED BY <1>1, <1>4, <1>5

\* Popping leaves what is recent and sorts the rest out for its age.
LEMMA PopFits ==
  ASSUME IInv, NEW k \in 0 .. Len(window), Pops(k)
  PROVE  /\ Rest(k) \in Seq(0 .. MaxTime) /\ Len(Rest(k)) = Len(window) - k
         /\ \A i \in 1 .. Len(Rest(k)) : Rest(k)[i] = admitted[Left + k + i]
         /\ \A i \in 1 .. Left + k : admitted[i] < now - RateWindow
<1>1. /\ window \in Seq(0 .. MaxTime) /\ Len(window) \in Nat
      /\ Len(admitted) \in Nat /\ Left \in Nat
  BY DEF IInv, TypeOK, WindowIsRecent, Left
<1>2. /\ Rest(k) \in Seq(0 .. MaxTime) /\ Len(Rest(k)) = Len(window) - k
      /\ \A i \in 1 .. Len(Rest(k)) : Rest(k)[i] = window[k + i]
  BY <1>1 DEF Rest
<1>3. \A i \in 1 .. Len(Rest(k)) : Rest(k)[i] = admitted[Left + k + i]
  <2> TAKE i \in 1 .. Len(Rest(k))
  <2>1. k + i \in 1 .. Len(window) /\ Left + (k + i) = Left + k + i
    BY <1>1, <1>2
  <2> QED BY <1>2, <2>1 DEF IInv, WindowIsRecent
<1>4. \A i \in 1 .. Left + k : admitted[i] < now - RateWindow
  <2> SUFFICES ASSUME NEW i \in 1 .. Left + k PROVE admitted[i] < now - RateWindow
    OBVIOUS
  <2>1. CASE i \in 1 .. Left
    BY <2>1 DEF IInv, WindowIsRecent
  <2>2. CASE i \notin 1 .. Left
    <3>1. i - Left \in 1 .. k /\ i - Left \in 1 .. Len(window) /\ Left + (i - Left) = i
      BY <1>1, <2>2
    <3>2. window[i - Left] = admitted[i]
      BY <3>1 DEF IInv, WindowIsRecent
    <3> QED BY <3>1, <3>2 DEF Pops
  <2> QED BY <2>1, <2>2
<1> QED BY <1>2, <1>3, <1>4

LEMMA DeathStep ==
  ASSUME IInv, NEW v \in Victims, Death(v)
  PROVE  IInv'
<1>1. TypeOK'
  <2>1. Entry("death", v, 1, {v}) \in Entries
    BY EntryFits DEF IInv
  <2> QED BY <2>1, PushFits DEF IInv, TypeOK, Death
<1>2. UNCHANGED <<window, admitted, now>>
  BY DEF Death
<1> QED BY <1>1, <1>2 DEF IInv, WindowIsRecent, Left, RateIsCapped

LEMMA DroppedStep ==
  ASSUME IInv, DamageDropped
  PROVE  IInv'
<1>1. PICK k \in 0 .. Len(window) : Pops(k) /\ window' = Rest(k)
  BY DEF DamageDropped
<1>2. UNCHANGED <<ring, now, admitted, deaths>> /\ dropped' = dropped + 1 /\ DamageArrives
  BY DEF DamageDropped
<1>3. /\ Rest(k) \in Seq(0 .. MaxTime) /\ Len(Rest(k)) = Len(window) - k
      /\ \A i \in 1 .. Len(Rest(k)) : Rest(k)[i] = admitted[Left + k + i]
      /\ \A i \in 1 .. Left + k : admitted[i] < now - RateWindow
  BY <1>1, PopFits
<1>4. TypeOK'
  BY <1>1, <1>2, <1>3 DEF IInv, TypeOK, DamageArrives
<1>5. WindowIsRecent'
  <2>1. Len(window) \in Nat /\ Len(admitted) \in Nat
    BY DEF IInv, TypeOK
  <2>2. Left' = Left + k
    BY <1>1, <1>2, <1>3, <2>1 DEF Left
  <2> QED BY <1>1, <1>2, <1>3, <2>1, <2>2 DEF IInv, WindowIsRecent, Left
<1> QED BY <1>2, <1>4, <1>5 DEF IInv, RateIsCapped

\* The frame DamageCap before the one admitted now has left the window.
LEMMA TakenStep ==
  ASSUME IInv, NEW v \in Victims, DamageTaken(v)
  PROVE  IInv'
<1>1. PICK k \in 0 .. Len(window) :
        Pops(k) /\ HasRoom(Rest(k)) /\ window' = Append(Rest(k), now)
  BY DEF DamageTaken
<1>2. /\ UNCHANGED <<dropped, now, deaths>> /\ admitted' = Append(admitted, now)
      /\ ring' = IF Coalesces(v) THEN Merged(v) ELSE Pushed(ring, Entry("damage", v, 1, {v}))
  BY DEF DamageTaken
<1>3. /\ Rest(k) \in Seq(0 .. MaxTime) /\ Len(Rest(k)) = Len(window) - k
      /\ \A i \in 1 .. Len(Rest(k)) : Rest(k)[i] = admitted[Left + k + i]
      /\ \A i \in 1 .. Left + k : admitted[i] < now - RateWindow
  BY <1>1, PopFits
<1>4. /\ now \in 0 .. MaxTime /\ admitted \in Seq(0 .. MaxTime)
      /\ Len(window) \in Nat /\ Len(admitted) \in Nat /\ Left \in Nat
      /\ Len(admitted) = Left + Len(window)
  BY DEF IInv, TypeOK, WindowIsRecent, Left
<1>2a. admitted' = Append(admitted, now)
  BY <1>2
<1>5. /\ Len(admitted') = Len(admitted) + 1 /\ admitted'[Len(admitted) + 1] = now
      /\ \A i \in 1 .. Len(admitted) : admitted'[i] = admitted[i]
  BY <1>4, <1>2a
<1>6. TypeOK'
  <2>1. ring' \in Seq(Entries) /\ Len(ring') <= RingSize
    <3>1. CASE Coalesces(v)
      <4>1. ring # <<>> /\ Len(ring) <= RingSize
        BY <3>1 DEF Coalesces, IInv, TypeOK
      <4> QED BY <1>2, <3>1, <4>1, MergeFits DEF IInv
    <3>2. CASE ~ Coalesces(v)
      <4>1. Entry("damage", v, 1, {v}) \in Entries
        BY EntryFits DEF IInv
      <4> QED BY <1>2, <3>2, <4>1, PushFits DEF IInv
    <3> QED BY <3>1, <3>2
  <2> QED BY <1>1, <1>2, <1>3, <1>4, <2>1 DEF IInv, TypeOK
<1>7. WindowIsRecent'
  <2>1. /\ Len(window') = Len(Rest(k)) + 1 /\ window'[Len(Rest(k)) + 1] = now
        /\ \A i \in 1 .. Len(Rest(k)) : window'[i] = Rest(k)[i]
    BY <1>1, <1>3, <1>4
  <2>2. Left' = Left + k
    BY <1>3, <1>4, <1>5, <2>1 DEF Left
  <2>3. Len(window') <= DamageCap /\ Left' >= 0
    BY <1>1, <1>3, <1>4, <2>1, <2>2 DEF HasRoom
  <2>4. ASSUME NEW i \in 1 .. Len(window') PROVE window'[i] = admitted'[Left' + i]
    <3>1. CASE i = Len(Rest(k)) + 1
      <4>1. Left' + i = Len(admitted) + 1
        BY <1>3, <1>4, <2>2, <3>1
      <4> QED BY <1>5, <2>1, <3>1, <4>1
    <3>2. CASE i # Len(Rest(k)) + 1
      <4>1. i \in 1 .. Len(Rest(k)) /\ Left + k + i \in 1 .. Len(admitted)
        <5> DEFINE m == Len(Rest(k))
        <5>1. m \in Nat /\ m = Len(window) - k /\ k \in Nat
          BY <1>3, <1>4
        <5>2. i \in 1 .. m + 1 /\ i # m + 1
          BY <2>1, <3>2
        <5> HIDE DEF m
        <5>3. i \in 1 .. m
          BY <5>1, <5>2
        <5>4. Left + k + i \in 1 .. Len(admitted)
          BY <1>4, <5>1, <5>3
        <5> QED BY <5>3, <5>4 DEF m
      <4> QED BY <1>3, <1>5, <2>1, <2>2, <4>1
    <3> QED BY <3>1, <3>2
  <2>5. ASSUME NEW i \in 1 .. Left' PROVE admitted'[i] < now' - RateWindow
    <3>1. i \in 1 .. Left + k /\ i \in 1 .. Len(admitted)
      BY <1>4, <2>2
    <3> QED BY <1>2, <1>3, <1>5, <3>1
  <2> QED BY <2>3, <2>4, <2>5 DEF WindowIsRecent
<1>8. RateIsCapped'
  <2> SUFFICES ASSUME NEW i \in 1 .. Len(admitted') - DamageCap
               PROVE  admitted'[i + DamageCap] - admitted'[i] > RateWindow
    BY DEF RateIsCapped
  <2>1. i \in 1 .. Len(admitted) /\ i + DamageCap \in 1 .. Len(admitted) + 1
    BY <1>4, <1>5
  <2>2. CASE i + DamageCap = Len(admitted) + 1
    <3>1. i \in 1 .. Left + k
      BY <1>1, <1>3, <1>4, <2>1, <2>2 DEF HasRoom
    <3>2. admitted[i] < now - RateWindow /\ admitted[i] \in 0 .. MaxTime
      BY <1>3, <1>4, <2>1, <3>1
    <3> QED BY <1>4, <1>5, <2>1, <2>2, <3>2
  <2>3. CASE i + DamageCap # Len(admitted) + 1
    <3>1. i \in 1 .. Len(admitted) - DamageCap /\ i + DamageCap \in 1 .. Len(admitted)
      BY <1>4, <2>1, <2>3
    <3> QED BY <1>5, <2>1, <3>1 DEF IInv, RateIsCapped
  <2> QED BY <2>2, <2>3
<1> QED BY <1>6, <1>7, <1>8 DEF IInv

LEMMA TickStep ==
  ASSUME IInv, Tick
  PROVE  IInv'
<1>1. TypeOK'
  BY DEF IInv, TypeOK, Tick
<1>2. UNCHANGED <<window, admitted>> /\ now' = now + 1 /\ now \in 0 .. MaxTime
  BY DEF IInv, TypeOK, Tick
<1>3. \A i \in 1 .. Left : admitted[i] < now' - RateWindow
  <2> TAKE i \in 1 .. Left
  <2>1. i \in 1 .. Len(admitted) /\ admitted[i] < now - RateWindow
    BY DEF IInv, TypeOK, WindowIsRecent, Left
  <2>2. admitted[i] \in 0 .. MaxTime
    BY <2>1 DEF IInv, TypeOK
  <2> QED BY <1>2, <2>1, <2>2
<1> QED BY <1>1, <1>2, <1>3 DEF IInv, WindowIsRecent, Left, RateIsCapped

LEMMA Inductive == IInv /\ [Next]_vars => IInv'
<1> SUFFICES ASSUME IInv, [Next]_vars PROVE IInv'
  OBVIOUS
<1>1. CASE Tick
  BY <1>1, TickStep
<1>2. CASE DamageDropped
  BY <1>2, DroppedStep
<1>3. ASSUME NEW v \in Victims, Death(v) PROVE IInv'
  BY <1>3, DeathStep
<1>4. ASSUME NEW v \in Victims, DamageTaken(v) PROVE IInv'
  BY <1>4, TakenStep
<1>5. CASE UNCHANGED vars
  BY <1>5 DEF vars, IInv, TypeOK, WindowIsRecent, Left, RateIsCapped
<1> QED BY <1>1, <1>2, <1>3, <1>4, <1>5 DEF Next

LEMMA Invariance == Spec => []IInv
<1> QED BY InitHolds, Inductive, PTL DEF Spec

\* Whatever the mod sends, the ring stays within its maxlen and every entry is an
\* event of a player, or of nobody.
THEOREM TypeCorrect == Spec => []TypeOK
<1>1. IInv => TypeOK
  BY DEF IInv
<1> QED BY <1>1, Invariance, PTL

\* _admit_damage_event never lets more than DamageCap frames through in any window,
\* for every cap its deque can count to and every window.
THEOREM FloodIsCapped == Spec => []RateIsCapped
<1>1. IInv => RateIsCapped
  BY DEF IInv
<1> QED BY <1>1, Invariance, PTL

-----------------------------------------------------------------------------
(* Deaths and bursts *)

\* How many of the first k entries of r are deaths.
DeathsIn(r, k) == Cardinality({i \in 1 .. k : r[i].event = "death"})

IsDeath(e) == IF e.event = "death" THEN 1 ELSE 0

\* Entries are in order of time, and those from j to k are at most two for every death
\* among them and one for every coalescing window they span, and one more unless the
\* last of them is a death.
Spaced(r) ==
  \A k \in 1 .. Len(r) : \A j \in 1 .. k :
    /\ r[j].at <= r[k].at
    /\ k - j + 1 <= 2 * (DeathsIn(r, k) - DeathsIn(r, j - 1)) + (1 - IsDeath(r[k]))
                    + (r[k].at - r[j].at) \div (CoalesceWindow + 1)

\* Deaths that have left the ring.
Lost == Len(deaths) - DeathsIn(ring, Len(ring))

\* An entry is no older than the deaths that came before it, and nothing lies ahead.
EarlierDeaths ==
  /\ \A k \in 1 .. Len(ring) : \A i \in 1 .. Lost + DeathsIn(ring, k) : deaths[i] <= ring[k].at
  /\ \A k \in 1 .. Len(ring) : ring[k].at <= now
  /\ \A i \in 1 .. Len(deaths) : deaths[i] <= now

\* Only a full ring loses deaths.
LostIfFull == Lost >= 0 /\ (Lost > 0 => Len(ring) = RingSize)

BurstIInv == Spaced(ring) /\ EarlierDeaths /\ LostIfFull

\* The count of deaths: of no entries, of one more, of fewer.
LEMMA DeathsCounted ==
  ASSUME NEW r \in Seq(Entries)
  PROVE  /\ DeathsIn(r, 0) = 0
         /\ \A k \in 0 .. Len(r) : DeathsIn(r, k) \in Nat
         /\ \A k \in 1 .. Len(r) : DeathsIn(r, k) = DeathsIn(r, k - 1) + IsDeath(r[k])
<1> DEFINE D(k) == {i \in 1 .. k : r[i].event = "death"}
<1>1. \A k \in Nat : IsFiniteSet(D(k))
  <2> TAKE k \in Nat
  <2>1. IsFiniteSet(1 .. k)
    BY FS_Interval
  <2>2. D(k) \in SUBSET (1 .. k)
    OBVIOUS
  <2> QED BY <2>1, <2>2, FS_Subset
<1>2. \A k \in 0 .. Len(r) : DeathsIn(r, k) \in Nat
  BY <1>1, FS_CardinalityType DEF DeathsIn
<1>3. DeathsIn(r, 0) = 0
  <2>1. D(0) = {}
    OBVIOUS
  <2> QED BY <2>1, FS_EmptySet DEF DeathsIn
<1>4. ASSUME NEW k \in 1 .. Len(r)
      PROVE  DeathsIn(r, k) = DeathsIn(r, k - 1) + IsDeath(r[k])
  <2>1. IsFiniteSet(D(k - 1)) /\ k \notin D(k - 1) /\ Cardinality(D(k - 1)) \in Nat
    <3>1. k - 1 \in Nat /\ k - 1 \in 0 .. Len(r)
      OBVIOUS
    <3> QED BY <1>1, <1>2, <3>1 DEF DeathsIn
  <2>2. CASE r[k].event = "death"
    <3>1. D(k) = D(k - 1) \cup {k}
      BY <2>2
    <3>2. Cardinality(D(k)) = Cardinality(D(k - 1)) + 1
      BY <2>1, <3>1, FS_AddElement
    <3> QED BY <2>2, <3>2 DEF DeathsIn, IsDeath
  <2>3. CASE r[k].event # "death"
    <3>1. D(k) = D(k - 1)
      BY <2>3
    <3>2. DeathsIn(r, k) = DeathsIn(r, k - 1)
      BY <3>1, Zenon DEF DeathsIn
    <3>3. IsDeath(r[k]) = 0 /\ DeathsIn(r, k - 1) \in Nat
      BY <2>1, <2>3 DEF DeathsIn, IsDeath
    <3> QED BY <3>2, <3>3
  <2> QED BY <2>2, <2>3
<1> QED BY <1>2, <1>3, <1>4

\* Entries with the same beginning count the same deaths.
LEMMA DeathsAgree ==
  ASSUME NEW r \in Seq(Entries), NEW q \in Seq(Entries), NEW k \in Nat,
         \A i \in 1 .. k : r[i].event = q[i].event
  PROVE  DeathsIn(r, k) = DeathsIn(q, k)
<1>1. {i \in 1 .. k : r[i].event = "death"} = {i \in 1 .. k : q[i].event = "death"}
  OBVIOUS
<1> QED BY <1>1 DEF DeathsIn

\* Without its oldest entry a ring has lost that one from every count.
LEMMA DeathsOfTail ==
  ASSUME NEW r \in Seq(Entries), r # <<>>
  PROVE  \A k \in 0 .. Len(r) - 1 : DeathsIn(Tail(r), k) = DeathsIn(r, k + 1) - IsDeath(r[1])
<1> SUFFICES ASSUME NEW k \in 0 .. Len(r) - 1
             PROVE  DeathsIn(Tail(r), k) = DeathsIn(r, k + 1) - IsDeath(r[1])
  OBVIOUS
<1> DEFINE T == {i \in 1 .. k : Tail(r)[i].event = "death"}
           R == {i \in 2 .. k + 1 : r[i].event = "death"}
           D == {i \in 1 .. k + 1 : r[i].event = "death"}
           f == [i \in T |-> i + 1]
<1>1. \A i \in 1 .. k : Tail(r)[i] = r[i + 1]
  BY HeadTailProperties
<1>2. IsFiniteSet(T) /\ IsFiniteSet(R)
  <2>1. IsFiniteSet(1 .. k) /\ IsFiniteSet(2 .. k + 1)
    BY FS_Interval
  <2>2. T \in SUBSET (1 .. k) /\ R \in SUBSET (2 .. k + 1)
    OBVIOUS
  <2> QED BY <2>1, <2>2, FS_Subset
<1>3. ExistsBijection(T, R)
  <2>1. f \in [T -> R]
    BY <1>1
  <2>2. \A a, b \in T : f[a] = f[b] => a = b
    OBVIOUS
  <2>3. \A b \in R : \E a \in T : f[a] = b
    <3> TAKE b \in R
    <3>1. b - 1 \in T /\ b \in Nat
      BY <1>1
    <3>2. f[b - 1] = (b - 1) + 1
      BY <3>1
    <3>3. f[b - 1] = b
      BY <3>1, <3>2
    <3> QED BY <3>1, <3>3
  <2>4. f \in Bijection(T, R)
    <3> HIDE DEF f, T, R
    <3>1. IsInjective(f)
      BY <2>1, <2>2 DEF IsInjective
    <3> QED BY <2>1, <2>3, <3>1, Zenon DEF Bijection, Injection, Surjection
  <2> QED BY <2>4 DEF ExistsBijection
<1>4. Cardinality(R) = Cardinality(T) /\ Cardinality(T) \in Nat
  BY <1>2, <1>3, FS_Bijection, FS_CardinalityType
<1>4a. DeathsIn(Tail(r), k) = Cardinality(T)
  BY Zenon DEF DeathsIn
<1>5. CASE r[1].event = "death"
  <2>1. D = R \cup {1} /\ 1 \notin R
    BY <1>5
  <2>2. Cardinality(D) = Cardinality(R) + 1
    BY <1>2, <2>1, FS_AddElement
  <2>3. DeathsIn(r, k + 1) = Cardinality(R) + 1 /\ IsDeath(r[1]) = 1
    BY <1>5, <2>2 DEF DeathsIn, IsDeath
  <2> HIDE DEF R, T, D
  <2> QED BY <1>4, <1>4a, <2>3
<1>6. CASE r[1].event # "death"
  <2>1. D = R
    BY <1>6
  <2>2. DeathsIn(r, k + 1) = Cardinality(R) /\ IsDeath(r[1]) = 0
    BY <1>6, <2>1, Zenon DEF DeathsIn, IsDeath
  <2> HIDE DEF R, T, D
  <2> QED BY <1>4, <1>4a, <2>2
<1> QED BY <1>5, <1>6

\* Counting whole windows.
LEMMA WindowsGrow ==
  ASSUME NEW x \in Nat, NEW y \in Nat, x <= y
  PROVE  /\ x \div (CoalesceWindow + 1) \in Nat /\ y \div (CoalesceWindow + 1) \in Nat
         /\ x \div (CoalesceWindow + 1) <= y \div (CoalesceWindow + 1)
         /\ y - x > CoalesceWindow => x \div (CoalesceWindow + 1) + 1 <= y \div (CoalesceWindow + 1)
OBVIOUS

\* What is left of spaced entries is spaced.
LEMMA SpacedTail ==
  ASSUME NEW r \in Seq(Entries), r # <<>>, Spaced(r)
  PROVE  Spaced(Tail(r))
<1> DEFINE t == Tail(r)
<1>1. /\ t \in Seq(Entries) /\ Len(t) = Len(r) - 1 /\ Len(r) \in Nat
      /\ \A i \in 1 .. Len(t) : t[i] = r[i + 1]
  BY HeadTailProperties
<1> SUFFICES ASSUME NEW k \in 1 .. Len(t), NEW j \in 1 .. k
             PROVE  /\ t[j].at <= t[k].at
                    /\ k - j + 1 <= 2 * (DeathsIn(t, k) - DeathsIn(t, j - 1)) + (1 - IsDeath(t[k]))
                                    + (t[k].at - t[j].at) \div (CoalesceWindow + 1)
  BY DEF Spaced
<1>2. k + 1 \in 1 .. Len(r) /\ j + 1 \in 1 .. k + 1 /\ (j + 1) - 1 = j /\ (j - 1) + 1 = j
  BY <1>1
<1>3. /\ DeathsIn(t, k) = DeathsIn(r, k + 1) - IsDeath(r[1])
      /\ DeathsIn(t, j - 1) = DeathsIn(r, j) - IsDeath(r[1])
  <2>1. k \in 0 .. Len(r) - 1 /\ j - 1 \in 0 .. Len(r) - 1
    BY <1>1
  <2> QED BY <1>2, <2>1, DeathsOfTail
<1>4. t[k] = r[k + 1] /\ t[j] = r[j + 1]
  BY <1>1
<1>5. /\ DeathsIn(r, k + 1) \in Nat /\ DeathsIn(r, j) \in Nat /\ IsDeath(r[1]) \in Nat
  <2>1. j \in 0 .. Len(r) /\ k + 1 \in 0 .. Len(r)
    BY <1>1
  <2> QED BY <2>1, DeathsCounted DEF IsDeath
<1>6. /\ r[j + 1].at <= r[k + 1].at
      /\ (k + 1) - (j + 1) + 1 <= 2 * (DeathsIn(r, k + 1) - DeathsIn(r, j)) + (1 - IsDeath(r[k + 1]))
                    + (r[k + 1].at - r[j + 1].at) \div (CoalesceWindow + 1)
  BY <1>2 DEF Spaced
<1>7. DeathsIn(t, k) - DeathsIn(t, j - 1) = DeathsIn(r, k + 1) - DeathsIn(r, j)
  BY <1>3, <1>5
<1>8. (k + 1) - (j + 1) + 1 = k - j + 1
  OBVIOUS
<1> QED BY <1>4, <1>6, <1>7, <1>8

\* A newer entry keeps entries spaced, damage after damage if it is a window later.
LEMMA SpacedAppend ==
  ASSUME NEW r \in Seq(Entries), Spaced(r), NEW e \in Entries,
         r # <<>> => r[Len(r)].at <= e.at,
         r # <<>> /\ r[Len(r)].event = "damage" /\ e.event = "damage"
           => e.at - r[Len(r)].at > CoalesceWindow
  PROVE  Spaced(Append(r, e))
<1> DEFINE n == Len(r)
           q == Append(r, e)
<1>1. /\ n \in Nat /\ q \in Seq(Entries) /\ Len(q) = n + 1 /\ q[n + 1] = e
      /\ \A i \in 1 .. n : q[i] = r[i]
  BY AppendProperties
<1>2. \A k \in 0 .. n : DeathsIn(q, k) = DeathsIn(r, k) /\ DeathsIn(r, k) \in Nat
  <2> TAKE k \in 0 .. n
  <2>1. \A i \in 1 .. k : r[i].event = q[i].event
    BY <1>1
  <2>2. k \in Nat
    BY <1>1
  <2> HIDE DEF q
  <2>3. DeathsIn(r, k) = DeathsIn(q, k)
    BY <1>1, <2>1, <2>2, DeathsAgree
  <2> QED BY <2>3, DeathsCounted
<1>3. DeathsIn(q, n + 1) = DeathsIn(r, n) + IsDeath(e)
  <2>1. n + 1 \in 1 .. Len(q) /\ (n + 1) - 1 = n /\ n \in 0 .. n
    BY <1>1
  <2>2. DeathsIn(q, n + 1) = DeathsIn(q, n) + IsDeath(q[n + 1])
    BY <1>1, <2>1, DeathsCounted
  <2> QED BY <1>1, <1>2, <2>1, <2>2
<1> SUFFICES ASSUME NEW k \in 1 .. n + 1, NEW j \in 1 .. k
             PROVE  /\ q[j].at <= q[k].at
                    /\ k - j + 1 <= 2 * (DeathsIn(q, k) - DeathsIn(q, j - 1)) + (1 - IsDeath(q[k]))
                                    + (q[k].at - q[j].at) \div (CoalesceWindow + 1)
  BY <1>1 DEF Spaced
<1> HIDE DEF n, q
<1>4. CASE k <= n
  <2>1. k \in 1 .. Len(r) /\ k \in 0 .. n /\ j - 1 \in 0 .. n /\ j \in 1 .. n
    BY <1>1, <1>4 DEF n
  <2>2. /\ q[k] = r[k] /\ q[j] = r[j]
        /\ DeathsIn(q, k) = DeathsIn(r, k) /\ DeathsIn(q, j - 1) = DeathsIn(r, j - 1)
    BY <1>1, <1>2, <2>1
  <2> QED BY <2>1, <2>2 DEF Spaced
<1>5. CASE k = n + 1 /\ j = n + 1
  <2>1. q[k] = e /\ q[j] = e /\ j - 1 = n /\ k - j + 1 = 1
    BY <1>1, <1>5
  <2>2. e.at \in Nat
    BY DEF Entries
  <2>3. e.at - e.at = 0 /\ e.at <= e.at
    BY <2>2
  <2>4. 0 \div (CoalesceWindow + 1) = 0
    OBVIOUS
  <2>5. IsDeath(e) \in {0, 1}
    BY DEF IsDeath
  <2>6. n \in 0 .. n
    BY <1>1
  <2>7. DeathsIn(q, j - 1) = DeathsIn(r, n) /\ DeathsIn(r, n) \in Nat
    BY <1>2, <2>1, <2>6
  <2>8. DeathsIn(q, k) - DeathsIn(q, j - 1) = IsDeath(e)
    BY <1>3, <1>5, <2>5, <2>7
  <2>9. (q[k].at - q[j].at) \div (CoalesceWindow + 1) = 0
    BY <2>1, <2>3, <2>4
  <2>10. 1 <= 2 * IsDeath(e) + (1 - IsDeath(e)) + 0
    BY <2>5
  <2> QED BY <2>1, <2>3, <2>8, <2>9, <2>10
<1>6. CASE k = n + 1 /\ j <= n
  <2> DEFINE last == r[n]
             T == (last.at - r[j].at) \div (CoalesceWindow + 1)
             U == (e.at - r[j].at) \div (CoalesceWindow + 1)
  <2>1. n \in 1 .. Len(r) /\ j \in 1 .. n /\ n \in 0 .. n /\ j - 1 \in 0 .. n /\ r # <<>>
    BY <1>1, <1>6 DEF n
  <2>2. /\ last \in Entries /\ r[j] \in Entries
        /\ q[k] = e /\ q[j] = r[j]
        /\ DeathsIn(q, k) = DeathsIn(r, n) + IsDeath(e) /\ DeathsIn(q, j - 1) = DeathsIn(r, j - 1)
    <3>1. j \in 1 .. Len(r)
      BY <2>1 DEF n
    <3> QED BY <1>1, <1>2, <1>3, <1>6, <2>1, <3>1
  <2>3. /\ r[j].at <= last.at
        /\ n - j + 1 <= 2 * (DeathsIn(r, n) - DeathsIn(r, j - 1)) + (1 - IsDeath(last)) + T
    BY <2>1 DEF Spaced
  <2>4. /\ e.at \in Nat /\ last.at \in Nat /\ r[j].at \in Nat /\ last.at <= e.at
        /\ e.event \in {"death", "damage"} /\ last.event \in {"death", "damage"}
    BY <2>1, <2>2 DEF Entries, n
  <2>5. /\ T \in Nat /\ U \in Nat /\ T <= U
        /\ last.event = "damage" /\ e.event = "damage" => T + 1 <= U
    <3> DEFINE x == last.at - r[j].at
               y == e.at - r[j].at
    <3>1. r[j].at <= last.at
      BY <2>3
    <3>2. x \in Nat /\ y \in Nat /\ x <= y /\ y - x = e.at - last.at
      BY <2>4, <3>1
    <3>3. last.event = "damage" /\ e.event = "damage" => y - x > CoalesceWindow
      <4>1. r[Len(r)] = last
        BY DEF n
      <4> QED BY <2>1, <3>2, <4>1
    <3>4. /\ T = x \div (CoalesceWindow + 1)
          /\ U = y \div (CoalesceWindow + 1)
      OBVIOUS
    <3> HIDE DEF x, y, T, U
    <3>5. /\ x \div (CoalesceWindow + 1) \in Nat /\ y \div (CoalesceWindow + 1) \in Nat
          /\ x \div (CoalesceWindow + 1) <= y \div (CoalesceWindow + 1)
          /\ y - x > CoalesceWindow => x \div (CoalesceWindow + 1) + 1 <= y \div (CoalesceWindow + 1)
      <4>1. x \in Nat /\ y \in Nat /\ x <= y
        BY <3>2
      <4> QED BY <4>1, WindowsGrow, Zenon
    <3> QED BY <3>3, <3>4, <3>5
  <2>6. DeathsIn(r, n) \in Nat /\ DeathsIn(r, j - 1) \in Nat
    BY <1>2, <2>1
  <2>7. /\ (IsDeath(last) = 0 /\ last.event = "damage") \/ IsDeath(last) = 1
        /\ (IsDeath(e) = 0 /\ e.event = "damage") \/ IsDeath(e) = 1
    BY <2>4 DEF IsDeath
  <2> HIDE DEF last, T, U
  <2>8. n + 1 - j + 1 <= 2 * ((DeathsIn(r, n) + IsDeath(e)) - DeathsIn(r, j - 1)) + (1 - IsDeath(e)) + U
    <3> DEFINE d == DeathsIn(r, n)
               c == DeathsIn(r, j - 1)
    <3>1. n - j + 1 <= 2 * (d - c) + (1 - IsDeath(last)) + T
      BY <2>3
    <3>2. n \in Nat /\ j \in Nat /\ d \in Nat /\ c \in Nat /\ T \in Nat /\ U \in Nat /\ T <= U
      BY <1>1, <2>1, <2>5, <2>6
    <3> HIDE DEF d, c
    <3>3. CASE IsDeath(e) = 1
      <4>1. IsDeath(last) \in {0, 1}
        BY <2>7
      <4>2. n + 1 - j + 1 <= 2 * ((d + 1) - c) + (1 - 1) + U
        BY <3>1, <3>2, <4>1
      <4> QED BY <3>3, <4>2 DEF d, c
    <3>4. CASE IsDeath(e) = 0 /\ IsDeath(last) = 1
      <4>1. n + 1 - j + 1 <= 2 * ((d + 0) - c) + (1 - 0) + U
        BY <3>1, <3>2, <3>4
      <4> QED BY <3>4, <4>1 DEF d, c
    <3>5. CASE IsDeath(e) = 0 /\ IsDeath(last) = 0
      <4>1. T + 1 <= U
        BY <2>5, <2>7, <3>5
      <4>2. n + 1 - j + 1 <= 2 * ((d + 0) - c) + (1 - 0) + U
        BY <3>1, <3>2, <3>5, <4>1
      <4> QED BY <3>5, <4>2 DEF d, c
    <3> QED BY <2>7, <3>3, <3>4, <3>5
  <2>9. r[j].at <= e.at
    BY <2>3, <2>4
  <2>10. q[j].at <= q[k].at
    BY <2>2, <2>9
  <2>11. (q[k].at - q[j].at) \div (CoalesceWindow + 1) = U
    BY <2>2 DEF U
  <2>12. k - j + 1 = n + 1 - j + 1
    BY <1>1, <1>6, <2>1
  <2>13. IsDeath(q[k]) = IsDeath(e)
    BY <2>2
  <2>14. DeathsIn(q, k) - DeathsIn(q, j - 1) = (DeathsIn(r, n) + IsDeath(e)) - DeathsIn(r, j - 1)
    <3>1. DeathsIn(q, k) = DeathsIn(r, n) + IsDeath(e)
      BY <2>2
    <3>2. DeathsIn(q, j - 1) = DeathsIn(r, j - 1)
      BY <2>2
    <3> QED BY <3>1, <3>2, Zenon
  <2> QED BY <2>8, <2>10, <2>11, <2>12, <2>13, <2>14
<1> QED BY <1>1, <1>4, <1>5, <1>6

\* Damage that is merged makes the newest entry later, no more.
LEMMA SpacedMerge ==
  ASSUME NEW r \in Seq(Entries), Spaced(r), r # <<>>, NEW e \in Entries,
         r[Len(r)].event = e.event, r[Len(r)].at <= e.at
  PROVE  Spaced([r EXCEPT ![Len(r)] = e])
<1> DEFINE n == Len(r)
           q == [r EXCEPT ![Len(r)] = e]
<1>1. /\ n \in Nat \ {0} /\ q \in Seq(Entries) /\ Len(q) = n /\ q[n] = e
      /\ \A i \in 1 .. n : i # n => q[i] = r[i]
      /\ \A i \in 1 .. n : r[i] \in Entries
  OBVIOUS
<1>2. \A k \in 0 .. n : DeathsIn(q, k) = DeathsIn(r, k)
  <2> TAKE k \in 0 .. n
  <2>1. \A i \in 1 .. k : r[i].event = q[i].event
    BY <1>1
  <2>2. k \in Nat
    BY <1>1
  <2> HIDE DEF q
  <2> QED BY <1>1, <2>1, <2>2, DeathsAgree
<1> SUFFICES ASSUME NEW k \in 1 .. n, NEW j \in 1 .. k
             PROVE  /\ q[j].at <= q[k].at
                    /\ k - j + 1 <= 2 * (DeathsIn(q, k) - DeathsIn(q, j - 1)) + (1 - IsDeath(q[k]))
                                    + (q[k].at - q[j].at) \div (CoalesceWindow + 1)
  BY <1>1 DEF Spaced
<1>3. /\ r[j].at <= r[k].at
      /\ k - j + 1 <= 2 * (DeathsIn(r, k) - DeathsIn(r, j - 1)) + (1 - IsDeath(r[k]))
                      + (r[k].at - r[j].at) \div (CoalesceWindow + 1)
  BY DEF Spaced
<1>4. j - 1 \in 0 .. n /\ k \in 0 .. n /\ j \in 1 .. n
  BY <1>1
<1>5. DeathsIn(q, k) = DeathsIn(r, k) /\ DeathsIn(q, j - 1) = DeathsIn(r, j - 1)
  BY <1>2, <1>4
<1>6. DeathsIn(r, k) \in Nat /\ DeathsIn(r, j - 1) \in Nat
  BY <1>4, DeathsCounted
<1>7. IsDeath(q[k]) = IsDeath(r[k]) /\ IsDeath(r[k]) \in {0, 1}
  BY <1>1 DEF IsDeath, n
<1>8. /\ e.at \in Nat /\ r[j].at \in Nat /\ r[k].at \in Nat /\ r[n].at <= e.at
  <2>1. r[j] \in Entries /\ r[k] \in Entries
    BY <1>1, <1>4
  <2>2. \A x \in Entries : x.at \in Nat
    BY DEF Entries
  <2> QED BY <2>1, <2>2
<1> HIDE DEF n, q
<1>9. CASE k # n
  <2>1. q[k] = r[k] /\ q[j] = r[j]
    BY <1>1, <1>4, <1>9
  <2> QED BY <1>3, <1>5, <2>1
<1>10. CASE k = n /\ j # n
  <2>1. q[k] = e /\ q[j] = r[j]
    BY <1>1, <1>4, <1>10
  <2>2. /\ e.at - r[j].at \in Nat /\ r[k].at - r[j].at \in Nat
        /\ r[k].at - r[j].at <= e.at - r[j].at /\ r[j].at <= e.at
    BY <1>3, <1>8, <1>10
  <2> DEFINE T == (r[k].at - r[j].at) \div (CoalesceWindow + 1)
             U == (e.at - r[j].at) \div (CoalesceWindow + 1)
  <2>3. T \in Nat /\ U \in Nat /\ T <= U
    BY <2>2, WindowsGrow
  <2>4. k - j + 1 <= 2 * (DeathsIn(r, k) - DeathsIn(r, j - 1)) + (1 - IsDeath(r[k])) + T
    BY <1>3
  <2> HIDE DEF T, U
  <2>5. k - j + 1 <= 2 * (DeathsIn(r, k) - DeathsIn(r, j - 1)) + (1 - IsDeath(r[k])) + U
    BY <1>1, <1>6, <1>7, <2>3, <2>4
  <2> QED BY <1>5, <1>7, <2>1, <2>2, <2>5 DEF U
<1>11. CASE k = n /\ j = n
  <2>1. (e.at - e.at) \div (CoalesceWindow + 1) = (r[k].at - r[j].at) \div (CoalesceWindow + 1)
    BY <1>8, <1>11
  <2>2. q[k] = e /\ q[j] = e
    BY <1>1, <1>11
  <2>3. e.at <= e.at
    BY <1>8
  <2> QED BY <1>3, <1>5, <1>7, <2>1, <2>2, <2>3
<1> QED BY <1>9, <1>10, <1>11

\* Room for one more entry: a full ring gives up its oldest.
Trimmed == IF Len(ring) < RingSize THEN ring ELSE Tail(ring)
LostThen == Len(deaths) - DeathsIn(Trimmed, Len(Trimmed))

LEMMA TrimKeeps ==
  ASSUME TypeOK, BurstIInv
  PROVE  /\ Trimmed \in Seq(Entries) /\ Spaced(Trimmed) /\ Len(Trimmed) < RingSize
         /\ Trimmed # <<>> => ring # <<>> /\ Trimmed[Len(Trimmed)] = ring[Len(ring)]
         /\ \A k \in 1 .. Len(Trimmed) : \A i \in 1 .. LostThen + DeathsIn(Trimmed, k) :
              deaths[i] <= Trimmed[k].at
         /\ \A k \in 1 .. Len(Trimmed) : Trimmed[k].at <= now
         /\ LostThen >= 0 /\ (LostThen > 0 => Len(Trimmed) + 1 = RingSize)
<1>1. /\ ring \in Seq(Entries) /\ Len(ring) \in Nat /\ Len(ring) <= RingSize
      /\ Len(deaths) \in Nat /\ RingSize \in Nat \ {0}
  BY DEF TypeOK
<1>2. DeathsIn(ring, Len(ring)) \in Nat
  <2>1. Len(ring) \in 0 .. Len(ring)
    BY <1>1
  <2> QED BY <1>1, <2>1, DeathsCounted
<1>3. CASE Len(ring) < RingSize
  <2>1. Trimmed = ring
    BY <1>3 DEF Trimmed
  <2>2. LostThen = Lost
    BY <2>1 DEF LostThen, Lost
  <2>3. Lost >= 0 /\ ~ (Lost > 0)
    BY <1>1, <1>3 DEF BurstIInv, LostIfFull
  <2> QED BY <1>1, <1>3, <2>1, <2>2, <2>3 DEF BurstIInv, EarlierDeaths
<1>4. CASE ~ Len(ring) < RingSize
  <2> DEFINE t == Tail(ring)
             n == Len(ring)
  <2>1. Trimmed = t /\ n = RingSize /\ ring # <<>> /\ n \in Nat \ {0}
    BY <1>1, <1>4 DEF Trimmed
  <2>2. /\ t \in Seq(Entries) /\ Len(t) = n - 1
        /\ \A i \in 1 .. Len(t) : t[i] = ring[i + 1]
    BY <1>1, <2>1, HeadTailProperties
  <2>3. \A k \in 0 .. n - 1 : DeathsIn(t, k) = DeathsIn(ring, k + 1) - IsDeath(ring[1])
    BY <1>1, <2>1, DeathsOfTail
  <2>4. IsDeath(ring[1]) \in {0, 1}
    BY DEF IsDeath
  <2>5. LostThen = Lost + IsDeath(ring[1])
    <3>1. n - 1 \in 0 .. n - 1 /\ (n - 1) + 1 = n
      BY <2>1
    <3>2. DeathsIn(t, n - 1) = DeathsIn(ring, n) - IsDeath(ring[1])
      BY <2>3, <3>1
    <3>3. LostThen = Len(deaths) - DeathsIn(t, n - 1)
      BY <2>1, <2>2 DEF LostThen
    <3> QED BY <1>1, <1>2, <2>4, <3>2, <3>3 DEF Lost
  <2>6. Lost \in Nat
    BY <1>1, <1>2 DEF Lost, BurstIInv, LostIfFull
  <2>7. ASSUME NEW k \in 1 .. Len(t)
        PROVE  /\ t[k].at <= now
               /\ \A i \in 1 .. LostThen + DeathsIn(t, k) : deaths[i] <= t[k].at
    <3>1. k + 1 \in 1 .. n /\ k \in 0 .. n - 1 /\ k + 1 \in 0 .. n /\ t[k] = ring[k + 1]
      BY <2>1, <2>2
    <3>2. DeathsIn(ring, k + 1) \in Nat
      BY <1>1, <3>1, DeathsCounted
    <3>3. DeathsIn(t, k) = DeathsIn(ring, k + 1) - IsDeath(ring[1])
      BY <2>3, <3>1
    <3>4. LostThen + DeathsIn(t, k) = Lost + DeathsIn(ring, k + 1)
      BY <2>4, <2>5, <2>6, <3>2, <3>3
    <3> QED BY <3>1, <3>4 DEF BurstIInv, EarlierDeaths
  <2>8. Spaced(t)
    BY <1>1, <2>1, SpacedTail DEF BurstIInv
  <2>9. t # <<>> => t[Len(t)] = ring[n]
    <3>1. t # <<>> => Len(t) \in 1 .. Len(t) /\ Len(t) + 1 = n
      BY <2>1, <2>2
    <3> QED BY <2>2, <3>1
  <2>10. LostThen >= 0 /\ Len(t) + 1 = RingSize /\ Len(t) < RingSize
    BY <2>1, <2>2, <2>4, <2>5, <2>6
  <2> QED BY <2>1, <2>2, <2>7, <2>8, <2>9, <2>10
<1> QED BY <1>3, <1>4

\* An entry is pushed: of a death, or of damage that follows no damage or comes late.
LEMMA PushKeepsDeaths ==
  ASSUME TypeOK, BurstIInv, NEW e \in Entries, e.at = now,
         ring # <<>> /\ ring[Len(ring)].event = "damage" /\ e.event = "damage"
           => now - ring[Len(ring)].at > CoalesceWindow,
         ring' = Pushed(ring, e), now' = now,
         deaths' = IF e.event = "death" THEN Append(deaths, now) ELSE deaths
  PROVE  BurstIInv'
<1> DEFINE t == Trimmed
           n == Len(Trimmed)
           q == Append(Trimmed, e)
<1>1. /\ t \in Seq(Entries) /\ Spaced(t) /\ n < RingSize /\ n \in Nat
      /\ t # <<>> => ring # <<>> /\ t[n] = ring[Len(ring)]
      /\ \A k \in 1 .. n : \A i \in 1 .. LostThen + DeathsIn(t, k) : deaths[i] <= t[k].at
      /\ \A k \in 1 .. n : t[k].at <= now
      /\ LostThen >= 0 /\ (LostThen > 0 => n + 1 = RingSize)
  BY TrimKeeps
<1>2. ring' = q
  BY DEF Pushed, Trimmed
<1>3. /\ now \in Nat /\ deaths \in Seq(0 .. MaxTime) /\ Len(deaths) \in Nat
      /\ \A i \in 1 .. Len(deaths) : deaths[i] \in Nat /\ deaths[i] <= now
  BY DEF TypeOK, BurstIInv, EarlierDeaths
<1>4. /\ q \in Seq(Entries) /\ Len(q) = n + 1 /\ q[n + 1] = e
      /\ \A i \in 1 .. n : q[i] = t[i]
  BY <1>1, AppendProperties
<1>5. /\ \A k \in 0 .. n : DeathsIn(q, k) = DeathsIn(t, k) /\ DeathsIn(t, k) \in Nat
      /\ DeathsIn(q, n + 1) = DeathsIn(t, n) + IsDeath(e)
  <2>1. ASSUME NEW k \in 0 .. n PROVE DeathsIn(q, k) = DeathsIn(t, k) /\ DeathsIn(t, k) \in Nat
    <3>1. \A i \in 1 .. k : t[i].event = q[i].event
      BY <1>1, <1>4
    <3>2. k \in Nat
      BY <1>1
    <3> HIDE DEF q, t
    <3>3. DeathsIn(t, k) = DeathsIn(q, k)
      BY <1>1, <1>4, <3>1, <3>2, DeathsAgree
    <3>4. k \in 0 .. Len(t)
      BY DEF t
    <3> QED BY <1>1, <3>3, <3>4, DeathsCounted
  <2>2. n + 1 \in 1 .. Len(q) /\ (n + 1) - 1 = n /\ n \in 0 .. n
    BY <1>1, <1>4
  <2> HIDE DEF q, t, n
  <2>3. DeathsIn(q, n + 1) = DeathsIn(q, (n + 1) - 1) + IsDeath(q[n + 1])
    BY <1>4, <2>2, DeathsCounted
  <2>4. DeathsIn(q, n + 1) = DeathsIn(t, n) + IsDeath(e)
    BY <1>4, <2>1, <2>2, <2>3
  <2> QED BY <2>1, <2>4
<1>6. Spaced(q)
  <2>1. t # <<>> => t[Len(t)].at <= e.at
    <3>1. t # <<>> => n \in 1 .. n
      BY <1>1
    <3> QED BY <1>1, <3>1
  <2>2. t # <<>> /\ t[Len(t)].event = "damage" /\ e.event = "damage"
          => e.at - t[Len(t)].at > CoalesceWindow
    BY <1>1
  <2> HIDE DEF t
  <2>3. Spaced(Append(t, e))
    BY <1>1, <2>1, <2>2, SpacedAppend
  <2> QED BY <2>3 DEF t
<1>7. /\ Len(deaths') = Len(deaths) + IsDeath(e) /\ IsDeath(e) \in {0, 1}
      /\ \A i \in 1 .. Len(deaths') : deaths'[i] <= now
      /\ \A i \in 1 .. Len(deaths) : deaths'[i] = deaths[i]
  <2>1. CASE e.event = "death"
    <3>1. deaths' = Append(deaths, now) /\ IsDeath(e) = 1
      BY <2>1 DEF IsDeath
    <3> QED BY <1>3, <3>1
  <2>2. CASE e.event # "death"
    <3>1. deaths' = deaths /\ IsDeath(e) = 0
      BY <2>2 DEF IsDeath
    <3> QED BY <1>3, <3>1
  <2> QED BY <2>1, <2>2
<1>8. n \in 0 .. n
  BY <1>1
<1>9. Lost' = LostThen
  <2>1. Lost' = Len(deaths') - DeathsIn(q, n + 1)
    BY <1>2, <1>4 DEF Lost, DeathsIn
  <2>2. LostThen = Len(deaths) - DeathsIn(t, n)
    BY DEF LostThen
  <2>3. DeathsIn(q, n + 1) = DeathsIn(t, n) + IsDeath(e) /\ DeathsIn(t, n) \in Nat
    BY <1>5, <1>8
  <2> HIDE DEF q, t, n
  <2> QED BY <1>3, <1>7, <2>1, <2>2, <2>3
<1>10. EarlierDeaths'
  <2>1. ASSUME NEW k \in 1 .. Len(q)
        PROVE  /\ q[k].at <= now
               /\ \A i \in 1 .. LostThen + DeathsIn(q, k) : deaths'[i] <= q[k].at
    <3>1. CASE k \in 1 .. n
      <4>1. k \in 0 .. n /\ q[k] = t[k]
        BY <1>1, <1>4, <3>1
      <4>2. DeathsIn(q, k) = DeathsIn(t, k) /\ DeathsIn(t, k) <= DeathsIn(t, n)
        <5>1. t \in Seq(Entries) /\ DeathsIn(t, k) <= DeathsIn(t, n)
          <6>1. IsFiniteSet({i \in 1 .. n : t[i].event = "death"})
            <7>1. IsFiniteSet(1 .. n)
              BY <1>1, FS_Interval
            <7> QED BY <7>1, FS_Subset
          <6>2. {i \in 1 .. k : t[i].event = "death"} \in SUBSET {i \in 1 .. n : t[i].event = "death"}
            BY <1>1, <3>1
          <6> QED BY <1>1, <6>1, <6>2, FS_Subset DEF DeathsIn
        <5> QED BY <1>5, <4>1, <5>1
      <4>3. LostThen = Len(deaths) - DeathsIn(t, n) /\ DeathsIn(t, n) \in Nat /\ DeathsIn(t, k) \in Nat
        BY <1>5, <1>8, <4>1 DEF LostThen
      <4>4. 1 .. LostThen + DeathsIn(q, k) \subseteq 1 .. Len(deaths)
        <5> HIDE DEF q, t, n
        <5> QED BY <1>3, <4>2, <4>3
      <4> QED BY <1>1, <1>7, <3>1, <4>1, <4>2, <4>4
    <3>2. CASE k = n + 1
      <4>1. q[k].at = now
        BY <1>4, <3>2
      <4>2. LostThen + DeathsIn(q, k) = Len(deaths')
        <5>1. LostThen = Len(deaths) - DeathsIn(t, n) /\ DeathsIn(t, n) \in Nat
          BY <1>5, <1>8 DEF LostThen
        <5>2. DeathsIn(q, k) = DeathsIn(t, n) + IsDeath(e)
          BY <1>5, <3>2
        <5> HIDE DEF q, t, n
        <5> QED BY <1>3, <1>7, <5>1, <5>2
      <4> QED BY <1>3, <1>7, <4>1, <4>2
    <3>3. k \in 1 .. n \/ k = n + 1
      <4> HIDE DEF q, n
      <4> QED BY <1>1, <1>4
    <3> QED BY <3>1, <3>2, <3>3
  <2>2. \A k \in 1 .. Len(q) : DeathsIn(ring, k)' = DeathsIn(q, k)
    BY <1>2 DEF DeathsIn
  <2> HIDE DEF q, t, n
  <2> QED BY <1>2, <1>7, <1>9, <2>1, <2>2 DEF EarlierDeaths
<1>11. LostIfFull'
  BY <1>1, <1>2, <1>4, <1>9 DEF LostIfFull
<1>12. Spaced(ring)'
  BY <1>2, <1>6 DEF Spaced, DeathsIn
<1> QED BY <1>10, <1>11, <1>12 DEF BurstIInv

\* Merged damage takes no death out and comes at the end.
LEMMA MergeKeepsDeaths ==
  ASSUME TypeOK, BurstIInv, NEW v \in Victims, Coalesces(v),
         ring' = Merged(v), now' = now, deaths' = deaths
  PROVE  BurstIInv'
<1> DEFINE n == Len(ring)
           last == ring[Len(ring)]
           e == Entry("damage", v, last.count + 1, last.hit \cup {v})
           q == [ring EXCEPT ![Len(ring)] = e]
<1>1. /\ ring # <<>> /\ last.event = "damage" /\ ring \in Seq(Entries) /\ n \in Nat \ {0}
      /\ n <= RingSize
  BY DEF Coalesces, TypeOK
<1>2. e \in Entries /\ e.event = "damage" /\ e.at = now
  <2>1. last \in Entries
    BY <1>1
  <2>2. last.count + 1 \in Nat \ {0} /\ last.hit \cup {v} \in SUBSET Victims
    BY <2>1 DEF Entries
  <2> QED BY <2>2, EntryFits DEF Entry
<1>3. ring' = q
  BY DEF Merged
<1>4. /\ q \in Seq(Entries) /\ Len(q) = n /\ q[n] = e
      /\ \A i \in 1 .. n : i # n => q[i] = ring[i]
  <2> HIDE DEF e, last
  <2> QED BY <1>1, <1>2
<1>5. last.at <= now /\ now \in Nat
  BY <1>1 DEF BurstIInv, EarlierDeaths, TypeOK
<1>6. Spaced(q)
  BY <1>1, <1>2, <1>5, SpacedMerge DEF BurstIInv
<1>7. \A k \in 0 .. n : DeathsIn(q, k) = DeathsIn(ring, k)
  <2> TAKE k \in 0 .. n
  <2>1. \A i \in 1 .. k : q[i].event = ring[i].event
    <3> HIDE DEF q, e
    <3> TAKE i \in 1 .. k
    <3>1. i \in 1 .. n
      BY <1>1
    <3> QED BY <1>1, <1>2, <1>4, <3>1
  <2>2. k \in Nat
    BY <1>1
  <2> HIDE DEF q
  <2> QED BY <1>1, <1>4, <2>1, <2>2, DeathsAgree
<1> HIDE DEF q, e, last
<1>8. Lost' = Lost
  <2>1. Lost' = Len(deaths) - DeathsIn(q, n)
    BY <1>3, <1>4 DEF Lost, DeathsIn
  <2>2. n \in 0 .. n
    BY <1>1
  <2> QED BY <1>7, <2>1, <2>2 DEF Lost
<1>9. /\ Lost + DeathsIn(ring, n) = Len(deaths) /\ Lost \in Nat /\ Len(deaths) \in Nat
      /\ \A k \in 1 .. n : DeathsIn(ring, k) \in Nat
      /\ \A k \in 1 .. n : k # n => \A i \in 1 .. Lost + DeathsIn(ring, k) : deaths[i] <= ring[k].at
      /\ \A k \in 1 .. n : ring[k].at <= now
      /\ \A i \in 1 .. Len(deaths) : deaths[i] <= now
  <2>1. Len(deaths) \in Nat /\ n \in 0 .. n
    BY <1>1 DEF TypeOK
  <2>2. \A k \in 0 .. n : DeathsIn(ring, k) \in Nat
    BY <1>1, DeathsCounted
  <2> HIDE DEF n
  <2>3. \A k \in 1 .. n : DeathsIn(ring, k) \in Nat
    BY <1>1, <2>2
  <2>4. Lost = Len(deaths) - DeathsIn(ring, n) /\ Lost >= 0
    BY DEF Lost, n, BurstIInv, LostIfFull
  <2>5. Lost + DeathsIn(ring, n) = Len(deaths) /\ Lost \in Nat
    BY <2>1, <2>2, <2>4
  <2> QED BY <2>1, <2>3, <2>5 DEF BurstIInv, EarlierDeaths, n
<1>10. EarlierDeaths'
  <2>1. ASSUME NEW k \in 1 .. n
        PROVE  /\ q[k].at <= now
               /\ \A i \in 1 .. Lost + DeathsIn(q, k) : deaths[i] <= q[k].at
    <3>1. k \in 0 .. n /\ DeathsIn(q, k) = DeathsIn(ring, k)
      BY <1>1, <1>7
    <3>2. CASE k = n
      <4>1. q[k].at = now /\ Lost + DeathsIn(q, k) = Len(deaths)
        BY <1>2, <1>4, <1>9, <3>1, <3>2
      <4> QED BY <1>5, <1>9, <4>1
    <3>3. CASE k # n
      <4>1. q[k] = ring[k]
        BY <1>4, <3>3
      <4> QED BY <1>9, <3>1, <3>3, <4>1
    <3> QED BY <3>2, <3>3
  <2>2. \A k \in 1 .. n : DeathsIn(ring, k)' = DeathsIn(q, k)
    BY <1>3 DEF DeathsIn
  <2> HIDE DEF n
  <2> QED BY <1>3, <1>4, <1>8, <1>9, <2>1, <2>2 DEF EarlierDeaths
<1>11. LostIfFull'
  BY <1>3, <1>4, <1>8 DEF LostIfFull, BurstIInv
<1>12. Spaced(ring)'
  BY <1>3, <1>6 DEF Spaced, DeathsIn
<1> QED BY <1>10, <1>11, <1>12 DEF BurstIInv

LEMMA BurstStarts == Init => BurstIInv
<1> SUFFICES ASSUME Init PROVE BurstIInv
  OBVIOUS
<1>1. ring = <<>> /\ deaths = <<>> /\ now = 0
  BY DEF Init
<1>2. DeathsIn(ring, 0) = 0
  <2>1. {i \in 1 .. 0 : ring[i].event = "death"} = {}
    OBVIOUS
  <2> QED BY <2>1, FS_EmptySet DEF DeathsIn
<1>3. Lost = 0
  BY <1>1, <1>2 DEF Lost
<1> QED BY <1>1, <1>3 DEF BurstIInv, Spaced, EarlierDeaths, LostIfFull

LEMMA BurstKeeps == TypeOK /\ BurstIInv /\ [Next]_vars => BurstIInv'
<1> SUFFICES ASSUME TypeOK, BurstIInv, [Next]_vars PROVE BurstIInv'
  OBVIOUS
<1>1. ASSUME NEW v \in Victims, Death(v) PROVE BurstIInv'
  <2> DEFINE e == Entry("death", v, 1, {v})
  <2>1. e \in Entries /\ e.event = "death" /\ e.at = now
    BY EntryFits DEF Entry
  <2>2. ring' = Pushed(ring, e) /\ now' = now /\ deaths' = Append(deaths, now)
    BY <1>1 DEF Death
  <2> HIDE DEF e
  <2> QED BY <2>1, <2>2, PushKeepsDeaths
<1>2. ASSUME NEW v \in Victims, DamageTaken(v), Coalesces(v) PROVE BurstIInv'
  BY <1>2, MergeKeepsDeaths DEF DamageTaken
<1>3. ASSUME NEW v \in Victims, DamageTaken(v), ~ Coalesces(v) PROVE BurstIInv'
  <2> DEFINE e == Entry("damage", v, 1, {v})
  <2>1. e \in Entries /\ e.event = "damage" /\ e.at = now
    BY EntryFits DEF Entry
  <2>2. ring' = Pushed(ring, e) /\ now' = now /\ deaths' = deaths
    BY <1>3 DEF DamageTaken
  <2>3. ring # <<>> /\ ring[Len(ring)].event = "damage" => now - ring[Len(ring)].at > CoalesceWindow
    <3>1. ring # <<>> => ring[Len(ring)] \in Entries
      BY DEF TypeOK
    <3>2. ring # <<>> => now - ring[Len(ring)].at \in Int
      BY <3>1 DEF TypeOK, Entries
    <3> QED BY <1>3, <3>2 DEF Coalesces
  <2> HIDE DEF e
  <2> QED BY <2>1, <2>2, <2>3, PushKeepsDeaths
<1>4. CASE DamageDropped \/ UNCHANGED vars
  <2>1. UNCHANGED <<ring, now, deaths>>
    BY <1>4 DEF DamageDropped, vars
  <2> QED BY <2>1 DEF BurstIInv, Spaced, EarlierDeaths, LostIfFull, Lost, DeathsIn
<1>5. CASE Tick
  <2>1. UNCHANGED <<ring, deaths>> /\ now' = now + 1 /\ now \in Nat
    BY <1>5 DEF Tick, TypeOK
  <2>2. \A k \in 1 .. Len(ring) : ring[k].at \in Nat
    <3>1. \A k \in 1 .. Len(ring) : ring[k] \in Entries
      BY DEF TypeOK
    <3> QED BY <3>1 DEF Entries
  <2>3. \A i \in 1 .. Len(deaths) : deaths[i] \in Nat
    BY DEF TypeOK
  <2>4. EarlierDeaths'
    <3>1. \A k \in 1 .. Len(ring) : ring[k].at <= now'
      BY <2>1, <2>2 DEF BurstIInv, EarlierDeaths
    <3>2. \A i \in 1 .. Len(deaths) : deaths[i] <= now'
      BY <2>1, <2>3 DEF BurstIInv, EarlierDeaths
    <3>3. Lost' = Lost /\ \A k \in 1 .. Len(ring) : DeathsIn(ring, k)' = DeathsIn(ring, k)
      BY <2>1 DEF Lost, DeathsIn
    <3> QED BY <2>1, <3>1, <3>2, <3>3 DEF BurstIInv, EarlierDeaths
  <2> QED BY <2>1, <2>4 DEF BurstIInv, Spaced, LostIfFull, Lost, DeathsIn
<1> QED BY <1>1, <1>2, <1>3, <1>4, <1>5 DEF Next

\* A death the ring has lost is older than the windows of the combat since: a full
\* ring holds at most two entries for each later death and one more, and whatever
\* exceeds that took a coalescing window each.
THEOREM DeathsOutlive == Spec => []DeathsOutliveBursts
<1>1. TypeOK /\ BurstIInv => DeathsOutliveBursts
  <2> SUFFICES ASSUME TypeOK, BurstIInv, NEW i \in 1 .. Lost
               PROVE  RingSize <= 2 * (Len(deaths) - i) + 1 + (now - deaths[i]) \div (CoalesceWindow + 1)
    <3>0. TypeOK => ring \in Seq(Entries)
      BY DEF TypeOK
    <3>1. TypeOK => {j \in 1 .. Len(ring) : ring[j].event = "death"} = {j \in DOMAIN ring : ring[j].event = "death"}
      <4>2. TypeOK => DOMAIN ring = 1 .. Len(ring)
        BY <3>0
      <4> QED BY <4>2
    <3> QED BY <3>1 DEF DeathsOutliveBursts, Lost, DeathsIn
  <2> DEFINE n == Len(ring)
             T == (ring[n].at - ring[1].at) \div (CoalesceWindow + 1)
             U == (now - deaths[i]) \div (CoalesceWindow + 1)
  <2>1. /\ ring \in Seq(Entries) /\ n \in Nat /\ RingSize \in Nat \ {0}
        /\ Len(deaths) \in Nat /\ \A j \in 1 .. Len(deaths) : deaths[j] \in Nat
        /\ now \in Nat
    BY DEF TypeOK
  <2>2. DeathsIn(ring, n) \in Nat /\ DeathsIn(ring, 0) = 0 /\ DeathsIn(ring, n) = Len(deaths) - Lost
    <3>1. n \in 0 .. n
      BY <2>1
    <3>2. DeathsIn(ring, n) \in Nat /\ DeathsIn(ring, 0) = 0
      BY <2>1, <3>1, DeathsCounted
    <3> QED BY <2>1, <3>2 DEF Lost
  <2>3. Lost \in Nat /\ i \in Nat \ {0} /\ i <= Lost /\ n = RingSize
    BY <2>1, <2>2 DEF BurstIInv, LostIfFull, Lost
  <2>4. n \in 1 .. n /\ 1 \in 1 .. n /\ 1 \in 0 .. n /\ 1 - 1 = 0
    BY <2>1, <2>3
  <2>5. ring[n].at \in Nat /\ ring[1].at \in Nat
    <3>1. ring[n] \in Entries /\ ring[1] \in Entries
      BY <2>1, <2>4
    <3> QED BY <3>1 DEF Entries
  <2>6. /\ ring[1].at <= ring[n].at
        /\ n - 1 + 1 <= 2 * (DeathsIn(ring, n) - 0) + (1 - IsDeath(ring[n])) + T
    BY <2>2, <2>4 DEF BurstIInv, Spaced
  <2>7. deaths[i] <= ring[1].at /\ ring[n].at <= now /\ deaths[i] \in Nat
    <3>1. DeathsIn(ring, 1) \in Nat
      BY <2>1, <2>4, DeathsCounted
    <3>2. i \in 1 .. Lost + DeathsIn(ring, 1) /\ i \in 1 .. Len(deaths)
      BY <2>1, <2>2, <2>3, <3>1
    <3> QED BY <2>1, <2>4, <3>2 DEF BurstIInv, EarlierDeaths
  <2>8. T \in Nat /\ U \in Nat /\ T <= U
    <3> DEFINE x == ring[n].at - ring[1].at
               y == now - deaths[i]
    <3>1. x \in Nat /\ y \in Nat /\ x <= y
      <4> HIDE DEF n
      <4>1. now \in Nat /\ ring[n].at \in Nat /\ ring[1].at \in Nat /\ deaths[i] \in Nat
        BY <2>1, <2>5, <2>7
      <4>2. ring[1].at <= ring[n].at /\ deaths[i] <= ring[1].at /\ ring[n].at <= now
        BY <2>6, <2>7
      <4> QED BY <4>1, <4>2
    <3> HIDE DEF x, y
    <3>2. /\ x \div (CoalesceWindow + 1) \in Nat /\ y \div (CoalesceWindow + 1) \in Nat
          /\ x \div (CoalesceWindow + 1) <= y \div (CoalesceWindow + 1)
      BY <3>1, WindowsGrow, Zenon
    <3> QED BY <3>2 DEF x, y
  <2>9. IsDeath(ring[n]) \in {0, 1}
    BY DEF IsDeath
  <2> HIDE DEF T, U
  <2>10. RingSize <= 2 * (Len(deaths) - Lost) + 1 + T
    <3>1. n - 1 + 1 = n
      BY <2>1
    <3> QED BY <2>1, <2>2, <2>3, <2>6, <2>8, <2>9, <3>1
  <2>11. RingSize <= 2 * (Len(deaths) - i) + 1 + U
    BY <2>1, <2>2, <2>3, <2>8, <2>10
  <2> QED BY <2>11 DEF U
<1>2. IInv => TypeOK
  BY DEF IInv
<1> QED BY <1>1, <1>2, Invariance, BurstStarts, BurstKeeps, PTL DEF Spec

-----------------------------------------------------------------------------
(* The server link *)

USE LinkAssumption

\* The link is the socket that registered last, for as long as that is there.
LinkIsNewest ==
  /\ link \in {None, latest}
  /\ \A s \in Sockets : link = s => stage[s] \in {"welcoming", "open"}
  /\ \A s \in Sockets : latest = s /\ stage[s] \in {"welcoming", "open"} => link = s

\* Its census has begun when its welcome is out, and only its own error ends it.
NewestHasCensus ==
  \A s \in Sockets :
    latest = s /\ stage[s] = "open" => census[s] \in {"opening", "running", "broken"}

\* While no two handshakes have overlapped, _census_task is the only census, and there
\* is none without a link or before the link's welcome is out.
CensusIsReferenced ==
  ~ overlapped =>
    /\ \A s \in Sockets : census[s] \in {"opening", "running"} => censusTask = s
    /\ \A s \in Sockets : stage[s] = "welcoming" => link = s /\ censusTask = None
    /\ link = None => censusTask = None

LinkIInv == LinkTypeOK /\ LinkIsNewest /\ NewestHasCensus /\ CensusIsReferenced

LEMMA LinkStarts == LinkInit => LinkIInv
<1> SUFFICES ASSUME LinkInit PROVE LinkIInv
  OBVIOUS
<1>1. LinkTypeOK
  <2>1. asked \in [Sockets -> 0 .. Tries]
    BY DEF LinkInit
  <2>2. known \in BOOLEAN /\ overlapped \in BOOLEAN
    BY DEF LinkInit
  <2>3. /\ stage \in [Sockets -> Stages] /\ alive \subseteq Sockets /\ asking \subseteq Sockets
        /\ {link, latest, censusTask, stateTask} \subseteq Sockets \cup {None}
        /\ census \in [Sockets -> {"none", "opening", "running", "broken"}]
    BY DEF LinkInit, Stages
  <2> QED BY <2>1, <2>2, <2>3 DEF LinkTypeOK
<1>2. LinkIsNewest /\ NewestHasCensus
  BY DEF LinkInit, LinkIsNewest, NewestHasCensus
<1>3. CensusIsReferenced
  BY DEF LinkInit, CensusIsReferenced
<1> QED BY <1>1, <1>2, <1>3 DEF LinkIInv

\* Steps that leave the link, the stages and the references alone.
QuietStep(s) ==
  \/ Die(s) \/ CensusStarts(s) \/ CensusExits(s) \/ CensusBreaks(s)
  \/ Ask(s) \/ StopsAsking(s) \/ RequesterBreaks(s) \/ StatePush(s)

LEMMA QuietKeeps == ASSUME LinkIInv, NEW s \in Sockets, QuietStep(s) PROVE LinkIInv'
<1> USE DEF LinkIInv, LinkTypeOK, taskVars
<1>1. UNCHANGED <<stage, link, censusTask, latest, overlapped>>
  BY DEF QuietStep, Die, CensusStarts, CensusExits, CensusBreaks, Ask, StopsAsking,
         RequesterBreaks, StatePush
<1>2. LinkTypeOK'
  <2>1. CASE Die(s)  BY <2>1 DEF Die
  <2>2. CASE CensusStarts(s)  BY <2>2 DEF CensusStarts
  <2>3. CASE CensusExits(s)  BY <2>3 DEF CensusExits
  <2>4. CASE Ask(s)  BY <2>4 DEF Ask
  <2>5. CASE StopsAsking(s)  BY <2>5 DEF StopsAsking
  <2>6. CASE StatePush(s)  BY <2>6 DEF StatePush
  <2>7. CASE CensusBreaks(s)  BY <2>7 DEF CensusBreaks
  <2>8. CASE RequesterBreaks(s)  BY <2>8 DEF RequesterBreaks
  <2> QED BY <2>1, <2>2, <2>3, <2>4, <2>5, <2>6, <2>7, <2>8 DEF QuietStep
<1>3. LinkIsNewest'
  BY <1>1 DEF LinkIsNewest
<1>4. \A o \in Sockets : census'[o] \in {"opening", "running"} => census[o] \in {"opening", "running"}
  BY DEF QuietStep, Die, CensusStarts, CensusExits, CensusBreaks, Censuses, Ask, StopsAsking,
         RequesterBreaks, StatePush
\* The link's census goes on or breaks; another one may also exit.
<1>5. \A o \in Sockets :
        link = o /\ census[o] \in {"opening", "running", "broken"}
          => census'[o] \in {"opening", "running", "broken"}
  BY DEF QuietStep, Die, CensusStarts, CensusExits, CensusBreaks, Censuses, Ask, StopsAsking,
         RequesterBreaks, StatePush, ShouldRun
<1>6. NewestHasCensus'
  BY <1>1, <1>5 DEF NewestHasCensus, LinkIsNewest
<1>7. CensusIsReferenced'
  BY <1>1, <1>4 DEF CensusIsReferenced
<1> QED BY <1>2, <1>3, <1>6, <1>7

\* Steps of a handshake before it registers.
LEMMA ArrivalKeeps ==
  ASSUME LinkIInv, NEW s \in Sockets, Connect(s) \/ Authenticate(s) \/ TurnedAway(s)
  PROVE  LinkIInv'
<1> USE DEF LinkIInv, LinkTypeOK, taskVars, Moves, Stages
<1>1. UNCHANGED <<link, taskVars, known, latest, overlapped>>
  BY DEF Connect, Authenticate, TurnedAway
<1>2. PICK to \in {"authenticating", "creating", "closed"} :
        stage' = [stage EXCEPT ![s] = to] /\ stage[s] \in {"unborn", "authenticating", "creating"}
  BY DEF Connect, Authenticate, TurnedAway
<1>3. LinkTypeOK'
  BY <1>1, <1>2 DEF Connect, Authenticate, TurnedAway
<1>4. \A o \in Sockets : stage'[o] \in {"welcoming", "open"} => stage'[o] = stage[o]
  BY <1>2
<1>5. \A o \in Sockets : stage[o] \in {"welcoming", "open"} => stage'[o] = stage[o]
  BY <1>2
<1>6. LinkIsNewest'
  BY <1>1, <1>4, <1>5 DEF LinkIsNewest
<1>7. NewestHasCensus'
  BY <1>1, <1>4 DEF NewestHasCensus
<1>8. CensusIsReferenced'
  BY <1>1, <1>4 DEF CensusIsReferenced
<1> QED BY <1>3, <1>6, <1>7, <1>8

\* Cancelling ends what is referred to.
LEMMA CancelEnds ==
  ASSUME LinkTypeOK, CancelTasks
  PROVE  /\ censusTask' = None /\ stateTask' = None
         /\ census' \in [Sockets -> {"none", "opening", "running", "broken"}]
         /\ asking' \subseteq Sockets /\ asked' \in [Sockets -> 0 .. Tries]
         /\ \A o \in Sockets : census'[o] \in {"opening", "running"} =>
              census[o] \in {"opening", "running"} /\ o # censusTask
BY DEF LinkTypeOK, CancelTasks, Censuses

LEMMA RegisterKeeps == ASSUME LinkIInv, NEW s \in Sockets, Register(s) PROVE LinkIInv'
<1> USE DEF LinkIInv, LinkTypeOK, Moves, Stages
<1>1. /\ stage[s] = "creating" /\ stage' = [stage EXCEPT ![s] = "welcoming"]
      /\ link' = s /\ latest' = s /\ UNCHANGED <<alive, known>>
      /\ overlapped' = (overlapped \/ \E o \in Sockets : stage[o] = "welcoming")
  BY DEF Register
<1>2. CASE link # None
  <2>1. CancelTasks
    BY <1>2 DEF Register
  <2>2. LinkTypeOK'
    BY <1>1, <2>1, CancelEnds
  <2>3. LinkIsNewest' /\ NewestHasCensus'
    BY <1>1 DEF LinkIsNewest, NewestHasCensus
  <2>4. CensusIsReferenced'
    BY <1>1, <2>1, CancelEnds DEF CensusIsReferenced
  <2> QED BY <2>2, <2>3, <2>4
<1>3. CASE link = None
  <2>1. UNCHANGED taskVars
    BY <1>3 DEF Register
  <2>2. LinkTypeOK'
    BY <1>1, <2>1 DEF taskVars
  <2>3. LinkIsNewest' /\ NewestHasCensus'
    BY <1>1 DEF LinkIsNewest, NewestHasCensus
  <2>4. CensusIsReferenced'
    BY <1>1, <1>3, <2>1 DEF CensusIsReferenced, taskVars
  <2> QED BY <2>2, <2>3, <2>4
<1> QED BY <1>2, <1>3

LEMMA WelcomeKeeps == ASSUME LinkIInv, NEW s \in Sockets, Welcome(s) PROVE LinkIInv'
<1> USE DEF LinkIInv, LinkTypeOK, Moves, Stages
<1>1. /\ stage[s] = "welcoming" /\ stage' = [stage EXCEPT ![s] = "open"]
      /\ census' = [census EXCEPT ![s] = "opening"] /\ asking' = asking \cup {s}
      /\ censusTask' = s /\ stateTask' = s
      /\ UNCHANGED <<alive, link, asked, known, latest, overlapped>>
  BY DEF Welcome
<1>2. LinkTypeOK'
  BY <1>1
<1>3. LinkIsNewest' /\ NewestHasCensus'
  BY <1>1 DEF LinkIsNewest, NewestHasCensus
<1>4. CensusIsReferenced'
  BY <1>1 DEF CensusIsReferenced
<1> QED BY <1>2, <1>3, <1>4

LEMMA CloseKeeps == ASSUME LinkIInv, NEW s \in Sockets, Close(s) PROVE LinkIInv'
<1> USE DEF LinkIInv, LinkTypeOK, Moves, Stages
<1>1. /\ stage[s] \in {"welcoming", "open"} /\ stage' = [stage EXCEPT ![s] = "closed"]
      /\ UNCHANGED <<alive, known, latest, overlapped>>
  BY DEF Close
<1>2. CASE link = s
  <2>1. link' = None /\ CancelTasks
    BY <1>2 DEF Close, IsLink
  <2>2. LinkTypeOK'
    BY <1>1, <2>1, CancelEnds
  <2>3. latest = s
    BY <1>2 DEF LinkIsNewest
  <2>4. LinkIsNewest' /\ NewestHasCensus'
    BY <1>1, <2>1, <2>3 DEF LinkIsNewest, NewestHasCensus
  <2>5. CensusIsReferenced'
    BY <1>1, <1>2, <2>1, CancelEnds DEF CensusIsReferenced
  <2> QED BY <2>2, <2>4, <2>5
\* A superseded socket closes: nothing of the link's changes.
<1>3. CASE link # s
  <2>1. UNCHANGED <<link, taskVars>>
    BY <1>3 DEF Close, IsLink
  <2>2. LinkTypeOK'
    BY <1>1, <2>1 DEF taskVars
  <2>3. LinkIsNewest' /\ NewestHasCensus'
    BY <1>1, <1>3, <2>1 DEF LinkIsNewest, NewestHasCensus, taskVars
  <2>4. CensusIsReferenced'
    BY <1>1, <1>3, <2>1 DEF CensusIsReferenced, taskVars
  <2> QED BY <2>2, <2>3, <2>4
<1> QED BY <1>2, <1>3

LEMMA LinkKeeps == LinkIInv /\ [LinkNext]_linkVars => LinkIInv'
<1> SUFFICES ASSUME LinkIInv, [LinkNext]_linkVars PROVE LinkIInv'
  OBVIOUS
<1>1. CASE UNCHANGED linkVars
  BY <1>1 DEF linkVars, taskVars, LinkIInv, LinkTypeOK, LinkIsNewest, NewestHasCensus,
              CensusIsReferenced
<1>2. CASE LinkNext
  BY <1>2, QuietKeeps, ArrivalKeeps, RegisterKeeps, WelcomeKeeps, CloseKeeps
     DEF LinkNext, Handler, Tasks, Breaks, QuietStep
<1> QED BY <1>1, <1>2

LEMMA LinkInvariant == LinkSpec => []LinkIInv
BY LinkStarts, LinkKeeps, PTL DEF LinkSpec

\* Every reachable state of the link is well formed.
THEOREM LinkTypeCorrect == LinkSpec => []LinkTypeOK
<1>1. LinkIInv => LinkTypeOK
  BY DEF LinkIInv
<1> QED BY <1>1, LinkInvariant, PTL

\* The newest link is served by its census until that fails by itself, and there is one
\* census unless handshakes have overlapped.
THEOREM NewestLinkIsServed == LinkSpec => []CensusFollowsLink
<1>1. ASSUME LinkIInv PROVE CensusFollowsLink
  <2> USE <1>1 DEF LinkIInv, LinkTypeOK
  <2>1. NewestIsServed
    BY DEF NewestIsServed, LinkIsNewest, NewestHasCensus, Censuses
  <2>2. ASSUME ~ overlapped PROVE Cardinality(Censuses) <= 1
    <3>1. Censuses \subseteq {censusTask}
      BY <2>2 DEF CensusIsReferenced, Censuses
    <3>2. IsFiniteSet({censusTask}) /\ Cardinality({censusTask}) = 1
      BY FS_Singleton
    <3>3. Cardinality(Censuses) <= Cardinality({censusTask})
      BY <3>1, <3>2, FS_Subset
    <3> QED BY <3>2, <3>3
  <2> QED BY <2>1, <2>2 DEF CensusFollowsLink, OneCensus
<1> QED BY <1>1, LinkInvariant, PTL

-----------------------------------------------------------------------------
(* The pacing of replies *)

USE PacingAssumption

\* The lock is held by the one reply that sleeps or is being sent.
LockIsHeld == \A r \in Replies : reply[r] \in {"sleeping", "sending"} <=> replyLock = r

\* The last send cannot move while a reply waits for it, and is over when it is sent.
WaitIsServed ==
  /\ replyLock # NoReply => waking = lastReplySend + Gap
  /\ \A r \in Replies : reply[r] = "sending" => clock >= waking

\* The last send is the latest of those that were over without an error.
LastIsLatest ==
  /\ lastReplySend <= clock
  /\ \A r \in Replies : reply[r] = "done" /\ r \notin failed => sentAt[r] <= lastReplySend

\* r may be overwritten.
IsServed(r) == reply[r] = "done" /\ (r \in failed \/ sentAt[r] + Gap <= clock)

\* A reply with another one behind it, in transit or shown, has been served.
OthersFollow ==
  /\ \A i \in 1 .. Len(wire) : reply[wire[i]] \in {"sending", "done"}
  /\ \A i, j \in 1 .. Len(wire) : i < j => IsServed(wire[i])
  /\ shown # NoReply =>
       reply[shown] \in {"sending", "done"} /\ (wire # <<>> => IsServed(shown))

PacingIInv == PacingTypeOK /\ LockIsHeld /\ WaitIsServed /\ LastIsLatest /\ OthersFollow

LEMMA PacingStarts == PacingInit => PacingIInv
<1> SUFFICES ASSUME PacingInit PROVE PacingIInv
  OBVIOUS
<1>1. wire \in Seq(Replies) /\ Len(wire) = 0
  BY EmptySeq DEF PacingInit
<1>2. PacingTypeOK
  BY <1>1 DEF PacingInit, PacingTypeOK, ReplyStages
<1>3. LockIsHeld /\ WaitIsServed /\ LastIsLatest
  BY DEF PacingInit, LockIsHeld, WaitIsServed, LastIsLatest
<1>4. OthersFollow
  BY <1>1 DEF PacingInit, OthersFollow
<1> QED BY <1>2, <1>3, <1>4 DEF PacingIInv

\* Types hold after every step.
LEMMA PacingTypeKeeps == PacingTypeOK /\ [PacingNext]_pacingVars => PacingTypeOK'
<1> SUFFICES ASSUME PacingTypeOK, [PacingNext]_pacingVars PROVE PacingTypeOK'
  OBVIOUS
<1> USE DEF PacingTypeOK, ReplyStages, GoesOn, sendVars
<1>1. ASSUME NEW r \in Replies, Bunches(r) PROVE PacingTypeOK'
  BY <1>1 DEF Bunches
<1>2. ASSUME NEW r \in Replies, GetsLock(r) PROVE PacingTypeOK'
  BY <1>2 DEF GetsLock
<1>3. ASSUME NEW r \in Replies, Wakes(r) PROVE PacingTypeOK'
  BY <1>3 DEF Wakes
<1>4. ASSUME NEW r \in Replies, Sent(r) PROVE PacingTypeOK'
  BY <1>4 DEF Sent
<1>5. ASSUME NEW r \in Replies, SendRaises(r) PROVE PacingTypeOK'
  BY <1>5 DEF SendRaises
<1>6. CASE Arrives
  BY <1>6, HeadTailProperties DEF Arrives
<1>7. CASE WireIsLost
  BY <1>7, EmptySeq DEF WireIsLost
<1>8. CASE ClockTicks
  BY <1>8 DEF ClockTicks
<1>9. CASE UNCHANGED pacingVars
  BY <1>9 DEF pacingVars
<1> QED BY <1>1, <1>2, <1>3, <1>4, <1>5, <1>6, <1>7, <1>8, <1>9 DEF PacingNext

\* What sends wait for, after every step.
LEMMA SendsKeep ==
  PacingIInv /\ [PacingNext]_pacingVars => LockIsHeld' /\ WaitIsServed' /\ LastIsLatest'
<1> SUFFICES ASSUME PacingIInv, [PacingNext]_pacingVars
             PROVE  LockIsHeld' /\ WaitIsServed' /\ LastIsLatest'
  OBVIOUS
<1> USE DEF PacingIInv, PacingTypeOK, GoesOn, LockIsHeld, WaitIsServed, LastIsLatest, sendVars
<1>1. ASSUME NEW r \in Replies, Bunches(r) PROVE LockIsHeld' /\ WaitIsServed' /\ LastIsLatest'
  BY <1>1 DEF Bunches
<1>2. ASSUME NEW r \in Replies, GetsLock(r) PROVE LockIsHeld' /\ WaitIsServed' /\ LastIsLatest'
  BY <1>2 DEF GetsLock, ReplyLockIsFree
<1>3. ASSUME NEW r \in Replies, Wakes(r) PROVE LockIsHeld' /\ WaitIsServed' /\ LastIsLatest'
  BY <1>3 DEF Wakes
<1>4. ASSUME NEW r \in Replies, Sent(r) PROVE LockIsHeld' /\ WaitIsServed' /\ LastIsLatest'
  BY <1>4 DEF Sent
<1>5. ASSUME NEW r \in Replies, SendRaises(r) PROVE LockIsHeld' /\ WaitIsServed' /\ LastIsLatest'
  BY <1>5 DEF SendRaises
<1>6. CASE Arrives \/ WireIsLost \/ UNCHANGED pacingVars
  BY <1>6 DEF Arrives, WireIsLost, pacingVars
<1>7. CASE ClockTicks
  BY <1>7 DEF ClockTicks
<1> QED BY <1>1, <1>2, <1>3, <1>4, <1>5, <1>6, <1>7 DEF PacingNext

\* The same after the step.
ServedNext(r) == reply'[r] = "done" /\ (r \in failed' \/ sentAt'[r] + Gap <= clock')

\* A served reply stays served: its stage is the last one, and the clock only goes on.
LEMMA ServedStays ==
  ASSUME PacingIInv, [PacingNext]_pacingVars, NEW r \in Replies, IsServed(r)
  PROVE  ServedNext(r)
<1> USE DEF PacingIInv, PacingTypeOK, GoesOn, IsServed, ServedNext, sendVars
<1>1. reply'[r] = reply[r] /\ sentAt'[r] = sentAt[r] /\ failed \subseteq failed' /\ clock <= clock'
  <2>1. ASSUME NEW o \in Replies, Bunches(o) \/ GetsLock(o) \/ Wakes(o)
        PROVE  reply'[r] = reply[r] /\ UNCHANGED <<sentAt, failed, clock>>
    BY <2>1 DEF Bunches, GetsLock, Wakes
  <2>2. ASSUME NEW o \in Replies, Sent(o)
        PROVE  reply'[r] = reply[r] /\ sentAt'[r] = sentAt[r] /\ UNCHANGED <<failed, clock>>
    BY <2>2 DEF Sent
  <2>3. ASSUME NEW o \in Replies, SendRaises(o)
        PROVE  reply'[r] = reply[r] /\ failed \subseteq failed' /\ UNCHANGED <<sentAt, clock>>
    BY <2>3 DEF SendRaises
  <2>4. CASE Arrives \/ WireIsLost \/ ClockTicks \/ UNCHANGED pacingVars
    BY <2>4 DEF Arrives, WireIsLost, ClockTicks, pacingVars
  <2> QED BY <2>1, <2>2, <2>3, <2>4 DEF PacingNext
<1>2. clock' \in 0 .. MaxClock
  BY PacingTypeKeeps
<1> QED BY <1>1, <1>2

\* Replies follow each other in the same way after every step.
LEMMA OthersKeepFollowing == PacingIInv /\ [PacingNext]_pacingVars => OthersFollow'
<1> SUFFICES ASSUME PacingIInv, [PacingNext]_pacingVars PROVE OthersFollow'
  OBVIOUS
<1>0. PacingTypeOK /\ PacingTypeOK' /\ OthersFollow /\ wire \in Seq(Replies) /\ Len(wire) \in Nat
  BY PacingTypeKeeps, LenProperties DEF PacingIInv, PacingTypeOK
<1>1. \A r \in Replies : reply[r] \in {"sending", "done"} => reply'[r] \in {"sending", "done"}
  BY <1>0 DEF PacingTypeOK, PacingNext, pacingVars, sendVars, GoesOn, Bunches, GetsLock, Wakes,
              Sent, SendRaises, Arrives, WireIsLost, ClockTicks
<1>2. \A i \in 1 .. Len(wire) : wire[i] \in Replies
  BY <1>0, ElementOfSeq
<1>3. shown \in Replies \cup {NoReply}
  BY <1>0 DEF PacingTypeOK
<1>4. CASE UNCHANGED <<wire, shown>>
  BY <1>0, <1>1, <1>2, <1>3, <1>4, ServedStays DEF OthersFollow, IsServed, ServedNext
\* The new one has slept until those before it were served.
<1>5. ASSUME NEW r \in Replies, Wakes(r) PROVE OthersFollow'
  <2>1. /\ wire' = Append(wire, r) /\ Len(wire') = Len(wire) + 1 /\ shown' = shown
        /\ wire'[Len(wire) + 1] = r /\ \A i \in 1 .. Len(wire) : wire'[i] = wire[i]
    BY <1>0, <1>5 DEF Wakes
  <2>2. ASSUME NEW o \in Replies, reply[o] \in {"sending", "done"} PROVE IsServed(o)
    <3>1. reply[o] = "done"
      BY <1>5, <2>2 DEF PacingIInv, LockIsHeld, Wakes, GoesOn
    <3>2. clock >= lastReplySend + Gap
      BY <1>5 DEF PacingIInv, LockIsHeld, WaitIsServed, Wakes, GoesOn
    <3> QED BY <1>0, <3>1, <3>2 DEF IsServed, PacingIInv, LastIsLatest, PacingTypeOK
  <2>3. \A o \in Replies : reply[o] \in {"sending", "done"} => ServedNext(o)
    BY <2>2, ServedStays
  <2>4. reply'[r] = "sending"
    BY <1>0, <1>5 DEF Wakes, GoesOn, PacingTypeOK
  <2>5. \A i \in 1 .. Len(wire') : reply'[wire'[i]] \in {"sending", "done"}
    BY <1>0, <1>1, <1>2, <2>1, <2>4 DEF OthersFollow
  <2>6. \A i \in 1 .. Len(wire) : ServedNext(wire'[i])
    BY <1>0, <1>2, <2>1, <2>3 DEF OthersFollow
  <2>7. \A i, j \in 1 .. Len(wire') : i < j => ServedNext(wire'[i])
    BY <1>0, <2>1, <2>6
  <2>8. shown # NoReply => reply'[shown] \in {"sending", "done"} /\ ServedNext(shown)
    BY <1>0, <1>1, <1>3, <2>3 DEF OthersFollow
  <2> QED BY <2>1, <2>5, <2>7, <2>8 DEF OthersFollow, IsServed, ServedNext
\* The first becomes the shown one, with the same ones behind it.
<1>6. CASE Arrives
  <2>1. /\ wire # <<>> /\ shown' = wire[1] /\ Len(wire) >= 1
        /\ wire' = Tail(wire) /\ Len(wire') = Len(wire) - 1
        /\ \A i \in 1 .. Len(wire') : wire'[i] = wire[i + 1]
    BY <1>0, <1>6, HeadTailProperties, EmptySeq DEF Arrives
  <2>2. \A i \in 1 .. Len(wire') : reply'[wire'[i]] \in {"sending", "done"}
    BY <1>0, <1>1, <1>2, <2>1 DEF OthersFollow
  <2>3. \A i, j \in 1 .. Len(wire) : i < j => ServedNext(wire[i])
    BY <1>0, <1>2, ServedStays DEF OthersFollow
  <2>4. \A i, j \in 1 .. Len(wire') : i < j => ServedNext(wire'[i])
    BY <1>0, <2>1, <2>3
  <2>5. reply'[shown'] \in {"sending", "done"}
    BY <1>0, <1>1, <1>2, <2>1 DEF OthersFollow
  <2>6. ASSUME wire' # <<>> PROVE ServedNext(shown')
    <3>1. Len(wire') \in Nat \ {0}
      BY <1>0, <2>6, EmptySeq DEF PacingTypeOK
    <3> QED BY <1>0, <2>1, <2>3, <3>1
  <2> QED BY <2>2, <2>4, <2>5, <2>6 DEF OthersFollow, IsServed, ServedNext
<1>7. CASE WireIsLost
  <2>1. wire' = <<>> /\ Len(wire') = 0 /\ shown' = shown
    BY <1>7 DEF WireIsLost
  <2> QED BY <1>0, <1>1, <1>3, <2>1 DEF OthersFollow
<1> QED
  BY <1>4, <1>5, <1>6, <1>7 DEF PacingNext, pacingVars, Bunches, GetsLock, Sent, SendRaises,
                                ClockTicks

LEMMA PacingInvariant == PacingSpec => []PacingIInv
<1>1. PacingIInv /\ [PacingNext]_pacingVars => PacingIInv'
  BY PacingTypeKeeps, SendsKeep, OthersKeepFollowing DEF PacingIInv
<1> QED BY <1>1, PacingStarts, PTL DEF PacingSpec

\* Every reachable state of the pacing is well formed.
THEOREM PacingTypeCorrect == PacingSpec => []PacingTypeOK
<1>1. PacingIInv => PacingTypeOK
  BY DEF PacingIInv
<1> QED BY <1>1, PacingInvariant, PTL

\* What overwrites a reply was behind it on the wire, so it began to be sent when the
\* reply's own send had been over for Gap, whenever the two arrived.
THEOREM ShownForGap == PacingSpec => RepliesLast
<1> DEFINE Lasts ==
      shown' # shown /\ shown \notin failed \cup {NoReply} =>
        reply[shown] = "done" /\ clock - since >= Gap - HeldBack(shown)
<1>1. ASSUME PacingIInv, [PacingNext]_pacingVars PROVE [Lasts]_pacingVars
  <2> SUFFICES ASSUME shown' # shown, shown \notin failed, shown # NoReply
               PROVE  reply[shown] = "done" /\ clock - since >= Gap - HeldBack(shown)
    OBVIOUS
  <2>1. Arrives
    BY <1>1 DEF PacingNext, pacingVars, Bunches, GetsLock, Wakes, Sent, SendRaises, ClockTicks,
                WireIsLost
  <2>2. IsServed(shown)
    BY <1>1, <2>1 DEF PacingIInv, OthersFollow, Arrives
  <2>3. reply[shown] = "done" /\ sentAt[shown] + Gap <= clock
    BY <2>2 DEF IsServed
  <2>4. sentAt[shown] \in Int /\ since \in Int /\ clock \in Int
    BY <1>1 DEF PacingIInv, PacingTypeOK
  <2> QED BY <2>3, <2>4 DEF HeldBack
<1> QED BY <1>1, PacingInvariant, PTL DEF PacingSpec, RepliesLast

-----------------------------------------------------------------------------
(* The map pins *)

USE PinsAssumption

\* Min takes an element of its set.
LEMMA MinIsIn == ASSUME NEW S \in SUBSET Nat, S # {} PROVE Min(S) \in S
<1>1. \E x \in S : \A y \in S : ~ (<<y, x>> \in OpToRel(<, Nat))
  BY NatLessThanWellFounded, WFMin
<1>2. ASSUME NEW x \in Nat, NEW y \in Nat, y < x PROVE <<y, x>> \in OpToRel(<, Nat)
  <2>1. <<y, x>> \in {ss \in Nat \X Nat : ss[1] < ss[2]}
    BY <1>2
  <2> QED BY <2>1 DEF OpToRel
<1>3. \E x \in S : \A y \in S : ~ (y < x)
  BY <1>1, <1>2, Zenon
<1>4. \E x \in S : \A y \in S : x <= y
  BY <1>3
<1> QED BY <1>4 DEF Min

\* The call that holds the lock is the one that sends.
LockIsTheSenders ==
  /\ \A c \in Calls : pinLock = c <=> at[c] = "sending"
  /\ pinLock = NoCall => todo = {}

\* No pin has a number that was not given yet.
Numbered ==
  /\ \A p \in game : p.id <= pinCounter
  /\ \A o \in Survivors : \A i \in mapPins[o] : i <= pinCounter

\* A pin has one owner, and the map says the same as the registry.
OneOwner ==
  /\ \A o, q \in Survivors : \A i \in mapPins[o] \cap mapPins[q] : o = q
  /\ \A p \in game, o \in Survivors : p.id \in mapPins[o] => p.owner = o

\* What is still to be sent is a new pin, or pins of the caller's own.
Fresh(i) == (\A p \in game : p.id # i) /\ (\A o \in Survivors : i \notin mapPins[o])
ToBeSent ==
  \A c \in Calls : pinLock = c =>
    IF call[c].op = "add" THEN todo \subseteq {pinCounter} /\ (todo # {} => Fresh(pinCounter))
    ELSE todo \subseteq Owned(c)

\* PinsAgree, pin by pin.
NoTwins == \A p, q \in game : p.id = q.id => p = q
EachAgrees ==
  \A o \in Survivors, i \in Ids \ unsure :
    i \in mapPins[o] <=> \E p \in game : p.owner = o /\ p.id = i

PinsIInv ==
  PinsTypeOK /\ LockIsTheSenders /\ Numbered /\ OneOwner /\ ToBeSent /\ NoTwins /\ EachAgrees

LEMMA AgreeingIsAgreement == PinsTypeOK /\ NoTwins /\ EachAgrees => PinsAgree
<1> SUFFICES ASSUME PinsTypeOK, NoTwins, EachAgrees, NEW o \in Survivors
             PROVE  mapPins[o] \ unsure = {p.id : p \in {q \in game : q.owner = o}} \ unsure
  BY DEF PinsAgree, NoTwins
<1>1. mapPins[o] \subseteq Ids /\ \A p \in game : p.id \in Ids
  BY DEF PinsTypeOK
<1>2. ASSUME NEW i \in Ids \ unsure
      PROVE  i \in mapPins[o] <=> i \in {p.id : p \in {q \in game : q.owner = o}}
  BY DEF EachAgrees
<1> QED BY <1>1, <1>2

LEMMA PinsStart == PinsInit => PinsIInv
<1> SUFFICES ASSUME PinsInit PROVE PinsIInv
  OBVIOUS
<1>1. \E r \in PinRequests : TRUE
  <2>1. PICK o \in Survivors : TRUE
    OBVIOUS
  <2>2. [op |-> "add", owner |-> o, pin |-> 1] \in PinRequests
    BY DEF PinRequests, Ids
  <2> QED BY <2>2
<1>2. PinsTypeOK
  BY <1>1 DEF PinsInit, PinsTypeOK
<1>3. LockIsTheSenders /\ Numbered /\ OneOwner /\ ToBeSent /\ NoTwins /\ EachAgrees
  BY DEF PinsInit, LockIsTheSenders, Numbered, OneOwner, ToBeSent, NoTwins, EachAgrees
<1> QED BY <1>2, <1>3 DEF PinsIInv

\* What is sent next is one of the pins still to be sent.
LEMMA CurrentIsToDo == ASSUME PinsTypeOK, todo # {} PROVE Current \in todo /\ Current \in Ids
<1>1. todo \in SUBSET Nat /\ todo \subseteq Ids
  BY DEF PinsTypeOK, Ids
<1>2. Min(todo) \in todo
  BY <1>1, MinIsIn
<1> QED BY <1>1, <1>2 DEF Current

\* A call comes, or ends without a frame.
LEMMA ComesKeeps ==
  ASSUME PinsIInv, NEW c \in Calls, NEW r \in PinRequests, Comes(c, r) PROVE PinsIInv'
<1> USE DEF PinsIInv, Comes
<1>1. PinsTypeOK'
  BY DEF PinsTypeOK
<1>2. LockIsTheSenders'
  BY DEF LockIsTheSenders, PinsTypeOK
<1>3. ToBeSent'
  BY DEF ToBeSent, LockIsTheSenders, PinsTypeOK, Owned, Fresh
<1>4. Numbered' /\ OneOwner' /\ NoTwins' /\ EachAgrees'
  BY DEF Numbered, OneOwner, NoTwins, EachAgrees
<1> QED BY <1>1, <1>2, <1>3, <1>4

LEMMA EndsKeeps ==
  ASSUME PinsIInv, NEW c \in Calls, RemovesNothing(c) \/ Returns(c) PROVE PinsIInv'
<1> USE DEF PinsIInv, RemovesNothing, Returns, Leaves
<1>1. PinsTypeOK'
  BY DEF PinsTypeOK
<1>2. LockIsTheSenders'
  BY DEF LockIsTheSenders, PinsTypeOK
<1>3. ToBeSent'
  BY DEF ToBeSent, LockIsTheSenders, PinsTypeOK, Owned, Fresh
<1>4. Numbered' /\ OneOwner' /\ NoTwins' /\ EachAgrees'
  BY DEF Numbered, OneOwner, NoTwins, EachAgrees
<1> QED BY <1>1, <1>2, <1>3, <1>4

\* A call takes the lock.
LEMMA AddsKeeps == ASSUME PinsIInv, NEW c \in Calls, Adds(c) PROVE PinsIInv'
<1> USE DEF PinsIInv, Adds, Enters
<1>1. /\ pinCounter \in Nat /\ pinCounter' = pinCounter + 1 /\ pinCounter' \in Ids
      /\ UNCHANGED <<mapPins, call, game, unsure>>
  BY DEF PinsTypeOK, Ids
<1>2. PinsTypeOK'
  BY <1>1 DEF PinsTypeOK
<1>3. LockIsTheSenders'
  BY DEF LockIsTheSenders, PinsTypeOK
<1>4. Numbered'
  BY <1>1 DEF Numbered, PinsTypeOK, Ids
<1>5. Fresh(pinCounter')
  BY <1>1 DEF Fresh, Numbered, PinsTypeOK, Ids
<1>6. ToBeSent'
  BY <1>1, <1>5 DEF ToBeSent, Fresh
<1>7. OneOwner' /\ NoTwins' /\ EachAgrees'
  BY <1>1 DEF OneOwner, NoTwins, EachAgrees
<1> QED BY <1>2, <1>3, <1>4, <1>6, <1>7

LEMMA TakesAwayKeeps ==
  ASSUME PinsIInv, NEW c \in Calls, Removes(c) \/ Clears(c) PROVE PinsIInv'
<1> USE DEF PinsIInv, Removes, Clears, Enters
<1>1. /\ call[c].op # "add" /\ todo' \subseteq Owned(c) /\ pinLock' = c
      /\ UNCHANGED <<mapPins, pinCounter, call, game, unsure>>
  BY DEF MayRemove
<1>2. Owned(c) \subseteq Ids
  BY DEF PinsTypeOK, Owned, PinRequests
<1>3. PinsTypeOK'
  BY <1>1, <1>2 DEF PinsTypeOK
<1>4. LockIsTheSenders'
  BY DEF LockIsTheSenders, PinsTypeOK
<1>5. ToBeSent'
  BY <1>1 DEF ToBeSent, Owned
<1>6. Numbered' /\ OneOwner' /\ NoTwins' /\ EachAgrees'
  BY <1>1 DEF Numbered, OneOwner, NoTwins, EachAgrees
<1> QED BY <1>3, <1>4, <1>5, <1>6

\* A frame of an add.
LEMMA AddedKeeps ==
  ASSUME PinsIInv, NEW c \in Calls, NEW arrives \in BOOLEAN, call[c].op = "add",
         Sends(c, arrives) \/ SendBreaks(c, arrives)
  PROVE  PinsIInv'
<1> DEFINE o == call[c].owner
           new == [id |-> pinCounter, owner |-> o, by |-> c]
<1>1. /\ pinLock = c /\ o \in Survivors /\ Current = pinCounter /\ Current \in Ids
      /\ Fresh(pinCounter) /\ todo \subseteq {pinCounter} /\ UNCHANGED <<pinCounter, call>>
  BY CurrentIsToDo DEF PinsIInv, Sends, SendBreaks, ToBeSent, PinsTypeOK, PinRequests
<1>2. game' = IF arrives THEN game \cup {new} ELSE game
  BY <1>1 DEF Sends, SendBreaks, Shown
<1>3. \/ mapPins' = [mapPins EXCEPT ![o] = @ \cup {pinCounter}]
         /\ unsure' = IF arrives THEN unsure ELSE unsure \cup {pinCounter}
      \/ mapPins' = mapPins /\ unsure' = unsure \cup {pinCounter}
  BY <1>1 DEF Sends, SendBreaks
<1>4. /\ todo' = {}
      /\ \/ at' = at /\ pinLock' = c
         \/ at' = [at EXCEPT ![c] = "done"] /\ pinLock' = NoCall
  <2>1. CASE Sends(c, arrives)
    BY <1>1, <2>1 DEF Sends
  <2>2. CASE SendBreaks(c, arrives)
    BY <2>2 DEF SendBreaks, Leaves
  <2> QED BY <2>1, <2>2
<1>5. new \in [id : Ids, owner : Survivors, by : Calls]
  BY <1>1
<1>6. PinsTypeOK'
  <2>1. game' \subseteq [id : Ids, owner : Survivors, by : Calls]
    BY <1>2, <1>5 DEF PinsIInv, PinsTypeOK
  <2>2. mapPins' \in [Survivors -> SUBSET Ids] /\ unsure' \subseteq Ids
    <3>1. mapPins \in [Survivors -> SUBSET Ids] /\ unsure \subseteq Ids /\ pinCounter \in Ids
      BY <1>1 DEF PinsIInv, PinsTypeOK
    <3>2. [mapPins EXCEPT ![o] = @ \cup {pinCounter}] \in [Survivors -> SUBSET Ids]
      BY <3>1, <1>1
    <3> QED BY <1>3, <3>1, <3>2
  <2>3. /\ pinLock' \in Calls \cup {NoCall} /\ todo' \subseteq Ids
        /\ at' \in [Calls -> {"none", "queued", "sending", "done"}]
    BY <1>4 DEF PinsIInv, PinsTypeOK
  <2> QED BY <1>1, <2>1, <2>2, <2>3 DEF PinsIInv, PinsTypeOK
<1>7. LockIsTheSenders'
  BY <1>1, <1>4 DEF PinsIInv, LockIsTheSenders, PinsTypeOK
<1>8. ToBeSent'
  BY <1>4 DEF ToBeSent
\* What becomes of the registry, survivor by survivor.
<1> DEFINE registered == mapPins' # mapPins
<1>13. \A q \in Survivors :
         mapPins'[q] = IF registered /\ q = o THEN mapPins[q] \cup {pinCounter} ELSE mapPins[q]
  BY <1>1, <1>3 DEF PinsIInv, PinsTypeOK
<1>14. \A i \in Ids : i # pinCounter => (i \in unsure' <=> i \in unsure)
  BY <1>3
<1>15. pinCounter \notin unsure' => registered /\ arrives
  BY <1>1, <1>3 DEF PinsIInv, PinsTypeOK, Fresh
<1> HIDE DEF registered
<1>9. Numbered'
  BY <1>1, <1>2, <1>3 DEF PinsIInv, Numbered, PinsTypeOK, Ids
<1>10. OneOwner'
  <2>1. ASSUME NEW q \in Survivors, NEW i \in mapPins'[q]
        PROVE  (i \in mapPins[q] /\ i # pinCounter) \/ (i = pinCounter /\ q = o)
    BY <1>1, <1>13 DEF Fresh
  <2>2. ASSUME NEW q \in Survivors, NEW u \in Survivors, NEW i \in mapPins'[q] \cap mapPins'[u]
        PROVE  q = u
    BY <2>1 DEF PinsIInv, OneOwner
  <2>3. ASSUME NEW p \in game', NEW q \in Survivors, p.id \in mapPins'[q] PROVE p.owner = q
    <3>1. CASE p \in game
      <4>1. p.id # pinCounter
        BY <1>1, <3>1 DEF Fresh
      <4>2. p.id \in mapPins[q]
        BY <2>1, <2>3, <4>1
      <4> QED BY <3>1, <4>2 DEF PinsIInv, OneOwner
    <3>2. CASE p = new
      <4>1. p.id = pinCounter /\ p.owner = o
        BY <3>2
      <4>2. pinCounter \notin mapPins[q]
        BY <1>1 DEF Fresh
      <4> QED BY <2>1, <2>3, <4>1, <4>2
    <3> QED BY <1>2, <3>1, <3>2
  <2> QED BY <2>2, <2>3 DEF OneOwner
<1>11. NoTwins'
  BY <1>1, <1>2 DEF PinsIInv, NoTwins, Fresh
<1>12. EachAgrees'
  <2> SUFFICES ASSUME NEW q \in Survivors, NEW i \in Ids \ unsure'
               PROVE  i \in mapPins'[q] <=> \E p \in game' : p.owner = q /\ p.id = i
    BY DEF EachAgrees
  <2>1. CASE i # pinCounter
    <3>1. i \in mapPins[q] <=> \E p \in game : p.owner = q /\ p.id = i
      BY <1>14, <2>1 DEF PinsIInv, EachAgrees
    <3>2. i \in mapPins'[q] <=> i \in mapPins[q]
      BY <1>13, <2>1
    <3>3. \A p \in game' : p.id = i => p \in game
      BY <1>2, <2>1
    <3>4. game \subseteq game'
      BY <1>2
    <3> QED BY <3>1, <3>2, <3>3, <3>4
  <2>2. CASE i = pinCounter
    <3>1. game' = game \cup {new}
      BY <1>2, <1>15, <2>2
    <3>2. i \in mapPins'[q] <=> q = o
      BY <1>1, <1>13, <1>15, <2>2 DEF Fresh
    <3>3. \A p \in game' : p.id = i => p = new
      BY <1>1, <3>1, <2>2 DEF Fresh
    <3>4. new \in game' /\ new.id = i /\ new.owner = o
      BY <3>1, <2>2
    <3> HIDE DEF new
    <3> QED BY <3>2, <3>3, <3>4
  <2> QED BY <2>1, <2>2
<1> QED BY <1>6, <1>7, <1>8, <1>9, <1>10, <1>11, <1>12 DEF PinsIInv

\* A frame that takes a pin away.
LEMMA TakenKeeps ==
  ASSUME PinsIInv, NEW c \in Calls, NEW arrives \in BOOLEAN, call[c].op # "add",
         Sends(c, arrives) \/ SendBreaks(c, arrives)
  PROVE  PinsIInv'
<1> DEFINE o == call[c].owner
<1>1. /\ pinLock = c /\ o \in Survivors /\ Current \in Ids /\ Current \in mapPins[o]
      /\ todo \subseteq mapPins[o] /\ UNCHANGED <<pinCounter, call>>
  BY CurrentIsToDo DEF PinsIInv, Sends, SendBreaks, ToBeSent, PinsTypeOK, PinRequests, Owned
<1>2. game' = IF arrives THEN {p \in game : p.id # Current} ELSE game
  BY DEF Sends, SendBreaks, Shown
<1>3. \/ mapPins' = [mapPins EXCEPT ![o] = @ \ {Current}]
         /\ unsure' = IF arrives THEN unsure ELSE unsure \cup {Current}
      \/ mapPins' = mapPins /\ unsure' = unsure \cup {Current}
  BY DEF Sends, SendBreaks
<1>4. \/ /\ at' = at /\ pinLock' = c /\ todo' = todo \ {Current}
         /\ mapPins' = [mapPins EXCEPT ![o] = @ \ {Current}]
      \/ at' = [at EXCEPT ![c] = "done"] /\ pinLock' = NoCall /\ todo' = {}
  BY <1>1 DEF Sends, SendBreaks, Leaves
<1>5. game' \subseteq game /\ \A q \in Survivors : mapPins'[q] \subseteq mapPins[q]
  BY <1>1, <1>2, <1>3 DEF PinsIInv, PinsTypeOK
<1>6. PinsTypeOK'
  BY <1>1, <1>2, <1>3, <1>4 DEF PinsIInv, PinsTypeOK
<1>7. LockIsTheSenders'
  BY <1>1, <1>4 DEF PinsIInv, LockIsTheSenders, PinsTypeOK
<1>8. ToBeSent'
  BY <1>1, <1>4 DEF PinsIInv, PinsTypeOK, ToBeSent, Owned
<1>9. Numbered' /\ OneOwner' /\ NoTwins'
  BY <1>1, <1>5 DEF PinsIInv, Numbered, OneOwner, NoTwins
<1>10. EachAgrees'
  <2> SUFFICES ASSUME NEW q \in Survivors, NEW i \in Ids \ unsure'
               PROVE  i \in mapPins'[q] <=> \E p \in game' : p.owner = q /\ p.id = i
    BY DEF EachAgrees
  <2>1. i \notin unsure
    BY <1>3
  <2>2. i \in mapPins[q] <=> \E p \in game : p.owner = q /\ p.id = i
    BY <2>1 DEF PinsIInv, EachAgrees
  <2>3. CASE i # Current
    BY <1>1, <1>2, <1>3, <2>2, <2>3 DEF PinsIInv, PinsTypeOK
  \* Nobody else had this pin, in the registry or on the map.
  <2>4. CASE i = Current
    <3>1. arrives /\ mapPins' = [mapPins EXCEPT ![o] = @ \ {Current}]
      BY <1>3, <2>4
    <3>2. i \notin mapPins'[q]
      BY <1>1, <2>4, <3>1 DEF PinsIInv, PinsTypeOK, OneOwner
    <3> QED BY <1>2, <2>4, <3>1, <3>2
  <2> QED BY <2>3, <2>4
<1> QED BY <1>6, <1>7, <1>8, <1>9, <1>10 DEF PinsIInv

LEMMA PinsKeep == PinsIInv /\ [PinsNext]_pinVars => PinsIInv'
<1> SUFFICES ASSUME PinsIInv, [PinsNext]_pinVars PROVE PinsIInv'
  OBVIOUS
<1>1. CASE UNCHANGED pinVars
  BY <1>1 DEF pinVars, PinsIInv, PinsTypeOK, LockIsTheSenders, Numbered, OneOwner, ToBeSent,
              Fresh, Owned, NoTwins, EachAgrees
<1>2. CASE PinsNext
  BY <1>2, ComesKeeps, EndsKeeps, AddsKeeps, TakesAwayKeeps, AddedKeeps, TakenKeeps DEF PinsNext
<1> QED BY <1>1, <1>2

LEMMA PinsInvariant == PinsSpec => []PinsIInv
BY PinsStart, PinsKeep, PTL DEF PinsSpec

\* Every reachable state of the pins is well formed.
THEOREM PinsTypeCorrect == PinsSpec => []PinsTypeOK
<1>1. PinsIInv => PinsTypeOK
  BY DEF PinsIInv
<1> QED BY <1>1, PinsInvariant, PTL

\* Registry and map agree on every pin none of whose frames failed or was lost.
THEOREM RegistryHolds == PinsSpec => []PinsAgree
<1>1. PinsIInv => PinsAgree
  BY AgreeingIsAgreement DEF PinsIInv
<1> QED BY <1>1, PinsInvariant, PTL

-----------------------------------------------------------------------------
(* Side by side *)

\* Each of the four is implemented by what they do together: a step of MCSpec is a
\* step of one and leaves the variables of the others alone.
LEMMA EachIsImplemented == MCSpec => Spec /\ LinkSpec /\ PacingSpec /\ PinsSpec
<1>1. MCInit => Init /\ LinkInit /\ PacingInit /\ PinsInit
  BY DEF MCInit
<1>2. ASSUME [EventsStep \/ LinkStep \/ RepliesStep \/ PinsStep]_allVars
      PROVE  [Next]_vars /\ [LinkNext]_linkVars /\ [PacingNext]_pacingVars /\ [PinsNext]_pinVars
  BY <1>2 DEF EventsStep, LinkStep, RepliesStep, PinsStep, allVars, outgoing
<1> QED BY <1>1, <1>2, PTL DEF MCSpec, Spec, LinkSpec, PacingSpec, PinsSpec

\* Combat frames, sockets, replies and pins keep their types together.
THEOREM LinkTypesCorrect == MCSpec => []TypesOK
<1>1. TypeOK /\ LinkTypeOK /\ PacingTypeOK /\ PinsTypeOK => TypesOK
  BY DEF TypesOK
<1> QED
  BY <1>1, EachIsImplemented, TypeCorrect, LinkTypeCorrect, PacingTypeCorrect, PinsTypeCorrect, PTL
=============================================================================
