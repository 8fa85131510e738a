------------------------------ MODULE Told_proofs ------------------------------
(***************************************************************************)
(* Why what the LLM is told in a turn is true of the stores: of the own    *)
(* tribe's dinos, for any tribes, clusters and names, whatever is tamed,   *)
(* renamed or forgotten while the tool waits; and of what is remembered,   *)
(* of the news and of the history, for any facts, questions, limits and    *)
(* budgets, whatever is written between two reads.                         *)
(***************************************************************************)
EXTENDS MCStores, Stores_proofs, AgentLoop_proofs

-----------------------------------------------------------------------------
(* A tribe's dinos *)

Clusters == {t.cluster : t \in Tribes}
Pairs == {t.team : t \in Tribes} \X Names

\* What an event says was so: whose dino it is, and how the tribe was called.
EventFits(e, fr, u) ==
  /\ e \in DinoEvents /\ e.n <= fr
  /\ e.event = "dino_tamed" => e.team \in {e.of.team, Unknown} /\ <<e.of, e.tribe>> \in u
  /\ e.event = "dino_death" => e.team = e.of.team /\ e.tribe = Unknown

\* Events are in the order they came in.
RingFits(s, fr, u) ==
  /\ s \in Seq(DinoEvents)
  /\ \A i \in 1 .. Len(s) : EventFits(s[i], fr, u)
  /\ \A i, j \in 1 .. Len(s) : i < j => s[i].n < s[j].n

TamedIn(c, tm) == {t \in tm : t.cluster = c}

\* A cluster's map names tribes that tamed there as they were once called, and has all
\* of them as long as there are not too many.
TeamsFit(teams, c, tm, u) ==
  /\ teams \in Seq(Pairs) /\ Len(teams) <= TeamTribeMax
  /\ \A i \in 1 .. Len(teams) : \E t \in tm :
       t.cluster = c /\ t.team = teams[i][1] /\ <<t, teams[i][2]>> \in u
  /\ Cardinality(TamedIn(c, tm)) <= TeamTribeMax =>
       /\ Len(teams) = Cardinality(TamedIn(c, tm))
       /\ \A t \in TamedIn(c, tm) : Holds(teams, t.team)

NamesFit ==
  /\ named \in [Tribes -> Names \cup {Unknown}] /\ renames \in 0 .. MaxRenames
  /\ \A t \in Tribes : <<t, named[t]>> \in used

RingIsSound ==
  /\ frames \in 0 .. MaxFrames
  /\ RingFits(dinoRing, frames, used) /\ Len(dinoRing) <= DinoRingSize

TeamsAreSound ==
  /\ tamed \subseteq Tribes /\ IsFiniteSet(tamed) /\ DOMAIN teamTribe = Clusters
  /\ \A c \in Clusters : TeamsFit(teamTribe[c], c, tamed, used)

\* What the turn was handed was so, and still tells the truth.
GivenIsSound ==
  /\ asking \in BOOLEAN /\ given.by \in Tribes
  /\ RingFits(given.events, frames, used)
  /\ given.tamed \subseteq Tribes /\ IsFiniteSet(given.tamed)
  /\ TeamsFit(given.teams, given.by.cluster, given.tamed, used)

TribeIInv ==
  /\ NamesFit /\ RingIsSound /\ TeamsAreSound /\ GivenIsSound
  /\ told \in Seq(DinoEvents)

-----------------------------------------------------------------------------
(* The ring *)

\* What an event says was so stays true.
LEMMA RingGrows ==
  ASSUME NEW s, NEW fr \in Nat, NEW gr \in Nat, NEW u, NEW v,
         RingFits(s, fr, u), fr <= gr, u \subseteq v
  PROVE  RingFits(s, gr, v)
<1>1. \A e \in DinoEvents : e.n \in Nat
  BY DEF DinoEvents
<1> SUFFICES ASSUME NEW i \in 1 .. Len(s) PROVE EventFits(s[i], gr, v)
  BY DEF RingFits
<1>2. EventFits(s[i], fr, u)
  BY DEF RingFits
<1>3. s[i] \in DinoEvents /\ s[i].n \in Nat /\ s[i].n <= fr
  BY <1>1, <1>2 DEF EventFits
<1>4. s[i].n <= gr
  BY <1>3
<1> QED BY <1>2, <1>4 DEF EventFits

\* A new event is the newest; the oldest goes when the ring is full.
LEMMA NotedFits ==
  ASSUME NEW s, NEW fr \in Nat, NEW u, RingFits(s, fr, u), Len(s) <= DinoRingSize,
         NEW e, EventFits(e, fr + 1, u), e.n = fr + 1
  PROVE  LET all == Append(s, e)
             new == IF Len(all) > DinoRingSize THEN Tail(all) ELSE all
         IN  RingFits(new, fr + 1, u) /\ Len(new) <= DinoRingSize
<1> DEFINE all == Append(s, e)
           n == Len(s)
<1>1. s \in Seq(DinoEvents) /\ n \in Nat /\ DinoRingSize \in Nat \ {0} /\ e \in DinoEvents
  BY TribesAssumption DEF RingFits, EventFits
<1>2. RingFits(s, fr + 1, u)
  <2>1. fr + 1 \in Nat /\ fr <= fr + 1 /\ u \subseteq u
    OBVIOUS
  <2> QED BY <2>1, RingGrows
<1> HIDE DEF n
<1>3. /\ all \in Seq(DinoEvents) /\ Len(all) = n + 1 /\ all[n + 1] = e
      /\ \A i \in 1 .. n : all[i] = s[i]
  BY <1>1, AppendProperties DEF n
<1> HIDE DEF all
<1>4. \A i \in 1 .. n + 1 : i \in 1 .. n \/ i = n + 1
  BY <1>1
<1>5. \A i \in 1 .. n + 1 : EventFits(all[i], fr + 1, u)
  BY <1>2, <1>3, <1>4 DEF RingFits, n
<1>6. \A i \in 1 .. n : s[i].n \in Nat /\ s[i].n <= fr
  <2>1. \A f \in DinoEvents : f.n \in Nat
    BY DEF DinoEvents
  <2> QED BY <2>1 DEF RingFits, EventFits, n
<1>7. ASSUME NEW i \in 1 .. n + 1, NEW j \in 1 .. n + 1, i < j PROVE all[i].n < all[j].n
  <2>1. i \in 1 .. n
    BY <1>1, <1>7
  <2>2. CASE j \in 1 .. n
    BY <1>2, <1>3, <1>7, <2>1, <2>2 DEF RingFits, n
  <2>3. CASE j = n + 1
    BY <1>3, <1>6, <2>1, <2>3
  <2> QED BY <1>4, <2>2, <2>3
<1>8. CASE Len(all) > DinoRingSize
  <2>1. all # <<>>
    BY <1>1, <1>3
  <2>2. /\ Tail(all) \in Seq(DinoEvents) /\ Len(Tail(all)) = n
        /\ \A i \in 1 .. n : Tail(all)[i] = all[i + 1]
    <3>1. /\ Tail(all) \in Seq(DinoEvents) /\ Len(Tail(all)) = Len(all) - 1
          /\ \A i \in 1 .. Len(Tail(all)) : Tail(all)[i] = all[i + 1]
      BY <1>3, <2>1, HeadTailProperties
    <3>2. Len(all) - 1 = n
      BY <1>1, <1>3
    <3> QED BY <3>1, <3>2
  <2>3. \A i \in 1 .. n : i + 1 \in 1 .. n + 1
    BY <1>1
  <2>4. \A i, j \in 1 .. n : i < j => i + 1 < j + 1
    BY <1>1
  <2>5. RingFits(Tail(all), fr + 1, u)
    BY <1>5, <1>7, <2>2, <2>3, <2>4 DEF RingFits
  <2> QED BY <1>8, <2>2, <2>5 DEF all, n
<1>9. CASE ~ (Len(all) > DinoRingSize)
  <2>1. RingFits(all, fr + 1, u)
    BY <1>3, <1>5, <1>7 DEF RingFits
  <2>2. Len(all) <= DinoRingSize
    BY <1>1, <1>3, <1>9
  <2> QED BY <1>9, <2>1, <2>2 DEF all
<1> QED BY <1>8, <1>9

-----------------------------------------------------------------------------
(* What tribe a team is *)

LEMMA TeamsGrow ==
  ASSUME NEW teams, NEW c, NEW tm, NEW u, NEW v, TeamsFit(teams, c, tm, u), u \subseteq v
  PROVE  TeamsFit(teams, c, tm, v)
BY DEF TeamsFit

\* A tribe of another cluster tames.
LEMMA ElsewhereTamed ==
  ASSUME NEW teams, NEW c, NEW tm, NEW u, NEW t, t.cluster # c, TeamsFit(teams, c, tm, u)
  PROVE  TeamsFit(teams, c, tm \cup {t}, u)
<1>1. TamedIn(c, tm \cup {t}) = TamedIn(c, tm)
  BY DEF TamedIn
<1> QED BY <1>1 DEF TeamsFit

\* A tame of a tribe is learned; a team is forgotten only if too many tribes tamed.
LEMMA LearnedFits ==
  ASSUME NEW teams, NEW tm \in SUBSET Tribes, IsFiniteSet(tm), NEW u,
         NEW t \in Tribes, NEW name \in Names, <<t, name>> \in u, TeamsFit(teams, t.cluster, tm, u)
  PROVE  TeamsFit(Learned(teams, t.team, name), t.cluster, tm \cup {t}, u)
<1> DEFINE c == t.cluster
           k == t.team
           new == tm \cup {t}
           pair == <<k, name>>
           rest == Room(teams, k)
           keep == Cardinality(TamedIn(c, new)) <= TeamTribeMax
           Backed(p) == \E s \in new : s.cluster = c /\ s.team = p[1] /\ <<s, p[2]>> \in u
<1>1. /\ teams \in Seq(Pairs) /\ Len(teams) \in Nat /\ Len(teams) <= TeamTribeMax
      /\ TeamTribeMax \in Nat \ {0} /\ DOMAIN teams = 1 .. Len(teams)
  BY TribesAssumption DEF TeamsFit
<1>2. pair \in Pairs /\ pair[1] = k /\ pair[2] = name
  BY DEF Pairs
<1>3. Backed(pair)
  BY <1>2
<1>4. \A i \in 1 .. Len(teams) : Backed(teams[i])
  BY DEF TeamsFit
<1>5. TamedIn(c, tm) \in SUBSET tm /\ TamedIn(c, new) = TamedIn(c, tm) \cup {t}
  BY DEF TamedIn
<1>6. /\ IsFiniteSet(TamedIn(c, tm)) /\ Cardinality(TamedIn(c, tm)) \in Nat
      /\ Cardinality(TamedIn(c, new)) = IF t \in TamedIn(c, tm) THEN Cardinality(TamedIn(c, tm))
                                        ELSE Cardinality(TamedIn(c, tm)) + 1
  <2>1. IsFiniteSet(TamedIn(c, tm))
    BY <1>5, FS_Subset
  <2> QED BY <1>5, <2>1, FS_AddElement, FS_CardinalityType
\* A team is known exactly if its tribe tamed.
<1>7. keep => /\ Len(teams) = Cardinality(TamedIn(c, tm))
              /\ \A s \in TamedIn(c, tm) : Holds(teams, s.team)
              /\ Holds(teams, k) <=> t \in TamedIn(c, tm)
  <2> SUFFICES ASSUME keep
               PROVE  /\ Len(teams) = Cardinality(TamedIn(c, tm))
                      /\ \A s \in TamedIn(c, tm) : Holds(teams, s.team)
                      /\ Holds(teams, k) <=> t \in TamedIn(c, tm)
    OBVIOUS
  <2>1. Cardinality(TamedIn(c, tm)) <= TeamTribeMax
    BY <1>1, <1>6
  <2>2. /\ Len(teams) = Cardinality(TamedIn(c, tm))
        /\ \A s \in TamedIn(c, tm) : Holds(teams, s.team)
    BY <2>1 DEF TeamsFit
  <2>3. ASSUME Holds(teams, k) PROVE t \in TamedIn(c, tm)
    <3>1. PICK i \in 1 .. Len(teams) : teams[i][1] = k
      BY <1>1, <2>3 DEF Holds
    <3>2. PICK s \in tm : s.cluster = c /\ s.team = k
      BY <3>1 DEF TeamsFit
    <3>3. s = t
      BY <3>2, TribesAssumption
    <3> QED BY <3>2, <3>3 DEF TamedIn
  <2> QED BY <2>2, <2>3
<1>8. keep => rest = teams
  <2> SUFFICES ASSUME keep, ~ Holds(teams, k) PROVE ~ (Len(teams) >= TeamTribeMax)
    BY DEF Room
  <2> QED BY <1>1, <1>6, <1>7
\* What is left fits, and there is room if the team is new.
<1>9. /\ rest \in Seq(Pairs) /\ Len(rest) \in Nat /\ Len(rest) <= TeamTribeMax
      /\ ~ Holds(rest, k) => Len(rest) < TeamTribeMax
      /\ \A i \in 1 .. Len(rest) : Backed(rest[i])
  <2>1. CASE ~ Holds(teams, k) /\ Len(teams) >= TeamTribeMax
    <3> HIDE DEF Backed
    <3>1. rest = Tail(teams) /\ teams # <<>>
      BY <1>1, <2>1 DEF Room
    <3>2. /\ rest \in Seq(Pairs) /\ Len(rest) = Len(teams) - 1
          /\ \A i \in 1 .. Len(rest) : rest[i] = teams[i + 1]
      BY <1>1, <3>1, HeadTailProperties
    <3>3. \A i \in 1 .. Len(rest) : i + 1 \in 1 .. Len(teams)
      BY <1>1, <3>2
    <3>4. Len(rest) \in Nat /\ Len(rest) < TeamTribeMax
      BY <1>1, <3>2
    <3> QED BY <1>1, <1>4, <3>2, <3>3, <3>4
  <2>2. CASE ~ (~ Holds(teams, k) /\ Len(teams) >= TeamTribeMax)
    <3> HIDE DEF Backed
    <3>1. rest = teams
      BY <2>2 DEF Room
    <3>2. ~ Holds(teams, k) => Len(teams) < TeamTribeMax
      BY <1>1, <2>2
    <3> QED BY <1>1, <1>4, <3>1, <3>2
  <2> QED BY <2>1, <2>2
<1> HIDE DEF Backed, rest, pair, keep
<1>10. CASE Holds(rest, k)
  <2> DEFINE out == [i \in DOMAIN rest |-> IF rest[i][1] = k THEN pair ELSE rest[i]]
  <2>1. Learned(teams, k, name) = out
    BY <1>10 DEF Learned, rest, pair
  <2>2. DOMAIN rest = 1 .. Len(rest) /\ \A i \in 1 .. Len(rest) : rest[i] \in Pairs
    BY <1>9
  <2>3. /\ DOMAIN out = 1 .. Len(rest)
        /\ \A i \in 1 .. Len(rest) : out[i] = IF rest[i][1] = k THEN pair ELSE rest[i]
    BY <2>2
  <2>4. out \in [1 .. Len(rest) -> Pairs]
    BY <1>2, <2>2
  <2> HIDE DEF out
  <2>5. out \in Seq(Pairs) /\ Len(out) = Len(rest)
    <3> DEFINE m == Len(rest)
    <3>1. m \in Nat /\ out \in [1 .. m -> Pairs]
      BY <1>9, <2>4
    <3> HIDE DEF m
    <3>2. out \in Seq(Pairs) /\ Len(out) = m
      BY <3>1
    <3> QED BY <3>2 DEF m
  <2>6. \A i \in 1 .. Len(rest) : Backed(out[i]) /\ out[i][1] = rest[i][1]
    BY <1>2, <1>3, <1>9, <2>3
  <2>7. \A team : Holds(rest, team) => Holds(out, team)
    BY <2>2, <2>3, <2>6 DEF Holds
  <2>8. keep => /\ Len(out) = Cardinality(TamedIn(c, new))
                /\ \A s \in TamedIn(c, new) : Holds(out, s.team)
    <3> SUFFICES ASSUME keep
                 PROVE  /\ Len(out) = Cardinality(TamedIn(c, new))
                        /\ \A s \in TamedIn(c, new) : Holds(out, s.team)
      OBVIOUS
    <3>1. rest = teams /\ t \in TamedIn(c, tm)
      BY <1>7, <1>8, <1>10
    <3> QED BY <1>5, <1>6, <1>7, <2>5, <2>7, <3>1
  <2> QED BY <1>9, <2>1, <2>5, <2>6, <2>8 DEF TeamsFit, Backed, keep
<1>11. CASE ~ Holds(rest, k)
  <2> DEFINE out == Append(rest, pair)
             m == Len(rest)
  <2>1. Learned(teams, k, name) = out
    BY <1>11 DEF Learned, rest, pair
  <2>2. /\ out \in Seq(Pairs) /\ Len(out) = m + 1 /\ out[m + 1] = pair
        /\ \A i \in 1 .. m : out[i] = rest[i]
    BY <1>2, <1>9, AppendProperties
  <2>3. m \in Nat /\ DOMAIN rest = 1 .. m /\ DOMAIN out = 1 .. m + 1
    BY <1>9, <2>2
  <2> HIDE DEF out
  <2>4. m + 1 <= TeamTribeMax
    BY <1>1, <1>9, <1>11, <2>3
  <2>5. \A i \in 1 .. m + 1 : i \in 1 .. m \/ i = m + 1
    BY <2>3
  <2>6. \A i \in 1 .. m + 1 : Backed(out[i])
    BY <1>3, <1>9, <2>2, <2>5
  <2>7. Holds(out, k) /\ \A team : Holds(rest, team) => Holds(out, team)
    <3>1. m + 1 \in 1 .. m + 1 /\ 1 .. m \subseteq 1 .. m + 1
      BY <2>3
    <3> HIDE DEF m
    <3> QED BY <1>2, <2>2, <2>3, <3>1 DEF Holds
  <2>8. keep => /\ Len(out) = Cardinality(TamedIn(c, new))
                /\ \A s \in TamedIn(c, new) : Holds(out, s.team)
    <3> SUFFICES ASSUME keep
                 PROVE  /\ Len(out) = Cardinality(TamedIn(c, new))
                        /\ \A s \in TamedIn(c, new) : Holds(out, s.team)
      OBVIOUS
    <3>1. rest = teams /\ t \notin TamedIn(c, tm)
      BY <1>7, <1>8, <1>11
    <3>2. Len(out) = Cardinality(TamedIn(c, new))
      BY <1>6, <1>7, <2>2, <3>1
    <3>3. \A s \in TamedIn(c, new) : Holds(out, s.team)
      BY <1>5, <1>7, <2>7, <3>1
    <3> QED BY <3>2, <3>3
  <2> QED BY <2>1, <2>2, <2>4, <2>6, <2>8 DEF TeamsFit, Backed, keep
<1> QED BY <1>10, <1>11

-----------------------------------------------------------------------------
(* The newest of them *)

Rank(I, i) == Cardinality({j \in I : j > i})

\* Ranks are smaller than the set is large, and the larger of two numbers has the lower.
LEMMA RanksAre ==
  ASSUME NEW m \in Nat, NEW I \in SUBSET (1 .. m)
  PROVE  /\ IsFiniteSet(I) /\ Cardinality(I) \in Nat
         /\ \A i \in I : Rank(I, i) \in 0 .. Cardinality(I) - 1
         /\ \A i, k \in I : i < k => Rank(I, k) < Rank(I, i)
<1> DEFINE c == Cardinality(I)
           Above(i) == {j \in I : j > i}
<1>1. IsFiniteSet(1 .. m)
  BY FS_Interval
<1>2. IsFiniteSet(I) /\ c \in Nat
  BY <1>1, FS_Subset, FS_CardinalityType
<1>3. I \subseteq Nat
  OBVIOUS
<1>4. ASSUME NEW i \in I PROVE IsFiniteSet(Above(i)) /\ Rank(I, i) \in 0 .. c - 1
  <2>1. Above(i) \in SUBSET I /\ Above(i) # I
    <3>1. ~ (i > i)
      BY <1>3
    <3> QED BY <3>1
  <2>2. IsFiniteSet(Above(i)) /\ Cardinality(Above(i)) <= c /\ Cardinality(Above(i)) # c
    BY <1>2, <2>1, FS_Subset
  <2>3. Cardinality(Above(i)) \in Nat
    BY <2>2, FS_CardinalityType
  <2>4. Rank(I, i) = Cardinality(Above(i))
    BY DEF Rank
  <2> HIDE DEF Above, c
  <2> QED BY <1>2, <2>2, <2>3, <2>4
<1>5. ASSUME NEW i \in I, NEW k \in I, i < k PROVE Rank(I, k) < Rank(I, i)
  <2>1. Above(k) \in SUBSET Above(i) /\ k \in Above(i) /\ k \notin Above(k)
    <3>1. \A j \in I : j > k => j > i
      BY <1>3, <1>5
    <3>2. ~ (k > k) /\ k > i
      BY <1>3, <1>5
    <3> QED BY <3>1, <3>2
  <2>2. IsFiniteSet(Above(i)) /\ IsFiniteSet(Above(k))
    BY <1>4
  <2>3. Rank(I, i) = Cardinality(Above(i)) /\ Rank(I, k) = Cardinality(Above(k))
    BY DEF Rank
  <2> HIDE DEF Above
  <2>4. /\ Cardinality(Above(k)) <= Cardinality(Above(i)) /\ Cardinality(Above(k)) # Cardinality(Above(i))
        /\ Cardinality(Above(k)) \in Nat /\ Cardinality(Above(i)) \in Nat
    BY <2>1, <2>2, FS_Subset, FS_CardinalityType
  <2> QED BY <2>3, <2>4
<1> QED BY <1>2, <1>4, <1>5

\* Every number of the set has one place, the largest the first.
LEMMA NewestAre ==
  ASSUME NEW m \in Nat, NEW I \in SUBSET (1 .. m)
  PROVE  /\ Cardinality(I) \in Nat
         /\ \A n \in 1 .. Cardinality(I) : NthNewest(I, n) \in I
         /\ \A i \in I : \E n \in 1 .. Cardinality(I) : NthNewest(I, n) = i
         /\ \A n, p \in 1 .. Cardinality(I) : n < p => NthNewest(I, n) > NthNewest(I, p)
<1> DEFINE c == Cardinality(I)
           T == 0 .. c - 1
           f == [i \in I |-> Rank(I, i)]
<1>1. IsFiniteSet(I) /\ c \in Nat /\ I \subseteq Nat
  <2>1. IsFiniteSet(I) /\ Cardinality(I) \in Nat
    BY RanksAre
  <2>2. I \subseteq Nat
    OBVIOUS
  <2> QED BY <2>1, <2>2
<1>2. IsFiniteSet(T) /\ Cardinality(T) = c
  <2>1. 0 \in Int /\ c - 1 \in Int
    BY <1>1
  <2>2. IsFiniteSet(0 .. c - 1) /\ Cardinality(0 .. c - 1) = IF 0 > c - 1 THEN 0 ELSE c - 1 - 0 + 1
    BY <2>1, FS_Interval
  <2> QED BY <1>1, <2>2
<1>3. /\ \A i \in I : Rank(I, i) \in T /\ Rank(I, i) \in Nat
      /\ \A i, k \in I : i < k => Rank(I, k) < Rank(I, i)
  <2>1. /\ \A i \in I : Rank(I, i) \in 0 .. Cardinality(I) - 1
        /\ \A i, k \in I : i < k => Rank(I, k) < Rank(I, i)
    BY RanksAre
  <2>2. \A r \in 0 .. c - 1 : r \in Nat
    BY <1>1
  <2> QED BY <2>1, <2>2
<1>4. \A i, k \in I : Rank(I, i) = Rank(I, k) => i = k
  <2> SUFFICES ASSUME NEW i \in I, NEW k \in I, Rank(I, i) = Rank(I, k) PROVE i = k
    OBVIOUS
  <2>1. i < k \/ k < i \/ i = k
    BY <1>1
  <2>2. Rank(I, i) \in Nat /\ Rank(I, k) \in Nat
    BY <1>3
  <2> QED BY <1>3, <2>1, <2>2
<1>5. f \in Surjection(I, T)
  <2>1. f \in [I -> T]
    BY <1>3
  <2>2. \A i, k \in I : f[i] = f[k] => i = k
    BY <1>4
  <2> HIDE DEF f, T
  <2>3. f \in Injection(I, T)
    BY <2>1, <2>2 DEF Injection, IsInjective
  <2> QED BY <1>1, <1>2, <2>3, FS_Injection
<1>6. ASSUME NEW n \in 1 .. c PROVE NthNewest(I, n) \in I /\ Rank(I, NthNewest(I, n)) = n - 1
  <2>1. n - 1 \in T
    BY <1>1
  <2>2. PICK i \in I : f[i] = n - 1
    <3> HIDE DEF f, T
    <3> QED BY <1>5, <2>1 DEF Surjection
  <2>3. Rank(I, i) = n - 1
    BY <2>2
  <2> QED BY <2>3 DEF NthNewest, Rank
<1>7. ASSUME NEW i \in I PROVE \E n \in 1 .. c : NthNewest(I, n) = i
  <2>1. PICK r \in T : Rank(I, i) = r
    BY <1>3
  <2>2. r + 1 \in 1 .. c /\ r + 1 - 1 = r
    BY <1>1
  <2>3. PICK n \in 1 .. c : n - 1 = r
    BY <2>2
  <2>4. NthNewest(I, n) \in I /\ Rank(I, NthNewest(I, n)) = r
    BY <1>6, <2>3
  <2>5. NthNewest(I, n) = i
    BY <1>4, <2>1, <2>4
  <2> QED BY <2>5
<1>8. ASSUME NEW n \in 1 .. c, NEW p \in 1 .. c, n < p PROVE NthNewest(I, n) > NthNewest(I, p)
  <2> DEFINE a == NthNewest(I, n)
             b == NthNewest(I, p)
  <2>1. a \in I /\ b \in I /\ Rank(I, a) = n - 1 /\ Rank(I, b) = p - 1
    BY <1>6
  <2> HIDE DEF a, b
  <2>2. a \in Nat /\ b \in Nat /\ n - 1 < p - 1
    BY <1>1, <1>8, <2>1
  <2>3. a # b
    BY <2>1, <2>2
  <2>4. ~ (a < b)
    <3>1. a < b => Rank(I, b) < Rank(I, a)
      BY <1>3, <2>1
    <3>2. ~ (p - 1 < n - 1)
      BY <1>1, <2>2
    <3> QED BY <2>1, <3>1, <3>2
  <2>5. a > b
    BY <2>2, <2>3, <2>4
  <2> QED BY <2>5 DEF a, b
<1> QED BY <1>1, <1>6, <1>7, <1>8

-----------------------------------------------------------------------------
(* The steps *)

LEMMA NoTeamsFit == \A c, u : TeamsFit(<<>>, c, {}, u)
<1> TAKE c, u
<1>1. TamedIn(c, {}) = {}
  BY DEF TamedIn
<1>2. Cardinality({}) = 0
  BY FS_EmptySet
<1>3. TeamTribeMax \in Nat /\ <<>> \in Seq(Pairs) /\ Len(<<>>) = 0 /\ 0 <= TeamTribeMax
  BY TribesAssumption
<1>4. 1 .. 0 = {}
  OBVIOUS
<1> QED BY <1>1, <1>2, <1>3, <1>4 DEF TeamsFit

LEMMA TribeStarts == TribeInit => TribeIInv
<1> SUFFICES ASSUME TribeInit PROVE TribeIInv
  OBVIOUS
<1>1. /\ named = FirstNames /\ renames = 0 /\ used = {<<t, FirstNames[t]>> : t \in Tribes}
      /\ frames = 0 /\ dinoRing = <<>> /\ tamed = {} /\ teamTribe = [c \in Clusters |-> <<>>]
      /\ asking = FALSE /\ given = NoTurn /\ told = <<>>
  BY DEF TribeInit, Clusters
<1>2. RingFits(<<>>, 0, used)
  BY DEF RingFits
<1>3. \A c : TeamsFit(<<>>, c, {}, used)
  BY NoTeamsFit
<1>4. /\ NoTurn.by \in Tribes /\ NoTurn.events = <<>> /\ NoTurn.teams = <<>> /\ NoTurn.tamed = {}
  BY TribesAssumption DEF NoTurn
<1>5. NamesFit
  <2>1. renames \in 0 .. MaxRenames
    BY <1>1, TribesAssumption
  <2>2. named \in [Tribes -> Names \cup {Unknown}]
    BY <1>1, TribesAssumption
  <2> QED BY <1>1, <2>1, <2>2 DEF NamesFit
<1>6. RingIsSound
  <2>1. frames \in 0 .. MaxFrames /\ Len(<<>>) <= DinoRingSize
    BY <1>1, TribesAssumption
  <2> QED BY <1>1, <1>2, <2>1 DEF RingIsSound
<1>7. TeamsAreSound
  BY <1>1, <1>3, FS_EmptySet DEF TeamsAreSound
<1>8. GivenIsSound
  <2>1. RingFits(given.events, frames, used)
    BY <1>1, <1>2, <1>4
  <2>2. TeamsFit(given.teams, given.by.cluster, given.tamed, used)
    BY <1>1, <1>3, <1>4
  <2> QED BY <1>1, <1>4, <2>1, <2>2, FS_EmptySet DEF GivenIsSound
<1> QED BY <1>1, <1>5, <1>6, <1>7, <1>8 DEF TribeIInv

\* A frame comes in.
LEMMA FramesStep ==
  ASSUME TribeIInv, NEW e, Noted(e), EventFits(e, frames + 1, used), e.n = frames + 1,
         UNCHANGED <<worldVars, askVars>>, TeamsAreSound'
  PROVE  TribeIInv'
<1>1. /\ UNCHANGED <<named, renames, used, asking, given, told>>
      /\ frames < MaxFrames /\ frames' = frames + 1
      /\ dinoRing' = LET all == Append(dinoRing, e) IN
                       IF Len(all) > DinoRingSize THEN Tail(all) ELSE all
  BY DEF worldVars, askVars, Noted
<1>2. frames \in Nat /\ frames + 1 \in 0 .. MaxFrames /\ frames <= frames + 1
  BY <1>1, TribesAssumption DEF TribeIInv, RingIsSound
<1>3. RingFits(dinoRing', frames + 1, used) /\ Len(dinoRing') <= DinoRingSize
  <2>1. RingFits(dinoRing, frames, used) /\ Len(dinoRing) <= DinoRingSize
    BY DEF TribeIInv, RingIsSound
  <2> QED BY <1>1, <1>2, <2>1, NotedFits
<1>4. RingIsSound'
  BY <1>1, <1>2, <1>3 DEF RingIsSound
<1>5. RingFits(given.events, frames + 1, used)
  <2>1. RingFits(given.events, frames, used) /\ used \subseteq used /\ frames + 1 \in Nat
    BY <1>2 DEF TribeIInv, GivenIsSound
  <2> QED BY <1>2, <2>1, RingGrows
<1>6. GivenIsSound'
  BY <1>1, <1>5 DEF TribeIInv, GivenIsSound
<1>7. NamesFit' /\ (told \in Seq(DinoEvents))'
  BY <1>1 DEF TribeIInv, NamesFit
<1> QED BY <1>4, <1>6, <1>7 DEF TribeIInv

LEMMA EventsAre ==
  ASSUME TribeIInv, frames < MaxFrames, frames' = frames + 1,
         NEW t \in Tribes, NEW event \in {"dino_tamed", "dino_death"},
         NEW team \in {t.team, Unknown}, NEW tribe \in Names \cup {Unknown},
         event = "dino_tamed" => <<t, tribe>> \in used,
         event = "dino_death" => team = t.team /\ tribe = Unknown
  PROVE  LET e == DinoEvent(event, team, tribe, t)
         IN  EventFits(e, frames + 1, used) /\ e.n = frames + 1
<1> DEFINE e == DinoEvent(event, team, tribe, t)
<1>1. e = [n |-> frames + 1, event |-> event, team |-> team, tribe |-> tribe, of |-> t]
  BY DEF DinoEvent
<1>2. /\ e.n = frames + 1 /\ e.event = event /\ e.team = team /\ e.tribe = tribe /\ e.of = t
  BY <1>1
<1>3. frames + 1 \in 1 .. MaxFrames /\ frames + 1 <= frames + 1
  BY TribesAssumption DEF TribeIInv, RingIsSound
<1>4. e \in DinoEvents
  BY <1>1, <1>3 DEF DinoEvents
<1> HIDE DEF e
<1>5. EventFits(e, frames + 1, used)
  BY <1>2, <1>3, <1>4 DEF EventFits
<1> QED BY <1>2, <1>5 DEF e

LEMMA TamedStep == ASSUME TribeIInv, NEW t \in Tribes, NEW team \in {t.team, Unknown}, Tamed(t, team)
                   PROVE  TribeIInv'
<1> DEFINE e == DinoEvent("dino_tamed", team, named[t], t)
<1>1. /\ Noted(e) /\ UNCHANGED <<worldVars, askVars>>
      /\ frames < MaxFrames /\ frames' = frames + 1
  BY DEF Tamed, Noted
<1>2. named[t] \in Names \cup {Unknown} /\ <<t, named[t]>> \in used
  BY DEF TribeIInv, NamesFit
<1>3. EventFits(e, frames + 1, used) /\ e.n = frames + 1
  <2>1. "dino_tamed" \in {"dino_tamed", "dino_death"} /\ "dino_tamed" # "dino_death"
    OBVIOUS
  <2> QED BY <1>1, <1>2, <2>1, EventsAre
<1> HIDE DEF e
<1>4. /\ tamed \in SUBSET Tribes /\ IsFiniteSet(tamed) /\ DOMAIN teamTribe = Clusters
      /\ \A c \in Clusters : TeamsFit(teamTribe[c], c, tamed, used)
      /\ t.cluster \in Clusters /\ UNCHANGED used
  BY <1>1 DEF TribeIInv, TeamsAreSound, Clusters, worldVars
<1>5. TeamsAreSound'
  <2>1. CASE team # Unknown /\ named[t] # Unknown
    <3>1. /\ teamTribe' = [teamTribe EXCEPT ![t.cluster] = Learned(teamTribe[t.cluster], team, named[t])]
          /\ tamed' = tamed \cup {t} /\ team = t.team /\ named[t] \in Names
      BY <1>2, <2>1 DEF Tamed
    <3>2. IsFiniteSet(tamed') /\ tamed' \subseteq Tribes
      BY <1>4, <3>1, FS_AddElement
    <3>3. /\ DOMAIN teamTribe' = Clusters
          /\ teamTribe'[t.cluster] = Learned(teamTribe[t.cluster], t.team, named[t])
          /\ \A c \in Clusters : c # t.cluster => teamTribe'[c] = teamTribe[c]
      <4> DEFINE l == Learned(teamTribe[t.cluster], team, named[t])
      <4> HIDE DEF l
      <4>1. teamTribe' = [teamTribe EXCEPT ![t.cluster] = l] /\ team = t.team
        BY <3>1 DEF l
      <4>2. /\ DOMAIN teamTribe' = Clusters /\ teamTribe'[t.cluster] = l
            /\ \A c \in Clusters : c # t.cluster => teamTribe'[c] = teamTribe[c]
        BY <1>4, <4>1
      <4> QED BY <4>1, <4>2 DEF l
    <3>4. TeamsFit(teamTribe'[t.cluster], t.cluster, tamed', used)
      <4>1. PICK teams : teams = teamTribe[t.cluster]
        OBVIOUS
      <4>2. PICK name \in Names : name = named[t]
        BY <3>1
      <4>3. TeamsFit(Learned(teams, t.team, name), t.cluster, tamed \cup {t}, used)
        BY <1>2, <1>4, <4>1, <4>2, LearnedFits
      <4> QED BY <3>1, <3>3, <4>1, <4>2, <4>3
    <3>5. ASSUME NEW c \in Clusters, c # t.cluster PROVE TeamsFit(teamTribe'[c], c, tamed', used)
      <4>1. TeamsFit(teamTribe[c], c, tamed \cup {t}, used)
        BY <1>4, <3>5, ElsewhereTamed
      <4> QED BY <3>1, <3>3, <3>5, <4>1
    <3> QED BY <1>4, <3>2, <3>3, <3>4, <3>5 DEF TeamsAreSound
  <2>2. CASE ~ (team # Unknown /\ named[t] # Unknown)
    <3>1. UNCHANGED <<teamTribe, tamed>>
      BY <2>2 DEF Tamed
    <3> QED BY <1>4, <3>1 DEF TeamsAreSound
  <2> QED BY <2>1, <2>2
<1> QED BY <1>1, <1>3, <1>5, FramesStep

LEMMA DiedStep == ASSUME TribeIInv, NEW t \in Tribes, Died(t) PROVE TribeIInv'
<1> DEFINE e == DinoEvent("dino_death", t.team, Unknown, t)
<1>1. /\ Noted(e) /\ UNCHANGED <<worldVars, askVars>> /\ UNCHANGED <<teamTribe, tamed>>
      /\ frames < MaxFrames /\ frames' = frames + 1
  BY DEF Died, Noted
<1>2. EventFits(e, frames + 1, used) /\ e.n = frames + 1
  <2>1. "dino_death" \in {"dino_tamed", "dino_death"} /\ "dino_tamed" # "dino_death"
    OBVIOUS
  <2>2. t.team \in {t.team, Unknown} /\ Unknown \in Names \cup {Unknown}
    OBVIOUS
  <2> QED BY <1>1, <2>1, <2>2, EventsAre
<1> HIDE DEF e
<1>3. TeamsAreSound'
  BY <1>1 DEF TribeIInv, TeamsAreSound, worldVars
<1> QED BY <1>1, <1>2, <1>3, FramesStep

LEMMA RenameStep == ASSUME TribeIInv, NEW t \in Tribes, NEW name \in Names, Rename(t, name)
                    PROVE  TribeIInv'
<1>1. /\ renames < MaxRenames /\ renames' = renames + 1
      /\ named' = [named EXCEPT ![t] = name] /\ used' = used \cup {<<t, name>>}
      /\ UNCHANGED <<frames, dinoRing, teamTribe, tamed, asking, given, told>>
  BY DEF Rename, askVars
<1>2. used \subseteq used'
  BY <1>1
<1>3. frames \in Nat /\ frames <= frames
  BY TribesAssumption DEF TribeIInv, RingIsSound
<1>4. NamesFit'
  <2>1. renames' \in 0 .. MaxRenames
    BY <1>1, TribesAssumption DEF TribeIInv, NamesFit
  <2>2. /\ named' \in [Tribes -> Names \cup {Unknown}]
        /\ \A s \in Tribes : named'[s] = IF s = t THEN name ELSE named[s]
    BY <1>1 DEF TribeIInv, NamesFit
  <2>3. \A s \in Tribes : <<s, named'[s]>> \in used'
    BY <1>1, <2>2 DEF TribeIInv, NamesFit
  <2> QED BY <2>1, <2>2, <2>3 DEF NamesFit
<1>5. PICK v : v = used'
  OBVIOUS
<1>6. RingFits(dinoRing, frames, v) /\ RingFits(given.events, frames, v)
  BY <1>2, <1>3, <1>5, RingGrows DEF TribeIInv, RingIsSound, GivenIsSound
<1>7. /\ \A c \in Clusters : TeamsFit(teamTribe[c], c, tamed, v)
      /\ TeamsFit(given.teams, given.by.cluster, given.tamed, v)
  BY <1>2, <1>5, TeamsGrow DEF TribeIInv, TeamsAreSound, GivenIsSound
<1>8. RingIsSound' /\ TeamsAreSound' /\ GivenIsSound'
  BY <1>1, <1>5, <1>6, <1>7 DEF TribeIInv, RingIsSound, TeamsAreSound, GivenIsSound
<1> QED BY <1>1, <1>4, <1>8 DEF TribeIInv

LEMMA AskStep == ASSUME TribeIInv, NEW t \in Tribes, AskTribe(t) PROVE TribeIInv'
<1>1. /\ asking' = TRUE /\ told' = <<>>
      /\ given' = [by |-> t, events |-> dinoRing, teams |-> teamTribe[t.cluster], tamed |-> tamed]
      /\ UNCHANGED <<named, renames, used, frames, dinoRing, teamTribe, tamed>>
  BY DEF AskTribe, TeamsFor, worldVars
<1>2. /\ given'.by = t /\ given'.events = dinoRing /\ given'.teams = teamTribe[t.cluster]
      /\ given'.tamed = tamed
  BY <1>1
<1>3. t.cluster \in Clusters
  BY DEF Clusters
<1>4. GivenIsSound'
  BY <1>1, <1>2, <1>3 DEF TribeIInv, RingIsSound, TeamsAreSound, GivenIsSound
<1>5. NamesFit' /\ RingIsSound' /\ TeamsAreSound'
  BY <1>1 DEF TribeIInv, NamesFit, RingIsSound, TeamsAreSound
<1> QED BY <1>1, <1>4, <1>5 DEF TribeIInv

LEMMA ReturnsStep == ASSUME TribeIInv, NEW out \in Seq(DinoEvents), Returns(out) PROVE TribeIInv'
<1>1. /\ asking' = FALSE /\ told' = out /\ given' = NoTurn
      /\ UNCHANGED <<named, renames, used, frames, dinoRing, teamTribe, tamed>>
  BY DEF Returns, worldVars
<1>2. /\ NoTurn.by \in Tribes /\ NoTurn.events = <<>> /\ NoTurn.teams = <<>> /\ NoTurn.tamed = {}
  BY TribesAssumption DEF NoTurn
<1>3. RingFits(<<>>, frames, used)
  BY DEF RingFits
<1>4. TeamsFit(<<>>, NoTurn.by.cluster, {}, used)
  BY NoTeamsFit
<1>5. GivenIsSound'
  <2>1. /\ given'.by \in Tribes /\ given'.tamed = {} /\ given'.tamed \subseteq Tribes
        /\ RingFits(given'.events, frames', used')
        /\ TeamsFit(given'.teams, given'.by.cluster, given'.tamed, used')
    BY <1>1, <1>2, <1>3, <1>4
  <2> QED BY <1>1, <2>1, FS_EmptySet DEF GivenIsSound
<1>6. NamesFit' /\ RingIsSound' /\ TeamsAreSound'
  BY <1>1 DEF TribeIInv, NamesFit, RingIsSound, TeamsAreSound
<1> QED BY <1>1, <1>5, <1>6 DEF TribeIInv

-----------------------------------------------------------------------------
(* What is told *)

Mine(team) == {i \in DOMAIN given.events : Matching(given.events[i], team, named[given.by])}
Shown(I) == IF Cardinality(I) < Limit THEN Cardinality(I) ELSE Limit
NewestOf(s, I) == [n \in 1 .. Shown(I) |-> s[NthNewest(I, n)]]

\* Events that match are shown, unless Limit newer ones are.
LEMMA NewestTold ==
  ASSUME NEW s, NEW fr, NEW u, RingFits(s, fr, u), NEW I \in SUBSET (1 .. Len(s))
  PROVE  LET out == NewestOf(s, I) IN
         /\ out \in Seq(DinoEvents)
         /\ \A e \in ToSet(out) : \E i \in I : e = s[i]
         /\ \A i \in I : \/ s[i] \in ToSet(out)
                         \/ Len(out) = Limit /\ \A f \in ToSet(out) : f.n > s[i].n
<1> DEFINE m == Shown(I)
           c == Cardinality(I)
           out == NewestOf(s, I)
<1>1. s \in Seq(DinoEvents) /\ Len(s) \in Nat /\ \A i \in I : i \in 1 .. Len(s) /\ i \in Nat
  BY DEF RingFits
<1>2. /\ c \in Nat
      /\ \A n \in 1 .. c : NthNewest(I, n) \in I
      /\ \A i \in I : \E n \in 1 .. c : NthNewest(I, n) = i
      /\ \A n, p \in 1 .. c : n < p => NthNewest(I, n) > NthNewest(I, p)
  BY <1>1, NewestAre
<1>3. m \in Nat /\ m <= c /\ (m < c => m = Limit)
  BY <1>2, TribesAssumption DEF Shown
<1>4. \A i \in I : s[i] \in DinoEvents /\ s[i].n \in Nat
  <2>1. \A e \in DinoEvents : e.n \in Nat
    BY DEF DinoEvents
  <2>2. \A i \in 1 .. Len(s) : s[i] \in DinoEvents
    BY <1>1
  <2> QED BY <1>1, <2>1, <2>2
<1>5. \A n \in 1 .. m : n \in 1 .. c
  BY <1>2, <1>3
<1>6. out = [n \in 1 .. m |-> s[NthNewest(I, n)]]
  BY DEF NewestOf
<1> HIDE DEF m, out, c
<1>7. out \in [1 .. m -> DinoEvents]
  BY <1>2, <1>4, <1>5, <1>6
<1>8. out \in Seq(DinoEvents) /\ Len(out) = m /\ DOMAIN out = 1 .. m
  BY <1>3, <1>7
<1>9. \A n \in 1 .. m : out[n] = s[NthNewest(I, n)]
  BY <1>6
<1>10. ASSUME NEW e \in ToSet(out)
       PROVE  \E n \in 1 .. m : n \in 1 .. c /\ NthNewest(I, n) \in I /\ e = s[NthNewest(I, n)]
  <2>1. PICK n \in 1 .. m : e = out[n]
    BY <1>8 DEF ToSet
  <2> QED BY <1>2, <1>5, <1>9, <2>1
<1>11. ASSUME NEW i \in I, s[i] \notin ToSet(out)
       PROVE  Len(out) = Limit /\ \A f \in ToSet(out) : f.n > s[i].n
  <2>1. PICK p \in 1 .. c : NthNewest(I, p) = i
    BY <1>2
  <2>2. ~ (p \in 1 .. m)
    <3> SUFFICES ASSUME p \in 1 .. m PROVE FALSE
      OBVIOUS
    <3>1. out[p] = s[i] /\ p \in DOMAIN out
      BY <1>8, <1>9, <2>1
    <3> QED BY <1>11, <3>1 DEF ToSet
  <2>3. m < p /\ m = Limit
    <3>1. m < p
      BY <1>2, <1>3, <2>2
    <3>2. m < c
      BY <1>2, <1>3, <3>1
    <3> QED BY <1>3, <3>1, <3>2
  <2>4. ASSUME NEW f \in ToSet(out) PROVE f.n > s[i].n
    <3>1. PICK n \in 1 .. m : n \in 1 .. c /\ NthNewest(I, n) \in I /\ f = s[NthNewest(I, n)]
      BY <1>10
    <3>2. n < p
      BY <1>2, <1>3, <2>3
    <3>3. NthNewest(I, n) > i
      BY <1>2, <2>1, <3>1, <3>2
    <3>4. PICK k \in I : k = NthNewest(I, n)
      BY <3>1
    <3>5. i < k
      BY <1>1, <3>3, <3>4
    <3>6. s[i].n < s[k].n
      BY <1>1, <3>5 DEF RingFits
    <3>7. s[i].n \in Nat /\ s[k].n \in Nat
      BY <1>4
    <3> QED BY <3>1, <3>4, <3>6, <3>7
  <2> QED BY <1>8, <2>3, <2>4
<1> QED BY <1>8, <1>10, <1>11 DEF out

LEMMA AnswerIs ==
  ASSUME NEW team, TribeAnswer(team)
  PROVE  Returns(NewestOf(given.events, Mine(team)))
BY DEF TribeAnswer, Mine, NewestOf, Shown

LEMMA MineAre ==
  ASSUME TribeIInv, NEW team
  PROVE  /\ RingFits(given.events, frames, used)
         /\ Mine(team) \in SUBSET (1 .. Len(given.events))
<1>1. RingFits(given.events, frames, used)
  BY DEF TribeIInv, GivenIsSound
<1>2. DOMAIN given.events = 1 .. Len(given.events)
  BY <1>1 DEF RingFits
<1> QED BY <1>1, <1>2 DEF Mine

LEMMA AnswerStep == ASSUME TribeIInv, NEW team, TribeAnswer(team) PROVE TribeIInv'
<1>1. PICK out : out = NewestOf(given.events, Mine(team))
  OBVIOUS
<1>2. out \in Seq(DinoEvents)
  BY <1>1, MineAre, NewestTold
<1>3. Returns(out)
  BY <1>1, AnswerIs
<1> QED BY <1>2, <1>3, ReturnsStep

LEMMA TribeStep == TribeIInv /\ [TribeNext]_tribeVars => TribeIInv'
<1> SUFFICES ASSUME TribeIInv, [TribeNext]_tribeVars PROVE TribeIInv'
  OBVIOUS
<1>1. ASSUME NEW t \in Tribes, NEW name \in Names, Rename(t, name) PROVE TribeIInv'
  BY <1>1, RenameStep
<1>2. ASSUME NEW t \in Tribes, NEW team \in {t.team, Unknown}, Tamed(t, team) PROVE TribeIInv'
  BY <1>2, TamedStep
<1>3. ASSUME NEW t \in Tribes, Died(t) PROVE TribeIInv'
  BY <1>3, DiedStep
<1>4. ASSUME NEW t \in Tribes, AskTribe(t) PROVE TribeIInv'
  BY <1>4, AskStep
<1>5. ASSUME NEW team, TribeAnswer(team) PROVE TribeIInv'
  BY <1>5, AnswerStep
<1>6. CASE NoAnswer
  <2>1. <<>> \in Seq(DinoEvents)
    OBVIOUS
  <2> QED BY <1>6, <2>1, ReturnsStep DEF NoAnswer
<1>7. CASE UNCHANGED tribeVars
  BY <1>7 DEF tribeVars, TribeIInv, NamesFit, RingIsSound, TeamsAreSound, GivenIsSound
<1> QED BY <1>1, <1>2, <1>3, <1>4, <1>5, <1>6, <1>7 DEF TribeNext

LEMMA TribeInvariant == TribeSpec => []TribeIInv
<1>1. TribeInit => TribeIInv
  BY TribeStarts
<1>2. TribeIInv /\ [TribeNext]_tribeVars => TribeIInv'
  BY TribeStep
<1> QED BY <1>1, <1>2, PTL DEF TribeSpec

\* The ring of dino events and the maps of teams keep to their sizes, and every event
\* kept or told is well formed (server.py, _handle_game_event; actions.py,
\* get_recent_dino_events).
THEOREM TribeTypeCorrect == TribeSpec => []TribeTypeOK
<1>1. TribeIInv => TribeTypeOK
  <2> SUFFICES ASSUME TribeIInv PROVE TribeTypeOK
    OBVIOUS
  <2>1. dinoRing \in Seq(DinoEvents) /\ told \in Seq(DinoEvents)
    BY DEF TribeIInv, RingIsSound, RingFits
  <2>2. ToSet(dinoRing) \subseteq DinoEvents /\ ToSet(told) \subseteq DinoEvents
    BY <2>1 DEF ToSet
  <2>3. \A c \in DOMAIN teamTribe : Len(teamTribe[c]) <= TeamTribeMax
    BY DEF TribeIInv, TeamsAreSound, TeamsFit
  <2> QED BY <2>2, <2>3 DEF TribeTypeOK, TribeIInv, NamesFit, RingIsSound, TeamsAreSound, GivenIsSound
<1> QED BY <1>1, TribeInvariant, PTL

-----------------------------------------------------------------------------
(* Whose dinos are told of *)

LEMMA TeamsTell ==
  ASSUME NEW s \in Tribes, NEW t \in Tribes, s.cluster = t.cluster, s.team = t.team
  PROVE  s = t
BY TribesAssumption

LEMMA TeamsAreKnown == ASSUME NEW t \in Tribes PROVE t.team # Unknown
BY TribesAssumption

\* A team's name is that of the tribe of the cluster, now or once.
LEMMA NameIsBacked ==
  ASSUME TribeIInv, NEW team, Holds(given.teams, team)
  PROVE  \E t \in Tribes : /\ t.cluster = given.by.cluster /\ t.team = team
                           /\ <<t, NameOf(team)>> \in used
<1> DEFINE P(i) == given.teams[i][1] = team
           k == CHOOSE i \in DOMAIN given.teams : P(i)
<1>1. TeamsFit(given.teams, given.by.cluster, given.tamed, used) /\ given.tamed \subseteq Tribes
  BY DEF TribeIInv, GivenIsSound
<1>2. DOMAIN given.teams = 1 .. Len(given.teams)
  BY <1>1 DEF TeamsFit
<1>3. k \in DOMAIN given.teams /\ P(k)
  <2>1. \E i \in DOMAIN given.teams : P(i)
    BY DEF Holds
  <2> HIDE DEF P
  <2> QED BY <2>1
<1>4. NameOf(team) = given.teams[k][2]
  BY DEF NameOf
<1> HIDE DEF k
<1>5. PICK t \in given.tamed : /\ t.cluster = given.by.cluster /\ t.team = given.teams[k][1]
                               /\ <<t, given.teams[k][2]>> \in used
  BY <1>1, <1>2, <1>3 DEF TeamsFit
<1> QED BY <1>1, <1>3, <1>4, <1>5

\* An event that matches is of the asker's tribe or of one that was called the same.
LEMMA MatchesAreOwn ==
  ASSUME TribeIInv, NEW team \in {given.by.team, Unknown}, NEW e, EventFits(e, frames, used),
         Matching(e, team, named[given.by]), e.of.cluster = given.by.cluster
  PROVE  e.of = given.by \/ Ambiguous(named[given.by])
<1>1. given.by \in Tribes
  BY DEF TribeIInv, GivenIsSound
<1>2. /\ e.of \in Tribes /\ e.event \in {"dino_tamed", "dino_death"}
      /\ e.team \in {e.of.team, Unknown}
      /\ e.tribe # Unknown => <<e.of, e.tribe>> \in used
  BY DEF EventFits, DinoEvents
<1>3. <<e.of, named[given.by]>> \in used => e.of = given.by \/ Ambiguous(named[given.by])
  BY <1>2 DEF Ambiguous
<1>4. CASE team # Unknown
  <2>1. team = given.by.team
    BY <1>4
  <2>2. CASE e.team = team
    <3>1. e.of.team = given.by.team
      BY <1>2, <1>4, <2>1, <2>2
    <3> QED BY <1>1, <1>2, <3>1, TeamsTell
  <2>3. CASE e.tribe # Unknown /\ e.tribe = named[given.by]
    BY <1>2, <1>3, <2>3
  <2> QED BY <1>4, <2>2, <2>3 DEF Matching
<1>5. CASE team = Unknown
  <2>1. CASE e.tribe # Unknown
    BY <1>2, <1>3, <1>5, <2>1 DEF Matching
  <2>2. CASE e.tribe = Unknown
    <3>1. NameOf(e.team) # Unknown /\ NameOf(e.team) = named[given.by]
      BY <1>5, <2>2 DEF Matching
    <3>2. Holds(given.teams, e.team)
      BY <3>1 DEF NameOf
    <3>3. PICK t \in Tribes : /\ t.cluster = given.by.cluster /\ t.team = e.team
                              /\ <<t, NameOf(e.team)>> \in used
      BY <3>2, NameIsBacked
    <3>4. e.team = e.of.team
      BY <1>2, <3>3, TeamsAreKnown
    <3>5. t = e.of
      BY <1>2, <3>3, <3>4, TeamsTell
    <3> QED BY <1>3, <3>1, <3>3, <3>5
  <2> QED BY <2>1, <2>2
<1> QED BY <1>4, <1>5

\* An event of a tribe that keeps its name, and whose team is known, matches.
LEMMA OwnMatch ==
  ASSUME TribeIInv, Attributable, NEW team \in {given.by.team, Unknown},
         NEW e, EventFits(e, frames, used), e.of = given.by
  PROVE  Matching(e, team, named[given.by])
<1> DEFINE by == given.by
           name == named[by]
<1>1. by \in Tribes /\ by.team # Unknown
  BY TeamsAreKnown DEF TribeIInv, GivenIsSound
<1>2. name # Unknown /\ \A nm : <<by, nm>> \in used => nm = name
  <2>1. name # Unknown /\ \A pair \in used : pair[1] = by => pair[2] = name
    BY DEF Attributable, KeepsName
  <2>2. \A nm : <<by, nm>>[1] = by /\ <<by, nm>>[2] = nm
    OBVIOUS
  <2> HIDE DEF by, name
  <2> QED BY <2>1, <2>2
<1>3. CASE e.event = "dino_tamed"
  <2>1. e.team \in {by.team, Unknown} /\ e.tribe = name
    BY <1>2, <1>3 DEF EventFits
  <2> QED BY <1>2, <2>1 DEF Matching
<1>4. CASE e.event = "dino_death"
  <2>1. e.team = by.team /\ e.tribe = Unknown
    BY <1>4 DEF EventFits
  <2>2. CASE team # Unknown
    BY <2>1, <2>2 DEF Matching
  <2>3. CASE team = Unknown
    <3>1. TeamsFit(given.teams, by.cluster, given.tamed, used)
      BY DEF TribeIInv, GivenIsSound
    <3>2. by \in TamedIn(by.cluster, given.tamed)
      BY DEF Attributable, TamedIn
    <3>3. Cardinality(TamedIn(by.cluster, given.tamed)) <= TeamTribeMax
      BY DEF Attributable, TamedIn
    <3>4. Holds(given.teams, by.team)
      BY <3>1, <3>2, <3>3 DEF TeamsFit
    <3>5. PICK t \in Tribes : t.cluster = by.cluster /\ t.team = by.team /\ <<t, NameOf(by.team)>> \in used
      BY <3>4, NameIsBacked
    <3>6. t = by
      BY <1>1, <3>5, TeamsTell
    <3>7. NameOf(by.team) = name
      BY <1>2, <3>5, <3>6
    <3> QED BY <1>2, <2>1, <2>3, <3>7 DEF Matching
  <2> QED BY <2>2, <2>3
<1>5. e.event \in {"dino_tamed", "dino_death"}
  BY DEF EventFits, DinoEvents
<1> QED BY <1>3, <1>4, <1>5

LEMMA OwnAreTold ==
  ASSUME TribeIInv, NEW team \in {given.by.team, Unknown}, TribeAnswer(team)
  PROVE  NobodyElses /\ NothingMissed
<1>1. PICK s : s = given.events
  OBVIOUS
<1>2. PICK I : I = Mine(team)
  OBVIOUS
<1>3. PICK out : out = NewestOf(s, I)
  OBVIOUS
<1>4. told' = out
  <2>1. Returns(NewestOf(given.events, Mine(team)))
    BY AnswerIs
  <2> QED BY <1>1, <1>2, <1>3, <2>1 DEF Returns
<1>5. RingFits(s, frames, used) /\ I \in SUBSET (1 .. Len(s))
  BY <1>1, <1>2, MineAre
<1>6. /\ \A e \in ToSet(out) : \E i \in I : e = s[i]
      /\ \A i \in I : \/ s[i] \in ToSet(out)
                      \/ Len(out) = Limit /\ \A f \in ToSet(out) : f.n > s[i].n
  BY <1>3, <1>5, NewestTold
<1>7. \A i \in 1 .. Len(s) : EventFits(s[i], frames, used)
  BY <1>5 DEF RingFits
<1>8. /\ DOMAIN s = 1 .. Len(s)
      /\ \A i \in 1 .. Len(s) : i \in I <=> Matching(s[i], team, named[given.by])
  <2>1. DOMAIN s = 1 .. Len(s)
    BY <1>5 DEF RingFits
  <2> QED BY <1>1, <1>2, <2>1 DEF Mine
<1>9. NobodyElses
  <2> SUFFICES ASSUME NEW e \in ToSet(out), e.of.cluster = given.by.cluster
               PROVE  e.of = given.by \/ Ambiguous(named[given.by])
    BY <1>4 DEF NobodyElses
  <2>1. PICK i \in I : e = s[i]
    BY <1>6
  <2>2. i \in 1 .. Len(s)
    BY <1>5
  <2> QED BY <1>7, <1>8, <2>1, <2>2, MatchesAreOwn
<1>10. NothingMissed
  <2> SUFFICES ASSUME Attributable, NEW e \in ToSet(s), e \notin ToSet(out), e.of = given.by
               PROVE  Len(out) = Limit /\ \A f \in ToSet(out) : f.n > e.n
    BY <1>1, <1>4 DEF NothingMissed
  <2>1. PICK i \in 1 .. Len(s) : e = s[i]
    BY <1>8 DEF ToSet
  <2>2. i \in I
    BY <1>7, <1>8, <2>1, OwnMatch
  <2> QED BY <1>6, <2>1, <2>2
<1> QED BY <1>9, <1>10

\* What a survivor is told of their cluster's dinos is about their own tribe's, and a
\* tribe that keeps its name and has tamed is told of all its dinos in the ring, or of
\* the newest Limit: whatever was renamed, tamed or forgotten before and while the tool
\* waited for the game (server.py, _handle_game_event; actions.py, get_recent_dino_events).
THEOREM OwnDinosHold == TribeSpec => OwnDinosAreTold
<1>1. TribeIInv => \A team \in {given.by.team, Unknown} :
                     TribeAnswer(team) => NobodyElses /\ NothingMissed
  BY OwnAreTold
<1> QED BY <1>1, TribeInvariant, PTL DEF OwnDinosAreTold

-----------------------------------------------------------------------------
(* Sorted sets *)

\* R puts each two members of S in one order.
IsOrder(R, S) ==
  /\ \A x \in S : <<x, x>> \notin R
  /\ \A x, y, z \in S : <<x, y>> \in R /\ <<y, z>> \in R => <<x, z>> \in R
  /\ \A x, y \in S : x # y => <<x, y>> \in R \/ <<y, x>> \in R

SortedBy(s, R) == \A j \in DOMAIN s : \A i \in 1 .. j - 1 : <<s[i], s[j]>> \in R

\* What sorting gives: all members, each before those that come after it.
Lists(s, S) ==
  /\ s \in Seq(S) /\ Len(s) = Cardinality(S) /\ Cardinality(S) \in Nat
  /\ \A x \in S : \E i \in 1 .. Len(s) : s[i] = x

\* A finite set can be sorted: each member has as many before it as its place says.
LEMMA SortedExists ==
  ASSUME NEW S, IsFiniteSet(S), NEW R, IsOrder(R, S)
  PROVE  \E s \in [1 .. Cardinality(S) -> S] : SortedBy(s, R)
<1> DEFINE c == Cardinality(S)
           T == 1 .. c
           Before(x) == {y \in S : <<y, x>> \in R}
           rank == [x \in S |-> Cardinality(Before(x)) + 1]
<1>1. c \in Nat
  BY FS_CardinalityType
<1>2. ASSUME NEW x \in S
      PROVE  IsFiniteSet(Before(x)) /\ Cardinality(Before(x)) \in Nat /\ rank[x] \in T
  <2>1. Before(x) \in SUBSET S /\ Before(x) # S
    BY DEF IsOrder
  <2>2. IsFiniteSet(Before(x)) /\ Cardinality(Before(x)) <= c /\ Cardinality(Before(x)) # c
    BY <2>1, FS_Subset
  <2>3. Cardinality(Before(x)) \in Nat
    BY <2>2, FS_CardinalityType
  <2>4. rank[x] = Cardinality(Before(x)) + 1
    OBVIOUS
  <2> HIDE DEF Before, c, rank
  <2> QED BY <1>1, <2>2, <2>3, <2>4
<1>3. ASSUME NEW x \in S, NEW y \in S, <<x, y>> \in R PROVE rank[x] < rank[y]
  <2>1. Before(x) \in SUBSET Before(y) /\ x \in Before(y) /\ x \notin Before(x)
    BY <1>3 DEF IsOrder
  <2>2. Cardinality(Before(x)) <= Cardinality(Before(y)) /\ Cardinality(Before(x)) # Cardinality(Before(y))
    <3> HIDE DEF Before
    <3>1. IsFiniteSet(Before(y))
      BY <1>2
    <3> QED BY <2>1, <3>1, FS_Subset
  <2>3. rank[x] = Cardinality(Before(x)) + 1 /\ rank[y] = Cardinality(Before(y)) + 1
    OBVIOUS
  <2>4. Cardinality(Before(x)) \in Nat /\ Cardinality(Before(y)) \in Nat
    BY <1>2
  <2> HIDE DEF Before, rank
  <2> QED BY <2>2, <2>3, <2>4
<1>4. rank \in [S -> T]
  BY <1>2
<1>5. \A x \in S : rank[x] \in T
  BY <1>2
<1> HIDE DEF rank
<1>6. \A x, y \in S : rank[x] = rank[y] => x = y
  <2> SUFFICES ASSUME NEW x \in S, NEW y \in S, rank[x] = rank[y], x # y PROVE FALSE
    OBVIOUS
  <2>1. rank[x] < rank[y] \/ rank[y] < rank[x]
    BY <1>3 DEF IsOrder
  <2>2. rank[x] \in Nat /\ rank[y] \in Nat
    BY <1>1, <1>5
  <2> QED BY <2>1, <2>2
<1>7. IsFiniteSet(T) /\ Cardinality(T) = c
  <2>1. IsFiniteSet(1 .. c) /\ Cardinality(1 .. c) = IF 1 > c THEN 0 ELSE c - 1 + 1
    <3>1. 1 \in Int /\ c \in Int
      BY <1>1
    <3> HIDE DEF c
    <3> QED BY <3>1, FS_Interval
  <2> QED BY <1>1, <2>1
<1>8. rank \in Surjection(S, T)
  <2> HIDE DEF T
  <2>1. rank \in Injection(S, T)
    BY <1>4, <1>6 DEF Injection, IsInjective
  <2> QED BY <1>7, <2>1, FS_Injection
<1> DEFINE s == [i \in T |-> CHOOSE x \in S : rank[x] = i]
<1>9. ASSUME NEW i \in T PROVE s[i] \in S /\ rank[s[i]] = i
  <2>1. PICK x \in S : rank[x] = i
    <3> HIDE DEF T
    <3> QED BY <1>8 DEF Surjection
  <2> QED BY <2>1
<1>10. s \in [T -> S] /\ DOMAIN s = T
  BY <1>9
<1> HIDE DEF s
<1>11. ASSUME NEW j \in T, NEW i \in 1 .. j - 1 PROVE <<s[i], s[j]>> \in R
  <2>1. i \in T /\ i < j /\ i \in Nat /\ j \in Nat
    BY <1>1
  <2>2. s[i] \in S /\ s[j] \in S /\ rank[s[i]] = i /\ rank[s[j]] = j
    BY <1>9, <2>1
  <2>3. ~ (rank[s[j]] < rank[s[i]])
    BY <2>1, <2>2
  <2>4. s[i] # s[j]
    BY <2>1, <2>2
  <2> QED BY <1>3, <2>2, <2>3, <2>4 DEF IsOrder
<1>12. SortedBy(s, R)
  BY <1>10, <1>11 DEF SortedBy
<1> QED BY <1>10, <1>12

\* And then every member has one place.
LEMMA SortedHasAll ==
  ASSUME NEW S, IsFiniteSet(S), NEW R, IsOrder(R, S),
         NEW s, s \in [1 .. Cardinality(S) -> S], SortedBy(s, R)
  PROVE  Lists(s, S)
<1> DEFINE T == 1 .. Cardinality(S)
<1>1. PICK c : c = Cardinality(S)
  OBVIOUS
<1>2. c \in Nat
  BY <1>1, FS_CardinalityType
<1>3. s \in Seq(S) /\ Len(s) = c
  <2>1. s \in [1 .. c -> S]
    BY <1>1
  <2>2. DOMAIN s = 1 .. c
    BY <2>1
  <2> QED BY <1>2, <2>1, <2>2
<1>4. \A j \in T : \A i \in 1 .. j - 1 : <<s[i], s[j]>> \in R
  BY DEF SortedBy
<1>5. \A i, j \in T : s[i] = s[j] => i = j
  <2> SUFFICES ASSUME NEW i \in T, NEW j \in T, s[i] = s[j], i < j PROVE FALSE
    <3>1. \A i, j \in T : i < j \/ j < i \/ i = j
      BY <1>1, <1>2
    <3> QED BY <3>1
  <2>1. i \in 1 .. j - 1 /\ s[i] \in S /\ s[j] \in S
    BY <1>1, <1>2
  <2> QED BY <1>4, <2>1 DEF IsOrder
<1>6. IsFiniteSet(T) /\ Cardinality(T) = c
  <2>1. IsFiniteSet(1 .. c) /\ Cardinality(1 .. c) = IF 1 > c THEN 0 ELSE c - 1 + 1
    <3>1. 1 \in Int /\ c \in Int
      BY <1>2
    <3> QED BY <3>1, FS_Interval
  <2> QED BY <1>1, <1>2, <2>1
<1>7. s \in Surjection(T, S)
  <2> HIDE DEF T
  <2>1. s \in [T -> S]
    BY DEF T
  <2>2. s \in Injection(T, S)
    BY <1>5, <2>1 DEF Injection, IsInjective
  <2>3. Cardinality(T) = Cardinality(S)
    BY <1>1, <1>6
  <2> QED BY <2>2, <2>3, FS_Injection
<1>8. \A x \in S : \E i \in T : s[i] = x
  <2> HIDE DEF T
  <2> QED BY <1>7 DEF Surjection
<1> QED BY <1>1, <1>2, <1>3, <1>8 DEF Lists

\* A sorted list of a set has its members once each and in order.
LEMMA SortedIs ==
  ASSUME NEW S, IsFiniteSet(S), NEW R, IsOrder(R, S), NEW s,
         s = CHOOSE t \in [1 .. Cardinality(S) -> S] : SortedBy(t, R)
  PROVE  Lists(s, S) /\ \A j \in 1 .. Len(s) : \A i \in 1 .. j - 1 : <<s[i], s[j]>> \in R
<1>1. PICK F : F = [1 .. Cardinality(S) -> S]
  OBVIOUS
<1>2. \E t \in F : SortedBy(t, R)
  BY <1>1, SortedExists
<1>3. s \in F /\ SortedBy(s, R)
  BY <1>1, <1>2
<1>4. Lists(s, S)
  BY <1>1, <1>3, SortedHasAll
<1>5. DOMAIN s = 1 .. Len(s)
  BY <1>4 DEF Lists
<1> QED BY <1>3, <1>4, <1>5 DEF SortedBy

\* Numbers, the largest first.
LEMMA SortedDown ==
  ASSUME NEW S \in SUBSET Int, IsFiniteSet(S)
  PROVE  LET s == Sorted(S, >) IN
         Lists(s, S) /\ \A j \in 1 .. Len(s) : \A i \in 1 .. j - 1 : s[i] > s[j]
<1> DEFINE R == {p \in S \X S : p[1] > p[2]}
           s == Sorted(S, >)
           F == [1 .. Cardinality(S) -> S]
<1>1. PICK c : c = Cardinality(S)
  OBVIOUS
<1>2. c \in Nat
  BY <1>1, FS_CardinalityType
<1>3. \A x, y \in S : <<x, y>> \in R <=> x > y
  OBVIOUS
<1>4. IsOrder(R, S)
  <2> HIDE DEF R
  <2> QED BY <1>3 DEF IsOrder
<1>5. ASSUME NEW t \in F
      PROVE  SortedBy(t, R) <=> \A j \in DOMAIN t : \A i \in 1 .. j - 1 : t[i] > t[j]
  <2>1. ASSUME NEW j \in DOMAIN t, NEW i \in 1 .. j - 1 PROVE t[i] \in S /\ t[j] \in S
    BY <1>1, <1>2
  <2> HIDE DEF R, F
  <2> QED BY <1>3, <2>1 DEF SortedBy
<1>6. s = CHOOSE t \in F : \A j \in DOMAIN t : \A i \in 1 .. j - 1 : t[i] > t[j]
  BY DEF Sorted
<1>7. s = CHOOSE t \in F : SortedBy(t, R)
  <2> HIDE DEF F, R, s
  <2> QED BY <1>5, <1>6
<1> HIDE DEF s, R
<1>8. Lists(s, S) /\ \A j \in 1 .. Len(s) : \A i \in 1 .. j - 1 : <<s[i], s[j]>> \in R
  BY <1>4, <1>7, SortedIs
<1>9. ASSUME NEW j \in 1 .. Len(s), NEW i \in 1 .. j - 1 PROVE s[i] > s[j]
  <2>1. s[i] \in S /\ s[j] \in S
    BY <1>8 DEF Lists
  <2> QED BY <1>3, <1>8, <2>1
<1> QED BY <1>8, <1>9 DEF s

\* Numbers, the smallest first.
LEMMA SortedUp ==
  ASSUME NEW S \in SUBSET Int, IsFiniteSet(S)
  PROVE  LET s == Sorted(S, <) IN
         Lists(s, S) /\ \A j \in 1 .. Len(s) : \A i \in 1 .. j - 1 : s[i] < s[j]
<1> DEFINE R == {p \in S \X S : p[1] < p[2]}
           s == Sorted(S, <)
           F == [1 .. Cardinality(S) -> S]
<1>1. PICK c : c = Cardinality(S)
  OBVIOUS
<1>2. c \in Nat
  BY <1>1, FS_CardinalityType
<1>3. \A x, y \in S : <<x, y>> \in R <=> x < y
  OBVIOUS
<1>4. IsOrder(R, S)
  <2> HIDE DEF R
  <2> QED BY <1>3 DEF IsOrder
<1>5. ASSUME NEW t \in F
      PROVE  SortedBy(t, R) <=> \A j \in DOMAIN t : \A i \in 1 .. j - 1 : t[i] < t[j]
  <2>1. ASSUME NEW j \in DOMAIN t, NEW i \in 1 .. j - 1 PROVE t[i] \in S /\ t[j] \in S
    BY <1>1, <1>2
  <2> HIDE DEF R, F
  <2> QED BY <1>3, <2>1 DEF SortedBy
<1>6. s = CHOOSE t \in F : \A j \in DOMAIN t : \A i \in 1 .. j - 1 : t[i] < t[j]
  BY DEF Sorted
<1>7. s = CHOOSE t \in F : SortedBy(t, R)
  <2> HIDE DEF F, R, s
  <2> QED BY <1>5, <1>6
<1> HIDE DEF s, R
<1>8. Lists(s, S) /\ \A j \in 1 .. Len(s) : \A i \in 1 .. j - 1 : <<s[i], s[j]>> \in R
  BY <1>4, <1>7, SortedIs
<1>9. ASSUME NEW j \in 1 .. Len(s), NEW i \in 1 .. j - 1 PROVE s[i] < s[j]
  <2>1. s[i] \in S /\ s[j] \in S
    BY <1>8 DEF Lists
  <2> QED BY <1>3, <1>8, <2>1
<1> QED BY <1>8, <1>9 DEF s

\* Entries are told apart by their ids.
HaveIds(S) ==
  /\ \A e \in S : e.id \in Int
  /\ \A e, f \in S : e.id = f.id => e = f

\* Entries, the newest first.
LEMMA SortedByAge ==
  ASSUME NEW S, IsFiniteSet(S), HaveIds(S)
  PROVE  LET s == Sorted(S, Newer) IN
         Lists(s, S) /\ \A j \in 1 .. Len(s) : \A i \in 1 .. j - 1 : Newer(s[i], s[j])
<1> DEFINE R == {p \in S \X S : Newer(p[1], p[2])}
           s == Sorted(S, Newer)
           F == [1 .. Cardinality(S) -> S]
<1>1. PICK c : c = Cardinality(S)
  OBVIOUS
<1>2. c \in Nat
  BY <1>1, FS_CardinalityType
<1>3. \A x, y \in S : <<x, y>> \in R <=> Newer(x, y)
  OBVIOUS
<1>4. IsOrder(R, S)
  <2> HIDE DEF R
  <2> QED BY <1>3 DEF IsOrder, HaveIds, Newer
<1>5. ASSUME NEW t \in F
      PROVE  SortedBy(t, R) <=> \A j \in DOMAIN t : \A i \in 1 .. j - 1 : Newer(t[i], t[j])
  <2>1. ASSUME NEW j \in DOMAIN t, NEW i \in 1 .. j - 1 PROVE t[i] \in S /\ t[j] \in S
    BY <1>1, <1>2
  <2> HIDE DEF R, F
  <2> QED BY <1>3, <2>1 DEF SortedBy
<1>6. s = CHOOSE t \in F : \A j \in DOMAIN t : \A i \in 1 .. j - 1 : Newer(t[i], t[j])
  BY DEF Sorted
<1>7. s = CHOOSE t \in F : SortedBy(t, R)
  <2> HIDE DEF F, R, s
  <2> QED BY <1>5, <1>6
<1> HIDE DEF s, R
<1>8. Lists(s, S) /\ \A j \in 1 .. Len(s) : \A i \in 1 .. j - 1 : <<s[i], s[j]>> \in R
  BY <1>4, <1>7, SortedIs
<1>9. ASSUME NEW j \in 1 .. Len(s), NEW i \in 1 .. j - 1 PROVE Newer(s[i], s[j])
  <2>1. s[i] \in S /\ s[j] \in S
    BY <1>8 DEF Lists
  <2> QED BY <1>3, <1>8, <2>1
<1> QED BY <1>8, <1>9 DEF s

\* Entries, those first that fit a question best.
LEMMA SortedByRank ==
  ASSUME NEW S, IsFiniteSet(S), HaveIds(S), \A e \in S : WordsHit(e) \in Int
  PROVE  LET s == Sorted(S, Outranks) IN
         Lists(s, S) /\ \A j \in 1 .. Len(s) : \A i \in 1 .. j - 1 : Outranks(s[i], s[j])
<1> DEFINE R == {p \in S \X S : Outranks(p[1], p[2])}
           s == Sorted(S, Outranks)
           F == [1 .. Cardinality(S) -> S]
<1>1. PICK c : c = Cardinality(S)
  OBVIOUS
<1>2. c \in Nat
  BY <1>1, FS_CardinalityType
<1>3. \A x, y \in S : <<x, y>> \in R <=> Outranks(x, y)
  OBVIOUS
<1>4. IsOrder(R, S)
  <2> HIDE DEF R
  <2> QED BY <1>3 DEF IsOrder, HaveIds, Newer, Outranks
<1>5. ASSUME NEW t \in F
      PROVE  SortedBy(t, R) <=> \A j \in DOMAIN t : \A i \in 1 .. j - 1 : Outranks(t[i], t[j])
  <2>1. ASSUME NEW j \in DOMAIN t, NEW i \in 1 .. j - 1 PROVE t[i] \in S /\ t[j] \in S
    BY <1>1, <1>2
  <2> HIDE DEF R, F
  <2> QED BY <1>3, <2>1 DEF SortedBy
<1>6. s = CHOOSE t \in F : \A j \in DOMAIN t : \A i \in 1 .. j - 1 : Outranks(t[i], t[j])
  BY DEF Sorted
<1>7. s = CHOOSE t \in F : SortedBy(t, R)
  <2> HIDE DEF F, R, s
  <2> QED BY <1>5, <1>6
<1> HIDE DEF s, R
<1>8. Lists(s, S) /\ \A j \in 1 .. Len(s) : \A i \in 1 .. j - 1 : <<s[i], s[j]>> \in R
  <2>1. PICK Q : Q = R
    OBVIOUS
  <2> QED BY <1>4, <1>7, <2>1, SortedIs
<1>9. ASSUME NEW j \in 1 .. Len(s), NEW i \in 1 .. j - 1 PROVE Outranks(s[i], s[j])
  <2>1. s[i] \in S /\ s[j] \in S
    BY <1>8 DEF Lists
  <2> QED BY <1>3, <1>8, <2>1
<1> QED BY <1>8, <1>9 DEF s

-----------------------------------------------------------------------------
(* The history *)

Sums(sum, sizes) ==
  sum = [n \in 0 .. Len(sizes) |-> IF n = 0 THEN 0 ELSE sum[n - 1] + sizes[n]]

\* The sums of the first rows are defined.
LEMMA SumsExist ==
  ASSUME NEW sizes \in Seq(Nat)
  PROVE  \E sum \in [0 .. Len(sizes) -> Nat] : Sums(sum, sizes)
<1> DEFINE F == [p \in Nat \X Nat |-> IF p[1] \in 1 .. Len(sizes) THEN p[2] + sizes[p[1]] ELSE 0]
<1>0. PICK len : len = Len(sizes)
  OBVIOUS
<1>1. F \in [Nat \X Nat -> Nat] /\ len \in Nat
  BY <1>0
<1>2. \A n \in 1 .. len : \A v \in Nat : F[<<n, v>>] = v + sizes[n]
  BY <1>0, <1>1
<1> HIDE DEF F
<1>3. PICK f \in [0 .. len -> Nat] : Follows(f, len, 0, F)
  <2>1. 0 \in Nat
    OBVIOUS
  <2> QED BY <1>1, <2>1, RecursionExists
<1>4. ASSUME NEW n \in 0 .. len PROVE f[n] = IF n = 0 THEN 0 ELSE f[n - 1] + sizes[n]
  <2>1. f[n] = IF n = 0 THEN 0 ELSE F[<<n, f[n - 1]>>]
    BY <1>3 DEF Follows
  <2>2. CASE n # 0
    <3>1. n \in 1 .. len /\ n - 1 \in 0 .. len
      BY <1>1, <2>2
    <3>2. f[n - 1] \in Nat
      BY <3>1
    <3>3. F[<<n, f[n - 1]>>] = f[n - 1] + sizes[n]
      BY <1>2, <3>1, <3>2
    <3> QED BY <2>1, <2>2, <3>3
  <2> QED BY <2>1, <2>2
<1>5. Sums(f, sizes)
  BY <1>0, <1>4 DEF Sums
<1> QED BY <1>0, <1>5

\* The total of a list of sizes is a number.
LEMMA TotalIs ==
  ASSUME NEW sizes \in Seq(Nat)
  PROVE  Total(sizes) \in Nat /\ (Len(sizes) = 0 => Total(sizes) = 0)
<1> DEFINE sum == CHOOSE s : Sums(s, sizes)
<1>1. Total(sizes) = sum[Len(sizes)]
  BY DEF Total, Sums
<1>2. PICK len : len = Len(sizes) /\ len \in Nat
  OBVIOUS
<1>3. Sums(sum, sizes)
  BY SumsExist
<1> HIDE DEF sum
<1>4. \A n \in 0 .. len : sum[n] = IF n = 0 THEN 0 ELSE sum[n - 1] + sizes[n]
  BY <1>2, <1>3 DEF Sums
<1>5. \A n \in 1 .. len : sizes[n] \in Nat
  BY <1>2
<1> DEFINE P == {n \in Nat : n <= len => sum[n] \in Nat}
<1>6. 0 \in P
  BY <1>2, <1>4
<1>7. ASSUME NEW n \in P PROVE n + 1 \in P
  <2> SUFFICES ASSUME n + 1 <= len PROVE sum[n + 1] \in Nat
    OBVIOUS
  <2>1. n \in Nat /\ n + 1 \in 0 .. len /\ n + 1 \in 1 .. len /\ n <= len /\ (n + 1) - 1 = n /\ n + 1 # 0
    BY <1>2
  <2>2. sum[n] \in Nat /\ sizes[n + 1] \in Nat
    BY <1>5, <2>1
  <2>3. sum[n + 1] = sum[n] + sizes[n + 1]
    BY <1>4, <2>1
  <2> QED BY <2>2, <2>3
<1>8. P \in SUBSET Nat
  OBVIOUS
<1> HIDE DEF P
<1>9. P = Nat
  BY <1>6, <1>7, <1>8, NumbersFrom0
<1>10. sum[len] \in Nat
  <2>1. len \in P /\ len <= len
    BY <1>2, <1>9
  <2> QED BY <2>1 DEF P
<1>11. len = 0 => sum[len] = 0
  BY <1>2, <1>4
<1> QED BY <1>1, <1>2, <1>10, <1>11

Newest(sizes, n) == SubSeq(sizes, Len(sizes) + 1 - n, Len(sizes))

\* The newest n of a list are n.
LEMMA NewestIs ==
  ASSUME NEW sizes \in Seq(Nat), NEW n \in 0 .. Len(sizes)
  PROVE  Newest(sizes, n) \in Seq(Nat) /\ Len(Newest(sizes, n)) = n /\ Newest(sizes, Len(sizes)) = sizes
<1>1. PICK len \in Nat : len = Len(sizes)
  OBVIOUS
<1>2. /\ len + 1 - n \in Int /\ len \in Int
      /\ \A i \in len + 1 - n .. len : sizes[i] \in Nat
  BY <1>1
<1>3. PICK m \in Int : m = len + 1 - n
  BY <1>2
<1>4. /\ SubSeq(sizes, m, len) \in Seq(Nat)
      /\ Len(SubSeq(sizes, m, len)) = IF m <= len THEN len - m + 1 ELSE 0
  BY <1>2, <1>3, SubSeqProperties
<1>5. SubSeq(sizes, 1, len) = sizes
  BY <1>1, SubSeqFull
<1>6. len + 1 - len = 1
  BY <1>1
<1>7. (IF m <= len THEN len - m + 1 ELSE 0) = n
  BY <1>1, <1>3
<1> QED BY <1>1, <1>3, <1>4, <1>5, <1>6, <1>7 DEF Newest

\* A set of numbers that is not empty has a least one.
LEMMA LeastExists ==
  ASSUME NEW S \in SUBSET Nat, S # {}
  PROVE  \E x \in S : \A y \in S : x <= y
<1>1. \E x \in S : \A y \in S : ~ (<<y, x>> \in OpToRel(<, Nat))
  BY NatLessThanWellFounded, WFMin
<1>2. ASSUME NEW x \in Nat, NEW y \in Nat, y < x PROVE <<y, x>> \in OpToRel(<, Nat)
  <2>1. <<y, x>> \in {ss \in Nat \X Nat : ss[1] < ss[2]}
    BY <1>2
  <2> QED BY <2>1 DEF OpToRel
<1>3. PICK x \in S : \A y \in S : ~ (y < x)
  BY <1>1, <1>2, Zenon
<1> QED BY <1>3

\* What is kept is the newest rows, as many as fit.
LEMMA KeptFits ==
  ASSUME NEW sizes \in Seq(Nat), NEW budget \in Nat
  PROVE  \E n \in 0 .. Len(sizes) :
           /\ Kept(sizes, budget) = Newest(sizes, n)
           /\ Total(Newest(sizes, n)) <= budget
           /\ n < Len(sizes) => Total(Newest(sizes, n + 1)) > budget
<1> DEFINE over == {n \in DOMAIN sizes : Total(Newest(sizes, n)) > budget}
<1>1. PICK len \in Nat : len = Len(sizes) /\ DOMAIN sizes = 1 .. len
  OBVIOUS
<1>2. Kept(sizes, budget) = IF over = {} THEN sizes ELSE Newest(sizes, Min(over) - 1)
  BY DEF Kept, Newest
<1>3. \A n \in 0 .. len : Total(Newest(sizes, n)) \in Nat
  BY <1>1, NewestIs, TotalIs
<1>4. Total(Newest(sizes, 0)) <= budget
  <2>1. 0 \in 0 .. len
    BY <1>1
  <2>2. Newest(sizes, 0) \in Seq(Nat) /\ Len(Newest(sizes, 0)) = 0
    BY <1>1, <2>1, NewestIs
  <2>3. Total(Newest(sizes, 0)) = 0
    BY <2>2, TotalIs
  <2> QED BY <2>3
<1>5. \A n \in 0 .. len : n \notin over => Total(Newest(sizes, n)) <= budget
  <2> TAKE n \in 0 .. len
  <2>1. CASE n = 0
    BY <1>4, <2>1
  <2>2. CASE n # 0
    <3>1. n \in DOMAIN sizes /\ Total(Newest(sizes, n)) \in Nat
      BY <1>1, <1>3, <2>2
    <3> QED BY <3>1
  <2> QED BY <2>1, <2>2
<1>6. \A n \in over : n \in 1 .. len /\ Total(Newest(sizes, n)) > budget
  BY <1>1
<1> HIDE DEF over
<1>7. CASE over = {}
  <2>1. len \in 0 .. len /\ ~ (len < len)
    BY <1>1
  <2>2. Kept(sizes, budget) = Newest(sizes, len)
    BY <1>1, <1>2, <1>7, <2>1, NewestIs
  <2>3. Total(Newest(sizes, len)) <= budget
    BY <1>5, <1>7, <2>1
  <2> QED BY <1>1, <2>1, <2>2, <2>3
<1>8. CASE over # {}
  <2>1. over \subseteq Nat
    BY <1>6
  <2>2. Min(over) \in over /\ \A n \in over : Min(over) <= n
    <3>1. \E x \in over : \A y \in over : x <= y
      BY <1>8, <2>1, LeastExists
    <3> QED BY <3>1 DEF Min
  <2>3. PICK least \in over : least = Min(over) /\ \A n \in over : least <= n
    BY <2>2
  <2>4. /\ least \in 1 .. len /\ least - 1 \in 0 .. len /\ least - 1 < len /\ (least - 1) + 1 = least
        /\ ~ (least <= least - 1)
    BY <1>1, <1>6, <2>3
  <2>5. Total(Newest(sizes, least - 1)) <= budget
    BY <1>5, <2>3, <2>4
  <2>6. Total(Newest(sizes, (least - 1) + 1)) > budget
    BY <1>6, <2>3, <2>4
  <2>7. Kept(sizes, budget) = Newest(sizes, least - 1)
    BY <1>2, <1>8, <2>3
  <2> QED BY <1>1, <2>4, <2>5, <2>6, <2>7
<1> QED BY <1>7, <1>8

-----------------------------------------------------------------------------
(* The invariants *)

EntriesAt(l, m) == [id : 1 .. l, fact : Facts, used : 0 .. m]
EventsAt(m) == [death : BOOLEAN, at : 0 .. m]
DraftsAt(l, m) ==
  [asked : Questions \cup {{}}, since : 0 .. l, at : 0 .. m, events : Seq(EventsAt(m)),
   sensors : {"none", "stale", "current"}, deaths : Seq(EventsAt(m)),
   remembered : Seq(EntriesAt(l, m)), rows : Seq(RowSizes)]

StoreTypes ==
  /\ minute \in 0 .. MaxMinutes /\ captured \in -1 .. minute /\ vitalsAt \in -1 .. minute
  /\ loreId \in 0 .. MaxLore
  /\ lore \in SUBSET EntriesAt(loreId, minute) /\ IsFiniteSet(lore)
  /\ combat \in Seq(EventsAt(minute)) /\ Len(combat) <= MaxEvents
  /\ history \in Seq(RowSizes) /\ Len(history) <= MaxHistory

DraftTypes ==
  /\ reading \in {"idle", "telemetry", "sticky", "hits", "touch", "history", "done"}
  /\ draft \in DraftsAt(loreId, minute)

\* Events are in the order they came in; once the deaths are read they stay news.
NewsIInv ==
  /\ InOrder(combat) /\ InOrder(draft.events)
  /\ reading \in {"sticky", "hits", "touch", "history"} => NewsIsNews

IdsIn(s) == {s[i].id : i \in 1 .. Len(s)}
WordsIn(e, asked) == Cardinality(e.fact.words \cap asked)
Beats(e, f, asked) ==
  \/ WordsIn(e, asked) > WordsIn(f, asked)
  \/ WordsIn(e, asked) = WordsIn(f, asked) /\ e.id > f.id
Fitting(s) == {g \in ToSet(s) : ~ g.fact.sticky}

\* Members of s have different ids.
Distinct(s) == \A i, j \in 1 .. Len(s) : s[i].id = s[j].id => i = j

\* What was read is listed once, is what the store says of it if it is still there, and
\* has all that was remembered for good.
StickyFits(l, d) ==
  /\ Distinct(d.remembered)
  /\ \A i \in 1 .. Len(d.remembered) : \A e \in l :
       d.remembered[i].id = e.id => d.remembered[i].fact = e.fact
  /\ \A e \in l : e.fact.sticky /\ e.id <= d.since => e.id \in IdsIn(d.remembered)

HitsFit(l, d) ==
  \A e \in l : e.id <= d.since /\ e.id \notin IdsIn(d.remembered) /\ WordsIn(e, d.asked) > 0 =>
    /\ Cardinality(Fitting(d.remembered)) = LoreLimit
    /\ \A h \in Fitting(d.remembered) : Beats(h, e, d.asked)

TouchedIn(l, d) == \A e \in l : e.id \in IdsIn(d.remembered) => e.used >= d.at

MemoryIInv ==
  /\ HaveIds(lore)
  /\ reading \in {"hits", "touch", "history"} => StickyFits(lore, draft)
  /\ reading = "hits" =>
       \A i \in 1 .. Len(draft.remembered) : draft.remembered[i].fact.sticky
  /\ reading \in {"touch", "history"} => HitsFit(lore, draft)
  /\ reading = "history" => TouchedIn(lore, draft)

ContextTypes == StoreTypes /\ DraftTypes
ContextIInv == ContextTypes /\ NewsIInv /\ MemoryIInv

-----------------------------------------------------------------------------
(* What is read *)

LEMMA SmallerIs == ASSUME NEW a \in Nat, NEW b \in Nat
                   PROVE  Min({a, b}) = IF a <= b THEN a ELSE b
<1>1. a <= b \/ b <= a
  OBVIOUS
<1>2. \E x \in {a, b} : \A y \in {a, b} : x <= y
  BY <1>1
<1>3. PICK m \in {a, b} : m = Min({a, b}) /\ \A y \in {a, b} : m <= y
  BY <1>2 DEF Min
<1> QED BY <1>3

LEMMA LargerIs == ASSUME NEW a \in Nat, NEW b \in Nat
                  PROVE  Max({a, b}) = IF a >= b THEN a ELSE b
<1>1. a >= b \/ b >= a
  OBVIOUS
<1>2. \E x \in {a, b} : \A y \in {a, b} : x >= y
  BY <1>1
<1>3. PICK m \in {a, b} : m = Max({a, b}) /\ \A y \in {a, b} : m >= y
  BY <1>2 DEF Max
<1> QED BY <1>3

\* The first few of a list.
LEMMA TopIs ==
  ASSUME NEW V, NEW s \in Seq(V), NEW n \in Nat
  PROVE  /\ Top(s, n) \in Seq(V) /\ Len(Top(s, n)) \in Nat /\ Len(Top(s, n)) <= Len(s)
         /\ \A i \in 1 .. Len(Top(s, n)) : Top(s, n)[i] = s[i]
         /\ Len(Top(s, n)) < Len(s) => Len(Top(s, n)) = n
<1>1. PICK len \in Nat : len = Len(s) /\ \A i \in 1 .. len : s[i] \in V
  OBVIOUS
<1>2. PICK m \in Nat : m = Min({n, len}) /\ m <= len /\ (m < len => m = n)
  BY SmallerIs
<1>3. 1 \in Int /\ m \in Int /\ \A i \in 1 .. m : s[i] \in V
  <2>1. \A i \in 1 .. m : i \in 1 .. len
    BY <1>1, <1>2
  <2> QED BY <1>1, <2>1
<1>4. /\ SubSeq(s, 1, m) \in Seq(V) /\ Len(SubSeq(s, 1, m)) = IF 1 <= m THEN m - 1 + 1 ELSE 0
      /\ \A i \in 1 .. m - 1 + 1 : SubSeq(s, 1, m)[i] = s[1 + i - 1]
  BY <1>3, SubSeqProperties
<1>5. PICK t : t = Top(s, n) /\ t = SubSeq(s, 1, m)
  BY <1>1, <1>2 DEF Top
<1>6. Len(t) = m
  BY <1>4, <1>5
<1>7. \A i \in 1 .. m : t[i] = s[i]
  BY <1>4, <1>5
<1> QED BY <1>1, <1>2, <1>4, <1>5, <1>6, <1>7

\* The members of a list at some places.
LEMMA PickedIs ==
  ASSUME NEW V, NEW s \in Seq(V), NEW places \in Seq(DOMAIN s)
  PROVE  /\ Picked(s, places) \in Seq(V) /\ Len(Picked(s, places)) = Len(places)
         /\ \A n \in 1 .. Len(places) : Picked(s, places)[n] = s[places[n]]
<1>1. PICK m \in Nat : m = Len(places) /\ DOMAIN places = 1 .. m
  OBVIOUS
<1>2. \A n \in 1 .. m : places[n] \in DOMAIN s /\ s[places[n]] \in V
  BY <1>1
<1>3. PICK p : p = Picked(s, places)
  OBVIOUS
<1>4. p = [n \in 1 .. m |-> s[places[n]]]
  BY <1>1, <1>3 DEF Picked
<1>5. p \in [1 .. m -> V] /\ DOMAIN p = 1 .. m
  BY <1>2, <1>4
<1>6. p \in Seq(V) /\ Len(p) = m
  BY <1>5
<1> QED BY <1>1, <1>3, <1>4, <1>6

\* Deaths are the newest ones, the newest first.
LEMMA DeathsAre ==
  ASSUME minute \in Nat, NEW m \in Nat, NEW s \in Seq(EventsAt(m)), InOrder(s), NEW d, d = RecentDeaths(s)
  PROVE  /\ d \in Seq(EventsAt(m))
         /\ \A i \in 1 .. Len(d) : minute - d[i].at <= DeathAge
         /\ \A i \in 1 .. Len(d) - 1 : d[i].at >= d[i + 1].at
         /\ \A k \in 1 .. Len(s) :
              s[k] \notin ToSet(d) /\ s[k].death /\ minute - s[k].at <= DeathAge =>
                Len(d) = DeathLimit /\ \A i \in 1 .. Len(d) : d[i].at >= s[k].at
<1>1. PICK len \in Nat : len = Len(s) /\ DOMAIN s = 1 .. len
  OBVIOUS
<1>2. PICK young : young = {i \in DOMAIN s : s[i].death /\ minute - s[i].at <= DeathAge}
  OBVIOUS
<1>3. young \in SUBSET (1 .. len) /\ young \in SUBSET Int
  BY <1>1, <1>2
<1>4. IsFiniteSet(young)
  <2>1. IsFiniteSet(1 .. len)
    BY FS_Interval
  <2> QED BY <1>3, <2>1, FS_Subset
<1>5. PICK down : down = Sorted(young, >)
  OBVIOUS
<1>6. Lists(down, young) /\ \A j \in 1 .. Len(down) : \A i \in 1 .. j - 1 : down[i] > down[j]
  BY <1>3, <1>4, <1>5, SortedDown
<1>7. down \in Seq(young) /\ Len(down) \in Nat /\ \A x \in young : \E i \in 1 .. Len(down) : down[i] = x
  BY <1>6 DEF Lists
<1>8. PICK places : places = Top(down, DeathLimit)
  OBVIOUS
<1>9. /\ places \in Seq(young) /\ Len(places) \in Nat /\ Len(places) <= Len(down)
      /\ \A i \in 1 .. Len(places) : places[i] = down[i]
      /\ Len(places) < Len(down) => Len(places) = DeathLimit
  <2>1. DeathLimit \in Nat
    BY ContextAssumption
  <2> QED BY <1>7, <1>8, <2>1, TopIs
<1>10. places \in Seq(DOMAIN s)
  <2>1. young \subseteq DOMAIN s
    BY <1>2
  <2> QED BY <1>9, <2>1, SeqMonotonic
<1>11. d = Picked(s, places)
  BY <1>2, <1>5, <1>8 DEF RecentDeaths
<1>12. /\ d \in Seq(EventsAt(m)) /\ Len(d) = Len(places)
       /\ \A n \in 1 .. Len(places) : d[n] = s[places[n]]
  BY <1>10, <1>11, PickedIs
<1>13. \A n \in 1 .. Len(d) : places[n] \in young /\ places[n] \in 1 .. len
  <2>1. \A n \in 1 .. Len(places) : places[n] \in young
    BY <1>9
  <2> QED BY <1>3, <1>12, <2>1
<1>14. \A i \in 1 .. len : s[i].at \in Nat
  <2> TAKE i \in 1 .. len
  <2>1. s[i] \in EventsAt(m)
    BY <1>1
  <2> QED BY <2>1 DEF EventsAt
<1>15. ASSUME NEW a \in 1 .. len, NEW b \in 1 .. len, a >= b PROVE s[a].at >= s[b].at
  <2>1. b \in 1 .. a
    BY <1>15
  <2>2. s[b].at <= s[a].at
    BY <1>1, <2>1 DEF InOrder
  <2> QED BY <1>14, <2>2
<1>16. \A i \in 1 .. Len(d) : minute - d[i].at <= DeathAge
  BY <1>2, <1>12, <1>13
<1>17. ASSUME NEW i \in 1 .. Len(d) - 1 PROVE d[i].at >= d[i + 1].at
  <2>1. /\ i \in 1 .. Len(places) /\ i + 1 \in 1 .. Len(places)
        /\ i \in 1 .. (i + 1) - 1 /\ i + 1 \in 1 .. Len(down)
    <3>1. PICK p \in Nat : p = Len(places)
      BY <1>9
    <3>2. PICK q \in Nat : q = Len(down) /\ p <= q
      BY <1>7, <1>9, <3>1
    <3>3. i \in 1 .. p - 1
      BY <1>12, <3>1
    <3>4. i \in 1 .. p /\ i + 1 \in 1 .. p /\ i \in 1 .. (i + 1) - 1 /\ i + 1 \in 1 .. q
      BY <3>2, <3>3
    <3> QED BY <3>1, <3>2, <3>4
  <2>2. places[i] = down[i] /\ places[i + 1] = down[i + 1] /\ down[i] > down[i + 1]
    BY <1>6, <1>9, <2>1
  <2>3. places[i] \in 1 .. len /\ places[i + 1] \in 1 .. len /\ places[i] >= places[i + 1]
    BY <1>12, <1>13, <2>1, <2>2
  <2>4. d[i] = s[places[i]] /\ d[i + 1] = s[places[i + 1]]
    BY <1>12, <2>1
  <2> QED BY <1>15, <2>3, <2>4
<1>18. ASSUME NEW k \in 1 .. Len(s), s[k] \notin ToSet(d), s[k].death, minute - s[k].at <= DeathAge
       PROVE  Len(d) = DeathLimit /\ \A i \in 1 .. Len(d) : d[i].at >= s[k].at
  <2>1. k \in young /\ k \in 1 .. len
    BY <1>1, <1>2, <1>18
  <2>2. PICK j \in 1 .. Len(down) : down[j] = k
    BY <1>7, <2>1
  <2>3. ~ (j <= Len(places))
    <3> SUFFICES ASSUME j <= Len(places) PROVE FALSE
      OBVIOUS
    <3>1. j \in 1 .. Len(places) /\ j \in DOMAIN d
      BY <1>7, <1>9, <1>12, <2>2
    <3>2. d[j] = s[k]
      BY <1>9, <1>12, <2>2, <3>1
    <3> QED BY <1>18, <3>1, <3>2 DEF ToSet
  <2>4. Len(d) = DeathLimit
    BY <1>7, <1>9, <1>12, <2>2, <2>3
  <2>5. ASSUME NEW i \in 1 .. Len(d) PROVE d[i].at >= s[k].at
    <3>1. i \in 1 .. Len(places) /\ i \in 1 .. j - 1
      BY <1>7, <1>9, <1>12, <2>2, <2>3
    <3>2. down[i] > down[j] /\ places[i] = down[i] /\ places[i] \in 1 .. len
      BY <1>6, <1>9, <1>12, <1>13, <2>2, <3>1
    <3>3. places[i] >= k
      BY <2>1, <2>2, <3>2
    <3>4. d[i] = s[places[i]]
      BY <1>12, <3>1
    <3> QED BY <1>15, <2>1, <3>2, <3>3, <3>4
  <2> QED BY <2>4, <2>5
<1> QED BY <1>1, <1>12, <1>16, <1>17, <1>18

\* What is listed without repetition is as many as there are places.
LEMMA DistinctCount ==
  ASSUME NEW n \in Nat, NEW f, DOMAIN f = 1 .. n, f = [i \in 1 .. n |-> f[i]],
         \A i, j \in 1 .. n : f[i] = f[j] => i = j
  PROVE  Cardinality({f[i] : i \in 1 .. n}) = n
<1> DEFINE T == {f[i] : i \in 1 .. n}
           I == 1 .. n
<1>1. f \in [I -> T]
  OBVIOUS
<1>2. \A y \in T : \E i \in I : f[i] = y
  OBVIOUS
<1>3. IsFiniteSet(I) /\ Cardinality(I) = n
  <2>1. 1 \in Int /\ n \in Int
    OBVIOUS
  <2>2. IsFiniteSet(1 .. n) /\ Cardinality(1 .. n) = IF 1 > n THEN 0 ELSE n - 1 + 1
    BY <2>1, FS_Interval
  <2> QED BY <2>2
<1>4. \A i, j \in I : f[i] = f[j] => i = j
  OBVIOUS
<1> HIDE DEF T, I
<1>5. f \in Surjection(I, T) /\ f \in Injection(I, T)
  BY <1>1, <1>2, <1>4 DEF Surjection, Injection, IsInjective
<1>6. Cardinality(T) = Cardinality(I)
  BY <1>3, <1>5, FS_Surjection
<1> QED BY <1>3, <1>6 DEF T

\* A list of entries no two of which have one id has as many ids as places.
LEMMA DistinctAre ==
  ASSUME NEW V, NEW s \in Seq(V), Distinct(s)
  PROVE  Cardinality(IdsIn(s)) = Len(s) /\ Cardinality(ToSet(s)) = Len(s)
<1>1. PICK n \in Nat : n = Len(s) /\ DOMAIN s = 1 .. n
  OBVIOUS
<1> DEFINE f == [i \in 1 .. n |-> s[i].id]
<1>2. Cardinality({f[i] : i \in 1 .. n}) = n
  <2>1. DOMAIN f = 1 .. n /\ f = [i \in 1 .. n |-> f[i]]
    OBVIOUS
  <2>2. \A i, j \in 1 .. n : f[i] = f[j] => i = j
    BY <1>1 DEF Distinct
  <2> HIDE DEF f
  <2> QED BY <2>1, <2>2, DistinctCount
<1>3. {f[i] : i \in 1 .. n} = IdsIn(s)
  BY <1>1 DEF IdsIn
<1>4. Cardinality({s[i] : i \in 1 .. n}) = n
  <2>1. DOMAIN s = 1 .. n /\ s = [i \in 1 .. n |-> s[i]]
    BY <1>1
  <2>2. \A i, j \in 1 .. n : s[i] = s[j] => i = j
    BY <1>1 DEF Distinct
  <2> QED BY <2>1, <2>2, DistinctCount
<1>5. {s[i] : i \in 1 .. n} = ToSet(s)
  BY <1>1 DEF ToSet
<1> QED BY <1>1, <1>2, <1>3, <1>4, <1>5

\* What is remembered for good.
LEMMA StickyAre ==
  ASSUME NEW l, IsFiniteSet(l), HaveIds(l), NEW r, r = Sorted({e \in l : e.fact.sticky}, Newer)
  PROVE  /\ r \in Seq(l) /\ Distinct(r)
         /\ \A i \in 1 .. Len(r) : r[i].fact.sticky
         /\ \A e \in l : e.fact.sticky => e.id \in IdsIn(r)
<1>1. PICK S : S = {e \in l : e.fact.sticky}
  OBVIOUS
<1>2. S \subseteq l /\ IsFiniteSet(S) /\ HaveIds(S)
  <2>1. S \subseteq l
    BY <1>1
  <2> QED BY <2>1, FS_Subset DEF HaveIds
<1>3. Lists(r, S) /\ \A j \in 1 .. Len(r) : \A i \in 1 .. j - 1 : Newer(r[i], r[j])
  BY <1>1, <1>2, SortedByAge
<1>4. PICK n \in Nat : n = Len(r)
  BY <1>3 DEF Lists
<1>5. r \in Seq(S) /\ \A i \in 1 .. n : r[i] \in S
  <2>1. r \in Seq(S)
    BY <1>3 DEF Lists
  <2>2. \A i \in 1 .. Len(r) : r[i] \in S
    BY <2>1, ElementOfSeq
  <2> QED BY <1>4, <2>1, <2>2
<1>6. \A e \in S : \E i \in 1 .. n : r[i] = e
  BY <1>3, <1>4 DEF Lists
<1>7. r \in Seq(l)
  BY <1>2, <1>5, SeqMonotonic
<1>8. Distinct(r)
  <2>1. ASSUME NEW i \in 1 .. n, NEW j \in 1 .. n, i < j PROVE r[i].id # r[j].id
    <3>1. i \in 1 .. j - 1
      BY <2>1
    <3>2. r[i].id > r[j].id /\ r[i].id \in Int /\ r[j].id \in Int
      BY <1>2, <1>3, <1>4, <1>5, <3>1 DEF Newer, HaveIds
    <3> QED BY <3>2
  <2>2. \A i, j \in 1 .. n : i < j \/ j < i \/ i = j
    OBVIOUS
  <2> QED BY <1>4, <2>1, <2>2 DEF Distinct
<1>9. \A i \in 1 .. Len(r) : r[i].fact.sticky
  BY <1>1, <1>4, <1>5
<1>10. \A e \in l : e.fact.sticky => e.id \in IdsIn(r)
  BY <1>1, <1>4, <1>6 DEF IdsIn
<1> QED BY <1>7, <1>8, <1>9, <1>10

\* What fits: nothing that is left out fits better.
LEMMA FoundIs ==
  ASSUME NEW l, l = lore, IsFiniteSet(l), HaveIds(l), \A e \in l : WordsHit(e) \in Int,
         NEW f, f = Found
  PROVE  /\ f \in Seq(l) /\ Distinct(f)
         /\ \A i \in 1 .. Len(f) : ~ f[i].fact.sticky
         /\ \A e \in l : ~ e.fact.sticky /\ WordsHit(e) > 0 /\ e \notin ToSet(f) =>
              Len(f) = LoreLimit /\ \A i \in 1 .. Len(f) : Outranks(f[i], e)
<1>1. PICK S : S = {e \in l : ~ e.fact.sticky /\ WordsHit(e) > 0}
  OBVIOUS
<1>2. S \subseteq l /\ IsFiniteSet(S) /\ HaveIds(S) /\ \A e \in S : WordsHit(e) \in Int
  <2>1. S \subseteq l
    BY <1>1
  <2> QED BY <2>1, FS_Subset DEF HaveIds
<1>3. PICK r : r = Sorted(S, Outranks)
  OBVIOUS
<1>4. Lists(r, S) /\ \A j \in 1 .. Len(r) : \A i \in 1 .. j - 1 : Outranks(r[i], r[j])
  BY <1>2, <1>3, SortedByRank
<1>5. PICK n \in Nat : n = Len(r)
  BY <1>4 DEF Lists
<1>6. r \in Seq(S) /\ (\A i \in 1 .. n : r[i] \in S) /\ \A e \in S : \E i \in 1 .. n : r[i] = e
  BY <1>4, <1>5 DEF Lists
<1>7. f = Top(r, LoreLimit)
  BY <1>1, <1>3 DEF Found
<1>8. PICK m \in Nat : m = Len(f)
  BY <1>6, <1>7, TopIs, ContextAssumption
<1>9. /\ f \in Seq(S) /\ m <= n
      /\ \A i \in 1 .. m : f[i] = r[i]
      /\ m < n => m = LoreLimit
  <2>1. PICK limit \in Nat : limit = LoreLimit
    BY ContextAssumption
  <2>2. r \in Seq(S)
    BY <1>6
  <2>3. /\ Top(r, limit) \in Seq(S) /\ Len(Top(r, limit)) <= Len(r)
        /\ \A i \in 1 .. Len(Top(r, limit)) : Top(r, limit)[i] = r[i]
        /\ Len(Top(r, limit)) < Len(r) => Len(Top(r, limit)) = limit
    BY <2>2, TopIs
  <2> QED BY <1>5, <1>7, <1>8, <2>1, <2>3
<1>10. f \in Seq(l)
  BY <1>2, <1>9, SeqMonotonic
<1>11. \A i \in 1 .. m : f[i] \in S
  BY <1>8, <1>9
<1>12. Distinct(f)
  <2>1. ASSUME NEW i \in 1 .. m, NEW j \in 1 .. m, i < j PROVE f[i].id # f[j].id
    <3>1. i \in 1 .. j - 1 /\ j \in 1 .. n
      BY <1>9, <2>1
    <3>2. Outranks(f[i], f[j])
      BY <1>4, <1>5, <1>9, <3>1
    <3>3. /\ f[i] \in S /\ f[j] \in S /\ WordsHit(f[i]) \in Int /\ WordsHit(f[j]) \in Int
          /\ f[i].id \in Int /\ f[j].id \in Int
      BY <1>2, <1>11 DEF HaveIds
    <3>4. f[i] # f[j]
      BY <3>2, <3>3 DEF Outranks, Newer
    <3> QED BY <1>2, <3>3, <3>4 DEF HaveIds
  <2>2. \A i, j \in 1 .. m : i < j \/ j < i \/ i = j
    OBVIOUS
  <2> QED BY <1>8, <2>1, <2>2 DEF Distinct
<1>13. \A i \in 1 .. Len(f) : ~ f[i].fact.sticky
  BY <1>1, <1>8, <1>11
<1>14. ASSUME NEW e \in l, ~ e.fact.sticky, WordsHit(e) > 0, e \notin ToSet(f)
       PROVE  Len(f) = LoreLimit /\ \A i \in 1 .. Len(f) : Outranks(f[i], e)
  <2>1. PICK j \in 1 .. n : r[j] = e
    BY <1>1, <1>6, <1>14
  <2>2. ~ (j <= m)
    <3> SUFFICES ASSUME j <= m PROVE FALSE
      OBVIOUS
    <3>1. j \in 1 .. m /\ f[j] = e
      BY <1>9, <2>1
    <3>2. j \in DOMAIN f
      BY <1>8, <1>9, <3>1
    <3> QED BY <1>14, <3>1, <3>2 DEF ToSet
  <2>3. m < n
    BY <2>1, <2>2
  <2>4. ASSUME NEW i \in 1 .. m PROVE Outranks(f[i], e)
    <3>1. i \in 1 .. j - 1
      BY <2>1, <2>2
    <3> QED BY <1>4, <1>5, <1>9, <2>1, <3>1
  <2> QED BY <1>8, <1>9, <2>3, <2>4
<1> QED BY <1>10, <1>12, <1>13, <1>14

-----------------------------------------------------------------------------
(* The steps of others *)

\* What was well formed stays so as time and ids go on.
LEMMA TypesGrow ==
  ASSUME NEW l \in Nat, NEW l2 \in Nat, l <= l2, NEW m \in Nat, NEW m2 \in Nat, m <= m2
  PROVE  /\ EntriesAt(l, m) \subseteq EntriesAt(l2, m2) /\ EventsAt(m) \subseteq EventsAt(m2)
         /\ DraftsAt(l, m) \subseteq DraftsAt(l2, m2)
<1>1. 1 .. l \subseteq 1 .. l2 /\ 0 .. l \subseteq 0 .. l2 /\ 0 .. m \subseteq 0 .. m2
  OBVIOUS
<1>2. EntriesAt(l, m) \subseteq EntriesAt(l2, m2)
  BY <1>1 DEF EntriesAt
<1>3. EventsAt(m) \subseteq EventsAt(m2)
  BY <1>1 DEF EventsAt
<1>4. /\ Seq(EntriesAt(l, m)) \subseteq Seq(EntriesAt(l2, m2))
      /\ Seq(EventsAt(m)) \subseteq Seq(EventsAt(m2))
  BY <1>2, <1>3, SeqMonotonic
<1>5. DraftsAt(l, m) \subseteq DraftsAt(l2, m2)
  BY <1>1, <1>4 DEF DraftsAt
<1> QED BY <1>2, <1>3, <1>5

\* What stores tell of the same entries does not change what was read.
LEMMA MemoriesKeep ==
  ASSUME NEW l, NEW l2, NEW d, NEW n \in Nat, d.since \in Nat, d.since <= n, d.at \in Int,
         \A i \in 1 .. Len(d.remembered) : d.remembered[i].id \in 1 .. n,
         \A e \in l : e.used \in Int,
         \A e \in l2 : e.id \in Int /\ e.used \in Int,
         \A e \in l2 : \/ e.id > n
                       \/ \E f \in l : f.id = e.id /\ f.fact = e.fact /\ f.used <= e.used
  PROVE  /\ StickyFits(l, d) => StickyFits(l2, d)
         /\ HitsFit(l, d) => HitsFit(l2, d)
         /\ TouchedIn(l, d) => TouchedIn(l2, d)
<1>1. \A x \in IdsIn(d.remembered) : x \in 1 .. n
  BY DEF IdsIn
<1>2. ASSUME NEW e \in l2, e.id <= d.since \/ e.id \in IdsIn(d.remembered)
      PROVE  \E f \in l : f.id = e.id /\ f.fact = e.fact /\ f.used <= e.used
  <2>1. ~ (e.id > n)
    BY <1>1, <1>2
  <2> QED BY <2>1
<1>3. ASSUME StickyFits(l, d) PROVE StickyFits(l2, d)
  <2>1. ASSUME NEW i \in 1 .. Len(d.remembered), NEW e \in l2, d.remembered[i].id = e.id
        PROVE  d.remembered[i].fact = e.fact
    <3>1. e.id \in IdsIn(d.remembered)
      BY <2>1 DEF IdsIn
    <3> QED BY <1>2, <1>3, <2>1, <3>1 DEF StickyFits
  <2>2. ASSUME NEW e \in l2, e.fact.sticky, e.id <= d.since PROVE e.id \in IdsIn(d.remembered)
    BY <1>2, <1>3, <2>2 DEF StickyFits
  <2> QED BY <1>3, <2>1, <2>2 DEF StickyFits
<1>4. ASSUME HitsFit(l, d) PROVE HitsFit(l2, d)
  <2> SUFFICES ASSUME NEW e \in l2, e.id <= d.since, e.id \notin IdsIn(d.remembered),
                      WordsIn(e, d.asked) > 0
               PROVE  /\ Cardinality(Fitting(d.remembered)) = LoreLimit
                      /\ \A h \in Fitting(d.remembered) : Beats(h, e, d.asked)
    BY DEF HitsFit
  <2>1. PICK f \in l : f.id = e.id /\ f.fact = e.fact
    BY <1>2
  <2>2. WordsIn(f, d.asked) = WordsIn(e, d.asked)
    BY <2>1 DEF WordsIn
  <2>3. /\ Cardinality(Fitting(d.remembered)) = LoreLimit
        /\ \A h \in Fitting(d.remembered) : Beats(h, f, d.asked)
    BY <1>4, <2>1, <2>2 DEF HitsFit
  <2> QED BY <2>1, <2>2, <2>3 DEF Beats
<1>5. ASSUME TouchedIn(l, d) PROVE TouchedIn(l2, d)
  <2> SUFFICES ASSUME NEW e \in l2, e.id \in IdsIn(d.remembered) PROVE e.used >= d.at
    BY DEF TouchedIn
  <2>1. PICK f \in l : f.id = e.id /\ f.used <= e.used
    BY <1>2
  <2>2. f.used >= d.at
    BY <1>5, <2>1 DEF TouchedIn
  <2> QED BY <2>1, <2>2
<1> QED BY <1>3, <1>4, <1>5

LEMMA DraftIs ==
  ASSUME ContextTypes
  PROVE  /\ minute \in Nat /\ loreId \in Nat
         /\ draft.since \in Nat /\ draft.since <= loreId /\ draft.at \in Nat /\ draft.at <= minute
         /\ draft.remembered \in Seq(EntriesAt(loreId, minute))
         /\ draft.deaths \in Seq(EventsAt(minute)) /\ draft.events \in Seq(EventsAt(minute))
         /\ \A i \in 1 .. Len(draft.remembered) : draft.remembered[i] \in EntriesAt(loreId, minute)
         /\ \A i \in 1 .. Len(draft.remembered) : draft.remembered[i].id \in 1 .. loreId
         /\ \A e \in lore : e.id \in 1 .. loreId /\ e.fact \in Facts /\ e.used \in 0 .. minute
<1>1. minute \in Nat /\ loreId \in Nat
  BY ContextAssumption DEF ContextTypes, StoreTypes
<1>2. /\ draft.since \in 0 .. loreId /\ draft.at \in 0 .. minute
      /\ draft.remembered \in Seq(EntriesAt(loreId, minute))
      /\ draft.deaths \in Seq(EventsAt(minute)) /\ draft.events \in Seq(EventsAt(minute))
  BY DEF ContextTypes, DraftTypes, DraftsAt
<1>3. \A i \in 1 .. Len(draft.remembered) : draft.remembered[i] \in EntriesAt(loreId, minute)
  BY <1>2, ElementOfSeq
<1>4. \A e \in EntriesAt(loreId, minute) : e.id \in 1 .. loreId /\ e.fact \in Facts /\ e.used \in 0 .. minute
  BY DEF EntriesAt
<1>5. lore \subseteq EntriesAt(loreId, minute)
  BY DEF ContextTypes, StoreTypes
<1> QED BY <1>1, <1>2, <1>3, <1>4, <1>5

\* News stay news when time passes.
LEMMA NewsStay ==
  ASSUME ContextTypes, minute' \in Nat, minute <= minute', NewsIsNews,
         draft'.deaths = draft.deaths, draft'.events = draft.events, draft'.at = draft.at
  PROVE  NewsIsNews'
<1>1. ASSUME NEW e \in ToSet(draft.events) PROVE minute' - e.at <= DeathAge => minute - e.at <= DeathAge
  <2>1. PICK i \in DOMAIN draft.events : e = draft.events[i]
    BY <1>1 DEF ToSet
  <2>2. e \in EventsAt(minute)
    BY <2>1, DraftIs, ElementOfSeq
  <2>3. e.at \in Nat /\ minute \in Nat
    BY <2>2, DraftIs DEF EventsAt
  <2>4. DeathAge \in Nat
    BY ContextAssumption
  <2> QED BY <2>3, <2>4
<1> QED BY <1>1 DEF NewsIsNews

\* What others write while the context is put together.
LEMMA OthersStep ==
  ASSUME ContextIInv, UNCHANGED <<reading, draft>>, StoreTypes',
         minute <= minute', loreId <= loreId', InOrder(combat'), HaveIds(lore'),
         \A e \in lore' : \/ e.id > loreId
                          \/ \E f \in lore : f.id = e.id /\ f.fact = e.fact /\ f.used <= e.used
  PROVE  ContextIInv'
<1>1. ContextTypes /\ minute \in Nat /\ minute' \in Nat /\ loreId \in Nat /\ loreId' \in Nat
  BY ContextAssumption DEF ContextIInv, ContextTypes, StoreTypes
<1>2. DraftTypes'
  <2>1. DraftsAt(loreId, minute) \subseteq DraftsAt(loreId', minute')
    <3>1. PICK l2 \in Nat, m2 \in Nat : l2 = loreId' /\ m2 = minute'
      BY <1>1
    <3>2. PICK l \in Nat, m \in Nat : l = loreId /\ m = minute
      BY <1>1
    <3>3. DraftsAt(l, m) \subseteq DraftsAt(l2, m2)
      BY <3>1, <3>2, TypesGrow
    <3> QED BY <3>1, <3>2, <3>3
  <2> QED BY <2>1 DEF ContextIInv, ContextTypes, DraftTypes
<1>3. NewsIInv'
  <2>1. NewsIsNews => NewsIsNews'
    BY <1>1, NewsStay
  <2> QED BY <2>1 DEF ContextIInv, NewsIInv
<1>4. /\ StickyFits(lore, draft) => StickyFits(lore', draft)
      /\ HitsFit(lore, draft) => HitsFit(lore', draft)
      /\ TouchedIn(lore, draft) => TouchedIn(lore', draft)
  <2>1. PICK l, l2, d, n : l = lore /\ l2 = lore' /\ d = draft /\ n = loreId
    OBVIOUS
  <2>2. /\ n \in Nat /\ d.since \in Nat /\ d.since <= n /\ d.at \in Int
        /\ \A i \in 1 .. Len(d.remembered) : d.remembered[i].id \in 1 .. n
        /\ \A e \in l : e.used \in Int
    BY <1>1, <2>1, DraftIs
  <2>3. \A e \in l2 : e.id \in Int /\ e.used \in Int
    <3>1. lore' \subseteq EntriesAt(loreId', minute')
      BY DEF StoreTypes
    <3> QED BY <2>1, <3>1 DEF EntriesAt
  <2>4. \A e \in l2 : \/ e.id > n
                      \/ \E f \in l : f.id = e.id /\ f.fact = e.fact /\ f.used <= e.used
    BY <2>1
  <2>5. /\ StickyFits(l, d) => StickyFits(l2, d)
        /\ HitsFit(l, d) => HitsFit(l2, d)
        /\ TouchedIn(l, d) => TouchedIn(l2, d)
    BY <2>2, <2>3, <2>4, MemoriesKeep
  <2> QED BY <2>1, <2>5
<1>5. MemoryIInv'
  BY <1>4 DEF ContextIInv, MemoryIInv
<1> QED BY <1>2, <1>3, <1>5 DEF ContextIInv, ContextTypes

LEMMA RememberStep == ASSUME ContextIInv, NEW f \in Facts, Remember(f) PROVE ContextIInv'
<1> DEFINE new == [id |-> loreId + 1, fact |-> f, used |-> 0]
<1>1. /\ loreId < MaxLore /\ loreId' = loreId + 1 /\ lore' = lore \cup {new}
      /\ UNCHANGED <<minute, history, combat, captured, vitalsAt, reading, draft>>
  BY DEF Remember
<1>2. ContextTypes /\ minute \in Nat /\ loreId \in Nat /\ loreId + 1 \in 0 .. MaxLore
  BY <1>1, ContextAssumption DEF ContextIInv, ContextTypes, StoreTypes
<1>3. \A e \in lore : e.id \in 1 .. loreId
  BY <1>2, DraftIs
<1>4. new.id = loreId + 1 /\ new \in EntriesAt(loreId + 1, minute)
  BY <1>2 DEF EntriesAt
<1>5. lore' \in SUBSET EntriesAt(loreId + 1, minute) /\ IsFiniteSet(lore')
  <2>1. lore \in SUBSET EntriesAt(loreId, minute) /\ IsFiniteSet(lore)
    BY <1>2 DEF ContextTypes, StoreTypes
  <2>2. EntriesAt(loreId, minute) \subseteq EntriesAt(loreId + 1, minute)
    <3>1. PICK l \in Nat, m \in Nat : l = loreId /\ m = minute
      BY <1>2
    <3>2. l + 1 \in Nat /\ l <= l + 1 /\ m <= m
      OBVIOUS
    <3>3. EntriesAt(l, m) \subseteq EntriesAt(l + 1, m)
      BY <3>2, TypesGrow
    <3> QED BY <3>1, <3>3
  <2> HIDE DEF new
  <2>3. IsFiniteSet(lore \cup {new})
    <3>1. PICK l, n : l = lore /\ n = new
      OBVIOUS
    <3>2. IsFiniteSet(l \cup {n})
      BY <2>1, <3>1, FS_AddElement
    <3> QED BY <3>1, <3>2
  <2> QED BY <1>1, <1>4, <2>1, <2>2, <2>3
<1> HIDE DEF new
<1>6. StoreTypes'
  BY <1>1, <1>2, <1>5 DEF ContextTypes, StoreTypes
<1>7. HaveIds(lore')
  <2>1. HaveIds(lore)
    BY DEF ContextIInv, MemoryIInv
  <2>2. \A e \in lore : e.id # new.id
    BY <1>2, <1>3, <1>4
  <2>3. new.id \in Int
    BY <1>2, <1>4
  <2> QED BY <1>1, <2>1, <2>2, <2>3 DEF HaveIds
<1>8. \A e \in lore' : \/ e.id > loreId
                       \/ \E g \in lore : g.id = e.id /\ g.fact = e.fact /\ g.used <= e.used
  <2>1. new.id > loreId
    BY <1>2, <1>4
  <2>2. \A e \in lore : e.used \in Int
    BY <1>2, DraftIs
  <2>3. \A e \in lore : e.used <= e.used
    BY <2>2
  <2> QED BY <1>1, <2>1, <2>3
<1>9. minute <= minute' /\ loreId <= loreId' /\ InOrder(combat') /\ UNCHANGED <<reading, draft>>
  BY <1>1, <1>2 DEF ContextIInv, NewsIInv
<1> QED BY <1>6, <1>7, <1>8, <1>9, OthersStep

\* What is left of the entries is as it was.
LEMMA LoreStays ==
  ASSUME ContextIInv, lore' \subseteq lore, loreId' = loreId
  PROVE  /\ lore' \in SUBSET EntriesAt(loreId', minute) /\ IsFiniteSet(lore') /\ HaveIds(lore')
         /\ \A e \in lore' : \/ e.id > loreId
                             \/ \E f \in lore : f.id = e.id /\ f.fact = e.fact /\ f.used <= e.used
<1>1. lore \in SUBSET EntriesAt(loreId, minute) /\ IsFiniteSet(lore) /\ HaveIds(lore) /\ ContextTypes
  BY DEF ContextIInv, ContextTypes, StoreTypes, MemoryIInv
<1>2. IsFiniteSet(lore')
  <2>1. PICK l, l2 : l = lore /\ l2 = lore'
    OBVIOUS
  <2>2. IsFiniteSet(l2)
    BY <1>1, <2>1, FS_Subset
  <2> QED BY <2>1, <2>2
<1>3. HaveIds(lore')
  BY <1>1 DEF HaveIds
<1>4. \A e \in lore' : e \in lore /\ e.used \in Int
  BY <1>1, DraftIs
<1>5. \A e \in lore' : e.used <= e.used
  BY <1>4
<1> QED BY <1>1, <1>2, <1>3, <1>4, <1>5

LEMMA ForgetStep == ASSUME ContextIInv, NEW e \in lore, Forget(e) PROVE ContextIInv'
<1>1. /\ lore' \subseteq lore
      /\ UNCHANGED <<minute, loreId, history, combat, captured, vitalsAt, reading, draft>>
  BY DEF Forget
<1>2. minute \in Nat /\ loreId \in Nat
  BY DraftIs DEF ContextIInv
<1>3. StoreTypes'
  BY <1>1, LoreStays DEF ContextIInv, ContextTypes, StoreTypes
<1>4. minute <= minute' /\ loreId <= loreId' /\ InOrder(combat') /\ UNCHANGED <<reading, draft>>
  BY <1>1, <1>2 DEF ContextIInv, NewsIInv
<1> QED BY <1>1, <1>3, <1>4, LoreStays, OthersStep

LEMMA PersistStep == ASSUME ContextIInv, NEW size \in RowSizes, Persist(size) PROVE ContextIInv'
<1>1. /\ lore' \subseteq lore /\ Len(history) < MaxHistory /\ history' = Append(history, size)
      /\ UNCHANGED <<minute, loreId, lore, combat, captured, vitalsAt, reading, draft>>
  BY DEF Persist
<1>2. minute \in Nat /\ loreId \in Nat
  BY DraftIs DEF ContextIInv
<1>3. history' \in Seq(RowSizes) /\ Len(history') <= MaxHistory
  <2>1. history \in Seq(RowSizes) /\ MaxHistory \in Nat
    BY ContextAssumption DEF ContextIInv, ContextTypes, StoreTypes
  <2>2. history' \in Seq(RowSizes) /\ Len(history') = Len(history) + 1
    BY <1>1, <2>1
  <2> QED BY <1>1, <2>1, <2>2
<1>4. StoreTypes'
  BY <1>1, <1>3 DEF ContextIInv, ContextTypes, StoreTypes
<1>5. minute <= minute' /\ loreId <= loreId' /\ InOrder(combat') /\ UNCHANGED <<reading, draft>>
  BY <1>1, <1>2 DEF ContextIInv, NewsIInv
<1> QED BY <1>1, <1>4, <1>5, LoreStays, OthersStep

LEMMA HappensStep == ASSUME ContextIInv, NEW death \in BOOLEAN, Happens(death) PROVE ContextIInv'
<1> DEFINE new == [death |-> death, at |-> minute]
<1>1. /\ Len(combat) < MaxEvents /\ combat' = Append(combat, new)
      /\ UNCHANGED <<minute, lore, loreId, history, captured, vitalsAt, reading, draft>>
  BY DEF Happens
<1>2. minute \in Nat /\ loreId \in Nat
  BY DraftIs DEF ContextIInv
<1>3. new \in EventsAt(minute) /\ new.at = minute
  BY <1>2 DEF EventsAt
<1> HIDE DEF new
<1>4. combat \in Seq(EventsAt(minute)) /\ MaxEvents \in Nat
  BY ContextAssumption DEF ContextIInv, ContextTypes, StoreTypes
<1>5. PICK n \in Nat : n = Len(combat)
  BY <1>4
<1>6. /\ combat' \in Seq(EventsAt(minute)) /\ Len(combat') = n + 1 /\ combat'[n + 1] = new
      /\ \A i \in 1 .. n : combat'[i] = combat[i]
  BY <1>1, <1>3, <1>4, <1>5
<1>7. StoreTypes'
  <2>1. Len(combat') <= MaxEvents
    BY <1>1, <1>4, <1>5, <1>6
  <2> QED BY <1>1, <1>6, <2>1 DEF ContextIInv, ContextTypes, StoreTypes
<1>8. InOrder(combat')
  <2>1. \A i \in 1 .. n : combat[i].at \in 0 .. minute
    <3>1. \A i \in 1 .. n : combat[i] \in EventsAt(minute)
      BY <1>4, <1>5, ElementOfSeq
    <3> QED BY <3>1 DEF EventsAt
  <2>2. ASSUME NEW j \in 1 .. n + 1, NEW i \in 1 .. j PROVE combat'[i].at <= combat'[j].at
    <3>1. CASE j \in 1 .. n
      <4>1. i \in 1 .. n /\ combat[i].at <= combat[j].at
        BY <1>5, <3>1 DEF ContextIInv, NewsIInv, InOrder
      <4> QED BY <1>6, <3>1, <4>1
    <3>2. CASE j = n + 1
      <4>1. combat'[j].at = minute
        BY <1>3, <1>6, <3>2
      <4>2. i \in 1 .. n \/ i = n + 1
        BY <3>2
      <4>3. combat'[i].at <= minute
        BY <1>2, <1>3, <1>6, <2>1, <4>2
      <4> QED BY <4>1, <4>3
    <3> QED BY <3>1, <3>2
  <2> QED BY <1>6, <2>2 DEF InOrder
<1>9. minute <= minute' /\ loreId <= loreId' /\ UNCHANGED <<reading, draft>>
  BY <1>1, <1>2
<1>10. lore' \subseteq lore /\ loreId' = loreId
  BY <1>1
<1> QED BY <1>7, <1>8, <1>9, <1>10, LoreStays, OthersStep

LEMMA CaptureStep == ASSUME ContextIInv, NEW ofVitals \in BOOLEAN, Capture(ofVitals) PROVE ContextIInv'
<1>1. /\ captured' = minute /\ vitalsAt' \in {minute, vitalsAt}
      /\ UNCHANGED <<minute, lore, loreId, history, combat, reading, draft>>
  BY DEF Capture
<1>2. minute \in Nat /\ loreId \in Nat
  BY DraftIs DEF ContextIInv
<1>3. StoreTypes'
  <2>1. minute \in -1 .. minute
    BY <1>2
  <2> QED BY <1>1, <2>1 DEF ContextIInv, ContextTypes, StoreTypes
<1>4. minute <= minute' /\ loreId <= loreId' /\ InOrder(combat') /\ UNCHANGED <<reading, draft>>
  BY <1>1, <1>2 DEF ContextIInv, NewsIInv
<1>5. lore' \subseteq lore /\ loreId' = loreId
  BY <1>1
<1> QED BY <1>3, <1>4, <1>5, LoreStays, OthersStep

LEMMA MinuteStep == ASSUME ContextIInv, MinutePasses PROVE ContextIInv'
<1>1. /\ minute < MaxMinutes /\ minute' = minute + 1
      /\ UNCHANGED <<lore, loreId, history, combat, captured, vitalsAt, reading, draft>>
  BY DEF MinutePasses
<1>2. minute \in Nat /\ loreId \in Nat /\ MaxMinutes \in Nat
  BY DraftIs, ContextAssumption DEF ContextIInv
<1>3. /\ EntriesAt(loreId, minute) \subseteq EntriesAt(loreId, minute')
      /\ EventsAt(minute) \subseteq EventsAt(minute')
  <2>1. PICK l \in Nat, m \in Nat : l = loreId /\ m = minute
    BY <1>2
  <2>2. m + 1 \in Nat /\ m <= m + 1 /\ l <= l
    OBVIOUS
  <2>3. EntriesAt(l, m) \subseteq EntriesAt(l, m + 1) /\ EventsAt(m) \subseteq EventsAt(m + 1)
    BY <2>2, TypesGrow
  <2> QED BY <1>1, <2>1, <2>3
<1>4. combat \in Seq(EventsAt(minute'))
  <2>1. PICK A, B : A = EventsAt(minute) /\ B = EventsAt(minute')
    OBVIOUS
  <2>2. Seq(A) \subseteq Seq(B)
    BY <1>3, <2>1, SeqMonotonic
  <2> QED BY <2>1, <2>2 DEF ContextIInv, ContextTypes, StoreTypes
<1>5. StoreTypes'
  <2>1. minute' \in 0 .. MaxMinutes /\ -1 .. minute \subseteq -1 .. minute'
    BY <1>1, <1>2
  <2> QED BY <1>1, <1>3, <1>4, <2>1 DEF ContextIInv, ContextTypes, StoreTypes
<1>6. minute <= minute' /\ loreId <= loreId' /\ InOrder(combat') /\ UNCHANGED <<reading, draft>>
  BY <1>1, <1>2 DEF ContextIInv, NewsIInv
<1>7. lore' \subseteq lore /\ loreId' = loreId
  BY <1>1
<1> QED BY <1>5, <1>6, <1>7, LoreStays, OthersStep

-----------------------------------------------------------------------------
(* The steps of the assembler *)

LEMMA AssembleStep == ASSUME ContextIInv, NEW words \in Questions, Assemble(words) PROVE ContextIInv'
<1>1. /\ reading' = "telemetry"
      /\ draft' = [Nothing EXCEPT !.asked = words, !.since = loreId, !.at = minute, !.events = combat]
      /\ UNCHANGED <<minute, lore, loreId, history, combat, captured, vitalsAt>>
  BY DEF Assemble, storeVars
<1>2. minute \in Nat /\ loreId \in Nat /\ combat \in Seq(EventsAt(minute))
  BY DraftIs DEF ContextIInv, ContextTypes, StoreTypes
<1>3. Nothing \in DraftsAt(loreId, minute)
  <2>1. 0 \in 0 .. loreId /\ 0 \in 0 .. minute /\ {} \in Questions \cup {{}}
    BY <1>2
  <2>2. <<>> \in Seq(RowSizes) /\ <<>> \in Seq(EventsAt(minute)) /\ <<>> \in Seq(EntriesAt(loreId, minute))
    OBVIOUS
  <2> QED BY <2>1, <2>2 DEF DraftsAt, Nothing
<1>4. draft' \in DraftsAt(loreId, minute) /\ draft'.events = combat
  <2>1. loreId \in 0 .. loreId /\ minute \in 0 .. minute /\ words \in Questions \cup {{}}
    BY <1>2
  <2> QED BY <1>1, <1>2, <1>3, <2>1 DEF DraftsAt
<1>5. ContextTypes'
  BY <1>1, <1>4 DEF ContextIInv, ContextTypes, StoreTypes, DraftTypes
<1>6. NewsIInv' /\ MemoryIInv'
  BY <1>1, <1>4 DEF ContextIInv, NewsIInv, MemoryIInv
<1> QED BY <1>5, <1>6 DEF ContextIInv

LEMMA TelemetryStep == ASSUME ContextIInv, ReadTelemetry PROVE ContextIInv'
<1>1. /\ reading = "telemetry" /\ reading' = "sticky"
      /\ draft' = [draft EXCEPT !.sensors = Sensors, !.deaths = RecentDeaths(draft.events)]
      /\ UNCHANGED <<minute, lore, loreId, history, combat, captured, vitalsAt>>
  BY DEF ReadTelemetry, storeVars
<1>2. PICK m, s, r : m \in Nat /\ m = minute /\ s = draft.events /\ r = RecentDeaths(draft.events)
  BY DraftIs DEF ContextIInv
<1>3. s \in Seq(EventsAt(m)) /\ InOrder(s) /\ minute \in Nat
  BY <1>2, DraftIs DEF ContextIInv, NewsIInv
<1>4. /\ r \in Seq(EventsAt(m))
      /\ \A i \in 1 .. Len(r) : minute - r[i].at <= DeathAge
      /\ \A i \in 1 .. Len(r) - 1 : r[i].at >= r[i + 1].at
      /\ \A k \in 1 .. Len(s) :
           s[k] \notin ToSet(r) /\ s[k].death /\ minute - s[k].at <= DeathAge =>
             Len(r) = DeathLimit /\ \A i \in 1 .. Len(r) : r[i].at >= s[k].at
  <2>1. r = RecentDeaths(s)
    BY <1>2
  <2> QED BY <1>2, <1>3, <2>1, DeathsAre
<1>5. draft \in DraftsAt(loreId, minute) /\ Sensors \in {"none", "stale", "current"}
  BY DEF ContextIInv, ContextTypes, DraftTypes, Sensors
<1>6. /\ draft' \in DraftsAt(loreId, minute)
      /\ draft'.deaths = r /\ draft'.events = s /\ draft'.at = draft.at
  <2>1. PICK z \in {"none", "stale", "current"} : z = Sensors
    BY <1>5
  <2>2. draft' = [draft EXCEPT !.sensors = z, !.deaths = r]
    BY <1>1, <1>2, <2>1
  <2> QED BY <1>2, <1>4, <1>5, <2>2 DEF DraftsAt
<1>7. ContextTypes'
  BY <1>1, <1>6 DEF ContextIInv, ContextTypes, StoreTypes, DraftTypes
<1>8. NewsIsNews'
  <2>1. draft.at \in Nat /\ draft.at <= m /\ DeathAge \in Nat
    BY <1>2, DraftIs, ContextAssumption DEF ContextIInv
  <2>2. \A i \in 1 .. Len(r) : r[i].at \in Nat
    <3>1. \A i \in 1 .. Len(r) : r[i] \in EventsAt(m)
      BY <1>4, ElementOfSeq
    <3> QED BY <3>1 DEF EventsAt
  <2>3. DOMAIN r = 1 .. Len(r) /\ DOMAIN s = 1 .. Len(s)
    BY <1>3, <1>4
  <2>4. \A i \in DOMAIN r : draft.at - r[i].at <= DeathAge
    BY <1>2, <1>4, <2>1, <2>2, <2>3
  <2>5. ASSUME NEW e \in ToSet(s) \ ToSet(r), e.death, minute - e.at <= DeathAge
        PROVE  Len(r) = DeathLimit /\ \A d \in ToSet(r) : d.at >= e.at
    <3>1. PICK k \in 1 .. Len(s) : s[k] = e
      BY <2>3 DEF ToSet
    <3>2. Len(r) = DeathLimit /\ \A i \in 1 .. Len(r) : r[i].at >= e.at
      BY <1>4, <2>5, <3>1
    <3> QED BY <2>3, <3>2 DEF ToSet
  <2> QED BY <1>1, <1>4, <1>6, <2>4, <2>5 DEF NewsIsNews
<1>9. NewsIInv'
  BY <1>1, <1>2, <1>6, <1>8 DEF ContextIInv, NewsIInv
<1>10. MemoryIInv'
  BY <1>1 DEF ContextIInv, MemoryIInv
<1> QED BY <1>7, <1>9, <1>10 DEF ContextIInv

\* What is left of the news when something else is read.
LEMMA NewsStep ==
  ASSUME ContextIInv, reading \in {"sticky", "hits", "touch", "history"},
         UNCHANGED <<minute, combat>>, draft'.deaths = draft.deaths,
         draft'.events = draft.events, draft'.at = draft.at
  PROVE  NewsIInv'
<1>1. NewsIsNews /\ minute' \in Nat /\ minute <= minute'
  BY DraftIs DEF ContextIInv, NewsIInv
<1>2. NewsIsNews'
  BY <1>1, NewsStay DEF ContextIInv
<1> QED BY <1>2 DEF ContextIInv, NewsIInv

LEMMA StickyStep == ASSUME ContextIInv, ReadSticky PROVE ContextIInv'
<1>1. /\ reading = "sticky" /\ reading' = "hits"
      /\ draft' = [draft EXCEPT !.remembered = Sorted({e \in lore : e.fact.sticky}, Newer)]
      /\ UNCHANGED <<minute, lore, loreId, history, combat, captured, vitalsAt>>
  BY DEF ReadSticky, storeVars
<1>2. PICK l, r : l = lore /\ r = Sorted({e \in lore : e.fact.sticky}, Newer)
  OBVIOUS
<1>3. HaveIds(l) /\ IsFiniteSet(l) /\ lore \subseteq EntriesAt(loreId, minute)
  BY <1>2 DEF ContextIInv, MemoryIInv, ContextTypes, StoreTypes
<1>4. /\ r \in Seq(l) /\ Distinct(r)
      /\ \A i \in 1 .. Len(r) : r[i].fact.sticky
      /\ \A e \in l : e.fact.sticky => e.id \in IdsIn(r)
  BY <1>2, <1>3, StickyAre
<1>5. r \in Seq(EntriesAt(loreId, minute))
  <2>1. PICK E : E = EntriesAt(loreId, minute)
    OBVIOUS
  <2>2. Seq(l) \subseteq Seq(E)
    BY <1>2, <1>3, <2>1, SeqMonotonic
  <2> QED BY <1>4, <2>1, <2>2
<1>6. /\ draft' \in DraftsAt(loreId, minute) /\ draft'.remembered = r
      /\ draft'.deaths = draft.deaths /\ draft'.events = draft.events /\ draft'.at = draft.at
      /\ draft'.since = draft.since
  <2>1. draft \in DraftsAt(loreId, minute) /\ draft' = [draft EXCEPT !.remembered = r]
    BY <1>1, <1>2 DEF ContextIInv, ContextTypes, DraftTypes
  <2> QED BY <1>5, <2>1 DEF DraftsAt
<1>7. ContextTypes'
  BY <1>1, <1>6 DEF ContextIInv, ContextTypes, StoreTypes, DraftTypes
<1>8. NewsIInv'
  BY <1>1, <1>6, NewsStep
<1>9. StickyFits(lore, draft')
  <2>1. \A i \in 1 .. Len(r) : r[i] \in l
    BY <1>4, ElementOfSeq
  <2>2. \A i \in 1 .. Len(r) : \A e \in l : r[i].id = e.id => r[i].fact = e.fact
    BY <1>3, <2>1 DEF HaveIds
  <2> QED BY <1>2, <1>4, <1>6, <2>2 DEF StickyFits
<1>10. MemoryIInv'
  BY <1>1, <1>4, <1>6, <1>9 DEF ContextIInv, MemoryIInv
<1> QED BY <1>7, <1>8, <1>10 DEF ContextIInv

LEMMA WordsAre ==
  ASSUME NEW e, e.fact \in Facts, NEW asked
  PROVE  WordsIn(e, asked) \in Nat
<1>1. IsFiniteSet(e.fact.words)
  BY ContextAssumption
<1>2. e.fact.words \cap asked \in SUBSET e.fact.words
  OBVIOUS
<1>3. IsFiniteSet(e.fact.words \cap asked)
  BY <1>1, <1>2, FS_Subset
<1> QED BY <1>3, FS_CardinalityType DEF WordsIn

\* A list with its members in some order.
LEMMA ReorderedIs ==
  ASSUME NEW V, NEW f \in Seq(V), Distinct(f), NEW up, Lists(up, DOMAIN f), Cardinality(DOMAIN f) = Len(f),
         \A j \in 1 .. Len(up) : \A i \in 1 .. j - 1 : up[i] < up[j],
         NEW p, p = Picked(f, up)
  PROVE  p \in Seq(V) /\ Distinct(p) /\ Len(p) = Len(f) /\ ToSet(p) = ToSet(f)
<1>1. PICK n \in Nat : n = Len(f) /\ DOMAIN f = 1 .. n
  OBVIOUS
<1>2. PICK S : S = DOMAIN f
  OBVIOUS
<1>3. up \in Seq(S) /\ Len(up) = n /\ \A x \in S : \E i \in 1 .. n : up[i] = x
  BY <1>1, <1>2 DEF Lists
<1>4. /\ p \in Seq(V) /\ Len(p) = n
      /\ \A i \in 1 .. n : p[i] = f[up[i]]
  <2>1. up \in Seq(DOMAIN f)
    BY <1>2, <1>3
  <2> QED BY <1>3, <2>1, PickedIs
<1>5. \A i \in 1 .. n : up[i] \in 1 .. n
  <2>1. \A i \in 1 .. Len(up) : up[i] \in S
    BY <1>3, ElementOfSeq
  <2> QED BY <1>1, <1>2, <1>3, <2>1
<1>6. Distinct(p)
  <2> SUFFICES ASSUME NEW i \in 1 .. n, NEW j \in 1 .. n, p[i].id = p[j].id PROVE i = j
    BY <1>4 DEF Distinct
  <2>1. up[i] = up[j]
    BY <1>1, <1>4, <1>5 DEF Distinct
  <2>2. i < j => up[i] < up[j]
    <3>1. i < j => i \in 1 .. j - 1
      OBVIOUS
    <3> QED BY <1>3, <3>1
  <2>3. j < i => up[j] < up[i]
    <3>1. j < i => j \in 1 .. i - 1
      OBVIOUS
    <3> QED BY <1>3, <3>1
  <2>4. up[i] \in Int
    BY <1>5
  <2> QED BY <2>1, <2>2, <2>3, <2>4
<1>7. ToSet(p) = ToSet(f)
  <2>1. DOMAIN p = 1 .. n
    BY <1>4
  <2>2. ASSUME NEW x \in ToSet(p) PROVE x \in ToSet(f)
    <3>1. PICK i \in 1 .. n : x = p[i]
      BY <2>1 DEF ToSet
    <3> QED BY <1>1, <1>4, <1>5, <3>1 DEF ToSet
  <2>3. ASSUME NEW x \in ToSet(f) PROVE x \in ToSet(p)
    <3>1. PICK k \in 1 .. n : x = f[k]
      BY <1>1 DEF ToSet
    <3>2. PICK i \in 1 .. n : up[i] = k
      BY <1>1, <1>2, <1>3, <3>1
    <3> QED BY <1>4, <2>1, <3>1, <3>2 DEF ToSet
  <2> QED BY <2>2, <2>3
<1> QED BY <1>1, <1>4, <1>6, <1>7

\* What was read, with what was found after it.
LEMMA TogetherFit ==
  ASSUME NEW V, NEW r \in Seq(V), NEW p \in Seq(V), Distinct(r), Distinct(p),
         \A i \in 1 .. Len(r) : r[i].fact.sticky, \A i \in 1 .. Len(p) : ~ p[i].fact.sticky,
         \A i \in 1 .. Len(r) : \A j \in 1 .. Len(p) : r[i].id # p[j].id
  PROVE  /\ r \o p \in Seq(V) /\ Distinct(r \o p)
         /\ \A k \in 1 .. Len(r \o p) : (r \o p)[k] \in ToSet(r) \cup ToSet(p)
         /\ IdsIn(r \o p) = IdsIn(r) \cup IdsIn(p)
         /\ Fitting(r \o p) = ToSet(p)
<1>1. PICK m \in Nat, n \in Nat : m = Len(r) /\ n = Len(p) /\ DOMAIN r = 1 .. m /\ DOMAIN p = 1 .. n
  OBVIOUS
<1>2. PICK all : all = r \o p
  OBVIOUS
<1>3. /\ all \in Seq(V) /\ Len(all) = m + n
      /\ \A i \in 1 .. m + n : all[i] = IF i <= m THEN r[i] ELSE p[i - m]
  BY <1>1, <1>2, ConcatProperties
<1>4. DOMAIN all = 1 .. m + n
  BY <1>3
<1>5. \A i \in 1 .. m : i \in 1 .. m + n /\ all[i] = r[i]
  BY <1>3
<1>6. \A j \in 1 .. n : m + j \in 1 .. m + n /\ all[m + j] = p[j]
  <2> TAKE j \in 1 .. n
  <2>1. m + j \in 1 .. m + n /\ ~ (m + j <= m) /\ (m + j) - m = j
    OBVIOUS
  <2> QED BY <1>3, <2>1
<1>7. \A k \in 1 .. m + n : k \in 1 .. m \/ \E j \in 1 .. n : k = m + j
  <2> TAKE k \in 1 .. m + n
  <2>1. CASE k <= m
    BY <2>1
  <2>2. CASE ~ (k <= m)
    <3>1. k - m \in 1 .. n /\ k = m + (k - m)
      BY <2>2
    <3> QED BY <3>1
  <2> QED BY <2>1, <2>2
<1>8. Distinct(all)
  <2> SUFFICES ASSUME NEW a \in 1 .. m + n, NEW b \in 1 .. m + n, all[a].id = all[b].id PROVE a = b
    BY <1>3 DEF Distinct
  <2>1. CASE a \in 1 .. m /\ b \in 1 .. m
    BY <1>1, <1>5, <2>1 DEF Distinct
  <2>2. ASSUME NEW i \in 1 .. n, NEW j \in 1 .. n, a = m + i, b = m + j PROVE a = b
    <3>1. p[i].id = p[j].id
      BY <1>6, <2>2
    <3> QED BY <1>1, <2>2, <3>1 DEF Distinct
  <2>3. ASSUME a \in 1 .. m, NEW j \in 1 .. n, b = m + j PROVE FALSE
    BY <1>1, <1>5, <1>6, <2>3
  <2>4. ASSUME b \in 1 .. m, NEW j \in 1 .. n, a = m + j PROVE FALSE
    BY <1>1, <1>5, <1>6, <2>4
  <2> QED BY <1>7, <2>1, <2>2, <2>3, <2>4
<1>9. ToSet(r) = {r[i] : i \in 1 .. m} /\ ToSet(p) = {p[j] : j \in 1 .. n}
  BY <1>1 DEF ToSet
<1>10. \A k \in 1 .. m + n : all[k] \in ToSet(r) \cup ToSet(p)
  <2> TAKE k \in 1 .. m + n
  <2>1. CASE k \in 1 .. m
    BY <1>5, <1>9, <2>1
  <2>2. ASSUME NEW j \in 1 .. n, k = m + j PROVE all[k] \in ToSet(p)
    BY <1>6, <1>9, <2>2
  <2> QED BY <1>7, <2>1, <2>2
<1>11. IdsIn(all) = IdsIn(r) \cup IdsIn(p)
  <2>1. ASSUME NEW x \in IdsIn(all) PROVE x \in IdsIn(r) \cup IdsIn(p)
    <3>1. PICK k \in 1 .. m + n : x = all[k].id
      BY <1>3 DEF IdsIn
    <3>2. CASE k \in 1 .. m
      BY <1>1, <1>5, <3>1, <3>2 DEF IdsIn
    <3>3. ASSUME NEW j \in 1 .. n, k = m + j PROVE x \in IdsIn(p)
      BY <1>1, <1>6, <3>1, <3>3 DEF IdsIn
    <3> QED BY <1>7, <3>2, <3>3
  <2>2. ASSUME NEW x \in IdsIn(r) PROVE x \in IdsIn(all)
    <3>1. PICK i \in 1 .. m : x = r[i].id
      BY <1>1 DEF IdsIn
    <3> QED BY <1>3, <1>5, <3>1 DEF IdsIn
  <2>3. ASSUME NEW x \in IdsIn(p) PROVE x \in IdsIn(all)
    <3>1. PICK j \in 1 .. n : x = p[j].id
      BY <1>1 DEF IdsIn
    <3> QED BY <1>3, <1>6, <3>1 DEF IdsIn
  <2> QED BY <2>1, <2>2, <2>3
<1>12. Fitting(all) = ToSet(p)
  <2>1. ToSet(all) = {all[k] : k \in 1 .. m + n}
    BY <1>4 DEF ToSet
  <2>2. ASSUME NEW x \in Fitting(all) PROVE x \in ToSet(p)
    <3>1. PICK k \in 1 .. m + n : x = all[k] /\ ~ x.fact.sticky
      BY <2>1 DEF Fitting
    <3>2. CASE k \in 1 .. m
      BY <1>1, <1>5, <3>1, <3>2
    <3>3. ASSUME NEW j \in 1 .. n, k = m + j PROVE x \in ToSet(p)
      BY <1>6, <1>9, <3>1, <3>3
    <3> QED BY <1>7, <3>2, <3>3
  <2>3. ASSUME NEW x \in ToSet(p) PROVE x \in Fitting(all)
    <3>1. PICK j \in 1 .. n : x = p[j]
      BY <1>9
    <3>2. x \in ToSet(all) /\ ~ x.fact.sticky
      BY <1>1, <1>6, <2>1, <3>1
    <3> QED BY <3>2 DEF Fitting
  <2> QED BY <2>2, <2>3
<1> QED BY <1>2, <1>3, <1>8, <1>10, <1>11, <1>12

LEMMA HitsStep == ASSUME ContextIInv, ReadHits PROVE ContextIInv'
<1> DEFINE seen == {e.id : e \in ToSet(draft.remembered)}
           new == {i \in DOMAIN Found : Found[i].id \notin seen}
<1>1. PICK f, r, all, l :
        /\ f = Found /\ r = draft.remembered /\ l = lore
        /\ all = r \o Picked(f, Sorted(new, <))
  OBVIOUS
<1>2. /\ reading = "hits" /\ draft' = [draft EXCEPT !.remembered = all]
      /\ reading' \in {"history", "touch"} /\ (reading' = "history" => all = <<>>)
      /\ UNCHANGED <<minute, lore, loreId, history, combat, captured, vitalsAt>>
  BY <1>1 DEF ReadHits, storeVars
<1>3. PICK E : E = EntriesAt(loreId, minute)
  OBVIOUS
<1>4. /\ HaveIds(l) /\ IsFiniteSet(l) /\ l \subseteq E /\ r \in Seq(E)
      /\ StickyFits(l, draft) /\ \A i \in 1 .. Len(r) : r[i].fact.sticky
  BY <1>1, <1>2, <1>3, DraftIs DEF ContextIInv, MemoryIInv, ContextTypes, StoreTypes
<1>5. /\ Distinct(r)
      /\ \A i \in 1 .. Len(r) : \A e \in l : r[i].id = e.id => r[i].fact = e.fact
      /\ \A e \in l : e.fact.sticky /\ e.id <= draft.since => e.id \in IdsIn(r)
  BY <1>1, <1>4 DEF StickyFits
<1>6. \A e \in E : e.fact \in Facts
  BY <1>3 DEF EntriesAt
<1>7. \A e : WordsHit(e) = WordsIn(e, draft.asked)
  BY DEF WordsHit, WordsIn
<1>8. /\ f \in Seq(l) /\ Distinct(f) /\ \A i \in 1 .. Len(f) : ~ f[i].fact.sticky
      /\ \A e \in l : ~ e.fact.sticky /\ WordsHit(e) > 0 /\ e \notin ToSet(f) =>
           Len(f) = LoreLimit /\ \A i \in 1 .. Len(f) : Outranks(f[i], e)
  <2>1. \A e \in l : WordsHit(e) \in Int
    <3>1. \A e \in l : WordsIn(e, draft.asked) \in Nat
      BY <1>4, <1>6, WordsAre
    <3> QED BY <1>7, <3>1
  <2> QED BY <1>1, <1>4, <2>1, FoundIs
<1>9. \A i \in 1 .. Len(f) : f[i] \in l
  BY <1>8, ElementOfSeq
<1>10. \A i \in 1 .. Len(r) : \A j \in 1 .. Len(f) : r[i].id # f[j].id
  BY <1>4, <1>5, <1>8, <1>9
<1>11. new = DOMAIN f
  <2>1. DOMAIN f = 1 .. Len(f)
    BY <1>8
  <2>2. seen = {r[i].id : i \in 1 .. Len(r)}
    <3>1. DOMAIN r = 1 .. Len(r)
      BY <1>4
    <3> QED BY <1>1, <3>1 DEF ToSet
  <2>3. new = {i \in DOMAIN f : f[i].id \notin seen}
    BY <1>1
  <2> HIDE DEF seen, new
  <2>4. \A i \in DOMAIN f : f[i].id \notin seen
    BY <1>10, <2>1, <2>2
  <2> QED BY <2>3, <2>4
<1> HIDE DEF new, seen
<1>12. PICK S, up, p : S = DOMAIN f /\ up = Sorted(S, <) /\ p = Picked(f, up)
  OBVIOUS
<1>13. p \in Seq(l) /\ Distinct(p) /\ Len(p) = Len(f) /\ ToSet(p) = ToSet(f)
  <2>1. PICK n \in Nat : n = Len(f) /\ DOMAIN f = 1 .. n
    BY <1>8
  <2>2. S \in SUBSET Int /\ IsFiniteSet(S) /\ Cardinality(S) = n
    <3>1. 1 \in Int /\ n \in Int
      OBVIOUS
    <3>2. IsFiniteSet(1 .. n) /\ Cardinality(1 .. n) = IF 1 > n THEN 0 ELSE n - 1 + 1
      BY <3>1, FS_Interval
    <3>3. S = 1 .. n
      BY <1>12, <2>1
    <3> QED BY <3>2, <3>3
  <2>3. Lists(up, S) /\ \A j \in 1 .. Len(up) : \A i \in 1 .. j - 1 : up[i] < up[j]
    BY <1>12, <2>2, SortedUp
  <2>4. Lists(up, DOMAIN f) /\ Cardinality(DOMAIN f) = Len(f) /\ p = Picked(f, up)
    <3>1. S = DOMAIN f /\ p = Picked(f, up)
      BY <1>12
    <3> QED BY <2>1, <2>2, <2>3, <3>1
  <2> QED BY <1>8, <2>3, <2>4, ReorderedIs
<1>14. all = r \o p
  BY <1>1, <1>11, <1>12
<1>15. \A j \in 1 .. Len(p) : p[j] \in l /\ ~ p[j].fact.sticky /\ \E k \in 1 .. Len(f) : p[j] = f[k]
  <2>1. DOMAIN p = 1 .. Len(p) /\ DOMAIN f = 1 .. Len(f)
    BY <1>8, <1>13
  <2>2. ASSUME NEW j \in 1 .. Len(p) PROVE \E k \in 1 .. Len(f) : p[j] = f[k]
    <3>1. p[j] \in ToSet(f)
      BY <1>13, <2>1 DEF ToSet
    <3> QED BY <2>1, <3>1 DEF ToSet
  <2> QED BY <1>8, <1>9, <2>2
<1>16. /\ all \in Seq(E) /\ Distinct(all)
       /\ \A k \in 1 .. Len(all) : all[k] \in ToSet(r) \cup ToSet(p)
       /\ IdsIn(all) = IdsIn(r) \cup IdsIn(p)
       /\ Fitting(all) = ToSet(p)
  <2>1. p \in Seq(E)
    BY <1>4, <1>13, SeqMonotonic
  <2>2. \A i \in 1 .. Len(r) : \A j \in 1 .. Len(p) : r[i].id # p[j].id
    BY <1>10, <1>15
  <2>3. \A j \in 1 .. Len(p) : ~ p[j].fact.sticky
    BY <1>15
  <2> QED BY <1>4, <1>5, <1>13, <1>14, <2>1, <2>2, <2>3, TogetherFit
<1>17. /\ draft' \in DraftsAt(loreId, minute) /\ draft'.remembered = all
       /\ draft'.deaths = draft.deaths /\ draft'.events = draft.events /\ draft'.at = draft.at
       /\ draft'.since = draft.since /\ draft'.asked = draft.asked
  <2>1. draft \in DraftsAt(loreId, minute) /\ all \in Seq(EntriesAt(loreId, minute))
    BY <1>3, <1>16 DEF ContextIInv, ContextTypes, DraftTypes
  <2> QED BY <1>2, <2>1 DEF DraftsAt
<1>18. ContextTypes'
  BY <1>2, <1>17 DEF ContextIInv, ContextTypes, StoreTypes, DraftTypes
<1>19. NewsIInv'
  BY <1>2, <1>17, NewsStep
<1>20. StickyFits(l, draft')
  <2>1. ASSUME NEW k \in 1 .. Len(all), NEW e \in l, all[k].id = e.id PROVE all[k].fact = e.fact
    <3>1. ASSUME all[k] \in ToSet(r) PROVE all[k].fact = e.fact
      <4>1. PICK i \in DOMAIN r : all[k] = r[i]
        BY <3>1 DEF ToSet
      <4>2. i \in 1 .. Len(r)
        BY <1>4, <4>1
      <4> QED BY <1>5, <2>1, <4>1, <4>2
    <3>2. ASSUME all[k] \in ToSet(p) PROVE all[k].fact = e.fact
      <4>1. PICK i \in DOMAIN p : all[k] = p[i]
        BY <3>2 DEF ToSet
      <4>2. i \in 1 .. Len(p)
        BY <1>13, <4>1
      <4>3. all[k] \in l
        BY <1>15, <4>1, <4>2
      <4> QED BY <1>4, <2>1, <4>3 DEF HaveIds
    <3> QED BY <1>16, <3>1, <3>2
  <2>2. ASSUME NEW e \in l, e.fact.sticky, e.id <= draft.since PROVE e.id \in IdsIn(all)
    BY <1>5, <1>16, <2>2
  <2> QED BY <1>16, <1>17, <2>1, <2>2 DEF StickyFits
<1>21. HitsFit(l, draft')
  <2> SUFFICES ASSUME NEW e \in l, e.id <= draft.since, e.id \notin IdsIn(all),
                      WordsIn(e, draft.asked) > 0
               PROVE  /\ Cardinality(Fitting(all)) = LoreLimit
                      /\ \A h \in Fitting(all) : Beats(h, e, draft.asked)
    BY <1>17 DEF HitsFit
  <2>1. ~ e.fact.sticky /\ WordsHit(e) > 0
    BY <1>5, <1>7, <1>16
  <2>2. e \notin ToSet(f)
    <3> SUFFICES ASSUME e \in ToSet(p) PROVE FALSE
      BY <1>13
    <3>1. PICK i \in DOMAIN p : e = p[i]
      BY DEF ToSet
    <3>2. i \in 1 .. Len(p)
      BY <1>13, <3>1
    <3>3. e.id \in IdsIn(p)
      BY <3>1, <3>2 DEF IdsIn
    <3> QED BY <1>16, <3>3
  <2>3. Len(f) = LoreLimit /\ \A i \in 1 .. Len(f) : Outranks(f[i], e)
    BY <1>8, <2>1, <2>2
  <2>4. Cardinality(Fitting(all)) = LoreLimit
    <3>1. Cardinality(ToSet(p)) = Len(p)
      BY <1>13, DistinctAre
    <3> QED BY <1>13, <1>16, <2>3, <3>1
  <2>5. ASSUME NEW h \in Fitting(all) PROVE Beats(h, e, draft.asked)
    <3>1. h \in ToSet(f)
      BY <1>13, <1>16
    <3>2. PICK i \in 1 .. Len(f) : h = f[i]
      <4>1. DOMAIN f = 1 .. Len(f)
        BY <1>8
      <4> QED BY <3>1, <4>1 DEF ToSet
    <3>3. Outranks(h, e)
      BY <2>3, <3>2
    <3> QED BY <1>7, <3>3 DEF Outranks, Beats, Newer
  <2> QED BY <2>4, <2>5
<1>22. reading' = "history" => TouchedIn(l, draft')
  <2> SUFFICES ASSUME all = <<>> PROVE TouchedIn(l, draft')
    BY <1>2
  <2>1. IdsIn(all) = {}
    BY DEF IdsIn
  <2> QED BY <1>17, <2>1 DEF TouchedIn
<1>23. MemoryIInv'
  BY <1>1, <1>2, <1>4, <1>20, <1>21, <1>22 DEF MemoryIInv
<1> QED BY <1>18, <1>19, <1>23 DEF ContextIInv

LEMMA TouchStep == ASSUME ContextIInv, Touch PROVE ContextIInv'
<1> DEFINE listed == {d.id : d \in ToSet(draft.remembered)}
           stamp(e) == [e EXCEPT !.used = IF e.id \in listed THEN minute ELSE @]
<1>1. /\ reading = "touch" /\ reading' = "history" /\ lore' = {stamp(e) : e \in lore}
      /\ UNCHANGED <<minute, loreId, history, combat, captured, vitalsAt, draft>>
  BY DEF Touch
<1>2. /\ minute \in Nat /\ loreId \in Nat /\ lore \subseteq EntriesAt(loreId, minute)
      /\ IsFiniteSet(lore) /\ HaveIds(lore) /\ StickyFits(lore, draft) /\ HitsFit(lore, draft)
      /\ draft.at \in Nat /\ draft.at <= minute /\ draft.remembered \in Seq(EntriesAt(loreId, minute))
  BY <1>1, DraftIs DEF ContextIInv, ContextTypes, StoreTypes, MemoryIInv
<1>3. listed = IdsIn(draft.remembered)
  <2>1. DOMAIN draft.remembered = 1 .. Len(draft.remembered)
    BY <1>2
  <2> QED BY <2>1 DEF IdsIn, ToSet
<1> HIDE DEF listed
<1>4. ASSUME NEW e \in lore
      PROVE  /\ stamp(e) \in EntriesAt(loreId, minute)
             /\ stamp(e).id = e.id /\ stamp(e).fact = e.fact
             /\ stamp(e).used = IF e.id \in listed THEN minute ELSE e.used
             /\ e.used \in 0 .. minute
  <2>1. e \in [id : 1 .. loreId, fact : Facts, used : 0 .. minute] /\ minute \in 0 .. minute
    BY <1>2 DEF EntriesAt
  <2> QED BY <2>1 DEF EntriesAt
<1>5. lore' \in SUBSET EntriesAt(loreId, minute) /\ IsFiniteSet(lore')
  <2>1. IsFiniteSet({stamp(e) : e \in lore})
    <3>1. PICK l, T, g : l = lore /\ T = {stamp(e) : e \in lore} /\ g = [e \in lore |-> stamp(e)]
      OBVIOUS
    <3> HIDE DEF stamp
    <3>2. g \in [l -> T] /\ \A x \in T : \E e \in l : g[e] = x
      BY <3>1
    <3>3. g \in Surjection(l, T)
      BY <3>2 DEF Surjection
    <3>4. IsFiniteSet(T)
      BY <1>2, <3>1, <3>3, FS_Surjection
    <3> QED BY <3>1, <3>4
  <2> HIDE DEF stamp
  <2> QED BY <1>1, <1>4, <2>1
<1>6. \A e \in lore' : \E f \in lore : /\ e.id = f.id /\ e.fact = f.fact /\ f.used <= e.used
                                       /\ f.id \in listed => e.used = minute
  <2>1. ASSUME NEW f \in lore
        PROVE  f.used <= stamp(f).used /\ (f.id \in listed => stamp(f).used = minute)
    <3>1. f.used \in 0 .. minute /\ stamp(f).used = IF f.id \in listed THEN minute ELSE f.used
      BY <1>4
    <3> HIDE DEF stamp
    <3> QED BY <1>2, <3>1
  <2>2. ASSUME NEW e \in lore'
        PROVE  \E f \in lore : /\ e.id = f.id /\ e.fact = f.fact /\ f.used <= e.used
                               /\ f.id \in listed => e.used = minute
    <3>1. PICK f \in lore : e = stamp(f)
      BY <1>1
    <3>2. e.id = f.id /\ e.fact = f.fact
      BY <1>4, <3>1
    <3> HIDE DEF stamp
    <3> QED BY <2>1, <3>1, <3>2
  <2> QED BY <2>2
<1>7. HaveIds(lore')
  <2>1. \A e \in lore' : e.id \in Int
    BY <1>2, <1>6 DEF HaveIds
  <2>2. ASSUME NEW e \in lore', NEW f \in lore', e.id = f.id PROVE e = f
    <3>1. PICK a \in lore, b \in lore : e = stamp(a) /\ f = stamp(b)
      BY <1>1
    <3>2. a.id = b.id
      BY <1>4, <2>2, <3>1
    <3>3. a = b
      BY <1>2, <3>2 DEF HaveIds
    <3> QED BY <3>1, <3>3
  <2> HIDE DEF stamp
  <2> QED BY <2>1, <2>2 DEF HaveIds
<1> HIDE DEF stamp
<1>8. StickyFits(lore', draft) /\ HitsFit(lore', draft)
  <2>1. PICK l, l2, d, n : l = lore /\ l2 = lore' /\ d = draft /\ n = loreId
    OBVIOUS
  <2>2. /\ n \in Nat /\ d.since \in Nat /\ d.since <= n /\ d.at \in Int
        /\ \A i \in 1 .. Len(d.remembered) : d.remembered[i].id \in 1 .. n
        /\ \A e \in l : e.used \in Int
    BY <2>1, DraftIs DEF ContextIInv
  <2>3. \A e \in l2 : e.id \in Int /\ e.used \in Int
    BY <1>2, <1>5, <2>1 DEF EntriesAt
  <2>4. \A e \in l2 : \/ e.id > n
                      \/ \E f \in l : f.id = e.id /\ f.fact = e.fact /\ f.used <= e.used
    <3>1. \A e \in l2 : \E f \in l : f.id = e.id /\ f.fact = e.fact /\ f.used <= e.used
      BY <1>6, <2>1
    <3> QED BY <3>1
  <2>5. (StickyFits(l, d) => StickyFits(l2, d)) /\ (HitsFit(l, d) => HitsFit(l2, d))
    BY <2>2, <2>3, <2>4, MemoriesKeep
  <2> QED BY <1>2, <2>1, <2>5
<1>9. TouchedIn(lore', draft)
  <2> SUFFICES ASSUME NEW e \in lore', e.id \in listed PROVE e.used >= draft.at
    BY <1>3 DEF TouchedIn
  <2>1. e.used = minute
    BY <1>6
  <2> QED BY <1>2, <2>1
<1>10. ContextTypes'
  BY <1>1, <1>5 DEF ContextIInv, ContextTypes, StoreTypes, DraftTypes
<1>11. NewsIInv'
  BY <1>1, NewsStep
<1>12. MemoryIInv'
  BY <1>1, <1>7, <1>8, <1>9 DEF MemoryIInv
<1> QED BY <1>10, <1>11, <1>12 DEF ContextIInv

LEMMA NewestOfNewest ==
  ASSUME NEW V, NEW s \in Seq(V), NEW k \in 0 .. Len(s), NEW n \in 0 .. k
  PROVE  /\ Newest(s, k) \in Seq(V) /\ Len(Newest(s, k)) = k
         /\ Newest(Newest(s, k), n) = Newest(s, n)
<1>1. PICK len \in Nat : len = Len(s)
  OBVIOUS
<1>2. \A i \in 1 .. len : s[i] \in V
  BY <1>1, ElementOfSeq
<1>3. ASSUME NEW j \in 0 .. len
      PROVE  /\ Newest(s, j) \in Seq(V) /\ Len(Newest(s, j)) = j
             /\ \A i \in 1 .. j : Newest(s, j)[i] = s[(len - j) + i]
  <2>1. PICK a \in Int : a = len + 1 - j
    OBVIOUS
  <2>2. \A i \in a .. len : s[i] \in V
    BY <1>2, <2>1
  <2>3. /\ SubSeq(s, a, len) \in Seq(V)
        /\ Len(SubSeq(s, a, len)) = IF a <= len THEN len - a + 1 ELSE 0
        /\ \A i \in 1 .. len - a + 1 : SubSeq(s, a, len)[i] = s[a + i - 1]
    BY <2>2, SubSeqProperties
  <2>4. Newest(s, j) = SubSeq(s, a, len)
    BY <1>1, <2>1 DEF Newest
  <2>5. (IF a <= len THEN len - a + 1 ELSE 0) = j /\ len - a + 1 = j
    BY <2>1
  <2>6. \A i \in 1 .. j : a + i - 1 = (len - j) + i
    BY <2>1
  <2> QED BY <2>3, <2>4, <2>5, <2>6
<1>4. PICK t : t = Newest(s, k)
  OBVIOUS
<1>5. /\ k \in 0 .. len /\ n \in 0 .. len
      /\ t \in Seq(V) /\ Len(t) = k /\ \A i \in 1 .. k : t[i] = s[(len - k) + i]
  BY <1>1, <1>3, <1>4
<1>6. PICK a \in Int : a = k + 1 - n
  OBVIOUS
<1>7. \A i \in a .. k : t[i] \in V
  <2>1. \A i \in 1 .. k : t[i] \in V
    BY <1>5, ElementOfSeq
  <2> QED BY <1>6, <2>1
<1>8. /\ SubSeq(t, a, k) \in Seq(V)
      /\ Len(SubSeq(t, a, k)) = IF a <= k THEN k - a + 1 ELSE 0
      /\ \A i \in 1 .. k - a + 1 : SubSeq(t, a, k)[i] = t[a + i - 1]
  BY <1>5, <1>7, SubSeqProperties
<1>9. PICK u, v : u = Newest(t, n) /\ v = Newest(s, n)
  OBVIOUS
<1>10. u = SubSeq(t, a, k)
  BY <1>5, <1>6, <1>9 DEF Newest
<1>11. u \in Seq(V) /\ Len(u) = n /\ \A i \in 1 .. n : u[i] = t[a + i - 1]
  <2>1. (IF a <= k THEN k - a + 1 ELSE 0) = n /\ k - a + 1 = n
    BY <1>5, <1>6
  <2> QED BY <1>8, <1>10, <2>1
<1>12. v \in Seq(V) /\ Len(v) = n /\ \A i \in 1 .. n : v[i] = s[(len - n) + i]
  BY <1>3, <1>5, <1>9
<1>13. \A i \in 1 .. n : u[i] = v[i]
  <2> TAKE i \in 1 .. n
  <2>1. a + i - 1 \in 1 .. k /\ (len - k) + (a + i - 1) = (len - n) + i
    <3>1. k \in Nat /\ n \in Nat /\ n <= k /\ i \in Nat /\ 1 <= i /\ i <= n
      BY <1>5
    <3>2. a + i - 1 = (k - n) + i
      BY <1>6, <3>1
    <3>3. (k - n) + i \in 1 .. k /\ (len - k) + ((k - n) + i) = (len - n) + i
      BY <3>1
    <3> QED BY <3>2, <3>3
  <2>2. t[a + i - 1] = s[(len - k) + (a + i - 1)]
    BY <1>5, <2>1
  <2> QED BY <1>11, <1>12, <2>1, <2>2
<1>14. u = v
  BY <1>11, <1>12, <1>13, SeqEqual
<1> QED BY <1>4, <1>5, <1>9, <1>14

\* The rows of the history that are read first.
LEMMA FetchedIs ==
  ASSUME NEW V, NEW s \in Seq(V)
  PROVE  \E k \in 0 .. Len(s) :
           /\ SubSeq(s, Max({1, Len(s) + 1 - MaxRead}), Len(s)) = Newest(s, k)
           /\ k = Min({MaxRead, Len(s)})
<1>1. PICK len \in Nat : len = Len(s)
  OBVIOUS
<1>2. MaxRead \in Nat
  BY ContextAssumption
<1>3. Min({MaxRead, len}) = IF MaxRead <= len THEN MaxRead ELSE len
  BY <1>2, SmallerIs
<1>4. CASE MaxRead <= len
  <2>1. len + 1 - MaxRead \in Nat /\ len + 1 - MaxRead >= 1
    BY <1>2, <1>4
  <2>2. PICK a \in Nat : a = len + 1 - MaxRead /\ a >= 1
    BY <2>1
  <2>3. Max({1, a}) = IF 1 >= a THEN 1 ELSE a
    BY LargerIs
  <2>4. Max({1, a}) = a
    BY <2>2, <2>3
  <2>5. MaxRead \in 0 .. len /\ MaxRead = Min({MaxRead, len})
    BY <1>2, <1>3, <1>4
  <2> QED BY <1>1, <2>2, <2>4, <2>5 DEF Newest
<1>5. CASE ~ (MaxRead <= len)
  <2>1. PICK a \in Int : a = len + 1 - MaxRead /\ a <= 1 /\ ~ (1 < a)
    BY <1>2, <1>5
  <2>2. \E x \in {1, a} : \A y \in {1, a} : x >= y
    BY <2>1
  <2>3. PICK m \in {1, a} : m = Max({1, a}) /\ \A y \in {1, a} : m >= y
    BY <2>2 DEF Max
  <2>4. Max({1, a}) = 1
    BY <2>1, <2>3
  <2>5. len \in 0 .. len /\ len = Min({MaxRead, len}) /\ len + 1 - len = 1
    BY <1>3, <1>5
  <2> QED BY <1>1, <2>1, <2>4, <2>5 DEF Newest
<1> QED BY <1>4, <1>5

LEMMA TokensAre == ASSUME ContextTypes PROVE SystemTokens \in Nat /\ ChatBudget \in Nat
<1>1. Len(draft.deaths) \in Nat /\ Len(draft.remembered) \in Nat
  BY DraftIs
<1>2. SystemTokens \in Nat
  <2>1. PICK a, b, z : a = Len(draft.deaths) /\ b = Len(draft.remembered) /\ z = draft.sensors
    OBVIOUS
  <2>2. a \in Nat /\ b \in Nat
    BY <1>1, <2>1
  <2>3. SystemTokens = 1 + (IF z = "none" THEN 0 ELSE IF z = "stale" THEN 2 ELSE 1) + a + b
    BY <2>1 DEF SystemTokens
  <2>4. (IF z = "none" THEN 0 ELSE IF z = "stale" THEN 2 ELSE 1) \in Nat
    OBVIOUS
  <2> QED BY <2>2, <2>3, <2>4
<1>3. PICK n \in Nat : n = SystemTokens
  BY <1>2
<1>4. TokenBudget \in Nat /\ ChatReserve \in Nat /\ MinChat \in Nat
  BY ContextAssumption
<1>5. ChatBudget \in Nat
  BY <1>3, <1>4 DEF ChatBudget
<1> QED BY <1>2, <1>5

\* The history that is told: the newest rows without a gap, as many as fit.
LEMMA HistoryIs ==
  ASSUME ContextIInv, ReadHistory
  PROVE  \E n \in 0 .. Len(history) :
           /\ draft'.rows = Newest(history, n) /\ draft'.rows \in Seq(RowSizes) /\ Len(draft'.rows) = n
           /\ Total(draft'.rows) \in Nat /\ Total(draft'.rows) <= ChatBudget
           /\ n < Min({MaxRead, Len(history)}) => Total(Newest(history, n + 1)) > ChatBudget
<1>1. PICK s, budget, V : s = history /\ budget = ChatBudget /\ V = RowSizes
  OBVIOUS
<1>2. s \in Seq(V) /\ budget \in Nat /\ V \subseteq Nat
  BY <1>1, TokensAre, ContextAssumption DEF ContextIInv, ContextTypes, StoreTypes
<1>3. PICK k \in 0 .. Len(s) :
        /\ SubSeq(s, Max({1, Len(s) + 1 - MaxRead}), Len(s)) = Newest(s, k)
        /\ k = Min({MaxRead, Len(s)})
  BY <1>2, FetchedIs
<1>4. PICK f : f = Newest(s, k)
  OBVIOUS
<1>5. f \in Seq(V) /\ Len(f) = k /\ \A n \in 0 .. k : Newest(f, n) = Newest(s, n)
  BY <1>2, <1>4, NewestOfNewest
<1>6. f \in Seq(Nat)
  BY <1>2, <1>5, SeqMonotonic
<1>7. PICK n \in 0 .. k :
        /\ Kept(f, budget) = Newest(f, n)
        /\ Total(Newest(f, n)) <= budget
        /\ n < k => Total(Newest(f, n + 1)) > budget
  BY <1>2, <1>5, <1>6, KeptFits
<1>8. PICK r : r = Newest(s, n)
  OBVIOUS
<1>9. n \in 0 .. Len(s) /\ k \in Nat /\ (n < k => n + 1 \in 0 .. k)
  <2>1. Len(s) \in Nat
    BY <1>2
  <2> QED BY <1>3, <1>7, <2>1
<1>10. r \in Seq(V) /\ Len(r) = n
  <2>1. n \in 0 .. n
    BY <1>9
  <2> QED BY <1>2, <1>8, <1>9, <2>1, NewestOfNewest
<1>11. Total(r) \in Nat
  <2>1. r \in Seq(Nat)
    BY <1>2, <1>10, SeqMonotonic
  <2> QED BY <2>1, TotalIs
<1>12. draft'.rows = r
  <2>1. draft \in DraftsAt(loreId, minute)
    BY DEF ContextIInv, ContextTypes, DraftTypes
  <2>2. draft' = [draft EXCEPT !.rows = Kept(f, budget)]
    BY <1>1, <1>3, <1>4 DEF ReadHistory
  <2>3. draft'.rows = Kept(f, budget)
    BY <2>1, <2>2 DEF DraftsAt
  <2> QED BY <1>5, <1>7, <1>8, <2>3
<1>13. /\ Total(r) <= budget /\ (n < k => Total(Newest(s, n + 1)) > budget)
  BY <1>5, <1>7, <1>8, <1>9
<1> QED BY <1>1, <1>3, <1>8, <1>9, <1>10, <1>11, <1>12, <1>13

LEMMA HistoryStep == ASSUME ContextIInv, ReadHistory PROVE ContextIInv'
<1>1. /\ reading' = "done" /\ draft' = [draft EXCEPT !.rows = draft'.rows]
      /\ UNCHANGED <<minute, lore, loreId, history, combat, captured, vitalsAt>>
  <2>1. draft \in DraftsAt(loreId, minute)
    BY DEF ContextIInv, ContextTypes, DraftTypes
  <2>2. \E sizes \in {draft'.rows} : draft' = [draft EXCEPT !.rows = sizes]
    <3>1. PICK sizes : draft' = [draft EXCEPT !.rows = sizes]
      BY DEF ReadHistory
    <3>2. draft'.rows = sizes
      BY <2>1, <3>1 DEF DraftsAt
    <3> QED BY <3>1, <3>2
  <2> QED BY <2>2 DEF ReadHistory, storeVars
<1>2. draft'.rows \in Seq(RowSizes)
  BY HistoryIs
<1>3. draft' \in DraftsAt(loreId, minute) /\ draft'.events = draft.events
  <2>1. PICK sizes \in Seq(RowSizes) : sizes = draft'.rows
    BY <1>2
  <2>2. draft \in DraftsAt(loreId, minute) /\ draft' = [draft EXCEPT !.rows = sizes]
    BY <1>1, <2>1 DEF ContextIInv, ContextTypes, DraftTypes
  <2> QED BY <2>2 DEF DraftsAt
<1>4. ContextTypes'
  BY <1>1, <1>3 DEF ContextIInv, ContextTypes, StoreTypes, DraftTypes
<1>5. NewsIInv' /\ MemoryIInv'
  BY <1>1, <1>3 DEF ContextIInv, NewsIInv, MemoryIInv
<1> QED BY <1>4, <1>5 DEF ContextIInv

-----------------------------------------------------------------------------
(* What a turn is told *)

LEMMA ContextStarts == ContextInit => ContextIInv
<1> SUFFICES ASSUME ContextInit PROVE ContextIInv
  OBVIOUS
<1>1. /\ minute = 0 /\ lore = {} /\ loreId = 0 /\ history = <<>> /\ combat = <<>>
      /\ captured = -1 /\ vitalsAt = -1 /\ reading = "idle" /\ draft = Nothing
  BY DEF ContextInit
<1>2. Nothing \in DraftsAt(0, 0)
  <2>1. 0 \in 0 .. 0 /\ {} \in Questions \cup {{}}
    OBVIOUS
  <2>2. <<>> \in Seq(RowSizes) /\ <<>> \in Seq(EventsAt(0)) /\ <<>> \in Seq(EntriesAt(0, 0))
    OBVIOUS
  <2> QED BY <2>1, <2>2 DEF DraftsAt, Nothing
<1>3. StoreTypes
  <2>1. /\ MaxMinutes \in Nat /\ MaxLore \in Nat /\ MaxEvents \in Nat /\ MaxHistory \in Nat
        /\ 0 \in Nat /\ -1 \in -1 .. 0
    BY ContextAssumption
  <2>2. 0 \in 0 .. MaxMinutes /\ 0 \in 0 .. MaxLore
    BY <2>1
  <2>3. Len(<<>>) = 0 /\ <<>> \in Seq(RowSizes) /\ <<>> \in Seq(EventsAt(0))
    OBVIOUS
  <2>4. Len(<<>>) <= MaxEvents /\ Len(<<>>) <= MaxHistory
    BY <2>1, <2>3
  <2> QED BY <1>1, <2>1, <2>2, <2>3, <2>4, FS_EmptySet DEF StoreTypes
<1>4. DraftTypes
  BY <1>1, <1>2 DEF DraftTypes
<1>5. NewsIInv
  <2>1. InOrder(<<>>) /\ Nothing.events = <<>>
    BY DEF InOrder, Nothing
  <2> QED BY <1>1, <2>1 DEF NewsIInv
<1>6. MemoryIInv
  BY <1>1 DEF MemoryIInv, HaveIds
<1> QED BY <1>3, <1>4, <1>5, <1>6 DEF ContextIInv, ContextTypes

LEMMA ContextKeeps == ContextIInv /\ [ContextNext]_contextVars => ContextIInv'
<1> SUFFICES ASSUME ContextIInv, [ContextNext]_contextVars PROVE ContextIInv'
  OBVIOUS
<1>1. CASE \E words \in Questions : Assemble(words)
  BY <1>1, AssembleStep
<1>2. CASE ReadTelemetry
  BY <1>2, TelemetryStep
<1>3. CASE ReadSticky
  BY <1>3, StickyStep
<1>4. CASE ReadHits
  BY <1>4, HitsStep
<1>5. CASE Touch
  BY <1>5, TouchStep
<1>6. CASE ReadHistory
  BY <1>6, HistoryStep
<1>7. CASE \E f \in Facts : Remember(f)
  BY <1>7, RememberStep
<1>8. CASE \E e \in lore : Forget(e)
  BY <1>8, ForgetStep
<1>9. CASE \E size \in RowSizes : Persist(size)
  BY <1>9, PersistStep
<1>10. CASE \E death \in BOOLEAN : Happens(death)
  BY <1>10, HappensStep
<1>11. CASE \E ofVitals \in BOOLEAN : Capture(ofVitals)
  BY <1>11, CaptureStep
<1>12. CASE MinutePasses
  BY <1>12, MinuteStep
<1>13. CASE UNCHANGED contextVars
  <2>1. UNCHANGED <<minute, lore, loreId, history, combat, captured, vitalsAt, reading, draft>>
    BY <1>13 DEF contextVars
  <2>2. StoreTypes' /\ DraftTypes'
    BY <2>1 DEF ContextIInv, ContextTypes, StoreTypes, DraftTypes
  <2>3. NewsIInv'
    BY <2>1 DEF ContextIInv, NewsIInv, NewsIsNews
  <2>4. MemoryIInv'
    BY <2>1 DEF ContextIInv, MemoryIInv
  <2> QED BY <2>2, <2>3, <2>4 DEF ContextIInv, ContextTypes
<1> QED BY <1>1, <1>2, <1>3, <1>4, <1>5, <1>6, <1>7, <1>8, <1>9, <1>10, <1>11, <1>12, <1>13
        DEF ContextNext

LEMMA ContextInvariant == ContextSpec => []ContextIInv
<1> QED BY ContextStarts, ContextKeeps, PTL DEF ContextSpec

\* The types of the context assembler, of the rows it reads and of its draft
\* (assembler.py, assemble).
THEOREM ContextTypeCorrect == ContextSpec => []ContextTypeOK
<1>1. ContextIInv => ContextTypeOK
  <2> SUFFICES ASSUME ContextIInv PROVE ContextTypeOK
    OBVIOUS
  <2>1. StoreTypes /\ DraftTypes
    BY DEF ContextIInv, ContextTypes
  <2>2. EntriesAt(loreId, minute) = Entries /\ EventsAt(minute) = CombatEvents
    BY DEF EntriesAt, Entries, EventsAt, CombatEvents
  <2>3. /\ draft.sensors \in {"none", "stale", "current"}
        /\ draft.deaths \in Seq(EventsAt(minute)) /\ draft.rows \in Seq(RowSizes)
        /\ draft.remembered \in Seq(EntriesAt(loreId, minute))
    BY <2>1 DEF DraftTypes, DraftsAt
  <2>4. \A V, s : s \in Seq(V) => ToSet(s) \subseteq V
    <3> SUFFICES ASSUME NEW V, NEW s \in Seq(V), NEW x \in ToSet(s) PROVE x \in V
      OBVIOUS
    <3>1. PICK i \in DOMAIN s : x = s[i]
      BY DEF ToSet
    <3> QED BY <3>1, ElementOfSeq
  <2>5. /\ ToSet(combat) \subseteq CombatEvents /\ ToSet(draft.deaths) \subseteq CombatEvents
        /\ ToSet(history) \subseteq RowSizes /\ ToSet(draft.rows) \subseteq RowSizes
        /\ ToSet(draft.remembered) \subseteq Entries
    BY <2>1, <2>2, <2>3, <2>4 DEF StoreTypes
  <2> QED BY <2>1, <2>2, <2>3, <2>5 DEF ContextTypeOK, StoreTypes, DraftTypes
<1> QED BY <1>1, ContextInvariant, PTL

LEMMA HistoryIsRight == ContextIInv /\ ReadHistory => HistoryFits
<1> SUFFICES ASSUME ContextIInv, ReadHistory PROVE HistoryFits
  OBVIOUS
<1>1. PICK n \in 0 .. Len(history) :
        /\ draft'.rows = Newest(history, n) /\ draft'.rows \in Seq(RowSizes) /\ Len(draft'.rows) = n
        /\ Total(draft'.rows) \in Nat /\ Total(draft'.rows) <= ChatBudget
        /\ n < Min({MaxRead, Len(history)}) => Total(Newest(history, n + 1)) > ChatBudget
  BY HistoryIs
<1>2. PICK len, tokens, total, budget, longer :
        /\ len = Len(history) /\ tokens = SystemTokens /\ total = Total(draft'.rows)
        /\ budget = ChatBudget /\ longer = Newest(history, n + 1)
  OBVIOUS
<1>3. len \in Nat /\ tokens \in Nat /\ total \in Nat /\ n \in Nat /\ total <= budget /\ budget \in Nat
  BY <1>1, <1>2, TokensAre DEF ContextIInv, ContextTypes, StoreTypes
<1>4. longer = SubSeq(history, Len(history) - n, Len(history))
  <2>1. len + 1 - (n + 1) = len - n
    BY <1>3
  <2> QED BY <1>2, <2>1 DEF Newest
<1>5. draft'.rows = SubSeq(history, Len(history) + 1 - Len(draft'.rows), Len(history))
  BY <1>1 DEF Newest
<1>6. tokens + ChatReserve + total <= Max({TokenBudget, tokens + ChatReserve + MinChat})
  <2>1. PICK a \in Nat, r \in Nat, m \in Nat : a = TokenBudget /\ r = ChatReserve /\ m = MinChat
    BY ContextAssumption
  <2>2. PICK b \in Nat : b = tokens + r + m
    BY <1>3, <2>1
  <2>3. budget = IF b > a THEN m ELSE a - tokens - r
    BY <1>2, <2>1, <2>2 DEF ChatBudget
  <2>4. Max({a, b}) = IF a >= b THEN a ELSE b
    BY LargerIs
  <2>5. tokens + r + total <= Max({a, b})
    <3>1. CASE b > a
      <4>1. total <= m /\ Max({a, b}) = b
        BY <1>3, <2>3, <2>4, <3>1
      <4> QED BY <1>3, <2>2, <4>1
    <3>2. CASE ~ (b > a)
      <4>1. budget = (a - tokens) - r /\ Max({a, b}) = a
        BY <1>3, <2>2, <2>3, <2>4, <3>2
      <4> QED BY <1>3, <4>1
    <3> QED BY <3>1, <3>2
  <2> QED BY <2>1, <2>2, <2>5
<1> QED BY <1>1, <1>2, <1>4, <1>5, <1>6 DEF HistoryFits

LEMMA NothingIsForgotten == ContextIInv /\ reading = "history" => NothingForgotten
<1> SUFFICES ASSUME ContextIInv, reading = "history" PROVE NothingForgotten
  OBVIOUS
<1>1. StickyFits(lore, draft) /\ HitsFit(lore, draft) /\ TouchedIn(lore, draft)
  BY DEF ContextIInv, MemoryIInv
<1>2. PICK r, V : r = draft.remembered /\ V = EntriesAt(loreId, minute) /\ r \in Seq(V)
  BY DraftIs DEF ContextIInv
<1>3. {g.id : g \in ToSet(r)} = IdsIn(r)
  <2>1. DOMAIN r = 1 .. Len(r)
    BY <1>2
  <2> QED BY <2>1 DEF IdsIn, ToSet
<1>4. Cardinality(IdsIn(r)) = Len(r)
  <2>1. Distinct(r)
    BY <1>1, <1>2 DEF StickyFits
  <2> QED BY <1>2, <2>1, DistinctAre
<1>5. \A e : WordsHit(e) = WordsIn(e, draft.asked)
  BY DEF WordsHit, WordsIn
<1>6. ASSUME NEW e \in lore, e.id <= draft.since, e.id \notin IdsIn(r)
      PROVE  /\ ~ e.fact.sticky
             /\ WordsHit(e) > 0 => /\ Cardinality(Fitting(r)) = LoreLimit
                                   /\ \A h \in Fitting(r) : Outranks(h, e)
  <2>1. ~ e.fact.sticky
    BY <1>1, <1>2, <1>6 DEF StickyFits
  <2>2. ASSUME WordsHit(e) > 0
        PROVE  Cardinality(Fitting(r)) = LoreLimit /\ \A h \in Fitting(r) : Beats(h, e, draft.asked)
    BY <1>1, <1>2, <1>5, <1>6, <2>2 DEF HitsFit
  <2>3. \A h : Beats(h, e, draft.asked) => Outranks(h, e)
    BY <1>5 DEF Beats, Outranks, Newer
  <2> QED BY <2>1, <2>2, <2>3
<1>7. \A e \in lore : e.id \in IdsIn(r) => e.used >= draft.at
  BY <1>1, <1>2 DEF TouchedIn
<1> DEFINE listed == ToSet(draft.remembered)
           missed == {e \in lore : e.id <= draft.since /\ e.id \notin {g.id : g \in listed}}
           hits == {g \in listed : ~ g.fact.sticky}
<1>8. {g.id : g \in listed} = IdsIn(r) /\ hits = Fitting(r)
  BY <1>2, <1>3 DEF Fitting
<1>9. missed = {e \in lore : e.id <= draft.since /\ e.id \notin IdsIn(r)}
  BY <1>8
<1>10. Cardinality({g.id : g \in listed}) = Len(draft.remembered)
  BY <1>2, <1>4, <1>8
<1>11. \A e \in lore : e.id \in {g.id : g \in listed} => e.used >= draft.at
  BY <1>7, <1>8
<1>12. /\ \A e \in missed : ~ e.fact.sticky
       /\ \A e \in missed : WordsHit(e) > 0 =>
            Cardinality(hits) = LoreLimit /\ \A h \in hits : Outranks(h, e)
  <2> HIDE DEF missed, hits, listed
  <2> QED BY <1>6, <1>8, <1>9
<1> QED BY <1>10, <1>11, <1>12 DEF NothingForgotten

\* What a turn is told is true of the stores, however much other tasks change while it
\* is put together: the newest rows that fit, everything that is remembered for good,
\* nothing that fits the question less well than something left out, and the newest
\* deaths that are not too old (assembler.py, assemble; campaign_store.py).
THEOREM ContextHolds == ContextSpec => ContextIsSound
<1>1. ContextIInv /\ [ContextNext]_contextVars =>
        [reading = "history" /\ reading' = "done" =>
           HistoryFits /\ NothingForgotten /\ NewsIsNews]_contextVars
  <2> SUFFICES ASSUME ContextIInv, ContextNext, reading = "history", reading' = "done"
               PROVE  HistoryFits /\ NothingForgotten /\ NewsIsNews
    OBVIOUS
  <2>1. ReadHistory
    BY DEF ContextNext, Assemble, ReadTelemetry, ReadSticky, ReadHits, Touch, Remember, Forget,
           Persist, Happens, Capture, MinutePasses
  <2>2. HistoryFits
    BY <2>1, HistoryIsRight
  <2>3. NothingForgotten
    BY NothingIsForgotten
  <2>4. NewsIsNews
    BY DEF ContextIInv, NewsIInv
  <2> QED BY <2>2, <2>3, <2>4
<1> QED BY <1>1, ContextInvariant, PTL DEF ContextSpec, ContextIsSound

-----------------------------------------------------------------------------
(* Side by side *)

\* Each part is implemented by what they do together: a step of MCSpec is a step of one
\* and leaves the variables of the others alone.
LEMMA EachPartIsImplemented ==
  MCSpec => DbSpec /\ CampaignSpec /\ CacheSpec /\ ContextSpec /\ AgentSpec /\ TribeSpec
<1>1. MCInit => DbInit /\ CampaignInit /\ CacheInit /\ ContextInit /\ AgentInit /\ TribeInit
  BY DEF MCInit
<1>2. ASSUME [\/ IndexStep \/ OpeningStep \/ CampaignStep \/ CacheStep \/ ContextStep
              \/ RunStep \/ TribesStep \/ Rest]_allVars
      PROVE  /\ [DbNext]_dbVars /\ [CampaignNext]_campaignVars /\ [CacheNext]_cacheVars
             /\ [ContextNext]_contextVars /\ [AgentNext]_agentVars /\ [TribeNext]_tribeVars
  BY <1>2 DEF IndexStep, OpeningStep, CampaignStep, CacheStep, ContextStep, RunStep, TribesStep,
              Rest, allVars, doingVars
<1> QED
  BY <1>1, <1>2, PTL
  DEF MCSpec, DbSpec, CampaignSpec, CacheSpec, ContextSpec, AgentSpec, TribeSpec

\* The files, the campaign, the cache, the context, the agent and the tribes' events
\* keep their types together.
THEOREM PartTypesCorrect == MCSpec => []TypesOK
<1>1. /\ DbTypeOK /\ CampaignTypeOK /\ CacheTypeOK /\ ContextTypeOK /\ AgentTypeOK /\ TribeTypeOK
      => TypesOK
  BY DEF TypesOK
<1> QED
  BY <1>1, EachPartIsImplemented, DbTypeCorrect, CampaignTypeCorrect, CacheTypeCorrect,
     ContextTypeCorrect, AgentTypeCorrect, TribeTypeCorrect, PTL
=============================================================================
