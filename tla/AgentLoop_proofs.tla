--------------------------- MODULE AgentLoop_proofs ---------------------------
(***************************************************************************)
(* What is run on a survivor's behalf, and why every call is answered: for *)
(* any tiers, tools, limits, endpoints and budgets, and whatever the LLM   *)
(* asks for.                                                               *)
(***************************************************************************)
EXTENDS AgentLoop, SequenceTheorems, FiniteSetTheorems, WellFoundedInduction, TLAPS

-----------------------------------------------------------------------------
(* The invariants *)

\* Types, with what bounds the iterations: only a request in time waits or has calls.
AgentIInv ==
  /\ AgentTypeOK
  /\ doing \in {"waiting", "calling"} => iteration < MaxIterations

\* The stamps are those of the latest calls; the calls that have none have left the window.
Remembers(stamps, calls, time) ==
  /\ Len(stamps) <= Len(calls)
  /\ \A i \in 1 .. Len(stamps) : stamps[i] = calls[(Len(calls) - Len(stamps)) + i].at
  /\ \A i \in 1 .. Len(calls) - Len(stamps) : calls[i].at + Window <= time

InOrder(calls) == \A j \in 1 .. Len(calls) : \A i \in 1 .. j : calls[i].at <= calls[j].at

LimiterKnows == Remembers(toolCalls, executed, now) /\ InOrder(executed)

ClearedIInv == LimiterKnows /\ EveryCallIsCleared

CallsOf(it, n) == {<<it, i>> : i \in 1 .. n}

\* The message at j calls for n tools, and their results follow it in turn, as far as
\* the calls are settled; the others are pending.
IsFollowed(j, it, n) ==
  /\ conversation[j].ids = CallsOf(it, n)
  /\ \A i \in 1 .. n : j + i <= Len(conversation) =>
       conversation[j + i].role = "tool" /\ conversation[j + i].ids = {<<it, i>>}
  /\ j + n > Len(conversation) =>
       /\ doing = "calling"
       /\ j + n = Len(conversation) + Len(pending)
       /\ \A k \in 1 .. Len(pending) : pending[k] = <<it, (Len(conversation) + k) - j>>

CallsAreFollowed ==
  \A j \in 1 .. Len(conversation) : conversation[j].role = "assistant" =>
    \E it \in 0 .. MaxIterations, n \in 0 .. MaxCalls : IsFollowed(j, it, n)

\* What is pending was called for by the latest message that is no result.
PendingIsCalled ==
  doing = "calling" =>
    \E j \in 1 .. Len(conversation) :
      /\ conversation[j].role = "assistant"
      /\ \A k \in j + 1 .. Len(conversation) : conversation[k].role = "tool"
      /\ \A k \in 1 .. Len(pending) : pending[k] \in conversation[j].ids

\* Only results stand between a result and the message with its call; or the message
\* was cut off, and only results stand before it.
IsOwned(c, i) ==
  c[i].role = "tool" =>
    \/ \E j \in 1 .. i - 1 :
         /\ c[j].role = "assistant" /\ c[i].ids \subseteq c[j].ids
         /\ \A k \in j + 1 .. i : c[k].role = "tool"
    \/ \A k \in 1 .. i : c[k].role = "tool"

ResultsAreOwned == \A i \in 1 .. Len(conversation) : IsOwned(conversation, i)

AnsweredIInv == doing # "idle" => CallsAreFollowed /\ PendingIsCalled /\ ResultsAreOwned

-----------------------------------------------------------------------------
(* Recursion *)

\* Induction, for a set of numbers.
LEMMA NumbersFrom0 ==
  ASSUME NEW P \in SUBSET Nat, 0 \in P, \A n \in P : n + 1 \in P
  PROVE  P = Nat
<1> SUFFICES ASSUME Nat \ P # {} PROVE FALSE
  OBVIOUS
<1> DEFINE T == Nat \ P
<1>1. \E x \in T : \A y \in T : ~ (<<y, x>> \in OpToRel(<, Nat))
  BY NatLessThanWellFounded, WFMin
<1>2. ASSUME NEW x \in Nat, NEW y \in Nat, y < x PROVE <<y, x>> \in OpToRel(<, Nat)
  <2>1. <<y, x>> \in {ss \in Nat \X Nat : ss[1] < ss[2]}
    BY <1>2
  <2> QED BY <2>1 DEF OpToRel
<1>3. \E x \in T : \A y \in T : ~ (y < x)
  BY <1>1, <1>2, Zenon
<1>4. PICK x \in T : \A y \in T : ~ (y < x)
  BY <1>3
<1>5. x # 0 /\ x - 1 \in Nat /\ x - 1 < x /\ (x - 1) + 1 = x
  OBVIOUS
<1>6. x - 1 \in P
  BY <1>4, <1>5
<1> QED BY <1>5, <1>6

\* From v0, every value of f follows by F from the one before.
Follows(f, n, v0, F) == f = [i \in 0 .. n |-> IF i = 0 THEN v0 ELSE F[<<i, f[i - 1]>>]]

\* Such a function exists.
LEMMA RecursionExists ==
  ASSUME NEW V, NEW v0 \in V, NEW F \in [Nat \X V -> V]
  PROVE  \A n \in Nat : \E f \in [0 .. n -> V] : Follows(f, n, v0, F)
<1> DEFINE P == {n \in Nat : \E f \in [0 .. n -> V] : Follows(f, n, v0, F)}
<1>1. 0 \in P
  <2> DEFINE f == [i \in 0 .. 0 |-> v0]
  <2>1. f \in [0 .. 0 -> V] /\ Follows(f, 0, v0, F)
    BY DEF Follows
  <2> QED BY <2>1
<1>2. ASSUME NEW n \in P PROVE n + 1 \in P
  <2>1. PICK f \in [0 .. n -> V] : Follows(f, n, v0, F)
    OBVIOUS
  <2> DEFINE w == F[<<n + 1, f[n]>>]
             g == [i \in 0 .. n + 1 |-> IF i = n + 1 THEN w ELSE f[i]]
  <2>2. n \in Nat /\ n + 1 \in Nat /\ f[n] \in V
    OBVIOUS
  <2>3. w \in V
    BY <2>2
  <2> HIDE DEF w
  <2>4. g \in [0 .. n + 1 -> V]
    BY <2>2, <2>3
  <2>5. ASSUME NEW i \in 0 .. n + 1
        PROVE  g[i] = IF i = 0 THEN v0 ELSE F[<<i, g[i - 1]>>]
    <3>1. CASE i = n + 1
      <4>1. g[i - 1] = f[n] /\ i # 0
        BY <2>2, <3>1
      <4> QED BY <2>2, <3>1, <4>1 DEF w
    <3>2. CASE i # n + 1
      <4>1. i \in 0 .. n /\ g[i] = f[i]
        BY <2>2, <3>2
      <4>2. i # 0 => i - 1 \in 0 .. n + 1 /\ i - 1 # n + 1
        BY <2>2, <4>1
      <4>3. i # 0 => g[i - 1] = f[i - 1]
        BY <4>2
      <4> HIDE DEF g
      <4>4. f[i] = IF i = 0 THEN v0 ELSE F[<<i, f[i - 1]>>]
        BY <2>1, <4>1 DEF Follows
      <4> QED BY <4>1, <4>3, <4>4
    <3> QED BY <3>1, <3>2
  <2>6. Follows(g, n + 1, v0, F)
    BY <2>5 DEF Follows
  <2> HIDE DEF g
  <2> QED BY <2>2, <2>4, <2>6
<1>3. P = Nat
  <2> HIDE DEF P
  <2>1. P \in SUBSET Nat
    BY DEF P
  <2> QED BY <1>1, <1>2, <2>1, NumbersFrom0
<1> QED BY <1>3

-----------------------------------------------------------------------------
(* The limiter *)

LEMMA WindowIsNumber == Window \in Nat \ {0} /\ CleanupAge \in Nat /\ Window <= CleanupAge
BY AgentAssumption

Keeps(s, t, f) ==
  f = [i \in 0 .. Len(s) |->
         IF i = 0 THEN <<>>
         ELSE IF s[i] + Window > t THEN Append(f[i - 1], s[i]) ELSE f[i - 1]]

LEMMA BoundsAreNumbers ==
  MaxIterations \in Nat \ {0} /\ MaxCalls \in Nat \ {0} /\ MaxNow \in Nat /\ MaxTurns \in Nat
BY AgentAssumption

LEMMA KeptExists ==
  ASSUME NEW s \in Seq(Nat), NEW t \in Nat
  PROVE  \E f \in [0 .. Len(s) -> Seq(Nat)] : Keeps(s, t, f)
<1> DEFINE V == Seq(Nat)
           F == [p \in Nat \X V |->
                   IF p[1] \in 1 .. Len(s) /\ s[p[1]] + Window > t THEN Append(p[2], s[p[1]]) ELSE p[2]]
<1>1. F \in [Nat \X V -> V]
  OBVIOUS
<1>2. <<>> \in V /\ Len(s) \in Nat
  OBVIOUS
<1> HIDE DEF F, V
<1>3. PICK f \in [0 .. Len(s) -> V] : Follows(f, Len(s), <<>>, F)
  <2> DEFINE e == <<>>
  <2>1. e \in V
    BY <1>2
  <2> HIDE DEF e
  <2>2. \A n \in Nat : \E f \in [0 .. n -> V] : Follows(f, n, e, F)
    BY <1>1, <2>1, RecursionExists
  <2> QED BY <1>2, <2>2 DEF e
<1>4. ASSUME NEW i \in 0 .. Len(s)
      PROVE  f[i] = IF i = 0 THEN <<>>
                    ELSE IF s[i] + Window > t THEN Append(f[i - 1], s[i]) ELSE f[i - 1]
  <2>1. f[i] = IF i = 0 THEN <<>> ELSE F[<<i, f[i - 1]>>]
    BY <1>3 DEF Follows
  <2>2. CASE i # 0
    <3>1. i - 1 \in 0 .. Len(s) /\ i \in 1 .. Len(s) /\ i \in Nat
      BY <1>2, <2>2
    <3>2. <<i, f[i - 1]>> \in Nat \X V
      BY <3>1
    <3>3. F[<<i, f[i - 1]>>] = IF s[i] + Window > t THEN Append(f[i - 1], s[i]) ELSE f[i - 1]
      BY <3>1, <3>2 DEF F
    <3> QED BY <2>1, <2>2, <3>3
  <2> QED BY <2>1, <2>2
<1>5. f = [i \in 0 .. Len(s) |->
             IF i = 0 THEN <<>>
             ELSE IF s[i] + Window > t THEN Append(f[i - 1], s[i]) ELSE f[i - 1]]
  BY <1>3, <1>4 DEF Follows
<1> QED BY <1>5 DEF Keeps, V

\* The stamps that have left the window are dropped; in order of time they are the first.
LEMMA RecentIsEnd ==
  ASSUME NEW s \in Seq(0 .. now), now \in Nat,
         \A j \in 1 .. Len(s) : \A i \in 1 .. j : s[i] <= s[j]
  PROVE  \E m \in 0 .. Len(s) :
           /\ \A i \in 1 .. m : s[i] + Window <= now
           /\ Recent(s) \in Seq(0 .. now) /\ Len(Recent(s)) = Len(s) - m
           /\ \A i \in 1 .. Len(s) - m : Recent(s)[i] = s[m + i]
<1>1. s \in Seq(Nat) /\ Len(s) \in Nat /\ \A i \in 1 .. Len(s) : s[i] \in 0 .. now
  OBVIOUS
<1> DEFINE f == CHOOSE g : Keeps(s, now, g)
<1>2. Recent(s) = f[Len(s)]
  BY DEF Recent, Keeps
<1>3. Keeps(s, now, f)
  BY <1>1, KeptExists
<1> HIDE DEF f
<1> DEFINE IsEnd(k, m) ==
             /\ \A i \in 1 .. m : s[i] + Window <= now
             /\ f[k] \in Seq(0 .. now) /\ Len(f[k]) = k - m
             /\ \A i \in 1 .. k - m : f[k][i] = s[m + i] /\ s[m + i] + Window > now
           P == {k \in Nat : k <= Len(s) => \E m \in 0 .. k : IsEnd(k, m)}
<1>4. 0 \in P
  <2>1. f[0] = <<>>
    BY <1>1, <1>3 DEF Keeps
  <2>2. IsEnd(0, 0)
    BY <2>1
  <2>3. 0 \in 0 .. 0
    OBVIOUS
  <2> HIDE DEF IsEnd
  <2> QED BY <2>2, <2>3
<1>5. ASSUME NEW k \in Nat, k + 1 <= Len(s), NEW m \in 0 .. k, IsEnd(k, m)
      PROVE  \E n \in 0 .. k + 1 : IsEnd(k + 1, n)
  <2> HIDE DEF P
  <2>1. k <= Len(s) /\ k + 1 \in 0 .. Len(s) /\ k + 1 \in 1 .. Len(s) /\ (k + 1) - 1 = k
    BY <1>1, <1>5
  <2>2. IsEnd(k, m)
    BY <1>5
  <2>3. f[k + 1] = IF s[k + 1] + Window > now THEN Append(f[k], s[k + 1]) ELSE f[k]
    <3>1. f[k + 1] = IF k + 1 = 0 THEN <<>>
                     ELSE IF s[k + 1] + Window > now THEN Append(f[(k + 1) - 1], s[k + 1])
                     ELSE f[(k + 1) - 1]
      BY <1>3, <2>1 DEF Keeps
    <3> QED BY <2>1, <3>1
  <2>4. CASE s[k + 1] + Window > now
    <3>1. f[k + 1] = Append(f[k], s[k + 1]) /\ s[k + 1] \in 0 .. now
      BY <1>1, <2>1, <2>3, <2>4
    <3>2. /\ f[k + 1] \in Seq(0 .. now) /\ Len(f[k + 1]) = k - m + 1
          /\ f[k + 1][k - m + 1] = s[k + 1]
          /\ \A i \in 1 .. k - m : f[k + 1][i] = f[k][i]
      BY <2>2, <3>1, AppendProperties
    <3>3. ASSUME NEW i \in 1 .. (k + 1) - m
          PROVE  f[k + 1][i] = s[m + i] /\ s[m + i] + Window > now
      <4>1. CASE i = k - m + 1
        <5>1. m + i = k + 1
          BY <2>1, <2>2, <4>1
        <5> QED BY <2>4, <3>2, <4>1, <5>1
      <4>2. CASE i # k - m + 1
        <5>1. i \in 1 .. k - m
          BY <2>1, <2>2, <4>2
        <5> QED BY <2>2, <3>2, <5>1
      <4> QED BY <4>1, <4>2
    <3>4. m \in 0 .. k + 1 /\ (k + 1) - m = k - m + 1
      BY <2>1
    <3>5. IsEnd(k + 1, m)
      BY <2>2, <3>2, <3>3, <3>4
    <3> QED BY <3>4, <3>5
  <2>5. CASE ~ (s[k + 1] + Window > now)
    <3>1. f[k + 1] = f[k] /\ s[k + 1] \in Nat
      BY <1>1, <2>1, <2>3, <2>5
    <3>2. \A i \in 1 .. k + 1 : s[i] + Window <= now
      <4> TAKE i \in 1 .. k + 1
      <4>1. s[i] <= s[k + 1] /\ s[i] \in Nat
        BY <1>1, <2>1
      <4> QED BY <2>5, <3>1, <4>1, WindowIsNumber
    <3>3. m = k
      <4> SUFFICES ASSUME m # k PROVE FALSE
        OBVIOUS
      <4>1. 1 \in 1 .. k - m /\ m + 1 \in 1 .. k + 1 /\ m + 1 \in 1 .. Len(s)
        BY <2>1, <2>2
      <4>2. s[m + 1] + Window > now /\ s[m + 1] + Window <= now /\ s[m + 1] \in Nat
        BY <1>1, <2>2, <3>2, <4>1
      <4> QED BY <4>2, WindowIsNumber
    <3>4. IsEnd(k + 1, k + 1)
      <4>1. k - m = 0 /\ (k + 1) - (k + 1) = 0
        BY <2>1, <3>3
      <4>2. f[k + 1] \in Seq(0 .. now) /\ Len(f[k + 1]) = (k + 1) - (k + 1)
        BY <2>2, <3>1, <4>1
      <4>3. \A i \in 1 .. (k + 1) - (k + 1) :
              f[k + 1][i] = s[(k + 1) + i] /\ s[(k + 1) + i] + Window > now
        BY <4>1
      <4> QED BY <3>2, <4>2, <4>3, Zenon
    <3> HIDE DEF IsEnd
    <3>5. k + 1 \in 0 .. k + 1
      BY <2>1
    <3> QED BY <3>4, <3>5
  <2> QED BY <2>4, <2>5
<1>5a. ASSUME NEW k \in P PROVE k + 1 \in P
  <2> HIDE DEF IsEnd
  <2>1. k \in Nat /\ k + 1 \in Nat /\ (k + 1 <= Len(s) => k <= Len(s))
    BY <1>1
  <2>2. k + 1 <= Len(s) => \E n \in 0 .. k + 1 : IsEnd(k + 1, n)
    BY <1>5, <2>1
  <2> QED BY <2>1, <2>2
<1>6. P = Nat
  <2> HIDE DEF P
  <2>1. P \in SUBSET Nat
    BY DEF P
  <2> QED BY <1>4, <1>5a, <2>1, NumbersFrom0
<1>6a. \E m \in 0 .. Len(s) : IsEnd(Len(s), m)
  <2> HIDE DEF IsEnd
  <2>1. Len(s) \in P /\ Len(s) <= Len(s)
    BY <1>1, <1>6
  <2> QED BY <2>1
<1>7. PICK m \in 0 .. Len(s) : IsEnd(Len(s), m)
  BY <1>6a
<1> QED BY <1>2, <1>7

-----------------------------------------------------------------------------
(* The tools of a tier *)

L == Len(Tiers)
Own(i) == {t \in Tools : DeclaredTier[t] = Tiers[i]} \cup Granted[Tiers[i]]
Parents(S) == {Parent[u] : u \in S} \ {NoTier}
Has(S, tool) == DeclaredTier[tool] \in S \/ \E u \in S : tool \in Granted[u]

LEMMA TiersAre ==
  /\ L \in Nat \ {0} /\ DOMAIN Tiers = 1 .. L
  /\ \A i \in 1 .. L : Tiers[i] \in TierNames /\ Own(i) \in SUBSET Tools
  /\ \A t \in TierNames : \E i \in 1 .. L : Tiers[i] = t
  /\ \A S \in SUBSET TierNames : Parents(S) \in SUBSET TierNames
<1>1. /\ L \in Nat \ {0} /\ DOMAIN Tiers = 1 .. L
      /\ \A i \in 1 .. L : Tiers[i] \in TierNames
  BY TierAssumption DEF L
<1>2. \A t \in TierNames : \E i \in 1 .. L : Tiers[i] = t
  BY <1>1 DEF TierNames, Range
<1>3. \A i \in 1 .. L : Own(i) \in SUBSET Tools
  BY <1>1, TierAssumption DEF Own
<1>4. \A S \in SUBSET TierNames : Parents(S) \in SUBSET TierNames
  BY TierAssumption DEF Parents
<1> QED BY <1>1, <1>2, <1>3, <1>4

Climbs(t, u) ==
  u = [n \in 0 .. Len(Tiers) |->
         IF n = 0 THEN {t} ELSE u[n - 1] \cup ({Parent[v] : v \in u[n - 1]} \ {NoTier})]

\* The tiers from t up to n steps above it.
Up(t) == CHOOSE u : Climbs(t, u)

LEMMA UpIs ==
  ASSUME NEW t \in TierNames
  PROVE  /\ Up(t) \in [0 .. L -> SUBSET TierNames] /\ Up(t)[0] = {t} /\ Line(t) = Up(t)[L]
         /\ \A n \in 0 .. L - 1 : Up(t)[n + 1] = Up(t)[n] \cup Parents(Up(t)[n])
<1> DEFINE V == SUBSET TierNames
           F == [p \in Nat \X V |-> p[2] \cup Parents(p[2])]
           e == {t}
<1>1. F \in [Nat \X V -> V] /\ e \in V /\ L \in Nat
  BY TiersAre
<1>2. \A p \in Nat \X V : F[p] = p[2] \cup Parents(p[2])
  OBVIOUS
<1> HIDE DEF F, V, e
<1>3. PICK f \in [0 .. L -> V] : Follows(f, L, e, F)
  <2>1. \A n \in Nat : \E f \in [0 .. n -> V] : Follows(f, n, e, F)
    BY <1>1, RecursionExists
  <2> QED BY <1>1, <2>1
<1>4. ASSUME NEW n \in 0 .. L
      PROVE  f[n] = IF n = 0 THEN {t} ELSE f[n - 1] \cup ({Parent[v] : v \in f[n - 1]} \ {NoTier})
  <2>1. f[n] = IF n = 0 THEN e ELSE F[<<n, f[n - 1]>>]
    BY <1>3 DEF Follows
  <2>2. CASE n # 0
    <3>1. n - 1 \in 0 .. L /\ n \in Nat
      BY <1>1, <2>2
    <3>2. <<n, f[n - 1]>> \in Nat \X V
      BY <3>1
    <3>3. F[<<n, f[n - 1]>>] = f[n - 1] \cup Parents(f[n - 1])
      BY <1>2, <3>2
    <3> QED BY <2>1, <2>2, <3>3 DEF Parents
  <2> QED BY <2>1, <2>2 DEF e
<1>5. Climbs(t, f)
  <2>1. f = [n \in 0 .. L |->
              IF n = 0 THEN {t} ELSE f[n - 1] \cup ({Parent[v] : v \in f[n - 1]} \ {NoTier})]
    BY <1>4
  <2> QED BY <2>1 DEF Climbs, L
<1>6. Climbs(t, Up(t))
  BY <1>5 DEF Up
<1>7. Line(t) = Up(t)[L]
  BY DEF Line, Up, Climbs, L
<1> DEFINE u == Up(t)
<1> HIDE DEF u
<1>8. Climbs(t, u)
  BY <1>6 DEF u
<1>9. /\ u[0] = {t}
      /\ \A n \in 0 .. L - 1 : u[n + 1] = u[n] \cup Parents(u[n])
  <2>1. u[0] = {t}
    BY <1>1, <1>8 DEF Climbs, L
  <2>2. ASSUME NEW n \in 0 .. L - 1 PROVE u[n + 1] = u[n] \cup Parents(u[n])
    <3>1. n + 1 \in 0 .. L /\ n + 1 # 0 /\ (n + 1) - 1 = n
      BY <1>1
    <3>2. u[n + 1] = IF n + 1 = 0 THEN {t} ELSE u[(n + 1) - 1] \cup ({Parent[v] : v \in u[(n + 1) - 1]} \ {NoTier})
      BY <1>8, <3>1 DEF Climbs, L
    <3> QED BY <3>1, <3>2 DEF Parents
  <2> QED BY <2>1, <2>2
<1>10. u \in [0 .. L -> SUBSET TierNames]
  <2> DEFINE P == {n \in Nat : n <= L => u[n] \in SUBSET TierNames}
  <2>1. 0 \in P
    BY <1>9
  <2>2. ASSUME NEW n \in P PROVE n + 1 \in P
    <3>1. n \in Nat /\ n + 1 \in Nat /\ (n + 1 <= L => n \in 0 .. L - 1 /\ n <= L)
      BY <1>1
    <3>2. n + 1 <= L => u[n] \in SUBSET TierNames /\ u[n + 1] = u[n] \cup Parents(u[n])
      BY <1>9, <3>1
    <3> QED BY <3>1, <3>2, TiersAre
  <2>3. P \in SUBSET Nat
    OBVIOUS
  <2> HIDE DEF P
  <2>4. P = Nat
    BY <2>1, <2>2, <2>3, NumbersFrom0
  <2>5. \A n \in 0 .. L : u[n] \in SUBSET TierNames
    BY <1>1, <2>4 DEF P
  <2>6. u = [n \in 0 .. L |->
              IF n = 0 THEN {t} ELSE u[n - 1] \cup ({Parent[v] : v \in u[n - 1]} \ {NoTier})]
    BY <1>8 DEF Climbs, L
  <2>7. DOMAIN u = 0 .. L /\ u = [n \in DOMAIN u |-> u[n]]
    BY <2>6
  <2> QED BY <2>5, <2>7
<1> QED BY <1>7, <1>9, <1>10 DEF u

\* Whoever is higher up sees no less.
LEMMA UpGrows ==
  ASSUME NEW t \in TierNames, NEW m \in 0 .. L, NEW k \in m .. L
  PROVE  Up(t)[m] \subseteq Up(t)[k]
<1> DEFINE P == {n \in Nat : m <= n /\ n <= L => Up(t)[m] \subseteq Up(t)[n]}
<1>0. L \in Nat
  BY TiersAre
<1>1. 0 \in P
  <2>1. m <= 0 => m = 0
    BY <1>0
  <2> QED BY <2>1
<1>2. ASSUME NEW n \in P PROVE n + 1 \in P
  <2>1. n \in Nat /\ n + 1 \in Nat
    OBVIOUS
  <2>2. CASE m <= n /\ n + 1 <= L
    <3>1. n \in 0 .. L - 1 /\ n <= L
      BY <1>0, <2>1, <2>2
    <3>2. Up(t)[n + 1] = Up(t)[n] \cup Parents(Up(t)[n])
      BY <3>1, UpIs
    <3> QED BY <2>1, <2>2, <3>1, <3>2
  <2>3. CASE ~ (m <= n)
    <3>1. m <= n + 1 => m = n + 1
      BY <1>0, <2>1, <2>3
    <3> QED BY <2>1, <3>1
  <2>4. CASE ~ (n + 1 <= L)
    BY <2>1, <2>4
  <2> QED BY <2>2, <2>3, <2>4
<1>3. P \in SUBSET Nat
  OBVIOUS
<1> HIDE DEF P
<1>4. P = Nat
  BY <1>1, <1>2, <1>3, NumbersFrom0
<1> QED BY <1>0, <1>4 DEF P

\* What is above the parent is above the child, one step further.
LEMMA UpOfParent ==
  ASSUME NEW t \in TierNames, NEW p \in TierNames, Parent[t] = p, NEW k \in 0 .. L - 1
  PROVE  Up(p)[k] \subseteq Up(t)[k + 1]
<1> DEFINE P == {n \in Nat : n <= L - 1 => Up(p)[n] \subseteq Up(t)[n + 1]}
<1>0. L \in Nat \ {0} /\ p # NoTier
  BY TiersAre, TierAssumption
<1>1. 0 \in P
  <2>1. 0 \in 0 .. L - 1 /\ 0 + 1 = 1
    BY <1>0
  <2>2. Up(p)[0] = {p} /\ Up(t)[0] = {t} /\ Up(t)[0 + 1] = Up(t)[0] \cup Parents(Up(t)[0])
    BY <2>1, UpIs
  <2>3. p \in Up(t)[0 + 1]
    BY <1>0, <2>2 DEF Parents
  <2> QED BY <2>2, <2>3
<1>2. ASSUME NEW n \in P PROVE n + 1 \in P
  <2> SUFFICES ASSUME n + 1 <= L - 1 PROVE Up(p)[n + 1] \subseteq Up(t)[(n + 1) + 1]
    OBVIOUS
  <2>1. n \in Nat /\ n \in 0 .. L - 1 /\ n <= L - 1 /\ n + 1 \in 0 .. L - 1
    BY <1>0
  <2>2. Up(p)[n] \subseteq Up(t)[n + 1]
    BY <2>1
  <2>3. /\ Up(p)[n + 1] = Up(p)[n] \cup Parents(Up(p)[n])
        /\ Up(t)[(n + 1) + 1] = Up(t)[n + 1] \cup Parents(Up(t)[n + 1])
    BY <2>1, UpIs
  <2>4. Parents(Up(p)[n]) \subseteq Parents(Up(t)[n + 1])
    BY <2>2 DEF Parents
  <2> QED BY <2>2, <2>3, <2>4
<1>3. P \in SUBSET Nat
  OBVIOUS
<1> HIDE DEF P
<1>4. P = Nat
  BY <1>1, <1>2, <1>3, NumbersFrom0
<1> QED BY <1>0, <1>4 DEF P

Resolves(r) ==
  r = [i \in 0 .. Len(Tiers) |->
         IF i = 0 THEN <<>>
         ELSE Append(r[i - 1],
                     {t \in Tools : DeclaredTier[t] = Tiers[i]} \cup Granted[Tiers[i]]
                       \cup Inherited(r[i - 1], i))]

LEMMA InheritedFits ==
  ASSUME NEW i \in 1 .. L, NEW s \in Seq(SUBSET Tools), Len(s) = i - 1
  PROVE  Inherited(s, i) \in SUBSET Tools
<1>1. ASSUME NEW j \in 1 .. i - 1 PROVE s[j] \in SUBSET Tools
  <2>1. j \in 1 .. Len(s)
    OBVIOUS
  <2> QED BY <2>1
<1> QED BY <1>1 DEF Inherited

LEMMA ResolvesExists == \E r : Resolves(r)
<1> DEFINE V == Seq(SUBSET Tools)
           F == [p \in Nat \X V |->
                   IF p[1] \in 1 .. L /\ Len(p[2]) = p[1] - 1
                   THEN Append(p[2], Own(p[1]) \cup Inherited(p[2], p[1])) ELSE p[2]]
           e == <<>>
<1>0. L \in Nat \ {0}
  BY TiersAre
<1>1. F \in [Nat \X V -> V]
  <2> SUFFICES ASSUME NEW p \in Nat \X V PROVE F[p] \in V
    OBVIOUS
  <2>1. CASE p[1] \in 1 .. L /\ Len(p[2]) = p[1] - 1
    <3>1. Own(p[1]) \cup Inherited(p[2], p[1]) \in SUBSET Tools
      BY <2>1, TiersAre, InheritedFits
    <3>2. p[2] \in V
      OBVIOUS
    <3>3. Append(p[2], Own(p[1]) \cup Inherited(p[2], p[1])) \in V
      BY <3>1, <3>2, AppendProperties
    <3> QED BY <2>1, <3>3
  <2>2. CASE ~ (p[1] \in 1 .. L /\ Len(p[2]) = p[1] - 1)
    BY <2>2
  <2> QED BY <2>1, <2>2
<1>2. e \in V
  OBVIOUS
<1>3. \A i \in 1 .. L : \A s \in V :
        Len(s) = i - 1 => F[<<i, s>>] = Append(s, Own(i) \cup Inherited(s, i))
  <2> TAKE i \in 1 .. L
  <2> TAKE s \in V
  <2>1. <<i, s>> \in Nat \X V
    BY <1>0
  <2> QED BY <2>1
<1> HIDE DEF F, e
<1>4. PICK f \in [0 .. L -> V] : Follows(f, L, e, F)
  <2> HIDE DEF V
  <2>1. \A n \in Nat : \E f \in [0 .. n -> V] : Follows(f, n, e, F)
    BY <1>1, <1>2, RecursionExists
  <2> QED BY <1>0, <2>1
<1>5. /\ f[0] = <<>>
      /\ \A i \in 0 .. L - 1 : Len(f[i]) = i =>
           f[i + 1] = Append(f[i], Own(i + 1) \cup Inherited(f[i], i + 1))
  <2>1. f[0] = <<>>
    BY <1>0, <1>4 DEF Follows, e
  <2>2. ASSUME NEW i \in 0 .. L - 1, Len(f[i]) = i
        PROVE  f[i + 1] = Append(f[i], Own(i + 1) \cup Inherited(f[i], i + 1))
    <3>1. i \in 0 .. L /\ i + 1 \in 0 .. L /\ i + 1 \in 1 .. L /\ (i + 1) - 1 = i /\ i + 1 # 0
      BY <1>0
    <3>2. f[i + 1] = IF i + 1 = 0 THEN e ELSE F[<<i + 1, f[(i + 1) - 1]>>]
      BY <1>4, <3>1 DEF Follows
    <3>3. f[i] \in V
      BY <3>1
    <3> HIDE DEF V
    <3>4. F[<<i + 1, f[i]>>] = Append(f[i], Own(i + 1) \cup Inherited(f[i], i + 1))
      BY <1>3, <2>2, <3>1, <3>3
    <3> QED BY <3>1, <3>2, <3>4
  <2> QED BY <2>1, <2>2
<1>6. \A i \in 0 .. L : Len(f[i]) = i
  <2> DEFINE P == {i \in Nat : i <= L => Len(f[i]) = i}
  <2>1. 0 \in P
    BY <1>5
  <2>2. ASSUME NEW i \in P PROVE i + 1 \in P
    <3> SUFFICES ASSUME i + 1 <= L PROVE Len(f[i + 1]) = i + 1
      OBVIOUS
    <3>1. i \in Nat /\ i \in 0 .. L /\ i \in 0 .. L - 1 /\ i + 1 \in 1 .. L /\ (i + 1) - 1 = i
      BY <1>0
    <3>2. Len(f[i]) = i /\ f[i] \in V
      BY <3>1
    <3>3. f[i + 1] = Append(f[i], Own(i + 1) \cup Inherited(f[i], i + 1))
      BY <1>5, <3>1, <3>2
    <3>4. Own(i + 1) \cup Inherited(f[i], i + 1) \in SUBSET Tools
      BY <3>1, <3>2, TiersAre, InheritedFits
    <3> QED BY <3>2, <3>3, <3>4, AppendProperties
  <2>3. P \in SUBSET Nat
    OBVIOUS
  <2> HIDE DEF P
  <2>4. P = Nat
    BY <2>1, <2>2, <2>3, NumbersFrom0
  <2> TAKE i \in 0 .. L
  <2>5. i \in P /\ i <= L
    BY <1>0, <2>4
  <2> QED BY <2>5 DEF P
<1>7. ASSUME NEW i \in 0 .. L
      PROVE  f[i] = IF i = 0 THEN <<>>
                    ELSE Append(f[i - 1],
                           {t \in Tools : DeclaredTier[t] = Tiers[i]} \cup Granted[Tiers[i]]
                             \cup Inherited(f[i - 1], i))
  <2>1. CASE i # 0
    <3>1. i - 1 \in 0 .. L - 1 /\ i - 1 \in 0 .. L /\ (i - 1) + 1 = i
      BY <1>0, <2>1
    <3>2. Len(f[i - 1]) = i - 1
      BY <1>6, <3>1
    <3>3. f[(i - 1) + 1] = Append(f[i - 1], Own((i - 1) + 1) \cup Inherited(f[i - 1], (i - 1) + 1))
      BY <1>5, <3>1, <3>2
    <3> QED BY <2>1, <3>1, <3>3 DEF Own
  <2> QED BY <1>5, <2>1
<1>8. f = [i \in 0 .. L |->
             IF i = 0 THEN <<>>
             ELSE Append(f[i - 1],
                         {t \in Tools : DeclaredTier[t] = Tiers[i]} \cup Granted[Tiers[i]]
                           \cup Inherited(f[i - 1], i))]
  BY <1>7
<1>9. Resolves(f)
  BY <1>8 DEF Resolves, L
<1> QED BY <1>9

\* A tier is resolved to tools that it or a tier it inherits from declares or is granted.
LEMMA ResolvedIsLines ==
  ASSUME NEW t \in TierNames
  PROVE  Resolved[t] \in SUBSET Tools /\ \A tool \in Resolved[t] : Has(Line(t), tool)
<1> DEFINE r == CHOOSE g : Resolves(g)
           Sound(i) ==
             /\ r[i] \in Seq(SUBSET Tools) /\ Len(r[i]) = i
             /\ \A j \in 1 .. i : \A tool \in r[i][j] : Has(Up(Tiers[j])[j - 1], tool)
<1>0. L \in Nat \ {0}
  BY TiersAre
<1>1. Resolves(r)
  BY ResolvesExists
<1>2. Resolved[t] = r[L][CHOOSE i \in DOMAIN Tiers : Tiers[i] = t]
  BY DEF Resolved, Resolves, L
<1> HIDE DEF r
<1>3. /\ r[0] = <<>>
      /\ \A i \in 0 .. L - 1 : r[i + 1] = Append(r[i], Own(i + 1) \cup Inherited(r[i], i + 1))
  <2>1. r[0] = <<>>
    BY <1>0, <1>1 DEF Resolves, L
  <2>2. ASSUME NEW i \in 0 .. L - 1
        PROVE  r[i + 1] = Append(r[i], Own(i + 1) \cup Inherited(r[i], i + 1))
    <3>1. i + 1 \in 0 .. L /\ i + 1 # 0 /\ (i + 1) - 1 = i
      BY <1>0
    <3>2. r[i + 1] = IF i + 1 = 0 THEN <<>>
                     ELSE Append(r[(i + 1) - 1],
                           {u \in Tools : DeclaredTier[u] = Tiers[i + 1]} \cup Granted[Tiers[i + 1]]
                             \cup Inherited(r[(i + 1) - 1], i + 1))
      BY <1>1, <3>1 DEF Resolves, L
    <3> QED BY <3>1, <3>2 DEF Own
  <2> QED BY <2>1, <2>2
<1>4. ASSUME NEW i \in 0 .. L - 1, Sound(i) PROVE Sound(i + 1)
  <2> DEFINE x == Own(i + 1) \cup Inherited(r[i], i + 1)
  <2>1. /\ i + 1 \in 1 .. L /\ (i + 1) - 1 = i /\ i \in 0 .. L /\ 0 \in 0 .. L /\ i \in Nat
        /\ r[i] \in Seq(SUBSET Tools) /\ Len(r[i]) = i
    BY <1>0, <1>4
  <2>2. x \in SUBSET Tools
    BY <2>1, TiersAre, InheritedFits
  <2>3. /\ r[i + 1] \in Seq(SUBSET Tools) /\ Len(r[i + 1]) = i + 1 /\ r[i + 1][i + 1] = x
        /\ \A j \in 1 .. i : r[i + 1][j] = r[i][j]
    <3>1. r[i + 1] = Append(r[i], x)
      BY <1>3
    <3> HIDE DEF x
    <3> QED BY <2>1, <2>2, <3>1, AppendProperties
  <2> DEFINE c == Tiers[i + 1]
  <2>4. c \in TierNames /\ c \in Up(c)[i]
    <3>1. c \in TierNames
      BY <2>1, TiersAre
    <3>2. Up(c)[0] = {c} /\ Up(c)[0] \subseteq Up(c)[i]
      BY <1>0, <2>1, <3>1, UpIs, UpGrows
    <3> QED BY <3>1, <3>2
  <2>5. ASSUME NEW tool \in x PROVE Has(Up(c)[i], tool)
    <3>1. CASE tool \in Own(i + 1)
      BY <2>4, <3>1 DEF Own, Has
    <3>2. CASE tool \in Inherited(r[i], i + 1)
      <4>1. PICK k \in 1 .. i : Parent[c] = Tiers[k] /\ tool \in r[i][k]
        BY <2>1, <3>2 DEF Inherited
      <4>2. /\ k \in 1 .. L /\ k - 1 \in 0 .. L - 1 /\ (k - 1) + 1 = k
            /\ k \in 0 .. L /\ i \in k .. L
        BY <1>0, <2>1
      <4>3. Tiers[k] \in TierNames
        BY <4>2, TiersAre
      <4>4. Has(Up(Tiers[k])[k - 1], tool)
        BY <1>4, <4>1
      <4>5. Up(Tiers[k])[k - 1] \subseteq Up(c)[(k - 1) + 1]
        BY <2>4, <4>1, <4>2, <4>3, UpOfParent
      <4>6. Up(c)[k] \subseteq Up(c)[i]
        BY <2>4, <4>2, UpGrows
      <4>7. Up(Tiers[k])[k - 1] \subseteq Up(c)[i]
        BY <4>2, <4>5, <4>6
      <4> QED BY <4>4, <4>7 DEF Has
    <3> QED BY <3>1, <3>2
  <2>6. ASSUME NEW j \in 1 .. i + 1, NEW tool \in r[i + 1][j]
        PROVE  Has(Up(Tiers[j])[j - 1], tool)
    <3>1. CASE j = i + 1
      BY <2>1, <2>3, <2>5, <3>1
    <3>2. CASE j # i + 1
      <4>1. j \in 1 .. i
        BY <2>1, <3>2
      <4> QED BY <1>4, <2>3, <4>1
    <3> QED BY <3>1, <3>2
  <2> QED BY <2>3, <2>6
<1>5. Sound(L)
  <2> DEFINE P == {i \in Nat : i <= L => Sound(i)}
  <2>1. 0 \in P
    <3>1. <<>> \in Seq(SUBSET Tools) /\ Len(<<>>) = 0 /\ 1 .. 0 = {}
      OBVIOUS
    <3>2. Sound(0)
      BY <1>3, <3>1
    <3> HIDE DEF Sound
    <3> QED BY <3>2
  <2>2. ASSUME NEW i \in P PROVE i + 1 \in P
    <3> HIDE DEF Sound
    <3>1. i \in Nat /\ i + 1 \in Nat /\ (i + 1 <= L => i \in 0 .. L - 1 /\ i <= L)
      BY <1>0
    <3> QED BY <1>4, <3>1
  <2>3. P \in SUBSET Nat
    OBVIOUS
  <2> HIDE DEF P
  <2>4. P = Nat
    BY <2>1, <2>2, <2>3, NumbersFrom0
  <2> QED BY <1>0, <2>4 DEF P
<1> DEFINE j == CHOOSE i \in DOMAIN Tiers : Tiers[i] = t
<1>6. j \in 1 .. L /\ Tiers[j] = t
  BY TiersAre
<1> HIDE DEF j
<1>7. Resolved[t] = r[L][j]
  BY <1>2 DEF j
<1>8. j - 1 \in 0 .. L /\ L \in j - 1 .. L
  BY <1>0, <1>6
<1>9. Up(t)[j - 1] \subseteq Line(t)
  BY <1>8, UpGrows, UpIs
<1>10. Resolved[t] \in SUBSET Tools
  BY <1>5, <1>6, <1>7
<1>11. ASSUME NEW tool \in Resolved[t] PROVE Has(Line(t), tool)
  <2>1. Has(Up(Tiers[j])[j - 1], tool)
    BY <1>5, <1>6, <1>7
  <2> QED BY <1>6, <1>9, <2>1 DEF Has
<1> QED BY <1>10, <1>11

-----------------------------------------------------------------------------
(* Types *)

\* What is kept of stamps are stamps.
LEMMA RecentFits ==
  ASSUME NEW s \in Seq(0 .. now), now \in Nat
  PROVE  Recent(s) \in Seq(0 .. now)
<1> DEFINE f == CHOOSE g : Keeps(s, now, g)
<1>1. s \in Seq(Nat) /\ Len(s) \in Nat /\ \A i \in 1 .. Len(s) : s[i] \in 0 .. now
  OBVIOUS
<1>2. Recent(s) = f[Len(s)]
  BY DEF Recent, Keeps
<1>3. Keeps(s, now, f)
  BY <1>1, KeptExists
<1> HIDE DEF f
<1> DEFINE P == {k \in Nat : k <= Len(s) => f[k] \in Seq(0 .. now)}
<1>4. 0 \in P
  BY <1>1, <1>3 DEF Keeps
<1>5. ASSUME NEW k \in P PROVE k + 1 \in P
  <2>1. k \in Nat /\ k + 1 \in Nat
    OBVIOUS
  <2>2. ASSUME k + 1 <= Len(s) PROVE f[k + 1] \in Seq(0 .. now)
    <3>1. k + 1 \in 0 .. Len(s) /\ (k + 1) - 1 = k /\ f[k] \in Seq(0 .. now) /\ s[k + 1] \in 0 .. now
      BY <1>1, <2>1, <2>2
    <3>2. f[k + 1] = IF k + 1 = 0 THEN <<>>
                     ELSE IF s[k + 1] + Window > now THEN Append(f[(k + 1) - 1], s[k + 1])
                     ELSE f[(k + 1) - 1]
      BY <1>3, <3>1 DEF Keeps
    <3>3. f[k + 1] \in {Append(f[k], s[k + 1]), f[k]}
      BY <2>1, <3>1, <3>2
    <3>4. Append(f[k], s[k + 1]) \in Seq(0 .. now)
      BY <3>1, AppendProperties
    <3> QED BY <3>1, <3>3, <3>4
  <2> QED BY <2>1, <2>2
<1>6. P \in SUBSET Nat
  OBVIOUS
<1> HIDE DEF P
<1>7. P = Nat
  BY <1>4, <1>5, <1>6, NumbersFrom0
<1> QED BY <1>1, <1>2, <1>7 DEF P

LEMMA LeastNumber == ASSUME NEW S \in SUBSET Nat, S # {} PROVE \E x \in S : \A y \in S : x <= y
<1>1. \E x \in S : \A y \in S : ~ (<<y, x>> \in OpToRel(<, Nat))
  BY NatLessThanWellFounded, WFMin
<1>2. ASSUME NEW x \in Nat, NEW y \in Nat, y < x PROVE <<y, x>> \in OpToRel(<, Nat)
  <2>1. <<y, x>> \in {ss \in Nat \X Nat : ss[1] < ss[2]}
    BY <1>2
  <2> QED BY <2>1 DEF OpToRel
<1>3. \E x \in S : \A y \in S : ~ (y < x)
  BY <1>1, <1>2, Zenon
<1> QED BY <1>3

\* Truncation leaves an end of the conversation.
LEMMA TruncatedIsEnd ==
  ASSUME NEW c \in Seq(Messages), NEW b
  PROVE  /\ Truncated(c, b) \in Seq(Messages)
         /\ \E m \in 0 .. Len(c) :
              /\ Len(Truncated(c, b)) = Len(c) - m
              /\ \A i \in 1 .. Len(c) - m : Truncated(c, b)[i] = c[m + i]
<1> DEFINE fits == {k \in 1 .. Len(c) + 1 : k = Len(c) + 1 \/ SizeOf(SubSeq(c, k, Len(c))) <= b}
           n == CHOOSE k \in fits : \A x \in fits : k <= x
<1>1. Len(c) \in Nat /\ Len(c) + 1 \in fits /\ fits \in SUBSET Nat
  OBVIOUS
<1>2. n \in fits
  <2> HIDE DEF fits
  <2>1. \E k \in fits : \A x \in fits : k <= x
    BY <1>1, LeastNumber
  <2> QED BY <2>1
<1>3. n \in 1 .. Len(c) + 1
  BY <1>2
<1>4. Truncated(c, b) = SubSeq(c, n, Len(c))
  BY DEF Truncated
<1> HIDE DEF n
<1>5. /\ SubSeq(c, n, Len(c)) \in Seq(Messages)
      /\ Len(SubSeq(c, n, Len(c))) = Len(c) - (n - 1)
      /\ \A i \in 1 .. Len(c) - (n - 1) : SubSeq(c, n, Len(c))[i] = c[(n - 1) + i]
  BY <1>1, <1>3
<1>6. n - 1 \in 0 .. Len(c)
  BY <1>1, <1>3
<1> QED BY <1>4, <1>5, <1>6

LEMMA MessageFits ==
  ASSUME NEW role \in {"user", "assistant", "tool"}, NEW ids \in SUBSET (Nat \X Nat), NEW size \in Sizes
  PROVE  Message(role, ids, size) \in Messages
BY DEF Message, Messages

LEMMA AgentStarts == AgentInit => AgentTypeOK
<1> SUFFICES ASSUME AgentInit PROVE AgentTypeOK
  OBVIOUS
<1>1. Tiers[1] \in TierNames
  BY TiersAre
<1> QED BY <1>1, AgentAssumption DEF AgentInit, AgentTypeOK

\* The result of a call: one message more, one call less.
LEMMA NewResultFits ==
  ASSUME AgentTypeOK, NEW size \in Sizes, pending # <<>>
  PROVE  /\ Append(conversation, Message("tool", {Head(pending)}, size)) \in Seq(Messages)
         /\ Tail(pending) \in Seq(Nat \X Nat)
<1>1. pending \in Seq(Nat \X Nat) /\ conversation \in Seq(Messages)
  BY DEF AgentTypeOK
<1>2. Head(pending) \in Nat \X Nat /\ Tail(pending) \in Seq(Nat \X Nat)
  BY <1>1, HeadTailProperties
<1>3. {Head(pending)} \in SUBSET (Nat \X Nat)
  BY <1>2
<1>4. Message("tool", {Head(pending)}, size) \in Messages
  BY <1>3, MessageFits
<1> QED BY <1>1, <1>2, <1>4, AppendProperties

\* The calls of an answer.
LEMMA CalledFits ==
  ASSUME AgentTypeOK, NEW n \in 1 .. MaxCalls, NEW size \in Sizes, Called(n, size)
  PROVE  /\ pending' \in Seq(Nat \X Nat) /\ Len(pending') = n
         /\ \A i \in 1 .. n : pending'[i] = <<iteration, i>>
         /\ conversation' = Append(conversation, Message("assistant", CallsOf(iteration, n), size))
         /\ Message("assistant", CallsOf(iteration, n), size) \in Messages
         /\ doing' = "calling" /\ UNCHANGED <<iteration, result>>
<1> DEFINE ids == [i \in 1 .. n |-> <<iteration, i>>]
<1>1. iteration \in Nat /\ n \in Nat
  BY AgentAssumption DEF AgentTypeOK
<1>2. ids \in Seq(Nat \X Nat) /\ Len(ids) = n
  <2>1. ids \in [1 .. n -> Nat \X Nat]
    BY <1>1
  <2> HIDE DEF ids
  <2> QED BY <1>1, <2>1
<1>3. Range(ids) = CallsOf(iteration, n)
  BY DEF Range, CallsOf
<1>4. CallsOf(iteration, n) \in SUBSET (Nat \X Nat)
  BY <1>1 DEF CallsOf
<1>5. Message("assistant", CallsOf(iteration, n), size) \in Messages
  BY <1>4, MessageFits
<1>6. pending' = ids /\ conversation' = Append(conversation, Message("assistant", Range(ids), size))
  BY DEF Called
<1> QED BY <1>2, <1>3, <1>5, <1>6 DEF Called

\* How a request to the chain changes the turn.
LEMMA AskTypes == ASSUME AgentTypeOK, Ask PROVE AgentTypeOK'
<1>1. UNCHANGED <<tier, turns, limiterVars, now, executed>> /\ iteration < MaxIterations
  BY DEF Ask, MayAsk
<1> DEFINE TurnFits == /\ conversation' \in Seq(Messages) /\ pending' \in Seq(Nat \X Nat)
                       /\ doing' \in {"idle", "asking", "waiting", "calling"}
                       /\ iteration' \in 0 .. MaxIterations
                       /\ result' \in {"none", "answer", "error", "transient", "canned"}
<1>2. SUFFICES TurnFits
  BY <1>1 DEF AgentTypeOK, limiterVars
<1>3. /\ conversation \in Seq(Messages) /\ pending \in Seq(Nat \X Nat)
      /\ doing \in {"idle", "asking", "waiting", "calling"}
      /\ iteration \in 0 .. MaxIterations
      /\ result \in {"none", "answer", "error", "transient", "canned"}
  BY DEF AgentTypeOK
<1>4. PICK outcome : \/ \E size \in Sizes : Answered(size) \/ \E n \in 1 .. MaxCalls : Called(n, size)
                     \/ Overflowed \/ Limited \/ Failed
  BY DEF Ask
<1>5. ASSUME NEW size \in Sizes, Answered(size) PROVE TurnFits
  <2>1. Message("assistant", {}, size) \in Messages
    BY MessageFits
  <2>2. conversation' \in Seq(Messages)
    BY <1>3, <1>5, <2>1, AppendProperties DEF Answered
  <2> QED BY <1>3, <1>5, <2>2 DEF Answered, End
<1>6. ASSUME NEW size \in Sizes, NEW n \in 1 .. MaxCalls, Called(n, size) PROVE TurnFits
  <2>1. conversation' \in Seq(Messages)
    <3> DEFINE m == Message("assistant", CallsOf(iteration, n), size)
    <3>1. conversation' = Append(conversation, m) /\ m \in Messages
      BY <1>6, CalledFits
    <3> HIDE DEF m
    <3> QED BY <1>3, <3>1, AppendProperties
  <2>2. pending' \in Seq(Nat \X Nat) /\ doing' = "calling" /\ UNCHANGED <<iteration, result>>
    BY <1>6, CalledFits
  <2> QED BY <1>3, <2>1, <2>2
<1>7. CASE Overflowed
  <2>1. conversation' \in Seq(Messages)
    BY <1>3, <1>7, TruncatedIsEnd DEF Overflowed
  <2>2. iteration' \in 0 .. MaxIterations
    BY <1>1, <1>3, <1>7, AgentAssumption DEF Overflowed
  <2> QED BY <1>3, <1>7, <2>1, <2>2 DEF Overflowed
<1>8. CASE Limited
  BY <1>3, <1>8 DEF Limited
<1>9. CASE Failed
  BY <1>3, <1>9 DEF Failed, End
<1> QED BY <1>4, <1>5, <1>6, <1>7, <1>8, <1>9

Executions == [tool : Tools, value : UNION {Arguments[t] : t \in Tools}, tier : TierNames, at : 0 .. now]

\* How the turn of a new message begins.
LEMMA TakeTypes ==
  ASSUME AgentTypeOK, NEW t \in TierNames, NEW h \in PastTurns, NEW size \in Sizes, TakeTurn(t, h, size)
  PROVE  AgentTypeOK'
<1>1. h \in Seq(Messages)
  <2>1. CASE h = <<>>
    BY <2>1
  <2>2. ASSUME NEW m \in Sizes, NEW n \in Sizes,
               h = <<Message("user", {}, m), Message("assistant", {}, n)>>
        PROVE  h \in Seq(Messages)
    <3>1. Message("user", {}, m) \in Messages /\ Message("assistant", {}, n) \in Messages
      BY MessageFits
    <3> QED BY <2>2, <3>1
  <2> QED BY <2>1, <2>2 DEF PastTurns
<1>2. conversation' \in Seq(Messages)
  <2> DEFINE m == Message("user", {}, size)
  <2>1. m \in Messages
    BY MessageFits
  <2>2. conversation' = Truncated(Append(h, m), Budget)
    BY DEF TakeTurn
  <2> HIDE DEF m
  <2>3. Append(h, m) \in Seq(Messages)
    BY <1>1, <2>1, AppendProperties
  <2> QED BY <2>2, <2>3, TruncatedIsEnd
<1>3. requests' \in Seq(0 .. now)
  <2>1. now \in Nat /\ now \in 0 .. now /\ requests \in Seq(0 .. now)
    BY DEF AgentTypeOK
  <2>2. Recent(requests) \in Seq(0 .. now)
    BY <2>1, RecentFits
  <2>3. requests' = Append(Recent(requests), now)
    BY DEF TakeTurn
  <2> QED BY <2>1, <2>2, <2>3, AppendProperties
<1>4. /\ UNCHANGED <<toolCalls, now, executed>>
      /\ turns \in 0 .. MaxTurns /\ turns < MaxTurns /\ turns' = turns + 1
      /\ doing' = "asking" /\ tier' = t /\ iteration' = 0 /\ result' = "none" /\ pending' = <<>>
  BY DEF TakeTurn, AgentTypeOK
<1>5. turns' \in 0 .. MaxTurns /\ iteration' \in 0 .. MaxIterations /\ pending' \in Seq(Nat \X Nat)
  BY <1>4, BoundsAreNumbers
<1> QED BY <1>2, <1>3, <1>4, <1>5 DEF AgentTypeOK

\* What a call leaves behind, however it is settled.
LEMMA ResultedTypes ==
  ASSUME AgentTypeOK, NEW size \in Sizes, doing = "calling", pending # <<>>, Resulted(size),
         toolCalls' \in Seq(0 .. now), executed' \in Seq(Executions)
  PROVE  AgentTypeOK'
<1>1. conversation' \in Seq(Messages) /\ pending' \in Seq(Nat \X Nat)
  BY NewResultFits DEF Resulted
<1>2. UNCHANGED <<doing, tier, iteration, result, turns, requests, now>>
  BY DEF Resulted
<1> QED BY <1>1, <1>2 DEF AgentTypeOK, Executions

LEMMA CallTypes ==
  ASSUME AgentTypeOK, NEW tool \in Tools, NEW value \in Arguments[tool], NEW size \in Sizes,
         CallTool(tool, value, size)
  PROVE  AgentTypeOK'
<1>1. /\ now \in Nat /\ now \in 0 .. now /\ toolCalls \in Seq(0 .. now) /\ tier \in TierNames
      /\ executed \in Seq(Executions) /\ doing = "calling" /\ pending # <<>> /\ Resulted(size)
  BY DEF AgentTypeOK, Executions, CallTool
<1>2. toolCalls' \in Seq(0 .. now)
  <2>1. Recent(toolCalls) \in Seq(0 .. now)
    BY <1>1, RecentFits
  <2>2. toolCalls' = Append(Recent(toolCalls), now)
    BY DEF CallTool
  <2> QED BY <1>1, <2>1, <2>2, AppendProperties
<1>3. executed' \in Seq(Executions)
  <2> DEFINE e == [tool |-> tool, value |-> value, tier |-> tier, at |-> now]
  <2>1. e \in Executions
    BY <1>1 DEF Executions
  <2>2. executed' = Append(executed, e)
    BY DEF CallTool
  <2> HIDE DEF e
  <2> QED BY <1>1, <2>1, <2>2, AppendProperties
<1> QED BY <1>1, <1>2, <1>3, ResultedTypes

LEMMA AgentTypeKeeps == AgentIInv /\ [AgentNext]_agentVars => AgentTypeOK'
<1> SUFFICES ASSUME AgentIInv, [AgentNext]_agentVars PROVE AgentTypeOK'
  OBVIOUS
<1> USE DEF limiterVars
<1>0. /\ AgentTypeOK
      /\ now \in Nat /\ now \in 0 .. now /\ requests \in Seq(0 .. now) /\ toolCalls \in Seq(0 .. now)
      /\ executed \in Seq(Executions)
      /\ Recent(requests) \in Seq(0 .. now) /\ Recent(toolCalls) \in Seq(0 .. now)
  BY RecentFits DEF AgentIInv, AgentTypeOK, Executions
<1>1. CASE Ask
  BY <1>0, <1>1, AskTypes
<1>2. CASE Waited \/ NextIteration
  <2>1. iteration < MaxIterations /\ iteration' = iteration + 1 /\ doing' = "asking"
    BY <1>2 DEF AgentIInv, Waited, NextIteration
  <2>2. iteration \in 0 .. MaxIterations
    BY <1>0 DEF AgentTypeOK
  <2>2a. iteration' \in 0 .. MaxIterations
    BY <2>1, <2>2, BoundsAreNumbers
  <2>3. UNCHANGED <<tier, conversation, pending, result, turns, limiterVars, now, executed>>
    BY <1>2 DEF Waited, NextIteration
  <2> QED BY <1>0, <2>1, <2>2a, <2>3 DEF AgentTypeOK
<1>3. CASE TooMany \/ CutOff \/ RunRaises
  BY <1>0, <1>3 DEF TooMany, CutOff, RunRaises, End, AgentTypeOK
<1>4. ASSUME NEW size \in Sizes, TurnAway(size) PROVE AgentTypeOK'
  BY <1>0, <1>4, ResultedTypes DEF TurnAway
<1>5. ASSUME NEW tool \in Tools, NEW value \in Arguments[tool], NEW size \in Sizes,
             Throttle(tool, value, size)
      PROVE  AgentTypeOK'
  BY <1>0, <1>5, ResultedTypes DEF Throttle
<1>6. ASSUME NEW tool \in Tools, NEW value \in Arguments[tool], NEW size \in Sizes,
             CallTool(tool, value, size)
      PROVE  AgentTypeOK'
  BY <1>0, <1>6, CallTypes
<1>7. CASE ForgetIdle
  <2>1. requests' \in Seq(0 .. now) /\ toolCalls' \in Seq(0 .. now)
    BY <1>7 DEF ForgetIdle
  <2>2. UNCHANGED <<runVars, now, executed>>
    BY <1>7 DEF ForgetIdle
  <2> QED BY <1>0, <2>1, <2>2 DEF AgentTypeOK, runVars
<1>8. CASE Tick
  <2>1. now' \in 0 .. MaxNow /\ 0 .. now \subseteq 0 .. now'
    BY <1>0, <1>8, BoundsAreNumbers DEF Tick
  <2>2. requests \in Seq(0 .. now') /\ toolCalls \in Seq(0 .. now')
    BY <1>0, <2>1
  <2>3. executed \in Seq([tool : Tools, value : UNION {Arguments[t] : t \in Tools},
                          tier : TierNames, at : 0 .. now'])
    <3> DEFINE E == [tool : Tools, value : UNION {Arguments[t] : t \in Tools},
                     tier : TierNames, at : 0 .. now']
    <3>1. Executions \subseteq E
      BY <2>1 DEF Executions
    <3> HIDE DEF E
    <3>2. executed \in Seq(E)
      BY <1>0, <3>1
    <3> QED BY <3>2 DEF E
  <2>4. UNCHANGED <<doing, tier, iteration, conversation, pending, result, turns,
                    requests, toolCalls, executed>>
    BY <1>8 DEF Tick, runVars
  <2> QED BY <1>0, <2>1, <2>2, <2>3, <2>4 DEF AgentTypeOK
<1>9. ASSUME NEW t \in TierNames, TurnDown(t) PROVE AgentTypeOK'
  <2>1. turns' \in 0 .. MaxTurns
    <3>1. turns \in 0 .. MaxTurns /\ turns < MaxTurns /\ turns' = turns + 1
      BY <1>0, <1>9 DEF TurnDown, AgentTypeOK
    <3> QED BY <3>1, BoundsAreNumbers
  <2>1a. requests' \in Seq(0 .. now)
    BY <1>0, <1>9 DEF TurnDown
  <2>2. UNCHANGED <<doing, tier, iteration, conversation, pending, result, toolCalls, now, executed>>
    BY <1>9 DEF TurnDown
  <2> QED BY <1>0, <2>1, <2>1a, <2>2 DEF AgentTypeOK
<1>10. ASSUME NEW t \in TierNames, NEW h \in PastTurns, NEW size \in Sizes, TakeTurn(t, h, size)
       PROVE  AgentTypeOK'
  BY <1>0, <1>10, TakeTypes
<1>11. CASE UNCHANGED agentVars
  BY <1>0, <1>11 DEF AgentTypeOK, agentVars, runVars
<1> QED BY <1>1, <1>2, <1>3, <1>4, <1>5, <1>6, <1>7, <1>8, <1>9, <1>10, <1>11
        DEF AgentNext, AgentStep

LEMMA WaitsKeep ==
  AgentIInv /\ [AgentNext]_agentVars => (doing \in {"waiting", "calling"} => iteration < MaxIterations)'
<1> SUFFICES ASSUME AgentIInv, [AgentNext]_agentVars,
                    doing' \in {"waiting", "calling"}
             PROVE  iteration' < MaxIterations
  OBVIOUS
<1>1. CASE Ask
  <2>1. iteration < MaxIterations /\ doing = "asking"
    BY <1>1 DEF Ask, MayAsk
  <2>2. PICK outcome : \/ \E size \in Sizes : Answered(size) \/ \E n \in 1 .. MaxCalls : Called(n, size)
                       \/ Overflowed \/ Limited \/ Failed
    BY <1>1 DEF Ask
  <2> QED BY <2>1, <2>2 DEF Answered, Called, Overflowed, Limited, Failed, End
<1>2. CASE Waited \/ NextIteration \/ TooMany \/ CutOff \/ RunRaises
  BY <1>2 DEF Waited, NextIteration, TooMany, CutOff, RunRaises, End
<1>3. CASE \E size \in Sizes : TurnAway(size)
  BY <1>3 DEF TurnAway, Resulted, AgentIInv
<1>4. CASE \E tool \in Tools : \E value \in Arguments[tool], size \in Sizes :
             Throttle(tool, value, size) \/ CallTool(tool, value, size)
  BY <1>4 DEF Throttle, CallTool, Resulted, AgentIInv
<1>5. CASE ForgetIdle \/ Tick \/ UNCHANGED agentVars
  BY <1>5 DEF ForgetIdle, Tick, agentVars, runVars, AgentIInv
<1>6. CASE \E t \in TierNames : TurnDown(t) \/ \E h \in PastTurns, size \in Sizes : TakeTurn(t, h, size)
  BY <1>6 DEF TurnDown, TakeTurn, AgentIInv
<1> QED BY <1>1, <1>2, <1>3, <1>4, <1>5, <1>6 DEF AgentNext, AgentStep

\* Every variable has its type in every state; what keeps the iterations in bounds is
\* that only a request made in time leads to a wait or to calls.
THEOREM AgentTypeCorrect == AgentSpec => []AgentTypeOK
<1>1. AgentInit => AgentIInv
  <2> SUFFICES ASSUME AgentInit PROVE AgentIInv
    OBVIOUS
  <2>1. doing = "idle"
    BY DEF AgentInit
  <2> QED BY <2>1, AgentStarts DEF AgentIInv
<1>2. AgentIInv /\ [AgentNext]_agentVars => AgentIInv'
  BY AgentTypeKeeps, WaitsKeep DEF AgentIInv
<1>3. AgentIInv => AgentTypeOK
  BY DEF AgentIInv
<1> QED BY <1>1, <1>2, <1>3, PTL DEF AgentSpec
-----------------------------------------------------------------------------
(* Every call is cleared *)

LEMMA CallsHaveTypes ==
  ASSUME AgentTypeOK
  PROVE  /\ now \in Nat /\ toolCalls \in Seq(0 .. now) /\ executed \in Seq(Executions)
         /\ Len(toolCalls) \in Nat /\ Len(executed) \in Nat
         /\ \A i \in 1 .. Len(executed) : executed[i] \in Executions /\ executed[i].at \in 0 .. now
         /\ tier \in TierNames
<1>1. executed \in Seq(Executions) /\ now \in Nat /\ toolCalls \in Seq(0 .. now) /\ tier \in TierNames
  BY DEF AgentTypeOK, Executions
<1>2. /\ Len(toolCalls) \in Nat /\ Len(executed) \in Nat
      /\ \A i \in 1 .. Len(executed) : executed[i] \in Executions
  BY <1>1
<1>3. \A e \in Executions : e.at \in 0 .. now
  BY DEF Executions
<1> QED BY <1>1, <1>2, <1>3

\* Dropping stamps that have left the window loses nothing.
LEMMA RecentRemembers ==
  ASSUME AgentTypeOK, LimiterKnows
  PROVE  Remembers(Recent(toolCalls), executed, now)
<1> DEFINE n == Len(executed)
           k == Len(toolCalls)
           R == Recent(toolCalls)
<1>1. /\ now \in Nat /\ toolCalls \in Seq(0 .. now) /\ n \in Nat /\ k \in Nat /\ k <= n
      /\ \A i \in 1 .. n : executed[i].at \in 0 .. now
  BY CallsHaveTypes DEF LimiterKnows, Remembers
<1>2. /\ \A i \in 1 .. k : toolCalls[i] = executed[(n - k) + i].at
      /\ \A i \in 1 .. n - k : executed[i].at + Window <= now
  BY DEF LimiterKnows, Remembers
<1>3. ASSUME NEW j \in 1 .. k, NEW i \in 1 .. j PROVE toolCalls[i] <= toolCalls[j]
  <2>1. (n - k) + j \in 1 .. n /\ (n - k) + i \in 1 .. (n - k) + j /\ i \in 1 .. k
    BY <1>1
  <2>2. executed[(n - k) + i].at <= executed[(n - k) + j].at
    BY <2>1 DEF LimiterKnows, InOrder
  <2> QED BY <1>2, <2>1, <2>2
<1>4. PICK m \in 0 .. k :
        /\ \A i \in 1 .. m : toolCalls[i] + Window <= now
        /\ R \in Seq(0 .. now) /\ Len(R) = k - m
        /\ \A i \in 1 .. k - m : R[i] = toolCalls[m + i]
  BY <1>1, <1>3, RecentIsEnd
<1> HIDE DEF R
<1>5. Len(R) <= n /\ n - Len(R) = (n - k) + m
  BY <1>1, <1>4
<1>6. ASSUME NEW i \in 1 .. Len(R) PROVE R[i] = executed[(n - Len(R)) + i].at
  <2>1. i \in 1 .. k - m /\ m + i \in 1 .. k /\ (n - k) + (m + i) = (n - Len(R)) + i
    BY <1>1, <1>4, <1>5
  <2> QED BY <1>2, <1>4, <2>1
<1>7. ASSUME NEW i \in 1 .. n - Len(R) PROVE executed[i].at + Window <= now
  <2>1. CASE i <= n - k
    BY <1>1, <1>2, <2>1
  <2>2. CASE i > n - k
    <3>1. i - (n - k) \in 1 .. m /\ i - (n - k) \in 1 .. k /\ (n - k) + (i - (n - k)) = i
      BY <1>1, <1>4, <1>5, <2>2
    <3>2. toolCalls[i - (n - k)] + Window <= now
      BY <1>4, <3>1
    <3>3. toolCalls[i - (n - k)] = executed[(n - k) + (i - (n - k))].at
      BY <1>2, <3>1
    <3> QED BY <3>1, <3>2, <3>3
  <2> QED BY <1>1, <2>1, <2>2
<1> QED BY <1>5, <1>6, <1>7 DEF R, Remembers

\* A call is run now: it is the latest, and so is its stamp.
LEMMA CallIsRemembered ==
  ASSUME AgentTypeOK, InOrder(executed), NEW e \in Executions, e.at = now,
         NEW R \in Seq(0 .. now), Remembers(R, executed, now)
  PROVE  Remembers(Append(R, now), Append(executed, e), now) /\ InOrder(Append(executed, e))
<1> DEFINE n == Len(executed)
           c == Append(executed, e)
           S == Append(R, now)
<1>1. /\ now \in Nat /\ executed \in Seq(Executions) /\ n \in Nat /\ now \in 0 .. now
      /\ \A i \in 1 .. n : executed[i].at \in 0 .. now
  BY CallsHaveTypes
<1>2. /\ Len(c) = n + 1 /\ c[n + 1] = e /\ \A i \in 1 .. n : c[i] = executed[i]
  BY <1>1, AppendProperties
<1>3. /\ Len(R) \in Nat /\ Len(S) = Len(R) + 1 /\ S[Len(R) + 1] = now
      /\ \A i \in 1 .. Len(R) : S[i] = R[i]
  BY <1>1, AppendProperties
<1>4. /\ Len(R) <= n
      /\ \A i \in 1 .. Len(R) : R[i] = executed[(n - Len(R)) + i].at
      /\ \A i \in 1 .. n - Len(R) : executed[i].at + Window <= now
  BY DEF Remembers
<1> HIDE DEF c, S
<1>5. Len(S) <= Len(c) /\ Len(c) - Len(S) = n - Len(R)
  BY <1>1, <1>2, <1>3, <1>4
<1>6. ASSUME NEW i \in 1 .. Len(S) PROVE S[i] = c[(Len(c) - Len(S)) + i].at
  <2>1. CASE i = Len(R) + 1
    <3>1. (Len(c) - Len(S)) + i = n + 1
      <4>1. n \in Nat /\ Len(R) \in Nat /\ (n - Len(R)) + (Len(R) + 1) = n + 1
        BY <1>1, <1>3
      <4> QED BY <1>5, <2>1, <4>1, Zenon
    <3> QED BY <1>2, <1>3, <2>1, <3>1
  <2>2. CASE i # Len(R) + 1
    <3>1. i \in 1 .. Len(R) /\ (n - Len(R)) + i \in 1 .. n
      BY <1>1, <1>3, <1>4, <2>2
    <3> QED BY <1>2, <1>3, <1>4, <1>5, <3>1
  <2> QED BY <2>1, <2>2
<1>7. ASSUME NEW i \in 1 .. Len(c) - Len(S) PROVE c[i].at + Window <= now
  <2>1. i \in 1 .. n - Len(R) /\ i \in 1 .. n
    BY <1>1, <1>3, <1>4, <1>5
  <2> QED BY <1>2, <1>4, <2>1
<1>8. ASSUME NEW j \in 1 .. Len(c), NEW i \in 1 .. j PROVE c[i].at <= c[j].at
  <2>1. CASE j = n + 1
    <3>1. CASE i = n + 1
      BY <1>1, <1>2, <2>1, <3>1
    <3>2. CASE i # n + 1
      <4>1. i \in 1 .. n
        BY <1>1, <2>1, <3>2
      <4> QED BY <1>1, <1>2, <2>1, <4>1
    <3> QED BY <3>1, <3>2
  <2>2. CASE j # n + 1
    <3>1. j \in 1 .. n /\ i \in 1 .. n
      BY <1>1, <1>2, <2>2
    <3> QED BY <1>2, <3>1 DEF InOrder
  <2> QED BY <2>1, <2>2
<1> QED BY <1>5, <1>6, <1>7, <1>8 DEF c, S, Remembers, InOrder

\* The limiter forgets a survivor: the last call is old, and with it every other.
LEMMA IdleIsForgotten ==
  ASSUME AgentTypeOK, LimiterKnows, Idle(toolCalls)
  PROVE  Remembers(<<>>, executed, now)
<1> DEFINE n == Len(executed)
           k == Len(toolCalls)
<1>1. /\ now \in Nat /\ toolCalls \in Seq(0 .. now) /\ n \in Nat /\ k \in Nat /\ k <= n
      /\ \A i \in 1 .. n : executed[i].at \in 0 .. now
  BY CallsHaveTypes DEF LimiterKnows, Remembers
<1>2. /\ \A i \in 1 .. k : toolCalls[i] = executed[(n - k) + i].at
      /\ \A i \in 1 .. n - k : executed[i].at + Window <= now
  BY DEF LimiterKnows, Remembers
<1>3. ASSUME NEW i \in 1 .. n PROVE executed[i].at + Window <= now
  <2>1. CASE i <= n - k
    BY <1>1, <1>2, <2>1
  <2>2. CASE i > n - k
    <3>1. k \in 1 .. k /\ (n - k) + k = n /\ n \in 1 .. n /\ i \in 1 .. n /\ k # 0
      BY <1>1, <2>2
    <3>2. toolCalls # <<>> /\ Last(toolCalls) = toolCalls[k]
      BY <1>1, <3>1 DEF Last
    <3>3. toolCalls[k] + CleanupAge < now
      BY <3>2 DEF Idle
    <3>4. toolCalls[k] = executed[n].at /\ executed[i].at <= executed[n].at
      BY <1>2, <3>1 DEF LimiterKnows, InOrder
    <3>5. executed[i].at \in Nat /\ executed[n].at \in Nat
      BY <1>1, <3>1
    <3> QED BY <1>1, <3>3, <3>4, <3>5, WindowIsNumber
  <2> QED BY <1>1, <2>1, <2>2
<1>4. Len(<<>>) = 0
  OBVIOUS
<1>5. /\ Len(<<>>) <= n /\ n - Len(<<>>) = n /\ 1 .. Len(<<>>) = {}
  BY <1>1, <1>4
<1> QED BY <1>3, <1>5 DEF Remembers
LEMMA LimiterKeeps ==
  AgentTypeOK /\ LimiterKnows /\ [AgentNext]_agentVars => LimiterKnows'
<1> SUFFICES ASSUME AgentTypeOK, LimiterKnows, [AgentNext]_agentVars PROVE LimiterKnows'
  OBVIOUS
<1> USE DEF limiterVars
<1>0. now \in Nat /\ toolCalls \in Seq(0 .. now) /\ tier \in TierNames
  BY CallsHaveTypes
<1>1. ASSUME UNCHANGED <<toolCalls, executed, now>> PROVE LimiterKnows'
  BY <1>1 DEF LimiterKnows
<1>2. CASE Ask \/ Waited \/ NextIteration \/ TooMany \/ CutOff \/ RunRaises
  <2>1. UNCHANGED <<toolCalls, executed, now>>
    BY <1>2 DEF Ask, Waited, NextIteration, TooMany, CutOff, RunRaises
  <2> QED BY <1>1, <2>1
<1>3. ASSUME NEW size \in Sizes, TurnAway(size) PROVE LimiterKnows'
  <2>1. UNCHANGED <<toolCalls, executed, now>>
    BY <1>3 DEF TurnAway, Resulted
  <2> QED BY <1>1, <2>1
<1>4. ASSUME NEW tool \in Tools, NEW value \in Arguments[tool], NEW size \in Sizes,
             Throttle(tool, value, size)
      PROVE  LimiterKnows'
  <2>1. toolCalls' = Recent(toolCalls) /\ UNCHANGED <<executed, now>>
    BY <1>4 DEF Throttle, Resulted
  <2>2. Remembers(toolCalls', executed, now)
    BY <2>1, RecentRemembers
  <2> QED BY <2>1, <2>2 DEF LimiterKnows
<1>5. ASSUME NEW tool \in Tools, NEW value \in Arguments[tool], NEW size \in Sizes,
             CallTool(tool, value, size)
      PROVE  LimiterKnows'
  <2> DEFINE e == [tool |-> tool, value |-> value, tier |-> tier, at |-> now]
             R == Recent(toolCalls)
  <2>1. toolCalls' = Append(R, now) /\ executed' = Append(executed, e) /\ now' = now
    BY <1>5 DEF CallTool, Resulted
  <2>2. e \in Executions /\ e.at = now
    BY <1>0 DEF Executions
  <2>3. R \in Seq(0 .. now) /\ Remembers(R, executed, now) /\ InOrder(executed)
    BY <1>0, RecentFits, RecentRemembers DEF LimiterKnows
  <2> HIDE DEF e, R
  <2>4. Remembers(Append(R, now), Append(executed, e), now) /\ InOrder(Append(executed, e))
    BY <2>2, <2>3, CallIsRemembered
  <2> QED BY <2>1, <2>4 DEF LimiterKnows
<1>6. CASE ForgetIdle
  <2>1. toolCalls' = <<>> /\ UNCHANGED <<executed, now>> /\ Idle(toolCalls)
    BY <1>6 DEF ForgetIdle
  <2>2. Remembers(toolCalls', executed, now)
    BY <2>1, IdleIsForgotten
  <2> QED BY <2>1, <2>2 DEF LimiterKnows
<1>7. CASE Tick
  <2>1. now' = now + 1 /\ UNCHANGED <<executed, toolCalls>>
    BY <1>7 DEF Tick
  <2>2. Remembers(toolCalls, executed, now + 1)
    <3>1. ASSUME NEW i \in 1 .. Len(executed) - Len(toolCalls) PROVE executed[i].at + Window <= now + 1
      <4>1. i \in 1 .. Len(executed) /\ Len(executed) \in Nat /\ Len(toolCalls) \in Nat
        BY CallsHaveTypes DEF LimiterKnows, Remembers
      <4>2. executed[i].at \in 0 .. now /\ executed[i].at + Window <= now
        BY <4>1, CallsHaveTypes DEF LimiterKnows, Remembers
      <4> QED BY <1>0, <4>2, WindowIsNumber
    <3> QED BY <3>1 DEF LimiterKnows, Remembers
  <2> QED BY <2>1, <2>2 DEF LimiterKnows
<1>8. CASE \E t \in TierNames : TurnDown(t) \/ \E h \in PastTurns, size \in Sizes : TakeTurn(t, h, size)
  <2>1. UNCHANGED <<toolCalls, executed, now>>
    BY <1>8 DEF TurnDown, TakeTurn
  <2> QED BY <1>1, <2>1
<1>9. CASE UNCHANGED agentVars
  BY <1>1, <1>9 DEF agentVars
<1> QED BY <1>2, <1>3, <1>4, <1>5, <1>6, <1>7, <1>8, <1>9 DEF AgentNext, AgentStep

\* EveryCallIsCleared of the call at i.
IsCleared(calls, i) ==
  /\ Has(Line(calls[i].tier), calls[i].tool)
  /\ calls[i].value # NotGiven =>
       /\ \A n \in InForce(calls[i], "max") : calls[i].value <= n
       /\ \A n \in InForce(calls[i], "min") : calls[i].value >= n
  /\ Cardinality({j \in 1 .. i : calls[j].at + Window > calls[i].at}) <= ToolCalls[calls[i].tier]

\* The arguments that validate_tool_call lets pass keep the limits in force.
LEMMA LimitsInForce ==
  ASSUME NEW g \in Executions, Within(Limits(g.tier, g.tool), g.value), g.value # NotGiven
  PROVE  /\ \A n \in InForce(g, "max") : g.value <= n
         /\ \A n \in InForce(g, "min") : g.value >= n
<1> DEFINE own == TierLimits[g.tier][g.tool]
           all == ToolLimits[g.tool]
           limits == Limits(g.tier, g.tool)
<1>1. /\ DOMAIN limits = DOMAIN own \cup DOMAIN all
      /\ \A kind \in DOMAIN own \cup DOMAIN all :
           limits[kind] = IF kind \in DOMAIN own THEN own[kind] ELSE all[kind]
  BY DEF Limits
<1>2. \A kind : \A n \in InForce(g, kind) : kind \in DOMAIN limits /\ limits[kind] = n
  BY <1>1 DEF InForce
<1>3. limits # <<>> => /\ "max" \in DOMAIN limits => g.value <= limits["max"]
                       /\ "min" \in DOMAIN limits => g.value >= limits["min"]
  BY DEF Within
<1> HIDE DEF limits
<1>4. \A kind : kind \in DOMAIN limits => limits # <<>>
  OBVIOUS
<1> QED BY <1>2, <1>3, <1>4

LEMMA CallIsCleared ==
  ASSUME AgentTypeOK, LimiterKnows, NEW tool \in Tools, NEW value \in Arguments[tool],
         NEW e, e = [tool |-> tool, value |-> value, tier |-> tier, at |-> now],
         Permits(tier, tool, value), HasRoom(toolCalls, ToolCalls[tier])
  PROVE  IsCleared(Append(executed, e), Len(executed) + 1)
<1> DEFINE n == Len(executed)
           c == Append(executed, e)
           R == Recent(toolCalls)
<1>1. /\ now \in Nat /\ toolCalls \in Seq(0 .. now) /\ executed \in Seq(Executions) /\ n \in Nat
      /\ \A i \in 1 .. n : executed[i].at \in 0 .. now
      /\ tier \in TierNames
  BY CallsHaveTypes
<1>2. e \in Executions /\ e.at = now /\ e.tier = tier /\ e.tool = tool /\ e.value = value
  BY <1>1 DEF Executions
<1>3. Len(c) = n + 1 /\ c[n + 1] = e /\ \A i \in 1 .. n : c[i] = executed[i]
  BY <1>1, <1>2, AppendProperties
<1>4. Has(Line(tier), tool)
  BY <1>1, ResolvedIsLines DEF Permits
<1>5. value # NotGiven =>
        /\ \A k \in InForce(e, "max") : value <= k
        /\ \A k \in InForce(e, "min") : value >= k
  BY <1>2, LimitsInForce DEF Permits
<1>6. Cardinality({j \in 1 .. n + 1 : c[j].at + Window > now}) <= ToolCalls[tier]
  <2>1. /\ R \in Seq(0 .. now) /\ Len(R) \in Nat /\ Len(R) <= n /\ Len(R) < ToolCalls[tier]
        /\ \A i \in 1 .. n - Len(R) : executed[i].at + Window <= now
    BY <1>1, RecentFits, RecentRemembers DEF Remembers, HasRoom
  <2> HIDE DEF R, c
  <2> DEFINE a == (n - Len(R)) + 1
             S == {j \in 1 .. n + 1 : c[j].at + Window > now}
  <2>2. S \subseteq a .. n + 1
    <3>1. ASSUME NEW j \in 1 .. n + 1, c[j].at + Window > now, ~ (j >= a) PROVE FALSE
      <4>1. j \in 1 .. n - Len(R) /\ j \in 1 .. n
        BY <1>1, <2>1, <3>1
      <4>2. c[j] = executed[j] /\ executed[j].at + Window <= now /\ executed[j].at \in Nat
        BY <1>1, <1>3, <2>1, <4>1
      <4> QED BY <1>1, <3>1, <4>2, WindowIsNumber
    <3>2. ASSUME NEW j \in S PROVE j \in a .. n + 1
      <4>1. j \in 1 .. n + 1 /\ c[j].at + Window > now
        OBVIOUS
      <4>2. j >= a
        BY <3>1, <4>1
      <4> QED BY <1>1, <2>1, <4>1, <4>2
    <3> QED BY <3>2
  <2>3. IsFiniteSet(a .. n + 1) /\ Cardinality(a .. n + 1) = Len(R) + 1
    <3>1. a \in Int /\ n + 1 \in Int /\ a <= n + 1 /\ ((n + 1) - a) + 1 = Len(R) + 1
      BY <1>1, <2>1
    <3> DEFINE b == n + 1
    <3>2. b \in Int /\ a <= b /\ (b - a) + 1 = Len(R) + 1
      BY <3>1
    <3> HIDE DEF a, b
    <3>3. IsFiniteSet(a .. b) /\ Cardinality(a .. b) = IF a > b THEN 0 ELSE b - a + 1
      BY <3>1, <3>2, FS_Interval
    <3>4. ~ (a > b) /\ b - a + 1 = Len(R) + 1
      BY <3>1, <3>2
    <3> QED BY <3>3, <3>4 DEF b
  <2>4. Cardinality(S) <= Len(R) + 1
    <3> HIDE DEF S, a
    <3> QED BY <2>2, <2>3, FS_Subset
  <2>5. IsFiniteSet(S)
    <3> HIDE DEF S, a
    <3> QED BY <2>2, <2>3, FS_Subset
  <2>6. Cardinality(S) \in Nat
    <3> HIDE DEF S
    <3> QED BY <2>5, FS_CardinalityType
  <2>7. ToolCalls[tier] \in Nat
    BY <1>1, TierAssumption
  <2> HIDE DEF S
  <2>8. Cardinality(S) <= ToolCalls[tier]
    BY <2>1, <2>4, <2>6, <2>7
  <2> QED BY <2>8 DEF S
<1> HIDE DEF c
<1> QED BY <1>2, <1>3, <1>4, <1>5, <1>6 DEF c, IsCleared
LEMMA ClearedIsEach ==
  ASSUME executed \in Seq(Executions)
  PROVE  EveryCallIsCleared <=> \A i \in 1 .. Len(executed) : IsCleared(executed, i)
<1>1. DOMAIN executed = 1 .. Len(executed)
  OBVIOUS
<1> QED BY <1>1, Zenon DEF EveryCallIsCleared, IsCleared, Has

\* The calls of the past stay cleared, and so is one that is run now.
LEMMA ClearedKeeps ==
  AgentTypeOK /\ LimiterKnows /\ EveryCallIsCleared /\ [AgentNext]_agentVars => EveryCallIsCleared'
<1> SUFFICES ASSUME AgentTypeOK, LimiterKnows, EveryCallIsCleared, [AgentNext]_agentVars
             PROVE  EveryCallIsCleared'
  OBVIOUS
<1> USE DEF limiterVars
<1>1. executed' = executed => EveryCallIsCleared'
  BY DEF EveryCallIsCleared, InForce
<1>2. CASE \E tool \in Tools : \E value \in Arguments[tool], size \in Sizes : CallTool(tool, value, size)
  <2>1. PICK tool \in Tools : \E value \in Arguments[tool], size \in Sizes : CallTool(tool, value, size)
    BY <1>2
  <2>2. PICK value \in Arguments[tool], size \in Sizes : CallTool(tool, value, size)
    BY <2>1
  <2> DEFINE e == [tool |-> tool, value |-> value, tier |-> tier, at |-> now]
             n == Len(executed)
             c == Append(executed, e)
  <2>3. executed \in Seq(Executions) /\ n \in Nat /\ e \in Executions
    BY CallsHaveTypes DEF Executions
  <2>4. IsCleared(c, n + 1)
    <3>1. Permits(tier, tool, value) /\ HasRoom(toolCalls, ToolCalls[tier])
      BY <2>2 DEF CallTool
    <3> QED BY <3>1, CallIsCleared
  <2>5. executed' = c
    BY <2>2 DEF CallTool
  <2> HIDE DEF e
  <2>6. c \in Seq(Executions) /\ Len(c) = n + 1 /\ \A i \in 1 .. n : c[i] = executed[i]
    BY <2>3, AppendProperties
  <2>7. \A i \in 1 .. n : IsCleared(executed, i)
    BY <2>3, ClearedIsEach
  <2> HIDE DEF c
  <2>8. ASSUME NEW i \in 1 .. n PROVE IsCleared(c, i)
    <3>1. IsCleared(executed, i) /\ c[i] = executed[i]
      BY <2>6, <2>7
    <3>2. {j \in 1 .. i : c[j].at + Window > c[i].at}
            = {j \in 1 .. i : executed[j].at + Window > executed[i].at}
      <4>1. \A j \in 1 .. i : j \in 1 .. n
        BY <2>3
      <4> QED BY <2>6, <3>1, <4>1
    <3> QED BY <3>1, <3>2, Zenon DEF IsCleared
  <2>9. \A i \in 1 .. Len(c) : IsCleared(c, i)
    <3>1. \A i \in 1 .. Len(c) : i \in 1 .. n \/ i = n + 1
      BY <2>3, <2>6
    <3> QED BY <2>4, <2>8, <3>1 DEF c
  <2>10. DOMAIN executed' = 1 .. Len(c)
    BY <2>5, <2>6
  <2>11. ASSUME NEW i \in 1 .. Len(c)
         PROVE  LET g == executed'[i] IN
                /\ DeclaredTier[g.tool] \in Line(g.tier) \/ \E u \in Line(g.tier) : g.tool \in Granted[u]
                /\ g.value # NotGiven =>
                     /\ \A k \in InForce(g, "max") : g.value <= k
                     /\ \A k \in InForce(g, "min") : g.value >= k
                /\ Cardinality({j \in 1 .. i : executed'[j].at + Window > g.at}) <= ToolCalls[g.tier]
    BY <2>5, <2>9, Zenon DEF IsCleared, Has
  <2> QED BY <2>10, <2>11, Zenon DEF EveryCallIsCleared
<1>3. CASE Ask \/ Waited \/ NextIteration \/ TooMany \/ CutOff \/ RunRaises \/ ForgetIdle \/ Tick
  BY <1>1, <1>3 DEF Ask, Waited, NextIteration, TooMany, CutOff, RunRaises, ForgetIdle, Tick
<1>4. CASE \E size \in Sizes : TurnAway(size)
  BY <1>1, <1>4 DEF TurnAway
<1>5. CASE \E tool \in Tools : \E value \in Arguments[tool], size \in Sizes : Throttle(tool, value, size)
  BY <1>1, <1>5 DEF Throttle
<1>6. CASE \E t \in TierNames : TurnDown(t) \/ \E h \in PastTurns, size \in Sizes : TakeTurn(t, h, size)
  BY <1>1, <1>6 DEF TurnDown, TakeTurn
<1>7. CASE UNCHANGED agentVars
  BY <1>1, <1>7 DEF agentVars
<1> QED BY <1>2, <1>3, <1>4, <1>5, <1>6, <1>7 DEF AgentNext, AgentStep

\* validate_tool_call and RateLimiter.check stand before every call that is run: its tool
\* is one of the tier's line, its value within the limits in force, and with it no more
\* calls lie in one window than the tier may make, however the survivor's tier changes
\* and whenever cleanup forgets him.
THEOREM OnlyClearedCallsRun == AgentSpec => []EveryCallIsCleared
<1>1. AgentInit => ClearedIInv
  <2> SUFFICES ASSUME AgentInit PROVE ClearedIInv
    OBVIOUS
  <2>1. toolCalls = <<>> /\ executed = <<>>
    BY DEF AgentInit
  <2>2. Len(<<>>) = 0 /\ DOMAIN <<>> = {} /\ 1 .. 0 = {}
    OBVIOUS
  <2>3. Remembers(<<>>, <<>>, now) /\ InOrder(<<>>)
    BY <2>2 DEF Remembers, InOrder
  <2>4. EveryCallIsCleared
    BY <2>1, <2>2 DEF EveryCallIsCleared
  <2> QED BY <2>1, <2>3, <2>4 DEF ClearedIInv, LimiterKnows
<1>2. AgentTypeOK /\ ClearedIInv /\ [AgentNext]_agentVars => ClearedIInv'
  BY LimiterKeeps, ClearedKeeps DEF ClearedIInv
<1>3. ClearedIInv => EveryCallIsCleared
  BY DEF ClearedIInv
<1> QED BY <1>1, <1>2, <1>3, AgentTypeCorrect, PTL DEF AgentSpec
-----------------------------------------------------------------------------
(* Every call is answered *)

\* The message at j and the results of all its calls.
IsSettled(c, j) ==
  \E it \in 0 .. MaxIterations, n \in 0 .. MaxCalls :
    /\ c[j].ids = CallsOf(it, n) /\ j + n <= Len(c)
    /\ \A i \in 1 .. n : c[j + i].role = "tool" /\ c[j + i].ids = {<<it, i>>}

IsOrderly(c) ==
  \A j \in 1 .. Len(c) : (c[j].role = "assistant" => IsSettled(c, j)) /\ IsOwned(c, j)

\* Outside of its calls, and after the last of them, an answer leaves nothing open.
LEMMA NothingIsOpen ==
  ASSUME AgentTypeOK, CallsAreFollowed, ResultsAreOwned, doing # "calling" \/ pending = <<>>
  PROVE  IsOrderly(conversation)
<1>1. conversation \in Seq(Messages) /\ Len(conversation) \in Nat
  BY DEF AgentTypeOK
<1>2. ASSUME NEW j \in 1 .. Len(conversation), conversation[j].role = "assistant"
      PROVE  IsSettled(conversation, j)
  <2>1. PICK it \in 0 .. MaxIterations, n \in 0 .. MaxCalls : IsFollowed(j, it, n)
    BY <1>2 DEF CallsAreFollowed
  <2>2. n \in Nat /\ j \in Nat
    BY BoundsAreNumbers
  <2>3. j + n <= Len(conversation)
    <3>1. pending = <<>> => Len(pending) = 0
      OBVIOUS
    <3> QED BY <1>1, <2>1, <2>2, <3>1 DEF IsFollowed
  <2>4. \A i \in 1 .. n : j + i <= Len(conversation)
    BY <1>1, <2>2, <2>3
  <2> QED BY <2>1, <2>3, <2>4 DEF IsFollowed, IsSettled
<1> QED BY <1>2 DEF IsOrderly, ResultsAreOwned

LEMMA OrderlyIsFollowed ==
  ASSUME NEW c \in Seq(Messages), IsOrderly(c)
  PROVE  (conversation' = c => (CallsAreFollowed /\ ResultsAreOwned)')
<1> SUFFICES ASSUME conversation' = c PROVE (CallsAreFollowed /\ ResultsAreOwned)'
  OBVIOUS
<1>1. ASSUME NEW j \in 1 .. Len(c), c[j].role = "assistant"
      PROVE  \E it \in 0 .. MaxIterations, n \in 0 .. MaxCalls : IsFollowed(j, it, n)'
  <2>1. PICK it \in 0 .. MaxIterations, n \in 0 .. MaxCalls :
          /\ c[j].ids = CallsOf(it, n) /\ j + n <= Len(c)
          /\ \A i \in 1 .. n : c[j + i].role = "tool" /\ c[j + i].ids = {<<it, i>>}
    BY <1>1 DEF IsOrderly, IsSettled
  <2>2. j + n \in Nat /\ Len(c) \in Nat
    BY BoundsAreNumbers
  <2>3. IsFollowed(j, it, n)'
    <3>1. ~ (j + n > Len(c))
      BY <2>1, <2>2
    <3> QED BY <2>1, <3>1, Zenon DEF IsFollowed
  <2> QED BY <2>3
<1> QED BY <1>1 DEF CallsAreFollowed, ResultsAreOwned, IsOrderly

\* An end of an orderly conversation is orderly: a truncation may cut calls off their
\* results, which then stand at the front, but never results off their calls.
LEMMA EndIsOrderly ==
  ASSUME NEW c \in Seq(Messages), NEW d \in Seq(Messages), NEW m \in 0 .. Len(c),
         Len(d) = Len(c) - m, \A i \in 1 .. Len(c) - m : d[i] = c[m + i], IsOrderly(c)
  PROVE  IsOrderly(d)
<1>1. Len(c) \in Nat /\ Len(d) \in Nat /\ m \in Nat
  OBVIOUS
<1>2. \A i \in 1 .. Len(d) : d[i] = c[m + i] /\ m + i \in 1 .. Len(c)
  BY <1>1
<1>3. ASSUME NEW j \in 1 .. Len(d), d[j].role = "assistant" PROVE IsSettled(d, j)
  <2>1. m + j \in 1 .. Len(c) /\ d[j] = c[m + j]
    BY <1>2
  <2>2. PICK it \in 0 .. MaxIterations, n \in 0 .. MaxCalls :
          /\ c[m + j].ids = CallsOf(it, n) /\ (m + j) + n <= Len(c)
          /\ \A i \in 1 .. n : c[(m + j) + i].role = "tool" /\ c[(m + j) + i].ids = {<<it, i>>}
    BY <1>3, <2>1 DEF IsOrderly, IsSettled
  <2>3. n \in Nat /\ j + n <= Len(d)
    BY <1>1, <2>2, BoundsAreNumbers
  <2>4. ASSUME NEW i \in 1 .. n PROVE d[j + i].role = "tool" /\ d[j + i].ids = {<<it, i>>}
    <3>1. j + i \in 1 .. Len(d) /\ m + (j + i) = (m + j) + i
      BY <1>1, <2>3
    <3> QED BY <1>2, <2>2, <3>1
  <2> QED BY <2>1, <2>2, <2>3, <2>4 DEF IsSettled
<1>4. ASSUME NEW i \in 1 .. Len(d), d[i].role = "tool" PROVE IsOwned(d, i)
  <2>1. m + i \in 1 .. Len(c) /\ d[i] = c[m + i]
    BY <1>2
  <2>2. \/ \E j \in 1 .. (m + i) - 1 :
             /\ c[j].role = "assistant" /\ c[m + i].ids \subseteq c[j].ids
             /\ \A k \in j + 1 .. m + i : c[k].role = "tool"
        \/ \A k \in 1 .. m + i : c[k].role = "tool"
    BY <1>4, <2>1 DEF IsOrderly, IsOwned
  <2>3. \A k \in 1 .. i : m + k \in 1 .. m + i /\ d[k] = c[m + k]
    BY <1>1, <1>2
  <2>4. ASSUME NEW j \in 1 .. (m + i) - 1,
               c[j].role = "assistant", c[m + i].ids \subseteq c[j].ids,
               \A k \in j + 1 .. m + i : c[k].role = "tool"
        PROVE  IsOwned(d, i)
    <3>1. CASE j <= m
      <4>1. \A k \in 1 .. i : m + k \in j + 1 .. m + i
        BY <1>1, <3>1
      <4>2. \A k \in 1 .. i : d[k].role = "tool"
        BY <2>3, <2>4, <4>1
      <4> QED BY <4>2 DEF IsOwned
    <3>2. CASE j > m
      <4>1. j - m \in 1 .. i - 1 /\ m + (j - m) = j /\ j - m \in 1 .. i
        BY <1>1, <3>2
      <4>2. d[j - m] = c[j]
        BY <2>3, <4>1
      <4>3. ASSUME NEW k \in (j - m) + 1 .. i PROVE d[k].role = "tool"
        <5>1. k \in 1 .. i /\ m + k \in j + 1 .. m + i
          BY <1>1, <4>1
        <5> QED BY <2>3, <2>4, <5>1
      <4> QED BY <2>1, <2>4, <4>1, <4>2, <4>3 DEF IsOwned
    <3> QED BY <1>1, <3>1, <3>2
  <2>5. CASE \A k \in 1 .. m + i : c[k].role = "tool"
    BY <2>3, <2>5 DEF IsOwned
  <2> QED BY <2>2, <2>4, <2>5
<1> QED BY <1>3, <1>4 DEF IsOrderly, IsOwned

LEMMA TruncatedIsOrderly ==
  ASSUME NEW c \in Seq(Messages), NEW b, IsOrderly(c)
  PROVE  Truncated(c, b) \in Seq(Messages) /\ IsOrderly(Truncated(c, b))
<1> DEFINE d == Truncated(c, b)
<1>1. /\ d \in Seq(Messages)
      /\ \E m \in 0 .. Len(c) : Len(d) = Len(c) - m /\ \A i \in 1 .. Len(c) - m : d[i] = c[m + i]
  BY TruncatedIsEnd
<1> HIDE DEF d
<1> QED BY <1>1, EndIsOrderly DEF d
\* A new turn: no calls, no results.
LEMMA PastIsOrderly ==
  ASSUME NEW h \in PastTurns, NEW size \in Sizes
  PROVE  /\ Append(h, Message("user", {}, size)) \in Seq(Messages)
         /\ IsOrderly(Append(h, Message("user", {}, size)))
<1> DEFINE m == Message("user", {}, size)
           c == Append(h, m)
<1>1. m \in Messages /\ m.role = "user"
  BY MessageFits DEF Message
<1>2. /\ h \in Seq(Messages)
      /\ \A i \in 1 .. Len(h) : h[i].role # "tool" /\ h[i].ids = {}
  <2>1. CASE h = <<>>
    BY <2>1
  <2>2. ASSUME NEW p \in Sizes, NEW q \in Sizes,
               h = <<Message("user", {}, p), Message("assistant", {}, q)>>
        PROVE  <1>2
    <3>1. /\ Message("user", {}, p) \in Messages /\ Message("assistant", {}, q) \in Messages
          /\ Message("user", {}, p).role # "tool" /\ Message("assistant", {}, q).role # "tool"
          /\ Message("user", {}, p).ids = {} /\ Message("assistant", {}, q).ids = {}
      BY MessageFits DEF Message
    <3> DEFINE a == Message("user", {}, p)
               b == Message("assistant", {}, q)
    <3> HIDE DEF a, b
    <3>2. a \in Messages /\ b \in Messages /\ h = <<a, b>>
      BY <2>2, <3>1 DEF a, b
    <3>3. h \in Seq(Messages) /\ Len(h) = 2 /\ h[1] = a /\ h[2] = b
      BY <3>2
    <3>4. \A i \in 1 .. Len(h) : h[i] = a \/ h[i] = b
      BY <3>3
    <3> QED BY <3>1, <3>3, <3>4 DEF a, b
  <2> QED BY <2>1, <2>2 DEF PastTurns
<1> HIDE DEF m
<1>3. /\ c \in Seq(Messages) /\ Len(c) = Len(h) + 1 /\ c[Len(h) + 1] = m /\ Len(h) \in Nat
      /\ \A i \in 1 .. Len(h) : c[i] = h[i]
  BY <1>1, <1>2, AppendProperties
<1> HIDE DEF c
<1>4. ASSUME NEW j \in 1 .. Len(c)
      PROVE  c[j].role # "tool" /\ (c[j].role = "assistant" => c[j].ids = {})
  <2>1. j \in 1 .. Len(h) \/ j = Len(h) + 1
    BY <1>3
  <2>2. CASE j \in 1 .. Len(h)
    <3>1. c[j] = h[j]
      BY <1>3, <2>2
    <3> QED BY <1>2, <2>2, <3>1
  <2>3. CASE j = Len(h) + 1
    <3>1. c[j].role = "user"
      BY <1>1, <1>3, <2>3
    <3> QED BY <3>1
  <2> QED BY <2>1, <2>2, <2>3
<1>5. ASSUME NEW j \in 1 .. Len(c), c[j].role = "assistant" PROVE IsSettled(c, j)
  <2>1. 0 \in 0 .. MaxIterations /\ 0 \in 0 .. MaxCalls /\ j + 0 <= Len(c) /\ 1 .. 0 = {}
    BY <1>3, BoundsAreNumbers
  <2>2. c[j].ids = CallsOf(0, 0)
    BY <1>4, <1>5, <2>1 DEF CallsOf
  <2> QED BY <2>1, <2>2 DEF IsSettled
<1>6. IsOrderly(c)
  BY <1>4, <1>5 DEF IsOrderly, IsOwned
<1> QED BY <1>3, <1>6 DEF c, m

\* Calls: they are pending behind a conversation with nothing open.
LEMMA CalledIsFollowed ==
  ASSUME AgentTypeOK, IsOrderly(conversation), NEW n \in 1 .. MaxCalls, NEW size \in Sizes,
         Called(n, size)
  PROVE  (CallsAreFollowed /\ PendingIsCalled /\ ResultsAreOwned)'
<1> DEFINE c == conversation
           l == Len(conversation)
           d == conversation'
           m == Message("assistant", CallsOf(iteration, n), size)
<1>1. /\ c \in Seq(Messages) /\ l \in Nat /\ n \in Nat /\ n >= 1
      /\ iteration \in 0 .. MaxIterations /\ n \in 0 .. MaxCalls
  BY BoundsAreNumbers DEF AgentTypeOK
<1>2. /\ pending' \in Seq(Nat \X Nat) /\ Len(pending') = n
      /\ \A i \in 1 .. n : pending'[i] = <<iteration, i>>
      /\ d = Append(c, m) /\ m \in Messages /\ doing' = "calling"
  BY CalledFits
<1>2a. m.role = "assistant" /\ m.ids = CallsOf(iteration, n)
  BY DEF Message
<1> HIDE DEF m
<1>3. Len(d) = l + 1 /\ d[l + 1] = m /\ \A i \in 1 .. l : d[i] = c[i]
  BY <1>1, <1>2, AppendProperties
<1> HIDE DEF d
<1>4. ASSUME NEW j \in 1 .. Len(d), d[j].role = "assistant"
      PROVE  \E it \in 0 .. MaxIterations, k \in 0 .. MaxCalls : IsFollowed(j, it, k)'
  <2>1. CASE j = l + 1
    <3>0. PICK it \in 0 .. MaxIterations : it = iteration
      BY <1>1
    <3>1. \A i \in 1 .. n : ~ (j + i <= Len(d))
      BY <1>1, <1>3, <2>1
    <3>2. j + n = Len(d) + Len(pending')
      BY <1>1, <1>2, <1>3, <2>1
    <3>3. \A k \in 1 .. Len(pending') : pending'[k] = <<it, (Len(d) + k) - j>>
      <4>1. \A k \in 1 .. n : (Len(d) + k) - j = k
        BY <1>1, <1>3, <2>1
      <4> QED BY <1>2, <3>0, <4>1
    <3>4. d[j].ids = CallsOf(it, n)
      BY <1>2a, <1>3, <2>1, <3>0
    <3>5. IsFollowed(j, it, n)'
      BY <1>2, <3>1, <3>2, <3>3, <3>4, Zenon DEF IsFollowed, d
    <3> QED BY <1>1, <3>5
  <2>2. CASE j # l + 1
    <3>1. j \in 1 .. l /\ c[j].role = "assistant" /\ d[j] = c[j]
      BY <1>1, <1>3, <1>4, <2>2
    <3>2. PICK it \in 0 .. MaxIterations, k \in 0 .. MaxCalls :
            /\ c[j].ids = CallsOf(it, k) /\ j + k <= l
            /\ \A i \in 1 .. k : c[j + i].role = "tool" /\ c[j + i].ids = {<<it, i>>}
      BY <3>1 DEF IsOrderly, IsSettled
    <3>3. k \in Nat /\ ~ (j + k > Len(d)) /\ \A i \in 1 .. k : j + i \in 1 .. l
      BY <1>1, <1>3, <3>1, <3>2, BoundsAreNumbers
    <3>4. \A i \in 1 .. k : d[j + i].role = "tool" /\ d[j + i].ids = {<<it, i>>}
      BY <1>3, <3>2, <3>3
    <3>5. IsFollowed(j, it, k)'
      BY <3>1, <3>2, <3>3, <3>4, Zenon DEF IsFollowed, d
    <3> QED BY <3>5
  <2> QED BY <2>1, <2>2
<1>5. ASSUME NEW i \in 1 .. Len(d) PROVE IsOwned(d, i)
  <2>1. CASE i = l + 1
    BY <1>2a, <1>3, <2>1 DEF IsOwned
  <2>2. CASE i # l + 1
    <3>1. i \in 1 .. l /\ \A k \in 1 .. i : k \in 1 .. l /\ d[k] = c[k]
      BY <1>1, <1>3, <2>2
    <3>2. \A j \in 1 .. i - 1 : j \in 1 .. i /\ \A k \in j + 1 .. i : k \in 1 .. i
      BY <3>1
    <3>3. IsOwned(c, i)
      BY <3>1 DEF IsOrderly
    <3> QED BY <3>1, <3>2, <3>3 DEF IsOwned
  <2> QED BY <2>1, <2>2
<1>6. PendingIsCalled'
  <2>1. l + 1 \in 1 .. Len(d) /\ d[l + 1].role = "assistant" /\ d[l + 1].ids = CallsOf(iteration, n)
    BY <1>1, <1>2a, <1>3
  <2>2. \A k \in 1 .. Len(pending') : pending'[k] \in d[l + 1].ids
    BY <1>2, <2>1 DEF CallsOf
  <2>3. (l + 1) + 1 .. Len(d) = {}
    BY <1>1, <1>3
  <2> QED BY <2>1, <2>2, <2>3, Zenon DEF PendingIsCalled, d
<1> QED BY <1>4, <1>5, <1>6, Zenon DEF CallsAreFollowed, ResultsAreOwned, d
\* One call more has its result.
LEMMA ResultedIsFollowed ==
  ASSUME AgentTypeOK, CallsAreFollowed, PendingIsCalled, ResultsAreOwned,
         doing = "calling", pending # <<>>, NEW size \in Sizes, Resulted(size)
  PROVE  (CallsAreFollowed /\ PendingIsCalled /\ ResultsAreOwned)'
<1> DEFINE c == conversation
           l == Len(conversation)
           d == conversation'
           p == pending
           q == pending'
           m == Message("tool", {Head(pending)}, size)
<1>1. c \in Seq(Messages) /\ l \in Nat /\ p \in Seq(Nat \X Nat) /\ Len(p) \in Nat /\ Len(p) >= 1
  BY DEF AgentTypeOK
<1>2. d = Append(c, m) /\ q = Tail(p) /\ doing' = "calling"
  BY DEF Resulted
<1>3. m.role = "tool" /\ m.ids = {p[1]} /\ m \in Messages
  <2>1. Head(p) = p[1] /\ Head(p) \in Nat \X Nat
    BY <1>1, HeadTailProperties
  <2>2. {Head(p)} \in SUBSET (Nat \X Nat)
    BY <2>1
  <2>3. m \in Messages
    BY <2>2, MessageFits
  <2>4. m.role = "tool" /\ m.ids = {Head(p)}
    BY DEF Message
  <2> QED BY <2>1, <2>3, <2>4
<1> HIDE DEF m
<1>4. Len(d) = l + 1 /\ d[l + 1] = m /\ \A i \in 1 .. l : d[i] = c[i]
  BY <1>1, <1>2, <1>3, AppendProperties
<1>5. Len(q) = Len(p) - 1 /\ \A k \in 1 .. Len(q) : q[k] = p[k + 1] /\ k + 1 \in 1 .. Len(p)
  <2>1. Len(q) = Len(p) - 1
    BY <1>1, <1>2, HeadTailProperties
  <2>2. \A k \in 1 .. Len(q) : q[k] = p[k + 1]
    BY <1>1, <1>2, HeadTailProperties
  <2> QED BY <1>1, <2>1, <2>2
<1>5a. /\ l \in Nat /\ Len(p) \in Nat /\ Len(p) >= 1
       /\ Len(d) = l + 1 /\ Len(q) = Len(p) - 1
  BY <1>1, <1>4, <1>5
<1> HIDE DEF d, q
<1>6. ASSUME NEW j \in 1 .. Len(d), d[j].role = "assistant"
      PROVE  \E it \in 0 .. MaxIterations, n \in 0 .. MaxCalls : IsFollowed(j, it, n)'
  <2>1. j \in 1 .. l /\ c[j].role = "assistant" /\ d[j] = c[j]
    BY <1>1, <1>3, <1>4, <1>6
  <2>2. PICK it \in 0 .. MaxIterations, n \in 0 .. MaxCalls : IsFollowed(j, it, n)
    BY <2>1 DEF CallsAreFollowed
  <2>3. /\ c[j].ids = CallsOf(it, n)
        /\ \A i \in 1 .. n : j + i <= l => c[j + i].role = "tool" /\ c[j + i].ids = {<<it, i>>}
        /\ j + n > l => /\ j + n = l + Len(p)
                        /\ \A k \in 1 .. Len(p) : p[k] = <<it, (l + k) - j>>
    BY <2>2 DEF IsFollowed
  <2>4. n \in Nat /\ j \in Nat
    BY <2>1, BoundsAreNumbers
  <2>5. ASSUME NEW i \in 1 .. n, j + i <= Len(d) PROVE d[j + i].role = "tool" /\ d[j + i].ids = {<<it, i>>}
    <3>1. CASE j + i <= l
      <4>1. j + i \in 1 .. l
        BY <1>1, <2>4, <3>1
      <4> QED BY <1>4, <2>3, <3>1, <4>1
    <3>2. CASE ~ (j + i <= l)
      <4>1. j + i = l + 1 /\ j + n > l /\ 1 \in 1 .. Len(p) /\ (l + 1) - j = i
        BY <1>5a, <2>4, <2>5, <3>2
      <4>2. p[1] = <<it, i>>
        BY <2>3, <4>1
      <4> QED BY <1>3, <1>4, <4>1, <4>2
    <3> QED BY <3>1, <3>2
  <2>6. ASSUME j + n > Len(d)
        PROVE  /\ j + n = Len(d) + Len(q)
               /\ \A k \in 1 .. Len(q) : q[k] = <<it, (Len(d) + k) - j>>
    <3>1. j + n > l
      BY <1>1, <1>4, <2>4, <2>6
    <3>2. j + n = Len(d) + Len(q)
      <4>1. j + n = l + Len(p)
        BY <2>3, <3>1
      <4> QED BY <1>5a, <2>4, <4>1
    <3>3. ASSUME NEW k \in 1 .. Len(q) PROVE q[k] = <<it, (Len(d) + k) - j>>
      <4>1. (l + (k + 1)) - j = (Len(d) + k) - j
        BY <1>1, <1>4, <2>4
      <4>2. p[k + 1] = <<it, (l + (k + 1)) - j>>
        BY <1>5, <2>3, <3>1
      <4> QED BY <1>5, <4>1, <4>2
    <3> QED BY <3>2, <3>3
  <2>7. d[j].ids = CallsOf(it, n)
    BY <2>1, <2>3
  <2>8. IsFollowed(j, it, n)'
    BY <1>2, <2>5, <2>6, <2>7, Zenon DEF IsFollowed, d, q
  <2> QED BY <2>8
<1>7. PICK j \in 1 .. l :
        /\ c[j].role = "assistant"
        /\ \A k \in j + 1 .. l : c[k].role = "tool"
        /\ \A k \in 1 .. Len(p) : p[k] \in c[j].ids
  BY DEF PendingIsCalled
<1>8. /\ j \in 1 .. Len(d) /\ d[j].role = "assistant"
      /\ \A k \in j + 1 .. Len(d) : d[k].role = "tool"
      /\ p[1] \in d[j].ids
  <2>1. j \in 1 .. Len(d) /\ j \in 1 .. l /\ d[j] = c[j] /\ 1 \in 1 .. Len(p)
    BY <1>1, <1>4
  <2>2. ASSUME NEW k \in j + 1 .. Len(d) PROVE d[k].role = "tool"
    <3>1. CASE k = l + 1
      BY <1>3, <1>4, <3>1
    <3>2. CASE k # l + 1
      <4>1. k \in j + 1 .. l /\ k \in 1 .. l
        BY <1>1, <1>4, <3>2
      <4> QED BY <1>4, <1>7, <4>1
    <3> QED BY <3>1, <3>2
  <2> QED BY <1>7, <2>1, <2>2
<1>9. PendingIsCalled'
  <2>1. \A k \in 1 .. Len(q) : q[k] \in d[j].ids
    BY <1>4, <1>5, <1>7
  <2> QED BY <1>8, <2>1, Zenon DEF PendingIsCalled, d, q
<1>10. ASSUME NEW i \in 1 .. Len(d) PROVE IsOwned(d, i)
  <2>1. CASE i = l + 1
    <3>1. j \in 1 .. i - 1 /\ j + 1 .. i = j + 1 .. Len(d)
      BY <1>1, <1>4, <2>1
    <3>2. d[i].ids \subseteq d[j].ids
      BY <1>3, <1>4, <1>8, <2>1
    <3> QED BY <1>8, <3>1, <3>2 DEF IsOwned
  <2>2. CASE i # l + 1
    <3>0. i \in 1 .. l /\ \A k \in 1 .. i : k \in 1 .. l
      BY <1>5a, <2>2
    <3>1. i \in 1 .. l /\ \A k \in 1 .. i : k \in 1 .. l /\ d[k] = c[k]
      BY <1>4, <3>0
    <3>2. \A h \in 1 .. i - 1 : h \in 1 .. i /\ \A k \in h + 1 .. i : k \in 1 .. i
      BY <3>1
    <3>3. IsOwned(c, i)
      BY <3>1 DEF ResultsAreOwned
    <3> QED BY <3>1, <3>2, <3>3 DEF IsOwned
  <2> QED BY <2>1, <2>2
<1> QED BY <1>6, <1>9, <1>10, Zenon DEF CallsAreFollowed, ResultsAreOwned, d

LEMMA AnsweredKeeps ==
  AgentTypeOK /\ AnsweredIInv /\ [AgentNext]_agentVars => AnsweredIInv'
<1> SUFFICES ASSUME AgentTypeOK, AnsweredIInv, [AgentNext]_agentVars, doing' # "idle"
             PROVE  (CallsAreFollowed /\ PendingIsCalled /\ ResultsAreOwned)'
  BY DEF AnsweredIInv
<1>1. ASSUME UNCHANGED <<conversation, pending, doing>>
      PROVE  (CallsAreFollowed /\ PendingIsCalled /\ ResultsAreOwned)'
  <2>1. CallsAreFollowed /\ PendingIsCalled /\ ResultsAreOwned
    BY <1>1 DEF AnsweredIInv
  <2>2. CallsAreFollowed'
    <3>1. conversation' = conversation /\ pending' = pending /\ doing' = doing
      BY <1>1
    <3>2. \A j, it, n : IsFollowed(j, it, n) => IsFollowed(j, it, n)'
      BY <3>1, Zenon DEF IsFollowed
    <3> QED BY <2>1, <3>1, <3>2, Zenon DEF CallsAreFollowed
  <2>3. PendingIsCalled'
    BY <1>1, <2>1 DEF PendingIsCalled
  <2>4. ResultsAreOwned'
    BY <1>1, <2>1 DEF ResultsAreOwned
  <2> QED BY <2>2, <2>3, <2>4
<1>2. ASSUME NEW c \in Seq(Messages), IsOrderly(c), conversation' = c, doing' # "calling"
      PROVE  (CallsAreFollowed /\ PendingIsCalled /\ ResultsAreOwned)'
  BY <1>2, OrderlyIsFollowed DEF PendingIsCalled
<1>3. doing # "idle" /\ (doing # "calling" \/ pending = <<>>) => IsOrderly(conversation)
  BY NothingIsOpen DEF AnsweredIInv
<1>4. conversation \in Seq(Messages)
  BY DEF AgentTypeOK
<1>5. CASE Ask
  <2>1. doing = "asking" /\ IsOrderly(conversation)
    BY <1>3, <1>5 DEF Ask
  <2>2. PICK outcome : \/ \E size \in Sizes : Answered(size) \/ \E n \in 1 .. MaxCalls : Called(n, size)
                       \/ Overflowed \/ Limited \/ Failed
    BY <1>5 DEF Ask
  <2>3. CASE \E size \in Sizes, n \in 1 .. MaxCalls : Called(n, size)
    BY <2>1, <2>3, CalledIsFollowed
  <2>4. CASE Overflowed
    <3>1. conversation' = Truncated(conversation, TightBudget) /\ doing' = doing
      BY <2>4 DEF Overflowed
    <3>2. /\ Truncated(conversation, TightBudget) \in Seq(Messages)
          /\ IsOrderly(Truncated(conversation, TightBudget))
      BY <1>4, <2>1, TruncatedIsOrderly
    <3> QED BY <1>2, <2>1, <3>1, <3>2
  <2>5. CASE Limited
    <3>1. conversation' = conversation /\ doing' = "waiting"
      BY <2>5 DEF Limited
    <3> QED BY <1>2, <1>4, <2>1, <3>1
  <2>6. CASE Failed \/ \E size \in Sizes : Answered(size)
    BY <2>6 DEF Failed, Answered, End
  <2> QED BY <2>2, <2>3, <2>4, <2>5, <2>6
<1>6. CASE Waited \/ NextIteration
  <2>1. /\ doing # "idle" /\ (doing # "calling" \/ pending = <<>>)
        /\ conversation' = conversation /\ doing' = "asking"
    BY <1>6 DEF Waited, NextIteration
  <2> QED BY <1>2, <1>3, <1>4, <2>1
<1>7. CASE TooMany \/ CutOff \/ RunRaises
  BY <1>7 DEF TooMany, CutOff, RunRaises, End
<1>8. CASE \/ \E size \in Sizes : TurnAway(size)
           \/ \E tool \in Tools : \E value \in Arguments[tool], size \in Sizes :
                Throttle(tool, value, size) \/ CallTool(tool, value, size)
  <2>1. doing = "calling" /\ pending # <<>> /\ \E size \in Sizes : Resulted(size)
    BY <1>8 DEF TurnAway, Throttle, CallTool
  <2>2. CallsAreFollowed /\ PendingIsCalled /\ ResultsAreOwned
    BY <2>1 DEF AnsweredIInv
  <2> QED BY <2>1, <2>2, ResultedIsFollowed
<1>9. CASE ForgetIdle \/ Tick \/ UNCHANGED agentVars \/ \E t \in TierNames : TurnDown(t)
  <2>1. UNCHANGED <<conversation, pending, doing>>
    BY <1>9 DEF ForgetIdle, Tick, TurnDown, agentVars, runVars
  <2> QED BY <1>1, <2>1
<1>10. ASSUME NEW t \in TierNames, NEW h \in PastTurns, NEW size \in Sizes, TakeTurn(t, h, size)
       PROVE  (CallsAreFollowed /\ PendingIsCalled /\ ResultsAreOwned)'
  <2> DEFINE c == Append(h, Message("user", {}, size))
  <2>1. conversation' = Truncated(c, Budget) /\ doing' = "asking"
    BY <1>10 DEF TakeTurn
  <2>2. c \in Seq(Messages) /\ IsOrderly(c)
    BY PastIsOrderly
  <2> HIDE DEF c
  <2>3. Truncated(c, Budget) \in Seq(Messages) /\ IsOrderly(Truncated(c, Budget))
    BY <2>2, TruncatedIsOrderly
  <2> QED BY <1>2, <2>1, <2>3
<1> QED BY <1>5, <1>6, <1>7, <1>8, <1>9, <1>10 DEF AgentNext, AgentStep
LEMMA CallsAreCounted ==
  ASSUME NEW it, NEW n \in Nat
  PROVE  Cardinality(CallsOf(it, n)) = n
<1> DEFINE f == [i \in 1 .. n |-> <<it, i>>]
<1>1. f \in [1 .. n -> CallsOf(it, n)]
  BY DEF CallsOf
<1>2. \A x, y \in 1 .. n : f[x] = f[y] => x = y
  OBVIOUS
<1>3. \A id \in CallsOf(it, n) : \E i \in 1 .. n : f[i] = id
  BY DEF CallsOf
<1> HIDE DEF f
<1>4. f \in Injection(1 .. n, CallsOf(it, n))
  BY <1>1, <1>2, Zenon DEF Injection, IsInjective
<1>5. f \in Surjection(1 .. n, CallsOf(it, n))
  BY <1>1, <1>3, Zenon DEF Surjection
<1>6. ExistsBijection(1 .. n, CallsOf(it, n))
  BY <1>4, <1>5 DEF ExistsBijection, Bijection
<1> QED BY <1>6, FS_CountingElements

\* In an orderly conversation every call is answered once, and every result stands
\* behind its call or at the front.
LEMMA OrderlyIsAnswered ==
  ASSUME AgentTypeOK, IsOrderly(conversation)
  PROVE  CallsAreAnswered
<1> DEFINE c == conversation
           AnswersTo(j, id) == {i \in j + 1 .. j + Cardinality(c[j].ids) :
                                  i \in DOMAIN c /\ c[i].role = "tool" /\ c[i].ids = {id}}
<1>1. c \in Seq(Messages) /\ Len(c) \in Nat /\ DOMAIN c = 1 .. Len(c)
  BY DEF AgentTypeOK
<1>2. ASSUME NEW j \in 1 .. Len(c), c[j].role = "assistant", NEW id \in c[j].ids
      PROVE  Cardinality(AnswersTo(j, id)) = 1
  <2>1. PICK it \in 0 .. MaxIterations, n \in 0 .. MaxCalls :
          /\ c[j].ids = CallsOf(it, n) /\ j + n <= Len(c)
          /\ \A i \in 1 .. n : c[j + i].role = "tool" /\ c[j + i].ids = {<<it, i>>}
    BY <1>2 DEF IsOrderly, IsSettled
  <2>2. n \in Nat /\ j \in Nat /\ Cardinality(c[j].ids) = n
    BY <2>1, BoundsAreNumbers, CallsAreCounted
  <2>3. PICK i \in 1 .. n : id = <<it, i>>
    BY <1>2, <2>1 DEF CallsOf
  <2>4. ASSUME NEW k \in AnswersTo(j, id) PROVE k = j + i
    <3>1. k \in j + 1 .. j + n /\ c[k].ids = {id}
      BY <2>2
    <3>2. k - j \in 1 .. n /\ j + (k - j) = k
      BY <2>2, <3>1
    <3>3. c[k].ids = {<<it, k - j>>}
      BY <2>1, <3>2
    <3>4. <<it, k - j>> = <<it, i>>
      BY <2>3, <3>1, <3>3
    <3>5. k - j = i
      BY <3>4
    <3> QED BY <3>2, <3>5
  <2>5. j + i \in AnswersTo(j, id)
    <3>1. j + i \in j + 1 .. j + n /\ j + i \in 1 .. Len(c)
      BY <1>1, <2>1, <2>2
    <3> QED BY <1>1, <2>1, <2>2, <2>3, <3>1
  <2>6. AnswersTo(j, id) = {j + i}
    <3> HIDE DEF AnswersTo
    <3> QED BY <2>4, <2>5
  <2> QED BY <2>6, FS_Singleton
<1>3. ASSUME NEW i \in 1 .. Len(c), c[i].role = "tool",
             ~ \E j \in 1 .. i - 1 : c[j].role = "assistant" /\ c[i].ids \subseteq c[j].ids
      PROVE  \A k \in 1 .. i : c[k].role = "tool"
  BY <1>3 DEF IsOrderly, IsOwned
<1> QED BY <1>1, <1>2, <1>3 DEF CallsAreAnswered

\* Whatever becomes of a tool call (turned away, throttled, run, cut off after 30 s), the
\* conversation gets its result, right behind the message that called; so the LLM is
\* only asked with every call answered once, also after a truncation.
THEOREM CallsGetResults == AgentSpec => []CallsAreAnswered
<1>1. AgentInit => AnsweredIInv
  BY DEF AgentInit, AnsweredIInv
<1>2. AgentTypeOK /\ AnsweredIInv /\ [AgentNext]_agentVars => AnsweredIInv'
  BY AnsweredKeeps
<1>3. AgentTypeOK /\ AnsweredIInv => CallsAreAnswered
  <2>1. ASSUME AgentTypeOK, AnsweredIInv, doing = "asking" PROVE CallsAreAnswered
    BY <2>1, NothingIsOpen, OrderlyIsAnswered DEF AnsweredIInv
  <2>2. doing # "asking" => CallsAreAnswered
    BY Zenon DEF CallsAreAnswered
  <2> QED BY <2>1, <2>2
<1> QED BY <1>1, <1>2, <1>3, AgentTypeCorrect, PTL DEF AgentSpec

=============================================================================
