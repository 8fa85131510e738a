--------------------------- MODULE SemanticCache ----------------------------
(***************************************************************************)
(* The cache of answers by meaning (cache.py).                             *)
(*                                                                         *)
(* An answer is stored under the embedding of its question, and of the     *)
(* map or server it is about when the question is that kind of question.   *)
(* Embeddings and entries are two parallel arrays.  A lookup asks for the  *)
(* most similar entry alone: if that has expired it is evicted, otherwise  *)
(* it is served if it is similar enough.  The cache is saved to disk and   *)
(* loaded at the next start.                                               *)
(*                                                                         *)
(* An embedding is the key it was made from, and two of them are as        *)
(* similar as Similarity says.  Statistics are left out, and cache_warmup  *)
(* only calls store.  The server does not use the cache yet.               *)
(***************************************************************************)
EXTENDS Naturals, Sequences, SequencesExt, FiniteSets

CONSTANTS
  Queries,
  Dependent,     \* queries that hold one of _CONTEXT_DEPENDENT_SIGNALS
  Contexts,      \* maps, servers
  NoContext,
  Similarity,    \* of two keys
  Threshold,
  MaxEntries,    \* max_entries
  Ttls,          \* ttl of an entry
  MaxStored, MaxHours   \* bounds: calls of store, and time

CacheKeys == Queries \X (Contexts \cup {NoContext})

ASSUME CacheAssumption ==
  /\ Dependent \subseteq Queries /\ NoContext \notin Contexts
  /\ Similarity \in [CacheKeys \X CacheKeys -> Nat] /\ Threshold \in Nat
  /\ MaxEntries \in Nat \ {0} /\ Ttls \subseteq Nat

VARIABLES
  embeddings,   \* _embeddings: a sequence of keys
  entries,      \* _entries: a sequence of [key, answer, created, ttl]
  disk,         \* what was saved last: <<embeddings, entries>>
  hours,        \* time.time()
  stored,       \* answers ever stored, the last one's number
  served        \* the last lookup's answer, or 0 for a miss

cacheVars == <<embeddings, entries, disk, hours, stored, served>>

CacheInit ==
  /\ embeddings = <<>> /\ entries = <<>> /\ disk = <<<<>>, <<>>>>
  /\ hours = 0 /\ stored = 0 /\ served = 0

\* _make_key
Key(q, c) == <<q, IF q \in Dependent THEN c ELSE NoContext>>

Score(i, k) == Similarity[<<embeddings[i], k>>]

\* argmax: the first of the most similar ones.
Best(k) ==
  CHOOSE i \in DOMAIN embeddings : \A j \in DOMAIN embeddings :
    Score(j, k) < Score(i, k) \/ (Score(j, k) = Score(i, k) /\ i <= j)

Expired(e) == hours - e.created > e.ttl

\* Mutant of Evict: pop() without an index.
EvictLast(i) ==
  /\ embeddings' = RemoveAt(embeddings, i)
  /\ entries' = Front(entries)

Evict(i) ==
  /\ embeddings' = RemoveAt(embeddings, i)
  /\ entries' = RemoveAt(entries, i)

\* lookup
Misses(k) ==
  /\ IF entries # <<>> THEN ~ Expired(entries[Best(k)]) /\ Score(Best(k), k) < Threshold ELSE TRUE
  /\ served' = 0
  /\ UNCHANGED <<embeddings, entries>>

FindsExpired(k) ==
  /\ entries # <<>> /\ Expired(entries[Best(k)])
  /\ served' = 0
  /\ Evict(Best(k))

Hits(k) ==
  /\ entries # <<>> /\ ~ Expired(entries[Best(k)]) /\ Score(Best(k), k) >= Threshold
  /\ served' = entries[Best(k)].answer
  /\ UNCHANGED <<embeddings, entries>>

Lookup(k) ==
  /\ Misses(k) \/ FindsExpired(k) \/ Hits(k)
  /\ UNCHANGED <<disk, hours, stored>>

\* _evict_oldest: the first of the oldest ones.
Oldest ==
  CHOOSE i \in DOMAIN entries : \A j \in DOMAIN entries :
    entries[i].created < entries[j].created
      \/ (entries[i].created = entries[j].created /\ i <= j)

StoreAnswer(k, ttl) ==
  /\ stored < MaxStored
  /\ stored' = stored + 1
  /\ LET full == Len(entries) >= MaxEntries
         e == [key |-> k, answer |-> stored', created |-> hours, ttl |-> ttl]
     IN /\ embeddings' = Append(IF full THEN RemoveAt(embeddings, Oldest) ELSE embeddings, k)
        /\ entries' = Append(IF full THEN RemoveAt(entries, Oldest) ELSE entries, e)
  /\ UNCHANGED <<disk, hours, served>>

\* The n-th smallest of a set of numbers.
Nth(I, n) == CHOOSE i \in I : Cardinality({j \in I : j < i}) = n - 1

PurgeExpired ==
  /\ LET keep == {i \in DOMAIN entries : ~ Expired(entries[i])}
     IN /\ embeddings' = [n \in 1 .. Cardinality(keep) |-> embeddings[Nth(keep, n)]]
        /\ entries' = [n \in 1 .. Cardinality(keep) |-> entries[Nth(keep, n)]]
  /\ UNCHANGED <<disk, hours, stored, served>>

Save ==
  /\ disk' = <<embeddings, entries>>
  /\ UNCHANGED <<embeddings, entries, hours, stored, served>>

\* The bridge is stopped while it writes: half a pickle loads as an empty cache.
SaveBreaks ==
  /\ disk' = <<<<>>, <<>>>>
  /\ embeddings' = <<>> /\ entries' = <<>>
  /\ UNCHANGED <<hours, stored, served>>

\* The bridge starts again.
Load ==
  /\ embeddings' = disk[1] /\ entries' = disk[2]
  /\ UNCHANGED <<disk, hours, stored, served>>

HourPasses ==
  /\ hours < MaxHours
  /\ hours' = hours + 1
  /\ UNCHANGED <<embeddings, entries, disk, stored, served>>

CacheNext ==
  \/ \E q \in Queries, c \in Contexts \cup {NoContext} :
       Lookup(Key(q, c)) \/ \E ttl \in Ttls : StoreAnswer(Key(q, c), ttl)
  \/ PurgeExpired \/ Save \/ SaveBreaks \/ Load \/ HourPasses

CacheSpec == CacheInit /\ [][CacheNext]_cacheVars

-----------------------------------------------------------------------------
(* Properties *)

CacheTypeOK ==
  /\ embeddings \in Seq(CacheKeys) /\ Len(entries) <= MaxEntries
  /\ \A i \in DOMAIN entries :
       entries[i] \in [key : CacheKeys, answer : 1 .. stored, created : 0 .. hours, ttl : Ttls]
  /\ served \in 0 .. stored

\* "If similarity >= threshold -> return cached response": whatever was stored, evicted,
\* purged, saved and loaded before, an answer that is served has not expired, was given
\* to a question that is similar enough, and to none less similar than another stored
\* one; and if there was such an answer and none is served, then an expired one at
\* least as similar was in its way, and is gone.
LookupsAreSound ==
  [][\A k \in CacheKeys : Lookup(k) =>
       LET near == {e \in ToSet(entries) : Similarity[<<e.key, k>>] >= Threshold}
           AsNear(e) == \A n \in near : Similarity[<<e.key, k>>] >= Similarity[<<n.key, k>>]
       IN IF served' # 0
          THEN \E e \in near : e.answer = served' /\ ~ Expired(e) /\ AsNear(e)
          ELSE (\E n \in near : ~ Expired(n)) =>
                 \E e \in near \ ToSet(entries') : Expired(e) /\ AsNear(e)]_cacheVars
=============================================================================
