----------------------------- MODULE QueryCache -----------------------------
(***************************************************************************)
(* The query cache of package tenantkit (query_cache.go): a map from the   *)
(* 64-bit hash of a statement to its transformation, guarded by an RWMutex, *)
(* and two counters that are updated atomically but outside the lock.      *)
(*                                                                         *)
(* Every operation of this module is one step that the code takes under    *)
(* the lock or with one atomic instruction.  Get is two of them: the       *)
(* lookup under the read lock, then the increment of a counter.            *)
(***************************************************************************)
EXTENDS Naturals, FiniteSets

CONSTANTS
    Queries,        \* the statements that may be cached
    Results,        \* what a cache entry holds for a statement
    Transform(_),   \* the transformation that callers store for a statement
    HashQuery(_),   \* hashQuery: FNV-1a of the statement
    MaxSize,        \* NewQueryCache(maxSize); Wrap uses 1000
    CounterMod,     \* the counters wrap: 2^64 in the code
    Goroutines      \* the goroutines that share the cache

ASSUME MaxSizeAssumption == MaxSize \in Nat \ {0}
ASSUME CounterModAssumption == CounterMod \in Nat \ {0}
ASSUME TransformAssumption == \A q \in Queries : Transform(q) \in Results

VARIABLES
    entries,    \* QueryCache.entries: a function whose domain is a set of hashes
    hits,       \* QueryCache.hits
    misses,     \* QueryCache.misses
    pending     \* what a goroutine inside Get has found and not yet counted

cacheVars == <<entries, hits, misses, pending>>

Hashes == {HashQuery(q) : q \in Queries}

CacheEntry == [originalQuery : Queries, result : Results]

CacheTypeOK ==
    /\ DOMAIN entries \subseteq Hashes
    /\ \A h \in DOMAIN entries : entries[h] \in CacheEntry
    /\ hits \in 0..(CounterMod - 1)
    /\ misses \in 0..(CounterMod - 1)
    /\ pending \in [Goroutines -> {"none", "hit", "miss"}]

CacheInit ==
    /\ entries = [h \in {} |-> h]
    /\ hits = 0
    /\ misses = 0
    /\ pending = [g \in Goroutines |-> "none"]

Found(q) == HashQuery(q) \in DOMAIN entries

(* The first half of Get: the entry is read under the read lock.           *)
GetLookup(g, q) ==
    /\ pending[g] = "none"
    /\ pending' = [pending EXCEPT ![g] = IF Found(q) THEN "hit" ELSE "miss"]
    /\ UNCHANGED <<entries, hits, misses>>

(* atomic.AddUint64 of 1.                                                  *)
IncUint64(counter) == (counter + 1) % CounterMod

(* The second half of Get, after the unlock: one atomic.AddUint64.         *)
GetCount(g) ==
    /\ pending[g] # "none"
    /\ hits' = IF pending[g] = "hit" THEN IncUint64(hits) ELSE hits
    /\ misses' = IF pending[g] = "miss" THEN IncUint64(misses) ELSE misses
    /\ pending' = [pending EXCEPT ![g] = "none"]
    /\ UNCHANGED entries

(* evictHalf: when the cache is full, entries are deleted in the random     *)
(* order of Go's map iteration until maxSize/2 are left.  The hashes that  *)
(* may survive a Put.                                                      *)
MutantSurvivorsLate ==
    IF Cardinality(DOMAIN entries) > MaxSize
    THEN {kept \in SUBSET DOMAIN entries : Cardinality(kept) = MaxSize \div 2}
    ELSE {DOMAIN entries}

Survivors ==
    IF Cardinality(DOMAIN entries) >= MaxSize
    THEN {kept \in SUBSET DOMAIN entries : Cardinality(kept) = MaxSize \div 2}
    ELSE {DOMAIN entries}

(* The entry that Put stores, in place of one with the same hash.           *)
NewEntry(q, result) == [originalQuery |-> q, result |-> result]

(* Put, with the eviction that precedes the insertion.                     *)
Put(q, result) ==
    /\ \E kept \in Survivors :
          entries' = [h \in kept \cup {HashQuery(q)} |->
                        IF h = HashQuery(q) THEN NewEntry(q, result) ELSE entries[h]]
    /\ UNCHANGED <<hits, misses, pending>>

(* Clear, also DB.ClearQueryCache.                                         *)
Clear ==
    /\ entries' = [h \in {} |-> h]
    /\ hits' = 0
    /\ misses' = 0
    /\ UNCHANGED pending

CacheNext ==
    \/ \E g \in Goroutines, q \in Queries : GetLookup(g, q)
    \/ \E g \in Goroutines : GetCount(g)
    \/ \E q \in Queries : Put(q, Transform(q))
    \/ Clear

CacheSpec == CacheInit /\ [][CacheNext]_cacheVars

-----------------------------------------------------------------------------

(* However many goroutines fill it, the cache never holds more than maxSize *)
(* entries: Put evicts before it inserts, even when the statement is one   *)
(* that is already cached.                                                 *)
CacheBounded == Cardinality(DOMAIN entries) <= MaxSize

(* An entry is filed under the hash of the statement it was computed for   *)
(* and holds that statement's transformation: what Get returns for a hash  *)
(* is right for some statement with this hash.                             *)
CacheCoherent ==
    \A h \in DOMAIN entries :
        /\ HashQuery(entries[h].originalQuery) = h
        /\ entries[h].result = Transform(entries[h].originalQuery)

=============================================================================
