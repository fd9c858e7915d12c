------------------------------ MODULE QueryCache ------------------------------
(***************************************************************************)
(* QueryCache of src/services/dbproxy/query_cache.cpp: an LRU list, most   *)
(* recently used first, an index into it and a time to live per entry.     *)
(* Every operation holds the cache's mutex and is one action.  A key is a  *)
(* SELECT statement; only the tables it mentions matter.  Time is kept as  *)
(* the time an entry has left, so expiresAt <= now is left = 0.            *)
(*                                                                         *)
(* The counters hits and misses are read by statistics only and left out,  *)
(* as is evictExpired(), which nobody calls.                               *)
(***************************************************************************)
EXTENDS Naturals, Sequences, FiniteSets, SequencesExt

CONSTANTS Queries,       \* the SELECT statements
          Tables,
          Mentions,      \* the tables whose name occurs in a statement
          MaxEntries,    \* CacheConfig::maxEntries
          DefaultTtl     \* CacheConfig::defaultTtl

ASSUME CacheAssumption ==
  /\ Mentions \in [Queries -> SUBSET Tables]
  /\ MaxEntries \in Nat /\ DefaultTtl \in Nat \ {0}

VARIABLES lruList,       \* Impl::lruList
          index          \* Impl::index: the keys it has an iterator for

cacheVars == <<lruList, index>>

\* struct CacheEntry, with two ghosts.  raced: a write has overtaken the read of this
\* result, or the replica it was read from was behind.  missed: a table it mentions has
\* since been changed by a write that invalidates nothing, see DBProxyServer.
CacheEntry(q, r, isRaced) ==
  [sql |-> q, result |-> r, left |-> DefaultTtl, raced |-> isRaced, missed |-> FALSE]

\* What a statement may return: a number for each table it mentions.
Results == UNION {[S -> Nat] : S \in SUBSET Tables}
CacheRecord == [sql : Queries, result : Results, left : Nat, raced : BOOLEAN, missed : BOOLEAN]

CacheInit == lruList = <<>> /\ index = {}

\* The entry a key of the index leads to, and the list when it has been taken out.
PositionOf(q) == CHOOSE i \in DOMAIN lruList : lruList[i].sql = q
EntryOf(q) == lruList[PositionOf(q)]
Without(q) == RemoveAt(lruList, PositionOf(q))

\* A lookup that finds an entry which is still valid.
CacheHit(q) == q \in index /\ EntryOf(q).left > 0

\* Mutant of touch(): using an entry prolongs its life.
TouchProlongs(q) == lruList' = <<[EntryOf(q) EXCEPT !.left = DefaultTtl]>> \o Without(q)

\* touch(): the entry moves to the front.
Touch(q) == lruList' = <<EntryOf(q)>> \o Without(q)

\* get(): a hit touches the entry, an expired entry goes, a miss changes nothing.
Get(q) ==
  \/ CacheHit(q) /\ Touch(q) /\ UNCHANGED index
  \/ /\ q \in index /\ ~CacheHit(q)
     /\ lruList' = Without(q) /\ index' = index \ {q}
  \/ q \notin index /\ UNCHANGED cacheVars

\* Mutant of put(): the evicted key keeps its place in the index.
PutKeepsVictim(q, r, isRaced) ==
  LET victim == Len(lruList) >= MaxEntries /\ lruList # <<>> /\ q \notin index
      kept == IF victim THEN Front(lruList) ELSE IF q \in index THEN Without(q) ELSE lruList
  IN  lruList' = <<CacheEntry(q, r, isRaced)>> \o kept /\ index' = index \cup {q}

\* put(): an update in place, or evictLru() when full and a new entry in front.
Put(q, r, isRaced) ==
  \/ /\ q \in index
     /\ lruList' = <<CacheEntry(q, r, isRaced)>> \o Without(q)
     /\ UNCHANGED index
  \/ /\ q \notin index
     /\ LET evict == Len(lruList) >= MaxEntries /\ lruList # <<>>
            kept == IF evict THEN Front(lruList) ELSE lruList
            rest == IF evict THEN index \ {Last(lruList).sql} ELSE index
        IN  lruList' = <<CacheEntry(q, r, isRaced)>> \o kept /\ index' = rest \cup {q}

\* invalidate().
Invalidate(q) ==
  \/ q \in index /\ lruList' = Without(q) /\ index' = index \ {q}
  \/ q \notin index /\ UNCHANGED cacheVars

\* The entries at some positions stay, in their order.
Keep(positions) ==
  \E f \in [1..Cardinality(positions) -> positions] :
    /\ \A i, j \in DOMAIN f : i < j => f[i] < f[j]
    /\ lruList' = [i \in DOMAIN f |-> lruList[f[i]]]

\* invalidateByTable(): every statement that mentions the table goes.
InvalidateByTable(t) ==
  /\ Keep({i \in DOMAIN lruList : t \notin Mentions[lruList[i].sql]})
  /\ index' = {q \in index : t \notin Mentions[q]}

\* clear().
CacheClear == lruList' = <<>> /\ index' = {}

\* Time passes; nothing is removed before somebody looks.
CacheTick ==
  /\ \E i \in DOMAIN lruList : lruList[i].left > 0
  /\ lruList' = [i \in DOMAIN lruList |->
                  [lruList[i] EXCEPT !.left = IF @ > 0 THEN @ - 1 ELSE 0]]
  /\ UNCHANGED index

\* get() dereferences what the index holds and the list owns the entries: after
\* any sequence of evictions, expiries and invalidations they name the same keys,
\* each once, and the list stays within maxEntries (one entry when that is 0).
CacheConsistent ==
  /\ index = {lruList[i].sql : i \in DOMAIN lruList}
  /\ \A i, j \in DOMAIN lruList : lruList[i].sql = lruList[j].sql => i = j
  /\ Len(lruList) <= MaxEntries \/ Len(lruList) = 1
=============================================================================
