----------------------------- MODULE EntityManager -----------------------------
(***************************************************************************)
(* EntityManager of src/ecs/entity_manager/entity_manager.cpp, the         *)
(* component storages registered with it, and a Query over them            *)
(* (include/cgs/ecs/query.hpp) with its cache.  The ECS is single threaded *)
(* by contract: operations are atomic and come in any order.               *)
(*                                                                         *)
(* A handle is an index with a version.  The version is a byte in the      *)
(* code; VersionCount versions here.  The ghost generation numbers the     *)
(* entities of a slot without wrapping, so that a handle says which of     *)
(* them it was given for.                                                  *)
(***************************************************************************)
EXTENDS ComponentStorage, Integers, FiniteSets, SequencesExt

CONSTANTS Storages,          \* the component storages
          Includes, Excludes,\* what the query asks for
          VersionCount,      \* 256
          MaxCreated,        \* bound: entities created
          MaxPending,        \* bound: deferred destructions
          MaxChanges         \* bound: changes of components

ASSUME EntityAssumption ==
  /\ VersionCount \in Nat \ {0} /\ MaxCreated \in Nat /\ MaxPending \in Nat
  /\ IsFiniteSet(EntityIds) /\ EntityIds = 1..Cardinality(EntityIds) /\ IsFiniteSet(Storages)
  /\ Includes \subseteq Storages /\ Includes # {} /\ Excludes \subseteq Storages

VARIABLES slotVersion,       \* versions_
          slotAlive,         \* alive_
          freeList,          \* freeList_
          liveCount,         \* count_
          stores,            \* the storages' contents
          pending,           \* pendingDestroy_
          flushing,          \* what FlushDeferred() still has to go through
          registered,        \* storages_
          cache,             \* the query's cachedEntities_, cacheVersion_, cacheValid_
          generation,        \* ghost: entities created in each slot so far
          leaked             \* ghost: components of entities destroyed unregistered

slotVars == <<slotVersion, slotAlive, freeList, liveCount>>
ecsVars == <<slotVars, stores, pending, flushing, registered, cache, generation, leaked>>

EcsInit ==
  /\ slotVersion = <<>> /\ slotAlive = <<>> /\ freeList = <<>> /\ liveCount = 0
  /\ stores = [s \in Storages |-> EmptyStorage]
  /\ pending = <<>> /\ flushing = <<>> /\ registered = {}
  /\ cache = [valid |-> FALSE, version |-> 0, entities |-> {}]
  /\ generation = [id \in EntityIds |-> 0]
  /\ leaked = {}

Handle(id, gen) == [id |-> id, version |-> (gen - 1) % VersionCount, gen |-> gen]
Handles == {Handle(id, gen) : id \in EntityIds, gen \in 1..MaxCreated}
Issued(h) == h.gen <= generation[h.id]

\* IsAlive().
IsAlive(h) == h.id <= Len(slotVersion) /\ slotAlive[h.id] /\ slotVersion[h.id] = h.version

\* Ghost: the entities created so far.
Created == FoldLeft(+, 0, [i \in EntityIds |-> generation[i]])

\* Create(): the oldest free slot, or a new one.
Create ==
  LET id == IF freeList # <<>> THEN Head(freeList) ELSE Len(slotVersion) + 1 IN
  /\ id \in EntityIds /\ Created < MaxCreated
  /\ \/ /\ freeList # <<>> /\ freeList' = Tail(freeList)
        /\ slotAlive' = [slotAlive EXCEPT ![id] = TRUE] /\ UNCHANGED slotVersion
     \/ /\ freeList = <<>> /\ slotVersion' = Append(slotVersion, 0)
        /\ slotAlive' = Append(slotAlive, TRUE) /\ UNCHANGED freeList
  /\ liveCount' = liveCount + 1
  /\ generation' = [generation EXCEPT ![id] = @ + 1]
  /\ UNCHANGED <<stores, pending, flushing, registered, cache, leaked>>

\* Remove() on every registered storage; the ghost keeps what is left in the others.
RemoveComponents(id) ==
  /\ stores' = [s \in Storages |-> IF s \in registered THEN RemoveComponent(stores[s], id) ELSE stores[s]]
  /\ leaked' = leaked \cup {<<s, id>> : s \in {t \in Storages \ registered : Has(stores[t], id)}}

\* Mutant of destroyInternal(): the version of the slot stays.
DestroyKeepsVersion(h) ==
  /\ RemoveComponents(h.id)
  /\ slotAlive' = [slotAlive EXCEPT ![h.id] = FALSE]
  /\ freeList' = Append(freeList, h.id) /\ liveCount' = liveCount - 1
  /\ UNCHANGED slotVersion

\* destroyInternal(): the components go, the slot is free and has its next version.
DestroyInternal(h) ==
  /\ RemoveComponents(h.id)
  /\ slotAlive' = [slotAlive EXCEPT ![h.id] = FALSE]
  /\ slotVersion' = [slotVersion EXCEPT ![h.id] = (@ + 1) % VersionCount]
  /\ freeList' = Append(freeList, h.id) /\ liveCount' = liveCount - 1

\* Destroy().
Destroy(h) ==
  /\ Issued(h) /\ IsAlive(h) /\ DestroyInternal(h)
  /\ UNCHANGED <<pending, flushing, registered, cache, generation>>

\* DestroyDeferred().
DestroyDeferred(h) ==
  /\ Issued(h) /\ IsAlive(h) /\ Len(pending) < MaxPending
  /\ pending' = Append(pending, h)
  /\ UNCHANGED <<slotVars, stores, flushing, registered, cache, generation, leaked>>

\* FlushDeferred() takes the queue ...
FlushDeferred ==
  /\ flushing' = pending /\ pending' = <<>>
  /\ UNCHANGED <<slotVars, stores, registered, cache, generation, leaked>>

\* ... and goes through it: an entity that is gone by now is skipped.
FlushOne ==
  /\ flushing # <<>> /\ flushing' = Tail(flushing)
  /\ \/ IsAlive(Head(flushing)) /\ DestroyInternal(Head(flushing))
     \/ ~IsAlive(Head(flushing)) /\ UNCHANGED <<slotVars, stores, leaked>>
  /\ UNCHANGED <<pending, registered, cache, generation>>

\* RegisterStorage().
RegisterStorage(s) ==
  /\ registered' = registered \cup {s} /\ registered' # registered
  /\ UNCHANGED <<slotVars, stores, pending, flushing, cache, generation, leaked>>

\* The sum of the numbers some storages have, as the size of a set.
VersionSum(version, some) == Cardinality(UNION {{s} \X (1..version[s]) : s \in some})
VersionOf == [s \in Storages |-> stores[s].version]
Changes == VersionSum(VersionOf, Storages)

\* A system adds a component to an entity that is alive, changes it, takes it away
\* or clears the storage.
ChangeStorage(s, h) ==
  /\ Issued(h) /\ IsAlive(h) /\ Changes < MaxChanges
  /\ \/ ~Has(stores[s], h.id) /\ stores' = [stores EXCEPT ![s] = Add(@, h.id, h)]
     \/ Has(stores[s], h.id) /\ stores' = [stores EXCEPT ![s] = Replace(@, h.id, h)]
     \/ Has(stores[s], h.id) /\ stores' = [stores EXCEPT ![s] = RemoveComponent(@, h.id)]
  /\ UNCHANGED <<slotVars, pending, flushing, registered, cache, generation, leaked>>

ClearStorage(s) ==
  /\ Changes < MaxChanges
  /\ stores' = [stores EXCEPT ![s] = Clear(@)]
  /\ leaked' = {l \in leaked : l[1] # s}
  /\ UNCHANGED <<slotVars, pending, flushing, registered, cache, generation>>

(***************************************************************************)
(* Query.                                                                  *)
(***************************************************************************)

\* computeVersionFingerprint(): the sum of the versions.
Fingerprint == VersionSum(VersionOf, Includes \cup Excludes)

\* The filters.
Matches(id) == /\ \A s \in Includes : Has(stores[s], id)
               /\ \A s \in Excludes : ~Has(stores[s], id)

\* The include storage to iterate: the first of the smallest.
Smallest ==
  CHOOSE s \in Includes : \A t \in Includes : Len(stores[s].dense) <= Len(stores[t].dense)

\* RefreshCache(): nothing to do while the fingerprint is the same, otherwise the
\* owners in the smallest storage that pass the filters.
RefreshCache ==
  /\ cache' = IF cache.valid /\ cache.version = Fingerprint THEN cache
              ELSE [valid |-> TRUE, version |-> Fingerprint,
                    entities |-> {id \in ToSet(stores[Smallest].entities) : Matches(id)}]
  /\ UNCHANGED <<slotVars, stores, pending, flushing, registered, generation, leaked>>

\* The caller of FlushDeferred() comes back when the whole queue has been gone through.
SlotNext ==
  \/ FlushOne
  \/ /\ flushing = <<>>
     /\ \/ Create \/ FlushDeferred
        \/ \E h \in Handles : Destroy(h) \/ DestroyDeferred(h)

StoreNext ==
  /\ flushing = <<>>
  /\ \/ RefreshCache
     \/ \E s \in Storages : \/ RegisterStorage(s) \/ ClearStorage(s)
                            \/ \E h \in Handles : ChangeStorage(s, h)

EcsSpec == EcsInit /\ [][SlotNext \/ StoreNext]_ecsVars

(***************************************************************************)
(* Properties.                                                             *)
(***************************************************************************)

Component == [id : EntityIds, version : 0..(VersionCount - 1), gen : Nat]
StorageRecord == [dense : Seq(Component), entities : Seq(EntityIds), sparse : [EntityIds -> Nat],
                  version : Nat]

\* Slots, storages and queues name entity ids.
EcsTypeOK ==
  /\ slotVersion \in Seq(0..(VersionCount - 1)) /\ slotAlive \in Seq(BOOLEAN)
  /\ freeList \in Seq(EntityIds) /\ liveCount \in Int
  /\ stores \in [Storages -> StorageRecord] /\ registered \subseteq Storages
  /\ pending \in Seq(Component) /\ flushing \in Seq(Component)
  /\ cache \in [valid : BOOLEAN, version : Nat, entities : SUBSET EntityIds]
  /\ generation \in [EntityIds -> Nat] /\ leaked \subseteq Storages \X EntityIds

\* The allocator's books balance: the free list holds every dead slot once, and the
\* count is that of the living, whatever was destroyed twice, deferred or recycled.
EntitiesAccounted ==
  LET dead == {id \in DOMAIN slotAlive : ~slotAlive[id]} IN
  /\ IsInjective(freeList) /\ ToSet(freeList) = dead
  /\ liveCount = Len(slotAlive) - Cardinality(dead)

\* A handle of an entity that is gone does not pass for the one that has its slot now,
\* unless the version has gone all the way round.
StaleHandleRefused ==
  \A h \in Handles :
    Issued(h) /\ IsAlive(h) =>
      generation[h.id] = h.gen \/ generation[h.id] - h.gen >= VersionCount

\* Storages stay sound, and a component belongs to an entity that is alive, unless its
\* storage was not registered when the entity was destroyed.
ComponentsOwned ==
  \A s \in Storages :
    /\ WellFormed(stores[s])
    /\ \A id \in EntityIds :
         Has(stores[s], id) /\ <<s, id>> \notin leaked =>
           id \in DOMAIN slotAlive /\ slotAlive[id]

\* A cache that would be used as it is holds what a search of all entities finds:
\* additions that make up for removals do not hide a change.
QueryCacheFresh ==
  cache.valid /\ cache.version = Fingerprint =>
    cache.entities = {id \in EntityIds : Matches(id)}

\* Whatever Create(), Destroy(), FlushDeferred() and the storages are called for and in which
\* order: the free list and the count are right, a stale handle reaches nobody else's entity,
\* components belong to the living, and a query's cache is what a search would find.
EcsSound == EntitiesAccounted /\ StaleHandleRefused /\ ComponentsOwned /\ QueryCacheFresh
=============================================================================
