------------------------------ MODULE WorldProofs ------------------------------
(***************************************************************************)
(* Proofs about the game service: what addPlayer(), removePlayer(),        *)
(* transferPlayer(), createInstance() and destroyInstance() leave behind   *)
(* when their steps interleave.  And about the plugins of a game server:   *)
(* the order they are loaded in, what may be up, and what hot reload may   *)
(* overlook.  And about the quests and the items of a player and the       *)
(* combat of a victim.  The lemmas about lists are those of EcsProofs.     *)
(*                                                                         *)
(* The load order is the result of a sort like the scheduler's             *)
(* (PlacingInv).  That dependencies are up needs how far an operation on   *)
(* all plugins has come (ProgressInv): InitializeAll() has those in front  *)
(* up, ShutdownAll() those behind down.  That a quest is rewarded once     *)
(* needs that one which can be turned in again is repeatable (OpenAgain).  *)
(* That an aura does not tick too often needs that renewing it never       *)
(* shortens it (AuraFine).  That items are conserved rests on what one     *)
(* changed slot does to a cardinality (OneSlotChanged).                    *)
(***************************************************************************)
EXTENDS GameServer, HotReload, QuestLog, Combat, Inventory, EcsProofs, FiniteSetTheorems, SequenceTheorems, TLAPS

(***************************************************************************)
(* The invariant.                                                          *)
(***************************************************************************)

\* playerMutex: one thread at a time is inside a player operation.
OneInPlayerOps ==
  \A t, u \in Threads : threadAt[t].op \in PlayerOps /\ threadAt[u].op \in PlayerOps => t = u

\* Ids are handed out once: nothing refers to one that has not been.
IdsFresh ==
  /\ \A i \in InstanceIds : i >= nextInstance => ~InstanceExists(i) /\ i \notin mapped
  /\ \A t \in Threads : threadAt[t].op \notin {"idle", "remove"} => threadAt[t].instance < nextInstance
  /\ \A p \in Players : playerSessions[p] < nextInstance

\* An instance is mapped once, by the thread that created it, and unmapped when it is gone.
MappingOnce ==
  /\ \A t \in Threads : threadAt[t].op = "map" =>
       /\ threadAt[t].instance \notin mapped
       /\ threadAt[t].instance \in dropped \/ InstanceExists(threadAt[t].instance)
       /\ \A u \in Threads : threadAt[u].op = "map" /\ threadAt[u].instance = threadAt[t].instance => t = u
  /\ \A t \in Threads : threadAt[t].op = "unmap" => ~InstanceExists(threadAt[t].instance)

\* What a player operation relies on between its steps: the slot it has taken keeps its
\* instance, and the player's session is the one it found.
OperationHolds ==
  \A t \in Threads :
    LET i == threadAt[t].instance s == playerSessions[threadAt[t].player] IN
    /\ threadAt[t].op \in {"add", "spawn", "slot", "release", "move"} => InstanceExists(i)
    /\ threadAt[t].op \in {"add", "spawn", "remove"} => s = 0
    /\ threadAt[t].op \in {"slot", "release", "move"} => s \notin {0, i}
    /\ threadAt[t].op \in {"spawn", "release", "move"} => i \in mapped

WorldInv ==
  /\ WorldTypeOK /\ OneInPlayerOps /\ IdsFresh /\ MappingOnce /\ OperationHolds
  /\ WorldConsistent

(***************************************************************************)
(* Counting.                                                               *)
(***************************************************************************)

SlotOps == {"add", "spawn", "slot", "release", "move"}

\* In(), Ahead() and Behind() for given sessions and threads.
PlayersIn(ps, i) == Cardinality({p \in Players : ps[p] = i})
AheadIn(th, i) == Cardinality({t \in Threads : th[t].op \in SlotOps /\ th[t].instance = i})
BehindIn(th, ps, i) == Cardinality({t \in Threads : th[t].op = "move" /\ ps[th[t].player] = i})

\* What one thread contributes to them.
AheadBy(th, i) == IF th.op \in SlotOps /\ th.instance = i THEN 1 ELSE 0
BehindBy(th, ps, i) == IF th.op = "move" /\ ps[th.player] = i THEN 1 ELSE 0

\* A set within a singleton.
LEMMA AtMostOne ==
  ASSUME NEW S, NEW u, S \subseteq {u} PROVE Cardinality(S) = IF u \in S THEN 1 ELSE 0
<1>1. CASE u \in S
  <2>1. S = {u}
    BY <1>1
  <2>. QED BY <1>1, <2>1, FS_Singleton
<1>2. CASE u \notin S
  <2>1. S = {}
    BY <1>2
  <2>. QED BY <1>2, <2>1, FS_EmptySet
<1>. QED BY <1>1, <1>2

\* With playerMutex in the hands of one thread at most, only that thread counts.
LEMMA SoleThread ==
  ASSUME NEW th, NEW ps, NEW t \in Threads, NEW i,
         \A u \in Threads : u # t => th[u].op \notin PlayerOps
  PROVE  AheadIn(th, i) = AheadBy(th[t], i) /\ BehindIn(th, ps, i) = BehindBy(th[t], ps, i)
<1> DEFINE A == {u \in Threads : th[u].op \in SlotOps /\ th[u].instance = i}
           B == {u \in Threads : th[u].op = "move" /\ ps[th[u].player] = i}
<1>1. A \subseteq {t} /\ B \subseteq {t}
  BY DEF SlotOps, PlayerOps
<1>2. (t \in A <=> th[t].op \in SlotOps /\ th[t].instance = i)
      /\ (t \in B <=> th[t].op = "move" /\ ps[th[t].player] = i)
  OBVIOUS
<1>3. AheadIn(th, i) = Cardinality(A) /\ BehindIn(th, ps, i) = Cardinality(B)
  BY DEF AheadIn, BehindIn
<1> HIDE DEF A, B
<1>4. Cardinality(A) = IF t \in A THEN 1 ELSE 0
  BY <1>1, AtMostOne
<1>5. Cardinality(B) = IF t \in B THEN 1 ELSE 0
  BY <1>1, AtMostOne
<1>. QED BY <1>2, <1>3, <1>4, <1>5 DEF AheadBy, BehindBy

\* The model's counts before and after a step.
LEMMA ThreadsCounted ==
  ASSUME NEW i
  PROVE  /\ Ahead(i) = AheadIn(threadAt, i) /\ Behind(i) = BehindIn(threadAt, playerSessions, i)
         /\ In(i) = PlayersIn(playerSessions, i)
         /\ Ahead(i)' = AheadIn(threadAt', i) /\ Behind(i)' = BehindIn(threadAt', playerSessions', i)
         /\ In(i)' = PlayersIn(playerSessions', i)
BY DEF Ahead, Behind, In, AheadIn, BehindIn, PlayersIn, SlotOps

\* A finite set with and without one element.
LEMMA OneLess ==
  ASSUME NEW S, IsFiniteSet(S), NEW p
  PROVE  /\ Cardinality(S \ {p}) \in Nat
         /\ Cardinality(S) = Cardinality(S \ {p}) + (IF p \in S THEN 1 ELSE 0)
<1>1. Cardinality(S) \in Nat
  BY FS_CardinalityType
<1>2. CASE p \in S
  <2>1. IsFiniteSet(S \ {p}) /\ Cardinality(S \ {p}) = Cardinality(S) - 1
    BY <1>2, FS_RemoveElement
  <2>2. Cardinality(S \ {p}) \in Nat
    BY <2>1, FS_CardinalityType, Zenon
  <2>. QED BY <1>1, <1>2, <2>1, <2>2
<1>3. CASE p \notin S
  <2>1. S \ {p} = S
    BY <1>3
  <2>2. Cardinality(S \ {p}) = Cardinality(S)
    BY <2>1, Zenon
  <2>. QED BY <1>1, <1>3, <2>2
<1>. QED BY <1>2, <1>3

\* The players of an instance.
LEMMA PlayersFinite ==
  ASSUME NEW f, NEW i
  PROVE  IsFiniteSet({p \in Players : f[p] = i}) /\ PlayersIn(f, i) \in Nat
<1> DEFINE A == {p \in Players : f[p] = i}
<1>1. A \subseteq Players
  OBVIOUS
<1>2. PlayersIn(f, i) = Cardinality(A)
  BY DEF PlayersIn
<1> HIDE DEF A
<1>3. IsFiniteSet(A)
  BY <1>1, ServerAssumption, FS_Subset
<1>4. Cardinality(A) \in Nat
  BY <1>3, FS_CardinalityType
<1>. QED BY <1>2, <1>3, <1>4 DEF A

\* A player whose session changes leaves one instance and enters another.
LEMMA SessionChanges ==
  ASSUME NEW p \in Players, \A q \in Players : q # p => playerSessions'[q] = playerSessions[q], NEW i
  PROVE  /\ PlayersIn(playerSessions', i) \in Nat
         /\ PlayersIn(playerSessions', i) + (IF playerSessions[p] = i THEN 1 ELSE 0)
              = PlayersIn(playerSessions, i) + (IF playerSessions'[p] = i THEN 1 ELSE 0)
<1> DEFINE A == {q \in Players : playerSessions[q] = i}
           B == {q \in Players : playerSessions'[q] = i}
<1>1. IsFiniteSet(A) /\ IsFiniteSet(B)
  <2>1. A \subseteq Players /\ B \subseteq Players
    OBVIOUS
  <2> HIDE DEF A, B
  <2>. QED BY <2>1, ServerAssumption, FS_Subset
<1>2. PlayersIn(playerSessions, i) = Cardinality(A) /\ PlayersIn(playerSessions', i) = Cardinality(B)
  BY DEF PlayersIn
<1>3. A \ {p} = B \ {p} /\ (p \in A <=> playerSessions[p] = i) /\ (p \in B <=> playerSessions'[p] = i)
  OBVIOUS
<1> HIDE DEF A, B
<1>4. /\ Cardinality(A) = Cardinality(A \ {p}) + (IF p \in A THEN 1 ELSE 0)
      /\ Cardinality(A \ {p}) \in Nat
  BY <1>1, OneLess
<1>5. Cardinality(B) = Cardinality(B \ {p}) + (IF p \in B THEN 1 ELSE 0)
  BY <1>1, OneLess
<1>6. Cardinality(B \ {p}) = Cardinality(A \ {p})
  BY <1>3
<1> DEFINE before == IF playerSessions[p] = i THEN 1 ELSE 0
           after == IF playerSessions'[p] = i THEN 1 ELSE 0
<1>7. /\ Cardinality(A) = Cardinality(A \ {p}) + before /\ Cardinality(B) = Cardinality(A \ {p}) + after
      /\ before \in Nat /\ after \in Nat
  BY <1>3, <1>4, <1>5, <1>6
<1> HIDE DEF before, after
<1>8. Cardinality(B) \in Nat /\ Cardinality(B) + before = Cardinality(A) + after
  BY <1>4, <1>7
<1>9. /\ PlayersIn(playerSessions', i) \in Nat
      /\ PlayersIn(playerSessions', i) + before = PlayersIn(playerSessions, i) + after
  BY <1>2, <1>8
<1>. QED BY <1>9, Zenon DEF before, after

\* An instance with a player.
LEMMA Inhabited ==
  ASSUME NEW f, NEW p \in Players, NEW i, f[p] = i PROVE PlayersIn(f, i) > 0
<1> DEFINE A == {q \in Players : f[q] = i}
<1>1. IsFiniteSet(A) /\ PlayersIn(f, i) = Cardinality(A) /\ p \in A
  BY PlayersFinite DEF PlayersIn
<1> HIDE DEF A
<1>2. Cardinality(A \ {p}) \in Nat /\ Cardinality(A) = Cardinality(A \ {p}) + (IF p \in A THEN 1 ELSE 0)
  BY <1>1, OneLess, Zenon
<1>. QED BY <1>1, <1>2

(***************************************************************************)
(* Steps under playerMutex.                                                *)
(***************************************************************************)

\* The thread that holds the mutex goes from one stage to another.  Instances keep their
\* state; what is left to show is about this thread, the counts and the players.
LEMMA PlayerStep ==
  ASSUME WorldInv, NEW t \in Threads, NEW new,
         \A u \in Threads : u # t => threadAt[u].op \notin PlayerOps,
         threadAt[t].op \in {"idle"} \cup PlayerOps, new.op \in {"idle"} \cup PlayerOps,
         ThreadOK(new), new.op \notin {"idle", "remove"} => new.instance < nextInstance,
         threadAt' = [threadAt EXCEPT ![t] = new],
         instances' \in [InstanceIds -> MapInstanceRecord],
         \A i \in InstanceIds : instances'[i].state = instances[i].state,
         UNCHANGED <<nextInstance, mapped, dropped>>,
         playerSessions' \in [Players -> InstanceIds \cup {0}],
         membership' \in [Players -> InstanceIds \cup {0}],
         \A p \in Players : playerSessions'[p] < nextInstance,
         new.op \in SlotOps => instances[new.instance].state # "None",
         new.op \in {"add", "spawn", "remove"} => playerSessions'[new.player] = 0,
         new.op \in {"slot", "release", "move"} => playerSessions'[new.player] \notin {0, new.instance},
         new.op \in {"spawn", "release", "move"} => new.instance \in mapped,
         \A i \in InstanceIds : instances[i].state # "None" =>
           instances'[i].count + BehindBy(new, playerSessions', i)
             = PlayersIn(playerSessions', i) + AheadBy(new, i),
         \A p \in Players :
           playerSessions'[p] # 0 /\ ~(new.op = "move" /\ new.player = p) =>
             /\ instances[playerSessions'[p]].state # "None" /\ playerSessions'[p] \in mapped
             /\ membership'[p] = playerSessions'[p]
  PROVE  WorldInv'
<1>1. DOMAIN threadAt = Threads /\ \A u \in Threads : ThreadOK(threadAt[u])
  BY DEF WorldInv, WorldTypeOK
<1>2. DOMAIN threadAt' = Threads /\ threadAt'[t] = new /\ \A u \in Threads : u # t => threadAt'[u] = threadAt[u]
  BY <1>1
<1>3. WorldTypeOK'
  <2>1. \A u \in Threads : ThreadOK(threadAt'[u])
    BY <1>1, <1>2
  <2>2. nextInstance' \in Nat \ {0} /\ mapped' \subseteq InstanceIds /\ dropped' \subseteq InstanceIds
    BY DEF WorldInv, WorldTypeOK
  <2>. QED BY <1>2, <2>1, <2>2 DEF WorldTypeOK, ThreadOK
<1>4. \A u \in Threads : u # t => threadAt'[u].op \notin PlayerOps
  BY <1>2
<1>5. OneInPlayerOps'
  BY <1>4 DEF OneInPlayerOps
<1>6. IdsFresh'
  <2>1. \A i \in InstanceIds : i >= nextInstance' => ~InstanceExists(i)' /\ i \notin mapped'
    BY DEF WorldInv, IdsFresh, InstanceExists
  <2>2. \A u \in Threads : threadAt'[u].op \notin {"idle", "remove"} => threadAt'[u].instance < nextInstance'
    BY <1>2 DEF WorldInv, IdsFresh
  <2>. QED BY <2>1, <2>2 DEF IdsFresh
<1>7. \A u \in Threads : threadAt'[u].op \in {"map", "unmap"} => threadAt'[u] = threadAt[u]
  BY <1>2 DEF PlayerOps
<1>8. \A u \in Threads : threadAt[u].op \in {"map", "unmap"} => threadAt'[u] = threadAt[u]
  BY <1>2 DEF PlayerOps
<1>9. \A u \in Threads : threadAt[u].op \in {"map", "unmap"} => threadAt[u].instance \in InstanceIds
  BY <1>1 DEF ThreadOK
<1>10. MappingOnce'
  BY <1>7, <1>8, <1>9 DEF WorldInv, MappingOnce, InstanceExists
<1>11. MapEntityFollows'
  BY <1>7, <1>8 DEF WorldInv, WorldConsistent, MapEntityFollows, InstanceExists
<1>12. new.op \in SlotOps => new.instance \in InstanceIds
  BY DEF ThreadOK, SlotOps, PlayerOps
<1>13. OperationHolds'
  <2> SUFFICES ASSUME NEW u \in Threads
               PROVE  /\ threadAt'[u].op \in {"add", "spawn", "slot", "release", "move"}
                           => instances'[threadAt'[u].instance].state # "None"
                      /\ threadAt'[u].op \in {"add", "spawn", "remove"}
                           => playerSessions'[threadAt'[u].player] = 0
                      /\ threadAt'[u].op \in {"slot", "release", "move"}
                           => playerSessions'[threadAt'[u].player] \notin {0, threadAt'[u].instance}
                      /\ threadAt'[u].op \in {"spawn", "release", "move"} => threadAt'[u].instance \in mapped'
    BY DEF OperationHolds, InstanceExists
  <2>1. CASE u # t
    BY <1>4, <2>1 DEF PlayerOps
  <2>2. CASE u = t
    BY <1>2, <1>12, <2>2 DEF SlotOps
  <2>. QED BY <2>1, <2>2
<1>14. SlotsAccounted'
  <2> SUFFICES ASSUME NEW i \in InstanceIds, InstanceExists(i)'
               PROVE  instances'[i].count + Behind(i)' = In(i)' + Ahead(i)'
    BY DEF SlotsAccounted
  <2>1. instances[i].state # "None"
    BY DEF InstanceExists
  <2>2. AheadIn(threadAt', i) = AheadBy(threadAt'[t], i)
        /\ BehindIn(threadAt', playerSessions', i) = BehindBy(threadAt'[t], playerSessions', i)
    <3>1. PICK th, ps : th = threadAt' /\ ps = playerSessions'
      OBVIOUS
    <3>2. \A u \in Threads : u # t => th[u].op \notin PlayerOps
      BY <1>4, <3>1
    <3>3. AheadIn(th, i) = AheadBy(th[t], i) /\ BehindIn(th, ps, i) = BehindBy(th[t], ps, i)
      BY <3>2, SoleThread
    <3>. QED BY <3>1, <3>3
  <2>3. /\ Ahead(i)' = AheadIn(threadAt', i) /\ Behind(i)' = BehindIn(threadAt', playerSessions', i)
        /\ In(i)' = PlayersIn(playerSessions', i)
    BY ThreadsCounted
  <2>4. threadAt'[t] = new
    BY <1>2
  <2>5. instances'[i].count + BehindBy(new, playerSessions', i)
          = PlayersIn(playerSessions', i) + AheadBy(new, i)
    BY <2>1
  <2>. QED BY <2>2, <2>3, <2>4, <2>5
<1>15. PlayerHasWorld'
  <2> SUFFICES ASSUME NEW p \in Players, playerSessions'[p] # 0,
                      \A u \in Threads : ~(threadAt'[u].op = "move" /\ threadAt'[u].player = p)
               PROVE  /\ instances'[playerSessions'[p]].state # "None"
                      /\ playerSessions'[p] \in mapped' /\ membership'[p] = playerSessions'[p]
    BY DEF PlayerHasWorld, InstanceExists
  <2>1. ~(new.op = "move" /\ new.player = p)
    BY <1>2
  <2>2. playerSessions'[p] \in InstanceIds
    OBVIOUS
  <2>. QED BY <2>1, <2>2
<1>. QED BY <1>3, <1>5, <1>6, <1>10, <1>11, <1>13, <1>14, <1>15 DEF WorldInv, WorldConsistent

\* Instance ids are positive numbers.
LEMMA IdsPositive == \A i \in InstanceIds : i \in Nat \ {0}
<1>1. Cardinality(InstanceIds) \in Nat
  BY ServerAssumption, FS_CardinalityType
<1>. QED BY <1>1, ServerAssumption

\* What the thread with the mutex, or one that may take it, knows.
LEMMA Holding ==
  ASSUME WorldInv, NEW t \in Threads,
         (threadAt[t].op = "idle" /\ PlayerLockFree) \/ threadAt[t].op \in PlayerOps
  PROVE  /\ \A u \in Threads : u # t => threadAt[u].op \notin PlayerOps
         /\ \A i \in InstanceIds : instances[i].state # "None" =>
              instances[i].count + BehindBy(threadAt[t], playerSessions, i)
                = PlayersIn(playerSessions, i) + AheadBy(threadAt[t], i)
         /\ \A i \in InstanceIds : instances[i].count \in Nat /\ PlayersIn(playerSessions, i) \in Nat
         /\ \A p \in Players :
              playerSessions[p] # 0 /\ ~(threadAt[t].op = "move" /\ threadAt[t].player = p) =>
                /\ instances[playerSessions[p]].state # "None" /\ playerSessions[p] \in mapped
                /\ membership[p] = playerSessions[p]
<1>1. \A u \in Threads : u # t => threadAt[u].op \notin PlayerOps
  BY DEF PlayerLockFree, WorldInv, OneInPlayerOps
<1>2. ASSUME NEW i \in InstanceIds, instances[i].state # "None"
      PROVE  instances[i].count + BehindBy(threadAt[t], playerSessions, i)
               = PlayersIn(playerSessions, i) + AheadBy(threadAt[t], i)
  <2>1. /\ AheadIn(threadAt, i) = AheadBy(threadAt[t], i)
        /\ BehindIn(threadAt, playerSessions, i) = BehindBy(threadAt[t], playerSessions, i)
    BY <1>1, SoleThread
  <2>2. instances[i].count + Behind(i) = In(i) + Ahead(i)
    BY <1>2 DEF WorldInv, WorldConsistent, SlotsAccounted, InstanceExists
  <2>3. Ahead(i) = AheadIn(threadAt, i) /\ Behind(i) = BehindIn(threadAt, playerSessions, i)
        /\ In(i) = PlayersIn(playerSessions, i)
    BY ThreadsCounted
  <2>. QED BY <2>1, <2>2, <2>3
<1>3. \A i \in InstanceIds : instances[i].count \in Nat
  BY DEF WorldInv, WorldTypeOK, MapInstanceRecord
<1>4. \A u \in Threads : u # t => threadAt[u].op # "move"
  BY <1>1 DEF PlayerOps
<1>5. ASSUME NEW p \in Players, playerSessions[p] # 0, ~(threadAt[t].op = "move" /\ threadAt[t].player = p)
      PROVE  /\ instances[playerSessions[p]].state # "None" /\ playerSessions[p] \in mapped
             /\ membership[p] = playerSessions[p]
  BY <1>4, <1>5 DEF WorldInv, WorldConsistent, PlayerHasWorld, InstanceExists
<1>. QED BY <1>1, <1>2, <1>3, <1>5, PlayersFinite

\* MapInstanceManager::addPlayer() counts one player more.
LEMMA SlotTaken ==
  ASSUME WorldTypeOK, NEW i \in InstanceIds, TakeSlot(i)
  PROVE  /\ instances' \in [InstanceIds -> MapInstanceRecord]
         /\ instances'[i].count = instances[i].count + 1
         /\ \A j \in InstanceIds : /\ instances'[j].state = instances[j].state
                                   /\ j # i => instances'[j].count = instances[j].count
<1>1. instances \in [InstanceIds -> MapInstanceRecord]
  BY DEF WorldTypeOK
<1> DEFINE new == [instances[i] EXCEPT !.count = instances[i].count + 1]
<1>2. new \in MapInstanceRecord /\ new.state = instances[i].state /\ new.count = instances[i].count + 1
  BY <1>1 DEF MapInstanceRecord
<1>3. instances' = [instances EXCEPT ![i] = new]
  BY DEF TakeSlot
<1> HIDE DEF new
<1>. QED BY <1>1, <1>2, <1>3

\* MapInstanceManager::removePlayer() counts one less, if there is one.
LEMMA SlotGiven ==
  ASSUME WorldTypeOK, NEW i \in InstanceIds, GiveSlot(i)
  PROVE  /\ instances' \in [InstanceIds -> MapInstanceRecord]
         /\ instances[i].state # "None" /\ instances[i].count > 0
              => instances'[i].count = instances[i].count - 1
         /\ \A j \in InstanceIds : /\ instances'[j].state = instances[j].state
                                   /\ j # i => instances'[j].count = instances[j].count
<1>1. instances \in [InstanceIds -> MapInstanceRecord]
  BY DEF WorldTypeOK
<1> DEFINE n == IF InstanceExists(i) /\ instances[i].count > 0 THEN instances[i].count - 1
                ELSE instances[i].count
           new == [instances[i] EXCEPT !.count = n]
<1>2. n \in Nat /\ (instances[i].state # "None" /\ instances[i].count > 0 => n = instances[i].count - 1)
  BY <1>1 DEF MapInstanceRecord, InstanceExists
<1>3. instances' = [instances EXCEPT ![i] = new]
  BY DEF GiveSlot
<1> HIDE DEF n
<1>4. new \in MapInstanceRecord /\ new.state = instances[i].state /\ new.count = n
  BY <1>1, <1>2 DEF MapInstanceRecord
<1> HIDE DEF new
<1>. QED BY <1>1, <1>2, <1>3, <1>4

\* A thread outside any operation.
LEMMA IdleOK == ThreadOK(IdleThread) /\ IdleThread.op = "idle"
BY DEF ThreadOK, IdleThread, PlayerOps

\* A thread that has begun one.
LEMMA StageOK ==
  ASSUME NEW op \in PlayerOps, NEW i, op # "remove" => i \in InstanceIds, NEW p \in Players
  PROVE  LET th == [op |-> op, instance |-> i, player |-> p] IN
         ThreadOK(th) /\ th.op = op /\ th.instance = i /\ th.player = p
BY DEF ThreadOK, PlayerOps

\* The first step of addPlayer() and of transferPlayer(): a slot is taken.
LEMMA TakeStep ==
  ASSUME WorldInv, NEW t \in Threads, NEW p \in Players, NEW i \in InstanceIds, NEW op \in {"add", "slot"},
         ThreadIdle(t), PlayerLockFree, HasRoom(i), TakeSlot(i), ThreadGoto(t, op, i, p),
         op = "add" => playerSessions[p] = 0, op = "slot" => playerSessions[p] \notin {0, i},
         UNCHANGED <<nextInstance, mapped, playerSessions, membership, dropped>>
  PROVE  WorldInv'
<1> DEFINE new == [op |-> op, instance |-> i, player |-> p]
<1>1. ThreadOK(new) /\ new.op = op /\ new.instance = i /\ new.player = p
  BY StageOK DEF PlayerOps
<1>2. threadAt' = [threadAt EXCEPT ![t] = new]
  BY DEF ThreadGoto
<1> HIDE DEF new
<1>3. threadAt[t].op = "idle"
  BY DEF ThreadIdle
<1>4. /\ \A u \in Threads : u # t => threadAt[u].op \notin PlayerOps
      /\ \A j \in InstanceIds : instances[j].state # "None" =>
           instances[j].count + BehindBy(threadAt[t], playerSessions, j)
             = PlayersIn(playerSessions, j) + AheadBy(threadAt[t], j)
      /\ \A j \in InstanceIds : instances[j].count \in Nat /\ PlayersIn(playerSessions, j) \in Nat
      /\ \A q \in Players : playerSessions[q] # 0 =>
           /\ instances[playerSessions[q]].state # "None" /\ playerSessions[q] \in mapped
           /\ membership[q] = playerSessions[q]
  BY <1>3, Holding
<1>5. /\ WorldTypeOK /\ playerSessions' = playerSessions /\ membership' = membership
      /\ playerSessions \in [Players -> InstanceIds \cup {0}]
      /\ membership \in [Players -> InstanceIds \cup {0}]
      /\ \A q \in Players : playerSessions[q] < nextInstance
  BY DEF WorldInv, WorldTypeOK, IdsFresh
<1>6. /\ instances' \in [InstanceIds -> MapInstanceRecord]
      /\ instances'[i].count = instances[i].count + 1
      /\ \A j \in InstanceIds : /\ instances'[j].state = instances[j].state
                                /\ j # i => instances'[j].count = instances[j].count
  BY <1>5, SlotTaken
<1>7. i < nextInstance /\ instances[i].state # "None"
  <2>1. instances[i].state # "None"
    BY DEF HasRoom
  <2>2. i \in Nat /\ nextInstance \in Nat
    BY IdsPositive DEF WorldInv, WorldTypeOK
  <2>3. ~(i >= nextInstance)
    BY <2>1 DEF WorldInv, IdsFresh, InstanceExists
  <2>. QED BY <2>1, <2>2, <2>3
<1>8. ASSUME NEW j \in InstanceIds, instances[j].state # "None"
      PROVE  instances'[j].count + BehindBy(new, playerSessions', j)
               = PlayersIn(playerSessions', j) + AheadBy(new, j)
  <2>1. BehindBy(threadAt[t], playerSessions, j) = 0 /\ AheadBy(threadAt[t], j) = 0
    BY <1>3 DEF BehindBy, AheadBy, SlotOps
  <2>2. BehindBy(new, playerSessions', j) = 0 /\ AheadBy(new, j) = IF j = i THEN 1 ELSE 0
    BY <1>1 DEF BehindBy, AheadBy, SlotOps
  <2>3. instances[j].count = PlayersIn(playerSessions, j) /\ PlayersIn(playerSessions, j) \in Nat
    BY <1>4, <1>8, <2>1
  <2>4. PlayersIn(playerSessions', j) = PlayersIn(playerSessions, j)
    BY <1>5
  <2>. QED BY <1>6, <2>2, <2>3, <2>4
<1>9. /\ new.op \in {"idle"} \cup PlayerOps /\ threadAt[t].op \in {"idle"} \cup PlayerOps
      /\ new.op \notin {"spawn", "release", "move"}
  BY <1>1, <1>3 DEF PlayerOps
<1>10. /\ new.op \in {"add", "spawn", "remove"} => playerSessions'[new.player] = 0
       /\ new.op \in {"slot", "release", "move"} => playerSessions'[new.player] \notin {0, new.instance}
       /\ instances[new.instance].state # "None" /\ new.instance < nextInstance
  BY <1>1, <1>5, <1>7
<1>11. \A q \in Players : playerSessions'[q] # 0 =>
         /\ instances[playerSessions'[q]].state # "None" /\ playerSessions'[q] \in mapped
         /\ membership'[q] = playerSessions'[q]
  BY <1>4, <1>5
<1>12. /\ playerSessions' \in [Players -> InstanceIds \cup {0}]
       /\ membership' \in [Players -> InstanceIds \cup {0}]
       /\ \A q \in Players : playerSessions'[q] < nextInstance
  BY <1>5
<1>. QED BY <1>1, <1>2, <1>4, <1>6, <1>8, <1>9, <1>10, <1>11, <1>12, PlayerStep

\* The steps of the thread that holds the mutex, the stages after the first.
LEMMA StageHeld ==
  ASSUME WorldInv, NEW t \in Threads, threadAt[t].op \in SlotOps
  PROVE  LET i == threadAt[t].instance p == threadAt[t].player IN
         /\ i \in InstanceIds /\ i # 0 /\ p \in Players /\ i < nextInstance
         /\ instances[i].state # "None"
         /\ threadAt[t].op \in {"add", "spawn"} => playerSessions[p] = 0
         /\ threadAt[t].op \notin {"add", "spawn"} => playerSessions[p] \in InstanceIds /\ playerSessions[p] # i
         /\ threadAt[t].op \in {"spawn", "release", "move"} => i \in mapped
         /\ threadAt[t].op \in PlayerOps
<1>1. threadAt[t].op \notin {"idle", "remove"} /\ threadAt[t].op \in PlayerOps
  BY DEF SlotOps, PlayerOps
<1>2. threadAt[t].instance \in InstanceIds /\ threadAt[t].player \in Players
  BY <1>1 DEF WorldInv, WorldTypeOK, ThreadOK
<1>3. threadAt[t].instance < nextInstance
  BY <1>1 DEF WorldInv, IdsFresh
<1>4. /\ instances[threadAt[t].instance].state # "None"
      /\ threadAt[t].op \in {"add", "spawn"} => playerSessions[threadAt[t].player] = 0
      /\ threadAt[t].op \notin {"add", "spawn"} => playerSessions[threadAt[t].player] \notin {0, threadAt[t].instance}
      /\ threadAt[t].op \in {"spawn", "release", "move"} => threadAt[t].instance \in mapped
  BY DEF WorldInv, OperationHolds, InstanceExists, SlotOps
<1>5. playerSessions[threadAt[t].player] \in InstanceIds \cup {0}
  BY <1>2 DEF WorldInv, WorldTypeOK
<1>. QED BY <1>1, <1>2, <1>3, <1>4, <1>5, IdsPositive

\* The failing end of addPlayer() and of transferPlayer(): the slot is given back.
LEMMA GiveBackStep ==
  ASSUME WorldInv, NEW t \in Threads, threadAt[t].op \in {"add", "slot"},
         GiveSlot(threadAt[t].instance), ThreadLeave(t),
         UNCHANGED <<nextInstance, mapped, playerSessions, membership, dropped>>
  PROVE  WorldInv'
<1> DEFINE i == threadAt[t].instance
<1>1. i \in InstanceIds /\ instances[i].state # "None" /\ threadAt[t].op \in PlayerOps
  BY StageHeld DEF SlotOps
<1>2. threadAt' = [threadAt EXCEPT ![t] = IdleThread]
  BY DEF ThreadLeave
<1>3. /\ \A u \in Threads : u # t => threadAt[u].op \notin PlayerOps
      /\ \A j \in InstanceIds : instances[j].state # "None" =>
           instances[j].count + BehindBy(threadAt[t], playerSessions, j)
             = PlayersIn(playerSessions, j) + AheadBy(threadAt[t], j)
      /\ \A j \in InstanceIds : instances[j].count \in Nat /\ PlayersIn(playerSessions, j) \in Nat
      /\ \A q \in Players : playerSessions[q] # 0 =>
           /\ instances[playerSessions[q]].state # "None" /\ playerSessions[q] \in mapped
           /\ membership[q] = playerSessions[q]
  BY <1>1, Holding
<1>4. /\ WorldTypeOK /\ playerSessions' = playerSessions /\ membership' = membership
      /\ playerSessions \in [Players -> InstanceIds \cup {0}]
      /\ membership \in [Players -> InstanceIds \cup {0}]
      /\ \A q \in Players : playerSessions[q] < nextInstance
  BY DEF WorldInv, WorldTypeOK, IdsFresh
<1>5. /\ instances' \in [InstanceIds -> MapInstanceRecord]
      /\ instances[i].state # "None" /\ instances[i].count > 0
           => instances'[i].count = instances[i].count - 1
      /\ \A j \in InstanceIds : /\ instances'[j].state = instances[j].state
                                /\ j # i => instances'[j].count = instances[j].count
  BY <1>1, <1>4, SlotGiven
<1>6. ASSUME NEW j \in InstanceIds, instances[j].state # "None"
      PROVE  instances'[j].count + BehindBy(IdleThread, playerSessions', j)
               = PlayersIn(playerSessions', j) + AheadBy(IdleThread, j)
  <2>1. BehindBy(IdleThread, playerSessions', j) = 0 /\ AheadBy(IdleThread, j) = 0
    BY IdleOK DEF BehindBy, AheadBy, SlotOps
  <2>2. BehindBy(threadAt[t], playerSessions, j) = 0
        /\ AheadBy(threadAt[t], j) = IF j = i THEN 1 ELSE 0
    BY DEF BehindBy, AheadBy, SlotOps
  <2>3. /\ instances[j].count + 0 = PlayersIn(playerSessions, j) + (IF j = i THEN 1 ELSE 0)
        /\ PlayersIn(playerSessions, j) \in Nat /\ instances[j].count \in Nat
    BY <1>3, <1>6, <2>2
  <2>4. PlayersIn(playerSessions', j) = PlayersIn(playerSessions, j)
    BY <1>4
  <2>. QED BY <1>1, <1>5, <2>1, <2>3, <2>4
<1>7. /\ IdleThread.op \in {"idle"} \cup PlayerOps /\ threadAt[t].op \in {"idle"} \cup PlayerOps
      /\ IdleThread.op \notin SlotOps \cup {"remove"} /\ IdleThread.op = "idle" /\ ThreadOK(IdleThread)
  BY <1>1, IdleOK DEF SlotOps
<1>8. \A q \in Players : playerSessions'[q] # 0 =>
        /\ instances[playerSessions'[q]].state # "None" /\ playerSessions'[q] \in mapped
        /\ membership'[q] = playerSessions'[q]
  BY <1>3, <1>4
<1>9. /\ playerSessions' \in [Players -> InstanceIds \cup {0}]
      /\ membership' \in [Players -> InstanceIds \cup {0}]
      /\ \A q \in Players : playerSessions'[q] < nextInstance
  BY <1>4
<1>. QED BY <1>2, <1>3, <1>5, <1>6, <1>7, <1>8, <1>9, PlayerStep DEF SlotOps

\* The end of addPlayer() and of transferPlayer(): entity and session follow the slot.
LEMMA EnterStep ==
  ASSUME WorldInv, NEW t \in Threads, threadAt[t].op \in {"spawn", "move"},
         threadAt[t].instance \in mapped,
         membership' = [membership EXCEPT ![threadAt[t].player] = threadAt[t].instance],
         playerSessions' = [playerSessions EXCEPT ![threadAt[t].player] = threadAt[t].instance],
         ThreadLeave(t), UNCHANGED <<instances, nextInstance, mapped, dropped>>
  PROVE  WorldInv'
<1> DEFINE i == threadAt[t].instance
           p == threadAt[t].player
<1>1. /\ i \in InstanceIds /\ p \in Players /\ instances[i].state # "None" /\ threadAt[t].op \in PlayerOps
      /\ i < nextInstance /\ i # 0 /\ (threadAt[t].op = "spawn" => playerSessions[p] = 0)
  BY StageHeld DEF SlotOps
<1>2. /\ threadAt' = [threadAt EXCEPT ![t] = IdleThread] /\ instances' = instances
      /\ membership' = [membership EXCEPT ![p] = i] /\ playerSessions' = [playerSessions EXCEPT ![p] = i]
  BY DEF ThreadLeave
<1>3. /\ \A u \in Threads : u # t => threadAt[u].op \notin PlayerOps
      /\ \A j \in InstanceIds : instances[j].state # "None" =>
           instances[j].count + BehindBy(threadAt[t], playerSessions, j)
             = PlayersIn(playerSessions, j) + AheadBy(threadAt[t], j)
      /\ \A j \in InstanceIds : instances[j].count \in Nat /\ PlayersIn(playerSessions, j) \in Nat
      /\ \A q \in Players :
           playerSessions[q] # 0 /\ ~(threadAt[t].op = "move" /\ threadAt[t].player = q) =>
             /\ instances[playerSessions[q]].state # "None" /\ playerSessions[q] \in mapped
             /\ membership[q] = playerSessions[q]
  BY <1>1, Holding
<1>4. /\ WorldTypeOK /\ instances \in [InstanceIds -> MapInstanceRecord]
      /\ playerSessions \in [Players -> InstanceIds \cup {0}] /\ DOMAIN playerSessions = Players
      /\ membership \in [Players -> InstanceIds \cup {0}] /\ nextInstance \in Nat \ {0}
      /\ \A q \in Players : playerSessions[q] < nextInstance
  BY DEF WorldInv, WorldTypeOK, IdsFresh
<1>5. ASSUME NEW j \in InstanceIds, instances[j].state # "None"
      PROVE  instances'[j].count + BehindBy(IdleThread, playerSessions', j)
               = PlayersIn(playerSessions', j) + AheadBy(IdleThread, j)
  <2>1. BehindBy(IdleThread, playerSessions', j) = 0 /\ AheadBy(IdleThread, j) = 0
    BY IdleOK DEF BehindBy, AheadBy, SlotOps
  <2>2. /\ BehindBy(threadAt[t], playerSessions, j) = IF playerSessions[p] = j THEN 1 ELSE 0
        /\ AheadBy(threadAt[t], j) = IF i = j THEN 1 ELSE 0
    BY <1>1, IdsPositive DEF BehindBy, AheadBy, SlotOps
  <2>3. /\ instances[j].count + BehindBy(threadAt[t], playerSessions, j)
             = PlayersIn(playerSessions, j) + AheadBy(threadAt[t], j)
        /\ instances[j].count \in Nat /\ PlayersIn(playerSessions, j) \in Nat
    BY <1>3, <1>5
  <2> HIDE DEF i, p
  <2>4. playerSessions'[p] = i /\ \A q \in Players : q # p => playerSessions'[q] = playerSessions[q]
    BY <1>1, <1>2, <1>4
  <2>5. /\ PlayersIn(playerSessions', j) \in Nat
        /\ PlayersIn(playerSessions', j) + (IF playerSessions[p] = j THEN 1 ELSE 0)
             = PlayersIn(playerSessions, j) + (IF playerSessions'[p] = j THEN 1 ELSE 0)
    BY <1>1, <2>4, SessionChanges
  <2>6. instances'[j].count = instances[j].count
    BY <1>2
  <2>. QED BY <2>1, <2>2, <2>3, <2>4, <2>5, <2>6
<1>6. /\ IdleThread.op \in {"idle"} \cup PlayerOps /\ threadAt[t].op \in {"idle"} \cup PlayerOps
      /\ IdleThread.op \notin SlotOps \cup {"remove"} /\ IdleThread.op = "idle" /\ ThreadOK(IdleThread)
  BY <1>1, IdleOK DEF SlotOps
<1>7. /\ playerSessions'[p] = i /\ membership'[p] = i
      /\ \A q \in Players : q # p => playerSessions'[q] = playerSessions[q] /\ membership'[q] = membership[q]
  BY <1>1, <1>2, <1>4
<1>8. \A q \in Players : playerSessions'[q] # 0 =>
        /\ instances[playerSessions'[q]].state # "None" /\ playerSessions'[q] \in mapped
        /\ membership'[q] = playerSessions'[q]
  BY <1>1, <1>3, <1>7
<1>9. /\ playerSessions' \in [Players -> InstanceIds \cup {0}]
      /\ membership' \in [Players -> InstanceIds \cup {0}]
      /\ \A q \in Players : playerSessions'[q] < nextInstance
  BY <1>1, <1>2, <1>4, <1>7
<1>10. instances' \in [InstanceIds -> MapInstanceRecord]
       /\ \A j \in InstanceIds : instances'[j].state = instances[j].state
  BY <1>2, <1>4
<1>. QED BY <1>2, <1>3, <1>5, <1>6, <1>8, <1>9, <1>10, PlayerStep DEF SlotOps

\* The first step of removePlayer(): the session and the slot go together.
LEMMA RemoveStep ==
  ASSUME WorldInv, NEW t \in Threads, NEW p \in Players, RemovePlayer(t, p)
  PROVE  WorldInv'
<1> DEFINE i == playerSessions[p]
           new == [op |-> "remove", instance |-> 0, player |-> p]
<1>1. threadAt[t].op = "idle" /\ PlayerLockFree
  BY DEF RemovePlayer, ThreadIdle
<1>2. /\ threadAt' = [threadAt EXCEPT ![t] = new] /\ playerSessions' = [playerSessions EXCEPT ![p] = 0]
      /\ GiveSlot(i) /\ i # 0 /\ UNCHANGED <<nextInstance, mapped, membership, dropped>>
  BY DEF RemovePlayer, ThreadGoto
<1>3. /\ \A u \in Threads : u # t => threadAt[u].op \notin PlayerOps
      /\ \A j \in InstanceIds : instances[j].state # "None" =>
           instances[j].count + BehindBy(threadAt[t], playerSessions, j)
             = PlayersIn(playerSessions, j) + AheadBy(threadAt[t], j)
      /\ \A j \in InstanceIds : instances[j].count \in Nat /\ PlayersIn(playerSessions, j) \in Nat
      /\ \A q \in Players :
           playerSessions[q] # 0 /\ ~(threadAt[t].op = "move" /\ threadAt[t].player = q) =>
             /\ instances[playerSessions[q]].state # "None" /\ playerSessions[q] \in mapped
             /\ membership[q] = playerSessions[q]
  BY <1>1, Holding
<1>4. /\ WorldTypeOK /\ instances \in [InstanceIds -> MapInstanceRecord]
      /\ playerSessions \in [Players -> InstanceIds \cup {0}] /\ DOMAIN playerSessions = Players
      /\ membership \in [Players -> InstanceIds \cup {0}] /\ nextInstance \in Nat \ {0}
      /\ \A q \in Players : playerSessions[q] < nextInstance
  BY DEF WorldInv, WorldTypeOK, IdsFresh
<1>5. ThreadOK(new) /\ new.op = "remove" /\ new.player = p
  BY StageOK DEF PlayerOps
<1> HIDE DEF new
<1>6. i \in InstanceIds /\ instances[i].state # "None"
  BY <1>1, <1>2, <1>3, <1>4
<1>7. /\ instances' \in [InstanceIds -> MapInstanceRecord]
      /\ instances[i].state # "None" /\ instances[i].count > 0
           => instances'[i].count = instances[i].count - 1
      /\ \A j \in InstanceIds : /\ instances'[j].state = instances[j].state
                                /\ j # i => instances'[j].count = instances[j].count
  BY <1>2, <1>4, <1>6, SlotGiven
<1>8. ASSUME NEW j \in InstanceIds, instances[j].state # "None"
      PROVE  instances'[j].count + BehindBy(new, playerSessions', j)
               = PlayersIn(playerSessions', j) + AheadBy(new, j)
  <2>1. BehindBy(new, playerSessions', j) = 0 /\ AheadBy(new, j) = 0
    BY <1>5 DEF BehindBy, AheadBy, SlotOps
  <2>2. BehindBy(threadAt[t], playerSessions, j) = 0 /\ AheadBy(threadAt[t], j) = 0
    BY <1>1 DEF BehindBy, AheadBy, SlotOps
  <2>3. instances[j].count = PlayersIn(playerSessions, j) /\ PlayersIn(playerSessions, j) \in Nat
    BY <1>3, <1>8, <2>2
  <2>4. playerSessions'[p] = 0 /\ \A q \in Players : q # p => playerSessions'[q] = playerSessions[q]
    BY <1>2, <1>4
  <2>5. /\ PlayersIn(playerSessions', j) \in Nat
        /\ PlayersIn(playerSessions', j) + (IF playerSessions[p] = j THEN 1 ELSE 0)
             = PlayersIn(playerSessions, j) + (IF playerSessions'[p] = j THEN 1 ELSE 0)
    BY <2>4, SessionChanges
  <2>6. j # 0 /\ (i = j => PlayersIn(playerSessions, j) > 0)
    BY IdsPositive, Inhabited
  <2> HIDE DEF i
  <2>. QED BY <1>6, <1>7, <2>1, <2>3, <2>4, <2>5, <2>6 DEF i
<1>9. /\ playerSessions'[p] = 0
      /\ \A q \in Players : q # p => playerSessions'[q] = playerSessions[q]
      /\ membership' = membership
  BY <1>2, <1>4
<1>10. \A q \in Players : playerSessions'[q] # 0 =>
         /\ instances[playerSessions'[q]].state # "None" /\ playerSessions'[q] \in mapped
         /\ membership'[q] = playerSessions'[q]
  BY <1>1, <1>3, <1>9
<1>11. /\ playerSessions' \in [Players -> InstanceIds \cup {0}]
       /\ membership' \in [Players -> InstanceIds \cup {0}]
       /\ \A q \in Players : playerSessions'[q] < nextInstance
  BY <1>2, <1>4, <1>9
<1>12. /\ new.op \in {"idle"} \cup PlayerOps /\ threadAt[t].op \in {"idle"} \cup PlayerOps
       /\ new.op \notin SlotOps
  BY <1>1, <1>5 DEF PlayerOps, SlotOps
<1>. QED BY <1>2, <1>3, <1>5, <1>7, <1>8, <1>9, <1>10, <1>11, <1>12, PlayerStep DEF SlotOps

\* The end of removePlayer(): the entity goes.
LEMMA RemoveEndStep == ASSUME WorldInv, NEW t \in Threads, FinishRemove(t) PROVE WorldInv'
<1> DEFINE p == threadAt[t].player
<1>1. /\ threadAt[t].op = "remove" /\ threadAt[t].op \in PlayerOps /\ p \in Players
      /\ playerSessions[p] = 0
  <2>1. threadAt[t].op = "remove" /\ threadAt[t].op \in PlayerOps
    BY DEF FinishRemove, PlayerOps
  <2>2. p \in Players
    BY <2>1 DEF WorldInv, WorldTypeOK, ThreadOK
  <2>. QED BY <2>1, <2>2 DEF WorldInv, OperationHolds
<1>2. /\ threadAt' = [threadAt EXCEPT ![t] = IdleThread] /\ membership' = [membership EXCEPT ![p] = 0]
      /\ UNCHANGED <<instances, nextInstance, mapped, playerSessions, dropped>>
  BY DEF FinishRemove, ThreadLeave
<1>3. /\ \A u \in Threads : u # t => threadAt[u].op \notin PlayerOps
      /\ \A j \in InstanceIds : instances[j].state # "None" =>
           instances[j].count + BehindBy(threadAt[t], playerSessions, j)
             = PlayersIn(playerSessions, j) + AheadBy(threadAt[t], j)
      /\ \A j \in InstanceIds : instances[j].count \in Nat /\ PlayersIn(playerSessions, j) \in Nat
      /\ \A q \in Players :
           playerSessions[q] # 0 /\ ~(threadAt[t].op = "move" /\ threadAt[t].player = q) =>
             /\ instances[playerSessions[q]].state # "None" /\ playerSessions[q] \in mapped
             /\ membership[q] = playerSessions[q]
  BY <1>1, Holding
<1>4. /\ WorldTypeOK /\ instances \in [InstanceIds -> MapInstanceRecord]
      /\ playerSessions \in [Players -> InstanceIds \cup {0}] /\ DOMAIN playerSessions = Players
      /\ membership \in [Players -> InstanceIds \cup {0}] /\ nextInstance \in Nat \ {0}
      /\ \A q \in Players : playerSessions[q] < nextInstance
  BY DEF WorldInv, WorldTypeOK, IdsFresh
<1>5. ASSUME NEW j \in InstanceIds, instances[j].state # "None"
      PROVE  instances'[j].count + BehindBy(IdleThread, playerSessions', j)
               = PlayersIn(playerSessions', j) + AheadBy(IdleThread, j)
  <2>1. BehindBy(IdleThread, playerSessions', j) = 0 /\ AheadBy(IdleThread, j) = 0
    BY IdleOK DEF BehindBy, AheadBy, SlotOps
  <2>2. BehindBy(threadAt[t], playerSessions, j) = 0 /\ AheadBy(threadAt[t], j) = 0
    BY <1>1 DEF BehindBy, AheadBy, SlotOps
  <2>3. PlayersIn(playerSessions', j) = PlayersIn(playerSessions, j) /\ instances'[j].count = instances[j].count
    BY <1>2
  <2>. QED BY <1>3, <1>5, <2>1, <2>2, <2>3
<1>6. /\ IdleThread.op \in {"idle"} \cup PlayerOps /\ threadAt[t].op \in {"idle"} \cup PlayerOps
      /\ IdleThread.op \notin SlotOps \cup {"remove"} /\ IdleThread.op = "idle" /\ ThreadOK(IdleThread)
  BY <1>1, IdleOK DEF SlotOps
<1>7. /\ playerSessions' = playerSessions /\ instances' = instances
      /\ \A q \in Players : q # p => membership'[q] = membership[q]
  BY <1>2, <1>4
<1>8. \A q \in Players : playerSessions'[q] # 0 =>
        /\ instances[playerSessions'[q]].state # "None" /\ playerSessions'[q] \in mapped
        /\ membership'[q] = playerSessions'[q]
  BY <1>1, <1>3, <1>7
<1>9. /\ playerSessions' \in [Players -> InstanceIds \cup {0}]
      /\ membership' \in [Players -> InstanceIds \cup {0}]
      /\ \A q \in Players : playerSessions'[q] < nextInstance
      /\ instances' \in [InstanceIds -> MapInstanceRecord]
      /\ \A j \in InstanceIds : instances'[j].state = instances[j].state
  BY <1>2, <1>4, <1>7
<1>. QED BY <1>2, <1>3, <1>5, <1>6, <1>8, <1>9, PlayerStep DEF SlotOps

\* addPlayer() or transferPlayer() finds the map entity.
LEMMA FindStep ==
  ASSUME WorldInv, NEW t \in Threads, NEW op,
         \/ threadAt[t].op = "add" /\ op = "spawn"
         \/ threadAt[t].op = "slot" /\ op = "release",
         threadAt[t].instance \in mapped,
         ThreadGoto(t, op, threadAt[t].instance, threadAt[t].player),
         UNCHANGED <<instances, nextInstance, mapped, playerSessions, membership, dropped>>
  PROVE  WorldInv'
<1> DEFINE i == threadAt[t].instance
           p == threadAt[t].player
           new == [op |-> op, instance |-> i, player |-> p]
<1>1. /\ i \in InstanceIds /\ p \in Players /\ instances[i].state # "None" /\ threadAt[t].op \in PlayerOps
      /\ i < nextInstance /\ i # 0
      /\ op = "spawn" => playerSessions[p] = 0
      /\ op = "release" => playerSessions[p] \in InstanceIds /\ playerSessions[p] # i
  BY StageHeld DEF SlotOps
<1>2. /\ threadAt' = [threadAt EXCEPT ![t] = new] /\ instances' = instances
      /\ playerSessions' = playerSessions /\ membership' = membership
  BY DEF ThreadGoto
<1>3. /\ \A u \in Threads : u # t => threadAt[u].op \notin PlayerOps
      /\ \A j \in InstanceIds : instances[j].state # "None" =>
           instances[j].count + BehindBy(threadAt[t], playerSessions, j)
             = PlayersIn(playerSessions, j) + AheadBy(threadAt[t], j)
      /\ \A j \in InstanceIds : instances[j].count \in Nat /\ PlayersIn(playerSessions, j) \in Nat
      /\ \A q \in Players :
           playerSessions[q] # 0 /\ ~(threadAt[t].op = "move" /\ threadAt[t].player = q) =>
             /\ instances[playerSessions[q]].state # "None" /\ playerSessions[q] \in mapped
             /\ membership[q] = playerSessions[q]
  BY <1>1, Holding
<1>4. /\ WorldTypeOK /\ instances \in [InstanceIds -> MapInstanceRecord]
      /\ playerSessions \in [Players -> InstanceIds \cup {0}] /\ DOMAIN playerSessions = Players
      /\ membership \in [Players -> InstanceIds \cup {0}] /\ nextInstance \in Nat \ {0}
      /\ \A q \in Players : playerSessions[q] < nextInstance
  BY DEF WorldInv, WorldTypeOK, IdsFresh
<1>5. ThreadOK(new) /\ new.op = op /\ op \in {"spawn", "release"} /\ new.instance = i /\ new.player = p
  BY <1>1, StageOK DEF PlayerOps
<1> HIDE DEF new
<1>6. ASSUME NEW j \in InstanceIds, instances[j].state # "None"
      PROVE  instances'[j].count + BehindBy(new, playerSessions', j)
               = PlayersIn(playerSessions', j) + AheadBy(new, j)
  <2>1. BehindBy(new, playerSessions', j) = 0 /\ AheadBy(new, j) = IF i = j THEN 1 ELSE 0
    BY <1>5 DEF BehindBy, AheadBy, SlotOps
  <2>2. BehindBy(threadAt[t], playerSessions, j) = 0 /\ AheadBy(threadAt[t], j) = IF i = j THEN 1 ELSE 0
    BY <1>1 DEF BehindBy, AheadBy, SlotOps
  <2>3. PlayersIn(playerSessions', j) = PlayersIn(playerSessions, j) /\ instances'[j].count = instances[j].count
    BY <1>2
  <2>. QED BY <1>3, <1>6, <2>1, <2>2, <2>3
<1>7. /\ new.op \in {"idle"} \cup PlayerOps /\ threadAt[t].op \in {"idle"} \cup PlayerOps
  BY <1>1, <1>5 DEF PlayerOps
<1>8. \A q \in Players : playerSessions'[q] # 0 =>
        /\ instances[playerSessions'[q]].state # "None" /\ playerSessions'[q] \in mapped
        /\ membership'[q] = playerSessions'[q]
  BY <1>2, <1>3
<1>9. /\ playerSessions' \in [Players -> InstanceIds \cup {0}]
      /\ membership' \in [Players -> InstanceIds \cup {0}]
      /\ \A q \in Players : playerSessions'[q] < nextInstance
      /\ instances' \in [InstanceIds -> MapInstanceRecord]
      /\ \A j \in InstanceIds : instances'[j].state = instances[j].state
      /\ op = "spawn" => playerSessions'[new.player] = 0
      /\ op = "release" => playerSessions'[new.player] \notin {0, new.instance}
  BY <1>1, <1>2, <1>4, <1>5, IdsPositive
<1>. QED BY <1>1, <1>2, <1>3, <1>5, <1>6, <1>7, <1>8, <1>9, PlayerStep

\* transferPlayer() gives the old slot back while the player is still there.
LEMMA ReleaseStep == ASSUME WorldInv, NEW t \in Threads, TransferRelease(t) PROVE WorldInv'
<1> DEFINE i == threadAt[t].instance
           p == threadAt[t].player
           s == playerSessions[p]
           new == [threadAt[t] EXCEPT !.op = "move"]
<1>0. threadAt[t].op = "release"
  BY DEF TransferRelease
<1>1. /\ i \in InstanceIds /\ p \in Players /\ instances[i].state # "None" /\ threadAt[t].op \in PlayerOps
      /\ i < nextInstance /\ i # 0 /\ s \in InstanceIds /\ s # i /\ i \in mapped
  BY <1>0, StageHeld DEF SlotOps
<1>2. /\ threadAt' = [threadAt EXCEPT ![t] = new] /\ GiveSlot(s)
      /\ playerSessions' = playerSessions /\ membership' = membership
      /\ UNCHANGED <<nextInstance, mapped, dropped>>
  BY DEF TransferRelease
<1>3. /\ \A u \in Threads : u # t => threadAt[u].op \notin PlayerOps
      /\ \A j \in InstanceIds : instances[j].state # "None" =>
           instances[j].count + BehindBy(threadAt[t], playerSessions, j)
             = PlayersIn(playerSessions, j) + AheadBy(threadAt[t], j)
      /\ \A j \in InstanceIds : instances[j].count \in Nat /\ PlayersIn(playerSessions, j) \in Nat
      /\ \A q \in Players :
           playerSessions[q] # 0 /\ ~(threadAt[t].op = "move" /\ threadAt[t].player = q) =>
             /\ instances[playerSessions[q]].state # "None" /\ playerSessions[q] \in mapped
             /\ membership[q] = playerSessions[q]
  BY <1>1, Holding
<1>4. /\ WorldTypeOK /\ instances \in [InstanceIds -> MapInstanceRecord]
      /\ playerSessions \in [Players -> InstanceIds \cup {0}] /\ DOMAIN playerSessions = Players
      /\ membership \in [Players -> InstanceIds \cup {0}] /\ nextInstance \in Nat \ {0}
      /\ \A q \in Players : playerSessions[q] < nextInstance
  BY DEF WorldInv, WorldTypeOK, IdsFresh
<1>5. ThreadOK(new) /\ new.op = "move" /\ new.instance = i /\ new.player = p
  <2>1. ThreadOK(threadAt[t])
    BY DEF WorldInv, WorldTypeOK
  <2>. QED BY <1>1, <2>1 DEF ThreadOK, PlayerOps
<1> HIDE DEF new
<1>6. instances[s].state # "None"
  BY <1>0, <1>1, <1>3, IdsPositive
<1>7. /\ instances' \in [InstanceIds -> MapInstanceRecord]
      /\ instances[s].state # "None" /\ instances[s].count > 0
           => instances'[s].count = instances[s].count - 1
      /\ \A j \in InstanceIds : /\ instances'[j].state = instances[j].state
                                /\ j # s => instances'[j].count = instances[j].count
  BY <1>1, <1>2, <1>4, SlotGiven
<1>8. ASSUME NEW j \in InstanceIds, instances[j].state # "None"
      PROVE  instances'[j].count + BehindBy(new, playerSessions', j)
               = PlayersIn(playerSessions', j) + AheadBy(new, j)
  <2>1. /\ BehindBy(new, playerSessions', j) = IF s = j THEN 1 ELSE 0
        /\ AheadBy(new, j) = IF i = j THEN 1 ELSE 0
    BY <1>2, <1>5 DEF BehindBy, AheadBy, SlotOps
  <2>2. BehindBy(threadAt[t], playerSessions, j) = 0 /\ AheadBy(threadAt[t], j) = IF i = j THEN 1 ELSE 0
    BY <1>0 DEF BehindBy, AheadBy, SlotOps
  <2>3. /\ instances[j].count + BehindBy(threadAt[t], playerSessions, j)
             = PlayersIn(playerSessions, j) + AheadBy(threadAt[t], j)
        /\ instances[j].count \in Nat /\ PlayersIn(playerSessions, j) \in Nat
    BY <1>3, <1>8
  <2>4. s = j => PlayersIn(playerSessions, j) > 0
    BY <1>1, <1>4, Inhabited
  <2>5. PlayersIn(playerSessions', j) = PlayersIn(playerSessions, j)
    BY <1>2
  <2> HIDE DEF i, s
  <2>. QED BY <1>1, <1>6, <1>7, <2>1, <2>2, <2>3, <2>4, <2>5
<1>9. new.op \in {"idle"} \cup PlayerOps /\ threadAt[t].op \in {"idle"} \cup PlayerOps
  BY <1>1, <1>5 DEF PlayerOps
<1>10. \A q \in Players : playerSessions'[q] # 0 =>
         /\ instances[playerSessions'[q]].state # "None" /\ playerSessions'[q] \in mapped
         /\ membership'[q] = playerSessions'[q]
  BY <1>0, <1>2, <1>3
<1>11. /\ playerSessions' \in [Players -> InstanceIds \cup {0}]
       /\ membership' \in [Players -> InstanceIds \cup {0}]
       /\ \A q \in Players : playerSessions'[q] < nextInstance
       /\ playerSessions'[new.player] \notin {0, new.instance}
  BY <1>1, <1>2, <1>4, <1>5, IdsPositive
<1>. QED BY <1>1, <1>2, <1>3, <1>5, <1>7, <1>8, <1>9, <1>10, <1>11, PlayerStep

(***************************************************************************)
(* Steps of createInstance(), destroyInstance() and setInstanceState(),    *)
(* which do not take playerMutex.                                          *)
(***************************************************************************)

\* They leave the player operations where they are, and so the counts of players.
LEMMA CountsKept ==
  ASSUME \A u \in Threads : \/ threadAt'[u] = threadAt[u]
                            \/ threadAt[u].op \notin PlayerOps /\ threadAt'[u].op \notin PlayerOps,
         playerSessions' = playerSessions, NEW i
  PROVE  Ahead(i)' = Ahead(i) /\ Behind(i)' = Behind(i) /\ In(i)' = In(i)
<1>1. {t \in Threads : threadAt'[t].op \in {"add", "spawn", "slot", "release", "move"} /\ threadAt'[t].instance = i}
      = {t \in Threads : threadAt[t].op \in {"add", "spawn", "slot", "release", "move"} /\ threadAt[t].instance = i}
  BY DEF PlayerOps
<1>2. {t \in Threads : threadAt'[t].op = "move" /\ playerSessions'[threadAt'[t].player] = i}
      = {t \in Threads : threadAt[t].op = "move" /\ playerSessions[threadAt[t].player] = i}
  BY DEF PlayerOps
<1>3. In(i)' = In(i)
  BY DEF In
<1>4. Ahead(i)' = Ahead(i)
  BY <1>1, Zenon DEF Ahead
<1>5. Behind(i)' = Behind(i)
  BY <1>2, Zenon DEF Behind
<1>. QED BY <1>3, <1>4, <1>5

\* An instance that exists has an id that has been handed out.
LEMMA ExistingId ==
  ASSUME WorldInv, NEW i \in InstanceIds, InstanceExists(i) \/ i \in mapped PROVE i < nextInstance
<1>1. i \in Nat /\ nextInstance \in Nat
  BY IdsPositive DEF WorldInv, WorldTypeOK
<1>2. ~(i >= nextInstance)
  BY DEF WorldInv, IdsFresh
<1>. QED BY <1>1, <1>2

\* What is left to show for such a step.
LEMMA ManagerStep ==
  ASSUME WorldInv, DOMAIN threadAt' = Threads, \A u \in Threads : ThreadOK(threadAt'[u]),
         \A u \in Threads : threadAt'[u].op \notin {"idle", "remove"} => threadAt'[u].instance < nextInstance',
         \A u \in Threads : \/ threadAt'[u] = threadAt[u]
                            \/ threadAt[u].op \notin PlayerOps /\ threadAt'[u].op \notin PlayerOps,
         instances' \in [InstanceIds -> MapInstanceRecord], mapped' \subseteq InstanceIds,
         dropped' \subseteq InstanceIds, nextInstance' \in Nat, nextInstance <= nextInstance',
         UNCHANGED <<playerSessions, membership>>,
         \A i \in InstanceIds : i >= nextInstance' => ~InstanceExists(i)' /\ i \notin mapped',
         \A u \in Threads : threadAt[u].op \in SlotOps => instances'[threadAt[u].instance].state # "None",
         \A u \in Threads : threadAt[u].op \in {"spawn", "release", "move"} => threadAt[u].instance \in mapped',
         \A i \in InstanceIds : InstanceExists(i)' =>
           \/ InstanceExists(i) /\ instances'[i].count = instances[i].count
           \/ instances'[i].count + Behind(i) = In(i) + Ahead(i)
  PROVE  WorldTypeOK' /\ OneInPlayerOps' /\ IdsFresh' /\ OperationHolds' /\ SlotsAccounted'
<1>1. playerSessions' = playerSessions /\ membership' = membership
  OBVIOUS
<1>2. nextInstance \in Nat \ {0} /\ \A p \in Players : playerSessions[p] \in Nat
  BY IdsPositive DEF WorldInv, WorldTypeOK
<1>3. WorldTypeOK'
  <2>1. playerSessions' \in [Players -> InstanceIds \cup {0}] /\ membership' \in [Players -> InstanceIds \cup {0}]
    BY <1>1 DEF WorldInv, WorldTypeOK
  <2>2. nextInstance' \in Nat \ {0}
    BY <1>2
  <2>. QED BY <2>1, <2>2 DEF WorldTypeOK, ThreadOK
<1>4. OneInPlayerOps'
  BY DEF WorldInv, OneInPlayerOps
<1>5. IdsFresh'
  <2>1. \A p \in Players : playerSessions'[p] < nextInstance'
    BY <1>1, <1>2 DEF WorldInv, IdsFresh
  <2>. QED BY <2>1 DEF IdsFresh
<1>6. OperationHolds'
  <2> SUFFICES ASSUME NEW u \in Threads, threadAt'[u].op \in PlayerOps
               PROVE  /\ threadAt'[u].op \in {"add", "spawn", "slot", "release", "move"}
                           => instances'[threadAt'[u].instance].state # "None"
                      /\ threadAt'[u].op \in {"add", "spawn", "remove"}
                           => playerSessions'[threadAt'[u].player] = 0
                      /\ threadAt'[u].op \in {"slot", "release", "move"}
                           => playerSessions'[threadAt'[u].player] \notin {0, threadAt'[u].instance}
                      /\ threadAt'[u].op \in {"spawn", "release", "move"} => threadAt'[u].instance \in mapped'
    BY DEF OperationHolds, InstanceExists, PlayerOps
  <2>1. threadAt'[u] = threadAt[u]
    OBVIOUS
  <2>2. /\ threadAt[u].op \in {"add", "spawn", "remove"} => playerSessions[threadAt[u].player] = 0
        /\ threadAt[u].op \in {"slot", "release", "move"}
             => playerSessions[threadAt[u].player] \notin {0, threadAt[u].instance}
    BY DEF WorldInv, OperationHolds
  <2>3. threadAt[u].op \in SlotOps => instances'[threadAt[u].instance].state # "None"
    OBVIOUS
  <2>. QED BY <1>1, <2>1, <2>2, <2>3 DEF SlotOps
<1>7. SlotsAccounted'
  <2> SUFFICES ASSUME NEW i \in InstanceIds, InstanceExists(i)'
               PROVE  instances'[i].count + Behind(i)' = In(i)' + Ahead(i)'
    BY DEF SlotsAccounted
  <2>1. Ahead(i)' = Ahead(i) /\ Behind(i)' = Behind(i) /\ In(i)' = In(i)
    BY <1>1, CountsKept
  <2>2. CASE instances'[i].count + Behind(i) = In(i) + Ahead(i)
    BY <2>1, <2>2
  <2>3. CASE InstanceExists(i) /\ instances'[i].count = instances[i].count
    <3>1. instances[i].count + Behind(i) = In(i) + Ahead(i)
      BY <2>3 DEF WorldInv, WorldConsistent, SlotsAccounted
    <3>. QED BY <2>1, <2>3, <3>1
  <2>. QED BY <2>2, <2>3
<1>. QED BY <1>3, <1>4, <1>5, <1>6, <1>7

\* setInstanceState(): an instance that exists still does.
LEMMA StateStep == ASSUME WorldInv, NEW i \in InstanceIds, SetInstanceState(i) PROVE WorldInv'
<1> DEFINE state == IF instances[i].state = "Active" THEN "Draining" ELSE "ShuttingDown"
           new == [instances[i] EXCEPT !.state = state]
<1>1. /\ instances[i].state \in {"Active", "Draining"} /\ instances' = [instances EXCEPT ![i] = new]
      /\ UNCHANGED <<nextInstance, mapped, playerSessions, membership, threadAt, dropped>>
  BY DEF SetInstanceState
<1>2. instances \in [InstanceIds -> MapInstanceRecord]
  BY DEF WorldInv, WorldTypeOK
<1>3. new \in MapInstanceRecord /\ new.state # "None" /\ new.count = instances[i].count
  BY <1>2 DEF MapInstanceRecord
<1> HIDE DEF new
<1>4. /\ instances' \in [InstanceIds -> MapInstanceRecord]
      /\ \A j \in InstanceIds : /\ instances'[j].count = instances[j].count
                                /\ InstanceExists(j)' <=> InstanceExists(j)
  <2>1. instances[i].state # "None"
    BY <1>1
  <2>. QED BY <1>1, <1>2, <1>3, <2>1 DEF InstanceExists
<1>5. /\ mapped \subseteq InstanceIds /\ dropped \subseteq InstanceIds /\ nextInstance \in Nat
      /\ DOMAIN threadAt = Threads /\ \A u \in Threads : ThreadOK(threadAt[u])
      /\ \A p \in Players : playerSessions[p] \in InstanceIds \cup {0}
  BY DEF WorldInv, WorldTypeOK
<1>6. \A u \in Threads : threadAt[u].op \notin {"idle", "remove"} => threadAt[u].instance \in InstanceIds
  BY <1>5 DEF ThreadOK
<1>7. WorldTypeOK' /\ OneInPlayerOps' /\ IdsFresh' /\ OperationHolds' /\ SlotsAccounted'
  <2>1. \A u \in Threads : threadAt[u].op \in SlotOps => instances'[threadAt[u].instance].state # "None"
    BY <1>4, <1>6 DEF WorldInv, OperationHolds, SlotOps, InstanceExists
  <2>2. \A u \in Threads : threadAt[u].op \in {"spawn", "release", "move"} => threadAt[u].instance \in mapped
    BY DEF WorldInv, OperationHolds
  <2>3. /\ \A j \in InstanceIds : j >= nextInstance => ~InstanceExists(j)' /\ j \notin mapped
        /\ \A u \in Threads : threadAt[u].op \notin {"idle", "remove"} => threadAt[u].instance < nextInstance
    BY <1>4 DEF WorldInv, IdsFresh
  <2>4. /\ threadAt' = threadAt /\ mapped' = mapped /\ dropped' = dropped
        /\ nextInstance' = nextInstance /\ nextInstance <= nextInstance
    BY <1>1, <1>5
  <2>. QED BY <1>1, <1>4, <1>5, <2>1, <2>2, <2>3, <2>4, ManagerStep
<1>8. MappingOnce'
  BY <1>1, <1>4, <1>6 DEF WorldInv, MappingOnce
<1>9. PlayerHasWorld'
  BY <1>1, <1>4, <1>5 DEF WorldInv, WorldConsistent, PlayerHasWorld
<1>10. MapEntityFollows'
  BY <1>1, <1>4 DEF WorldInv, WorldConsistent, MapEntityFollows
<1>. QED BY <1>7, <1>8, <1>9, <1>10 DEF WorldInv, WorldConsistent

\* The record of a thread that maps or unmaps an instance.
LEMMA MapperOK ==
  ASSUME NEW op \in {"map", "unmap"}, NEW i \in InstanceIds
  PROVE  LET th == [op |-> op, instance |-> i, player |-> IdleThread.player] IN
         ThreadOK(th) /\ th.op = op /\ th.instance = i
BY DEF ThreadOK, PlayerOps

\* createInstance(): nothing refers to the id yet.
LEMMA CreateStep == ASSUME WorldInv, NEW t \in Threads, CreateInstance(t) PROVE WorldInv'
<1>0. PICK i : i = nextInstance
  OBVIOUS
<1> DEFINE new == [op |-> "map", instance |-> i, player |-> IdleThread.player]
           fresh == [state |-> "Active", count |-> 0]
<1>1. /\ threadAt[t].op = "idle" /\ i \in InstanceIds /\ instances' = [instances EXCEPT ![i] = fresh]
      /\ nextInstance' = i + 1 /\ threadAt' = [threadAt EXCEPT ![t] = new]
      /\ UNCHANGED <<mapped, playerSessions, membership, dropped>>
  BY <1>0 DEF CreateInstance, ThreadIdle, ThreadGoto
<1>2. ThreadOK(new) /\ new.op = "map" /\ new.instance = i
  BY <1>1, MapperOK
<1> HIDE DEF new
<1>3. /\ instances \in [InstanceIds -> MapInstanceRecord] /\ mapped \subseteq InstanceIds
      /\ dropped \subseteq InstanceIds /\ nextInstance \in Nat \ {0}
      /\ DOMAIN threadAt = Threads /\ \A u \in Threads : ThreadOK(threadAt[u])
      /\ \A p \in Players : playerSessions[p] \in InstanceIds \cup {0}
  BY DEF WorldInv, WorldTypeOK
<1>4. \A u \in Threads : threadAt[u].op \notin {"idle", "remove"} =>
        threadAt[u].instance \in InstanceIds /\ threadAt[u].instance < nextInstance
  BY <1>3 DEF ThreadOK, WorldInv, IdsFresh
<1>5. \A u \in Threads :
        /\ threadAt[u].op \in SlotOps => InstanceExists(threadAt[u].instance)
        /\ threadAt[u].op \in {"spawn", "release", "move"} => threadAt[u].instance \in mapped
  BY DEF WorldInv, OperationHolds, SlotOps
<1>6. fresh \in MapInstanceRecord /\ fresh.state = "Active" /\ fresh.count = 0
  BY DEF MapInstanceRecord
<1> HIDE DEF fresh
<1>7. /\ instances' \in [InstanceIds -> MapInstanceRecord]
      /\ \A j \in InstanceIds : j # i => /\ instances'[j] = instances[j]
                                         /\ InstanceExists(j)' <=> InstanceExists(j)
      /\ InstanceExists(i)' /\ instances'[i].count = 0
  BY <1>1, <1>3, <1>6 DEF InstanceExists
<1>8. /\ ~InstanceExists(i) /\ i \notin mapped
      /\ \A u \in Threads : threadAt[u].op \notin {"idle", "remove"} => threadAt[u].instance # i
      /\ \A p \in Players : playerSessions[p] # i
  BY <1>0, <1>1, <1>3, <1>4 DEF WorldInv, IdsFresh
<1>9. In(i) = 0 /\ Ahead(i) = 0 /\ Behind(i) = 0
  <2>1. {p \in Players : playerSessions[p] = i} = {}
    BY <1>8
  <2>2. {u \in Threads : threadAt[u].op \in {"add", "spawn", "slot", "release", "move"} /\ threadAt[u].instance = i} = {}
    BY <1>8
  <2>3. {u \in Threads : threadAt[u].op = "move" /\ playerSessions[threadAt[u].player] = i} = {}
    BY <1>3, <1>8 DEF ThreadOK, PlayerOps
  <2>4. In(i) = 0
    BY <2>1, FS_EmptySet, Zenon DEF In
  <2>5. Ahead(i) = 0
    BY <2>2, FS_EmptySet, Zenon DEF Ahead
  <2>6. Behind(i) = 0
    BY <2>3, FS_EmptySet, Zenon DEF Behind
  <2>. QED BY <2>4, <2>5, <2>6
<1>10. DOMAIN threadAt' = Threads /\ threadAt'[t] = new /\ \A u \in Threads : u # t => threadAt'[u] = threadAt[u]
  BY <1>1, <1>3
<1>11. WorldTypeOK' /\ OneInPlayerOps' /\ IdsFresh' /\ OperationHolds' /\ SlotsAccounted'
  <2>1. \A u \in Threads : ThreadOK(threadAt'[u])
    BY <1>2, <1>3, <1>10
  <2>2. /\ \A u \in Threads : threadAt'[u].op \notin {"idle", "remove"} => threadAt'[u].instance < nextInstance'
        /\ nextInstance' \in Nat /\ nextInstance <= nextInstance'
    <3>1. nextInstance' = nextInstance + 1 /\ nextInstance \in Nat
      BY <1>0, <1>1, <1>3
    <3>2. new.instance < nextInstance'
      BY <1>0, <1>2, <3>1
    <3>3. ASSUME NEW u \in Threads, u # t, threadAt'[u].op \notin {"idle", "remove"}
          PROVE  threadAt'[u].instance < nextInstance'
      <4>1. threadAt'[u].instance \in Nat /\ threadAt'[u].instance < nextInstance
        BY <1>4, <1>10, <3>3, IdsPositive
      <4>. QED BY <3>1, <4>1
    <3>. QED BY <1>10, <3>1, <3>2, <3>3
  <2>3. \A u \in Threads : \/ threadAt'[u] = threadAt[u]
                           \/ threadAt[u].op \notin PlayerOps /\ threadAt'[u].op \notin PlayerOps
    BY <1>1, <1>2, <1>10 DEF PlayerOps
  <2>4. ASSUME NEW j \in InstanceIds, j >= nextInstance' PROVE ~InstanceExists(j)' /\ j \notin mapped'
    <3>1. j \in Nat /\ j # i /\ j >= nextInstance
      BY <1>0, <1>1, <1>3, <2>4, IdsPositive
    <3>. QED BY <1>1, <1>7, <3>1 DEF WorldInv, IdsFresh
  <2>5. \A u \in Threads : threadAt[u].op \in SlotOps => instances'[threadAt[u].instance].state # "None"
    <3>1. \A u \in Threads : threadAt[u].op \in SlotOps => threadAt[u].instance \in InstanceIds /\ threadAt[u].instance # i
      BY <1>4, <1>8 DEF SlotOps
    <3>. QED BY <1>5, <1>7, <3>1 DEF InstanceExists
  <2>6. /\ mapped' \subseteq InstanceIds /\ dropped' \subseteq InstanceIds
        /\ \A u \in Threads : threadAt[u].op \in {"spawn", "release", "move"} => threadAt[u].instance \in mapped'
    BY <1>1, <1>3, <1>5
  <2>7. \A j \in InstanceIds : InstanceExists(j)' =>
          \/ InstanceExists(j) /\ instances'[j].count = instances[j].count
          \/ instances'[j].count + Behind(j) = In(j) + Ahead(j)
    BY <1>7, <1>9
  <2>8. UNCHANGED <<playerSessions, membership>>
    BY <1>1
  <2>. QED BY <1>7, <1>10, <2>1, <2>2, <2>3, <2>4, <2>5, <2>6, <2>7, <2>8, ManagerStep
<1>12. MappingOnce'
  <2>1. ASSUME NEW u \in Threads, threadAt'[u].op = "map"
        PROVE  /\ threadAt'[u].instance \notin mapped'
               /\ threadAt'[u].instance \in dropped' \/ instances'[threadAt'[u].instance].state # "None"
               /\ \A v \in Threads : threadAt'[v].op = "map" /\ threadAt'[v].instance = threadAt'[u].instance => u = v
    <3>1. CASE u = t
      BY <1>1, <1>2, <1>7, <1>8, <1>10, <3>1 DEF InstanceExists
    <3>2. CASE u # t
      <4>1. /\ threadAt'[u] = threadAt[u] /\ threadAt[u].op = "map" /\ threadAt[u].instance # i
            /\ threadAt[u].instance \in InstanceIds
        BY <1>4, <1>8, <1>10, <2>1, <3>2
      <4>. QED BY <1>1, <1>2, <1>7, <1>10, <4>1 DEF WorldInv, MappingOnce, InstanceExists
    <3>. QED BY <3>1, <3>2
  <2>2. ASSUME NEW u \in Threads, threadAt'[u].op = "unmap"
        PROVE  instances'[threadAt'[u].instance].state = "None"
    <3>1. /\ threadAt'[u] = threadAt[u] /\ threadAt[u].op = "unmap" /\ threadAt[u].instance # i
          /\ threadAt[u].instance \in InstanceIds
      BY <1>2, <1>4, <1>8, <1>10, <2>2
    <3>. QED BY <1>7, <3>1 DEF WorldInv, MappingOnce, InstanceExists
  <2>. QED BY <2>1, <2>2 DEF MappingOnce, InstanceExists
<1>13. PlayerHasWorld'
  <2> SUFFICES ASSUME NEW p \in Players, playerSessions'[p] # 0,
                      \A u \in Threads : ~(threadAt'[u].op = "move" /\ threadAt'[u].player = p)
               PROVE  /\ instances'[playerSessions'[p]].state # "None"
                      /\ playerSessions'[p] \in mapped' /\ membership'[p] = playerSessions'[p]
    BY DEF PlayerHasWorld, InstanceExists
  <2>1. \A u \in Threads : ~(threadAt[u].op = "move" /\ threadAt[u].player = p)
    BY <1>1, <1>10
  <2>2. InstanceExists(playerSessions[p]) /\ playerSessions[p] \in mapped /\ membership[p] = playerSessions[p]
    BY <1>1, <2>1 DEF WorldInv, WorldConsistent, PlayerHasWorld
  <2>3. playerSessions[p] \in InstanceIds /\ playerSessions[p] # i
    BY <1>1, <1>3, <1>8
  <2>. QED BY <1>1, <1>7, <2>2, <2>3 DEF InstanceExists
<1>14. MapEntityFollows'
  <2> SUFFICES ASSUME NEW j \in InstanceIds, j \notin dropped',
                      \A u \in Threads : ~(threadAt'[u].op \in {"map", "unmap"} /\ threadAt'[u].instance = j)
               PROVE  j \in mapped' <=> InstanceExists(j)'
    BY DEF MapEntityFollows
  <2>1. j # i
    BY <1>2, <1>10
  <2>2. \A u \in Threads : ~(threadAt[u].op \in {"map", "unmap"} /\ threadAt[u].instance = j)
    BY <1>1, <1>10
  <2>. QED BY <1>1, <1>7, <2>1, <2>2 DEF WorldInv, WorldConsistent, MapEntityFollows
<1>. QED BY <1>11, <1>12, <1>13, <1>14 DEF WorldInv, WorldConsistent

\* The map entity of a new instance: the instance is still there, or was dropped.
LEMMA MapStep == ASSUME WorldInv, NEW t \in Threads, MapInstance(t) PROVE WorldInv'
<1>0. PICK i : i = threadAt[t].instance
  OBVIOUS
<1>1. /\ threadAt[t].op = "map" /\ threadAt' = [threadAt EXCEPT ![t] = IdleThread]
      /\ mapped' = mapped \cup {i}
      /\ UNCHANGED <<instances, nextInstance, playerSessions, membership, dropped>>
  BY <1>0 DEF MapInstance, ThreadLeave
<1>2. ThreadOK(IdleThread) /\ IdleThread.op = "idle"
  BY IdleOK
<1>3. /\ instances \in [InstanceIds -> MapInstanceRecord] /\ mapped \subseteq InstanceIds
      /\ dropped \subseteq InstanceIds /\ nextInstance \in Nat \ {0}
      /\ DOMAIN threadAt = Threads /\ \A u \in Threads : ThreadOK(threadAt[u])
      /\ \A p \in Players : playerSessions[p] \in InstanceIds \cup {0}
  BY DEF WorldInv, WorldTypeOK
<1>4. \A u \in Threads : threadAt[u].op \notin {"idle", "remove"} =>
        threadAt[u].instance \in InstanceIds /\ threadAt[u].instance < nextInstance
  BY <1>3 DEF ThreadOK, WorldInv, IdsFresh
<1>5. \A u \in Threads :
        /\ threadAt[u].op \in SlotOps => InstanceExists(threadAt[u].instance)
        /\ threadAt[u].op \in {"spawn", "release", "move"} => threadAt[u].instance \in mapped
  BY DEF WorldInv, OperationHolds, SlotOps
<1>6. i \in InstanceIds /\ i < nextInstance /\ i \notin mapped /\ (i \in dropped \/ InstanceExists(i))
      /\ \A u \in Threads : threadAt[u].op = "map" /\ threadAt[u].instance = i => u = t
  BY <1>0, <1>1, <1>4 DEF WorldInv, MappingOnce
<1>7. \A j \in InstanceIds : InstanceExists(j)' <=> InstanceExists(j)
  BY <1>1 DEF InstanceExists
<1>8. DOMAIN threadAt' = Threads /\ threadAt'[t] = IdleThread /\ \A u \in Threads : u # t => threadAt'[u] = threadAt[u]
  BY <1>1, <1>3
<1>9. WorldTypeOK' /\ OneInPlayerOps' /\ IdsFresh' /\ OperationHolds' /\ SlotsAccounted'
  <2>1. \A u \in Threads : ThreadOK(threadAt'[u])
    BY <1>2, <1>3, <1>8
  <2>2. /\ \A u \in Threads : threadAt'[u].op \notin {"idle", "remove"} => threadAt'[u].instance < nextInstance'
        /\ nextInstance' \in Nat /\ nextInstance <= nextInstance'
    BY <1>1, <1>2, <1>3, <1>4, <1>8
  <2>3. \A u \in Threads : \/ threadAt'[u] = threadAt[u]
                           \/ threadAt[u].op \notin PlayerOps /\ threadAt'[u].op \notin PlayerOps
    BY <1>1, <1>2, <1>8 DEF PlayerOps
  <2>4. ASSUME NEW j \in InstanceIds, j >= nextInstance' PROVE ~InstanceExists(j)' /\ j \notin mapped'
    <3>1. j >= nextInstance /\ j # i
      BY <1>1, <1>3, <1>6, <2>4, IdsPositive
    <3>. QED BY <1>1, <1>7, <3>1 DEF WorldInv, IdsFresh
  <2>5. \A u \in Threads : threadAt[u].op \in SlotOps => instances'[threadAt[u].instance].state # "None"
    BY <1>1, <1>5 DEF InstanceExists
  <2>6. /\ mapped' \subseteq InstanceIds /\ dropped' \subseteq InstanceIds
        /\ \A u \in Threads : threadAt[u].op \in {"spawn", "release", "move"} => threadAt[u].instance \in mapped'
    BY <1>1, <1>3, <1>5, <1>6
  <2>7. \A j \in InstanceIds : InstanceExists(j)' => InstanceExists(j) /\ instances'[j].count = instances[j].count
    BY <1>1, <1>7
  <2>8. UNCHANGED <<playerSessions, membership>> /\ instances' \in [InstanceIds -> MapInstanceRecord]
    BY <1>1, <1>3
  <2>. QED BY <1>8, <2>1, <2>2, <2>3, <2>4, <2>5, <2>6, <2>7, <2>8, ManagerStep
<1>10. MappingOnce'
  <2>1. ASSUME NEW u \in Threads, threadAt'[u].op \in {"map", "unmap"}
        PROVE  u # t /\ threadAt'[u] = threadAt[u] /\ threadAt[u].op \in {"map", "unmap"}
               /\ threadAt[u].instance \in InstanceIds
    BY <1>2, <1>4, <1>8, <2>1
  <2>2. \A u \in Threads : threadAt'[u].op = "map" => threadAt'[u].instance # i
    BY <1>6, <2>1
  <2>. QED BY <1>1, <1>7, <2>1, <2>2 DEF WorldInv, MappingOnce
<1>11. PlayerHasWorld'
  <2>1. \A u \in Threads : threadAt[u].op = "move" => threadAt'[u] = threadAt[u]
    BY <1>1, <1>8
  <2>. QED BY <1>1, <1>3, <1>7, <2>1 DEF WorldInv, WorldConsistent, PlayerHasWorld
<1>12. MapEntityFollows'
  <2> SUFFICES ASSUME NEW j \in InstanceIds, j \notin dropped',
                      \A u \in Threads : ~(threadAt'[u].op \in {"map", "unmap"} /\ threadAt'[u].instance = j)
               PROVE  j \in mapped' <=> InstanceExists(j)'
    BY DEF MapEntityFollows
  <2>1. CASE j = i
    BY <1>1, <1>6, <1>7, <2>1
  <2>2. CASE j # i
    <3>1. \A u \in Threads : ~(threadAt[u].op \in {"map", "unmap"} /\ threadAt[u].instance = j)
      BY <1>0, <1>8, <2>2
    <3>. QED BY <1>1, <1>7, <2>2, <3>1 DEF WorldInv, WorldConsistent, MapEntityFollows
  <2>. QED BY <2>1, <2>2
<1>. QED BY <1>9, <1>10, <1>11, <1>12 DEF WorldInv, WorldConsistent

\* The map entity of a destroyed instance goes.
LEMMA UnmapStep == ASSUME WorldInv, NEW t \in Threads, UnmapInstance(t) PROVE WorldInv'
<1>0. PICK i : i = threadAt[t].instance
  OBVIOUS
<1>1. /\ threadAt[t].op = "unmap" /\ threadAt' = [threadAt EXCEPT ![t] = IdleThread]
      /\ mapped' = mapped \ {i}
      /\ UNCHANGED <<instances, nextInstance, playerSessions, membership, dropped>>
  BY <1>0 DEF UnmapInstance, ThreadLeave
<1>2. ThreadOK(IdleThread) /\ IdleThread.op = "idle"
  BY IdleOK
<1>3. /\ instances \in [InstanceIds -> MapInstanceRecord] /\ mapped \subseteq InstanceIds
      /\ dropped \subseteq InstanceIds /\ nextInstance \in Nat \ {0}
      /\ DOMAIN threadAt = Threads /\ \A u \in Threads : ThreadOK(threadAt[u])
      /\ \A p \in Players : playerSessions[p] \in InstanceIds \cup {0}
  BY DEF WorldInv, WorldTypeOK
<1>4. \A u \in Threads : threadAt[u].op \notin {"idle", "remove"} =>
        threadAt[u].instance \in InstanceIds /\ threadAt[u].instance < nextInstance
  BY <1>3 DEF ThreadOK, WorldInv, IdsFresh
<1>5. \A u \in Threads :
        /\ threadAt[u].op \in SlotOps => InstanceExists(threadAt[u].instance)
        /\ threadAt[u].op \in {"spawn", "release", "move"} => threadAt[u].instance \in mapped
  BY DEF WorldInv, OperationHolds, SlotOps
<1>6. i \in InstanceIds /\ ~InstanceExists(i)
  BY <1>0, <1>1, <1>4 DEF WorldInv, MappingOnce
<1>7. \A j \in InstanceIds : InstanceExists(j)' <=> InstanceExists(j)
  BY <1>1 DEF InstanceExists
<1>8. DOMAIN threadAt' = Threads /\ threadAt'[t] = IdleThread /\ \A u \in Threads : u # t => threadAt'[u] = threadAt[u]
  BY <1>1, <1>3
<1>9. WorldTypeOK' /\ OneInPlayerOps' /\ IdsFresh' /\ OperationHolds' /\ SlotsAccounted'
  <2>1. \A u \in Threads : ThreadOK(threadAt'[u])
    BY <1>2, <1>3, <1>8
  <2>2. /\ \A u \in Threads : threadAt'[u].op \notin {"idle", "remove"} => threadAt'[u].instance < nextInstance'
        /\ nextInstance' \in Nat /\ nextInstance <= nextInstance'
    BY <1>1, <1>2, <1>3, <1>4, <1>8
  <2>3. \A u \in Threads : \/ threadAt'[u] = threadAt[u]
                           \/ threadAt[u].op \notin PlayerOps /\ threadAt'[u].op \notin PlayerOps
    BY <1>1, <1>2, <1>8 DEF PlayerOps
  <2>4. \A j \in InstanceIds : j >= nextInstance' => ~InstanceExists(j)' /\ j \notin mapped'
    BY <1>1, <1>7 DEF WorldInv, IdsFresh
  <2>5. \A u \in Threads : threadAt[u].op \in SlotOps => instances'[threadAt[u].instance].state # "None"
    BY <1>1, <1>5 DEF InstanceExists
  <2>6. /\ mapped' \subseteq InstanceIds /\ dropped' \subseteq InstanceIds
        /\ \A u \in Threads : threadAt[u].op \in {"spawn", "release", "move"} => threadAt[u].instance \in mapped'
    BY <1>1, <1>3, <1>5, <1>6 DEF SlotOps
  <2>7. \A j \in InstanceIds : InstanceExists(j)' => InstanceExists(j) /\ instances'[j].count = instances[j].count
    BY <1>1, <1>7
  <2>8. UNCHANGED <<playerSessions, membership>> /\ instances' \in [InstanceIds -> MapInstanceRecord]
    BY <1>1, <1>3
  <2>. QED BY <1>8, <2>1, <2>2, <2>3, <2>4, <2>5, <2>6, <2>7, <2>8, ManagerStep
<1>10. MappingOnce'
  <2>1. ASSUME NEW u \in Threads, threadAt'[u].op \in {"map", "unmap"}
        PROVE  u # t /\ threadAt'[u] = threadAt[u] /\ threadAt[u].op \in {"map", "unmap"}
               /\ threadAt[u].instance \in InstanceIds
    BY <1>2, <1>4, <1>8, <2>1
  <2>. QED BY <1>1, <1>7, <2>1 DEF WorldInv, MappingOnce
<1>11. PlayerHasWorld'
  <2>1. \A u \in Threads : threadAt[u].op = "move" => threadAt'[u] = threadAt[u]
    BY <1>1, <1>8
  <2>. QED BY <1>1, <1>3, <1>6, <1>7, <2>1 DEF WorldInv, WorldConsistent, PlayerHasWorld
<1>12. MapEntityFollows'
  <2> SUFFICES ASSUME NEW j \in InstanceIds, j \notin dropped',
                      \A u \in Threads : ~(threadAt'[u].op \in {"map", "unmap"} /\ threadAt'[u].instance = j)
               PROVE  j \in mapped' <=> InstanceExists(j)'
    BY DEF MapEntityFollows
  <2>1. CASE j = i
    BY <1>1, <1>6, <1>7, <2>1
  <2>2. CASE j # i
    <3>1. \A u \in Threads : ~(threadAt[u].op \in {"map", "unmap"} /\ threadAt[u].instance = j)
      BY <1>0, <1>8, <2>2
    <3>. QED BY <1>1, <1>7, <2>2, <3>1 DEF WorldInv, WorldConsistent, MapEntityFollows
  <2>. QED BY <2>1, <2>2
<1>. QED BY <1>9, <1>10, <1>11, <1>12 DEF WorldInv, WorldConsistent

\* An instance without a count has no slot taken, and no player but one who is leaving.
LEMMA Empty ==
  ASSUME WorldInv, NEW t \in Threads, threadAt[t].op \notin PlayerOps,
         NEW i \in InstanceIds, InstanceExists(i), instances[i].count = 0
  PROVE  /\ \A u \in Threads : threadAt[u].op \in SlotOps => threadAt[u].instance # i
         /\ \A p \in Players : playerSessions[p] = i =>
              \E u \in Threads : threadAt[u].op = "move" /\ threadAt[u].player = p
<1>1. PICK v \in Threads : \A u \in Threads : u # v => threadAt[u].op \notin PlayerOps
  <2>1. CASE \E u \in Threads : threadAt[u].op \in PlayerOps
    BY <2>1 DEF WorldInv, OneInPlayerOps
  <2>. QED BY <2>1
<1>2. /\ Ahead(i) = AheadBy(threadAt[v], i) /\ Behind(i) = BehindBy(threadAt[v], playerSessions, i)
      /\ In(i) = PlayersIn(playerSessions, i) /\ PlayersIn(playerSessions, i) \in Nat
  <2>1. AheadIn(threadAt, i) = AheadBy(threadAt[v], i)
        /\ BehindIn(threadAt, playerSessions, i) = BehindBy(threadAt[v], playerSessions, i)
    BY <1>1, SoleThread
  <2>2. Ahead(i) = AheadIn(threadAt, i) /\ Behind(i) = BehindIn(threadAt, playerSessions, i)
        /\ In(i) = PlayersIn(playerSessions, i)
    BY ThreadsCounted
  <2>3. PlayersIn(playerSessions, i) \in Nat
    BY PlayersFinite
  <2>. QED BY <2>1, <2>2, <2>3
<1>3. BehindBy(threadAt[v], playerSessions, i) = PlayersIn(playerSessions, i) + AheadBy(threadAt[v], i)
  <2>1. instances[i].count + Behind(i) = In(i) + Ahead(i)
    BY DEF WorldInv, WorldConsistent, SlotsAccounted
  <2>2. Behind(i) \in {0, 1}
    BY <1>2 DEF BehindBy
  <2>. QED BY <1>2, <2>1, <2>2
<1>4. ASSUME threadAt[v].op \in SlotOps, threadAt[v].instance = i PROVE FALSE
  <2>1. AheadBy(threadAt[v], i) = 1
    BY <1>4 DEF AheadBy
  <2>2. BehindBy(threadAt[v], playerSessions, i) = 0
    BY <1>4 DEF BehindBy, WorldInv, OperationHolds
  <2>. QED BY <1>2, <1>3, <2>1, <2>2
<1>5. ASSUME NEW p \in Players, playerSessions[p] = i,
             ~\E u \in Threads : threadAt[u].op = "move" /\ threadAt[u].player = p
      PROVE  FALSE
  <2> DEFINE A == {q \in Players : playerSessions[q] = i}
  <2>1. IsFiniteSet(A) /\ PlayersIn(playerSessions, i) = Cardinality(A) /\ p \in A
    BY <1>5, PlayersFinite DEF PlayersIn
  <2>2. AheadBy(threadAt[v], i) \in {0, 1} /\ BehindBy(threadAt[v], playerSessions, i) \in {0, 1}
    BY DEF AheadBy, BehindBy
  <2>3. PlayersIn(playerSessions, i) > 0
    BY <1>5, Inhabited
  <2>4. BehindBy(threadAt[v], playerSessions, i) = 1 /\ PlayersIn(playerSessions, i) = 1
    BY <1>2, <1>3, <2>2, <2>3
  <2>5. threadAt[v].op = "move" /\ playerSessions[threadAt[v].player] = i
    BY <2>4 DEF BehindBy
  <2>6. threadAt[v].player \in Players
    BY <2>5 DEF WorldInv, WorldTypeOK, ThreadOK, PlayerOps
  <2>7. threadAt[v].player \in A \ {p}
    BY <1>5, <2>5, <2>6
  <2> HIDE DEF A
  <2>8. Cardinality(A \ {p}) \in Nat /\ Cardinality(A) = Cardinality(A \ {p}) + (IF p \in A THEN 1 ELSE 0)
    BY <2>1, OneLess, Zenon
  <2>9. Cardinality(A \ {p}) = 0
    <3>1. Cardinality(A) = 1
      BY <2>1, <2>4, Zenon
    <3>. QED BY <2>1, <2>8, <3>1
  <2>10. IsFiniteSet(A \ {p})
    BY <2>1, FS_RemoveElement
  <2>11. A \ {p} = {}
    BY <2>9, <2>10, FS_EmptySet
  <2>. QED BY <2>7, <2>11
<1>6. \A u \in Threads : threadAt[u].op \in SlotOps => u = v
  BY <1>1 DEF SlotOps, PlayerOps
<1>. QED BY <1>4, <1>5, <1>6

\* destroyInstance(): nobody needs the instance, and its map entity goes next unless it was
\* never mapped.
LEMMA DestroyStep ==
  ASSUME WorldInv, NEW t \in Threads, NEW i \in InstanceIds, DestroyInstance(t, i) PROVE WorldInv'
<1> DEFINE new == [op |-> "unmap", instance |-> i, player |-> IdleThread.player]
           gone == [state |-> "None", count |-> 0]
<1>1. /\ threadAt[t].op = "idle" /\ InstanceExists(i) /\ instances[i].count = 0
      /\ instances' = [instances EXCEPT ![i] = gone] /\ threadAt' = [threadAt EXCEPT ![t] = new]
      /\ dropped' = (IF i \in mapped THEN dropped ELSE dropped \cup {i})
      /\ UNCHANGED <<nextInstance, mapped, playerSessions, membership>>
  BY DEF DestroyInstance, ThreadIdle, ThreadGoto
<1>2. ThreadOK(new) /\ new.op = "unmap" /\ new.instance = i
  BY MapperOK
<1> HIDE DEF new
<1>3. /\ instances \in [InstanceIds -> MapInstanceRecord] /\ mapped \subseteq InstanceIds
      /\ dropped \subseteq InstanceIds /\ nextInstance \in Nat \ {0}
      /\ DOMAIN threadAt = Threads /\ \A u \in Threads : ThreadOK(threadAt[u])
      /\ \A p \in Players : playerSessions[p] \in InstanceIds \cup {0}
  BY DEF WorldInv, WorldTypeOK
<1>4. \A u \in Threads : threadAt[u].op \notin {"idle", "remove"} =>
        threadAt[u].instance \in InstanceIds /\ threadAt[u].instance < nextInstance
  BY <1>3 DEF ThreadOK, WorldInv, IdsFresh
<1>5. \A u \in Threads :
        /\ threadAt[u].op \in SlotOps => InstanceExists(threadAt[u].instance)
        /\ threadAt[u].op \in {"spawn", "release", "move"} => threadAt[u].instance \in mapped
  BY DEF WorldInv, OperationHolds, SlotOps
<1>6. gone \in MapInstanceRecord /\ gone.state = "None"
  BY DEF MapInstanceRecord
<1> HIDE DEF gone
<1>7. /\ instances' \in [InstanceIds -> MapInstanceRecord] /\ ~InstanceExists(i)'
      /\ \A j \in InstanceIds : j # i => /\ instances'[j] = instances[j]
                                         /\ InstanceExists(j)' <=> InstanceExists(j)
  BY <1>1, <1>3, <1>6 DEF InstanceExists
<1>8. DOMAIN threadAt' = Threads /\ threadAt'[t] = new /\ \A u \in Threads : u # t => threadAt'[u] = threadAt[u]
  BY <1>1, <1>3
<1>9. /\ \A u \in Threads : threadAt[u].op \in SlotOps => threadAt[u].instance # i
      /\ \A p \in Players : playerSessions[p] = i =>
           \E u \in Threads : threadAt[u].op = "move" /\ threadAt[u].player = p
  <2>1. threadAt[t].op \notin PlayerOps
    BY <1>1 DEF PlayerOps
  <2>. QED BY <1>1, <2>1, Empty
<1>10. WorldTypeOK' /\ OneInPlayerOps' /\ IdsFresh' /\ OperationHolds' /\ SlotsAccounted'
  <2>1. \A u \in Threads : ThreadOK(threadAt'[u])
    BY <1>2, <1>3, <1>8
  <2>2. /\ \A u \in Threads : threadAt'[u].op \notin {"idle", "remove"} => threadAt'[u].instance < nextInstance'
        /\ nextInstance' \in Nat /\ nextInstance <= nextInstance'
    BY <1>1, <1>2, <1>3, <1>4, <1>8, ExistingId
  <2>3. \A u \in Threads : \/ threadAt'[u] = threadAt[u]
                           \/ threadAt[u].op \notin PlayerOps /\ threadAt'[u].op \notin PlayerOps
    BY <1>1, <1>2, <1>8 DEF PlayerOps
  <2>4. \A j \in InstanceIds : j >= nextInstance' => ~InstanceExists(j)' /\ j \notin mapped'
    BY <1>1, <1>7 DEF WorldInv, IdsFresh
  <2>5. \A u \in Threads : threadAt[u].op \in SlotOps => instances'[threadAt[u].instance].state # "None"
    <3>1. \A u \in Threads : threadAt[u].op \in SlotOps => threadAt[u].instance \in InstanceIds
      BY <1>4 DEF SlotOps
    <3>. QED BY <1>5, <1>7, <1>9, <3>1 DEF InstanceExists
  <2>6. /\ mapped' \subseteq InstanceIds /\ dropped' \subseteq InstanceIds
        /\ \A u \in Threads : threadAt[u].op \in {"spawn", "release", "move"} => threadAt[u].instance \in mapped'
    BY <1>1, <1>3, <1>5
  <2>7. \A j \in InstanceIds : InstanceExists(j)' => InstanceExists(j) /\ instances'[j].count = instances[j].count
    BY <1>7
  <2>8. UNCHANGED <<playerSessions, membership>>
    BY <1>1
  <2>. QED BY <1>7, <1>8, <2>1, <2>2, <2>3, <2>4, <2>5, <2>6, <2>7, <2>8, ManagerStep
<1>11. MappingOnce'
  <2>1. ASSUME NEW u \in Threads, threadAt'[u].op = "map"
        PROVE  /\ threadAt'[u].instance \notin mapped'
               /\ threadAt'[u].instance \in dropped' \/ instances'[threadAt'[u].instance].state # "None"
               /\ \A v \in Threads : threadAt'[v].op = "map" /\ threadAt'[v].instance = threadAt'[u].instance => u = v
    <3>1. /\ u # t /\ threadAt'[u] = threadAt[u] /\ threadAt[u].op = "map"
          /\ threadAt[u].instance \in InstanceIds /\ threadAt[u].instance \notin mapped
          /\ threadAt[u].instance \in dropped \/ instances[threadAt[u].instance].state # "None"
      BY <1>2, <1>4, <1>8, <2>1 DEF WorldInv, MappingOnce, InstanceExists
    <3>2. \A v \in Threads : threadAt'[v].op = "map" => v # t /\ threadAt'[v] = threadAt[v]
      BY <1>2, <1>8
    <3>3. \A v \in Threads : threadAt'[v].op = "map" /\ threadAt'[v].instance = threadAt'[u].instance => u = v
      BY <3>1, <3>2 DEF WorldInv, MappingOnce
    <3>4. threadAt[u].instance \in dropped' \/ instances'[threadAt[u].instance].state # "None"
      BY <1>1, <1>7, <3>1
    <3>. QED BY <1>1, <3>1, <3>3, <3>4
  <2>2. ASSUME NEW u \in Threads, threadAt'[u].op = "unmap"
        PROVE  instances'[threadAt'[u].instance].state = "None"
    <3>1. CASE u = t
      BY <1>2, <1>7, <1>8, <3>1 DEF InstanceExists
    <3>2. CASE u # t
      <4>1. /\ threadAt'[u] = threadAt[u] /\ threadAt[u].op = "unmap" /\ threadAt[u].instance \in InstanceIds
            /\ instances[threadAt[u].instance].state = "None"
        BY <1>4, <1>8, <2>2, <3>2 DEF WorldInv, MappingOnce, InstanceExists
      <4>. QED BY <1>1, <1>7, <4>1 DEF InstanceExists
    <3>. QED BY <3>1, <3>2
  <2>. QED BY <2>1, <2>2 DEF MappingOnce, InstanceExists
<1>12. PlayerHasWorld'
  <2> SUFFICES ASSUME NEW p \in Players, playerSessions'[p] # 0,
                      \A u \in Threads : ~(threadAt'[u].op = "move" /\ threadAt'[u].player = p)
               PROVE  /\ instances'[playerSessions'[p]].state # "None"
                      /\ playerSessions'[p] \in mapped' /\ membership'[p] = playerSessions'[p]
    BY DEF PlayerHasWorld, InstanceExists
  <2>1. \A u \in Threads : ~(threadAt[u].op = "move" /\ threadAt[u].player = p)
    BY <1>1, <1>8
  <2>2. InstanceExists(playerSessions[p]) /\ playerSessions[p] \in mapped /\ membership[p] = playerSessions[p]
    BY <1>1, <2>1 DEF WorldInv, WorldConsistent, PlayerHasWorld
  <2>3. playerSessions[p] \in InstanceIds /\ playerSessions[p] # i
    BY <1>1, <1>3, <1>9, <2>1
  <2>. QED BY <1>1, <1>7, <2>2, <2>3 DEF InstanceExists
<1>13. MapEntityFollows'
  <2> SUFFICES ASSUME NEW j \in InstanceIds, j \notin dropped',
                      \A u \in Threads : ~(threadAt'[u].op \in {"map", "unmap"} /\ threadAt'[u].instance = j)
               PROVE  j \in mapped' <=> InstanceExists(j)'
    BY DEF MapEntityFollows
  <2>1. j # i
    BY <1>2, <1>8
  <2>2. \A u \in Threads : ~(threadAt[u].op \in {"map", "unmap"} /\ threadAt[u].instance = j)
    BY <1>1, <1>8
  <2>. QED BY <1>1, <1>7, <2>1, <2>2 DEF WorldInv, WorldConsistent, MapEntityFollows
<1>. QED BY <1>10, <1>11, <1>12, <1>13 DEF WorldInv, WorldConsistent

(***************************************************************************)
(* The results.                                                            *)
(***************************************************************************)

\* Every step of the game service preserves the invariant.
LEMMA WorldStep == WorldInv /\ [WorldNext]_worldVars => WorldInv'
<1> SUFFICES ASSUME WorldInv, [WorldNext]_worldVars PROVE WorldInv'
  OBVIOUS
<1>1. CASE UNCHANGED worldVars
  BY <1>1 DEF worldVars, WorldInv, WorldTypeOK, ThreadOK, OneInPlayerOps, IdsFresh, MappingOnce,
              OperationHolds, WorldConsistent, SlotsAccounted, PlayerHasWorld, MapEntityFollows,
              InstanceExists, In, Ahead, Behind
<1>2. ASSUME NEW t \in Threads, NEW p \in Players, NEW i \in InstanceIds,
             AddPlayer(t, p, i) \/ TransferPlayer(t, p, i)
      PROVE  WorldInv'
  <2>1. CASE AddPlayer(t, p, i)
    BY <2>1, TakeStep DEF AddPlayer
  <2>2. CASE TransferPlayer(t, p, i)
    BY <2>2, TakeStep DEF TransferPlayer
  <2>. QED BY <1>2, <2>1, <2>2
<1>3. ASSUME NEW t \in Threads, AddFind(t) PROVE WorldInv'
  <2>1. CASE threadAt[t].instance \in mapped
    BY <1>3, <2>1, FindStep DEF AddFind
  <2>2. CASE threadAt[t].instance \notin mapped
    BY <1>3, <2>2, GiveBackStep DEF AddFind
  <2>. QED BY <2>1, <2>2
<1>4. ASSUME NEW t \in Threads, TransferFind(t) PROVE WorldInv'
  <2>1. CASE threadAt[t].instance \in mapped
    BY <1>4, <2>1, FindStep DEF TransferFind
  <2>2. CASE threadAt[t].instance \notin mapped
    BY <1>4, <2>2, GiveBackStep DEF TransferFind
  <2>. QED BY <2>1, <2>2
<1>5. ASSUME NEW t \in Threads, AddSpawn(t) \/ TransferMove(t) PROVE WorldInv'
  <2>1. threadAt[t].instance \in mapped
    BY <1>5 DEF AddSpawn, TransferMove, WorldInv, OperationHolds
  <2>. QED BY <1>5, <2>1, EnterStep DEF AddSpawn, TransferMove
<1>6. CASE IdsUsed
  BY <1>1, <1>6 DEF IdsUsed
<1>. QED BY <1>1, <1>2, <1>3, <1>4, <1>5, <1>6, StateStep, CreateStep, MapStep, UnmapStep, DestroyStep,
            RemoveStep, RemoveEndStep, ReleaseStep DEF WorldNext

\* A server without instances and players satisfies it.
LEMMA WorldBegins == WorldInit => WorldInv
<1> SUFFICES ASSUME WorldInit PROVE WorldInv
  OBVIOUS
<1>1. /\ \A i \in InstanceIds : ~InstanceExists(i)
      /\ mapped = {} /\ dropped = {} /\ nextInstance = 1
      /\ \A p \in Players : playerSessions[p] = 0
      /\ \A t \in Threads : threadAt[t] = IdleThread /\ threadAt[t].op = "idle"
  BY IdleOK DEF WorldInit, InstanceExists
<1>2. WorldTypeOK
  BY IdleOK DEF WorldInit, WorldTypeOK, MapInstanceRecord
<1>3. OneInPlayerOps /\ IdsFresh /\ MappingOnce /\ OperationHolds
  BY <1>1 DEF OneInPlayerOps, IdsFresh, MappingOnce, OperationHolds, PlayerOps
<1>4. WorldConsistent
  BY <1>1 DEF WorldConsistent, SlotsAccounted, PlayerHasWorld, MapEntityFollows
<1>. QED BY <1>2, <1>3, <1>4 DEF WorldInv

\* Whatever the number of threads, players and instances, no slot of an instance is lost or
\* given back twice, every player has an instance with a map entity to be in, and map entities
\* follow their instances, through every interleaving of the server's operations.
THEOREM WorldStaysConsistent == WorldSpec => []WorldConsistent
BY WorldBegins, WorldStep, PTL DEF WorldSpec, WorldInv

\* Instances, sessions and threads have their types, counts never below zero.
THEOREM WorldTypeCorrect == WorldSpec => []WorldTypeOK
BY WorldBegins, WorldStep, PTL DEF WorldSpec, WorldInv

(***************************************************************************)
(* Plugins.                                                                *)
(***************************************************************************)

\* Every plugin of a list comes behind what it requires.
Placed(s) == \A i \in DOMAIN s : \A m \in Requires(s[i]) : \E j \in 1..(i - 1) : s[j] = m

\* The sort: the in-degrees count the dependencies that are not placed yet, and the plugins
\* without any are those in the queue or placed.
PlacingInv ==
  /\ manager.op # "sort" => manager.degree = <<>>
  /\ manager.op = "sort" =>
       /\ ~HasCycle /\ ConstraintsHold /\ manager.degree \in [Loaded -> Nat]
       /\ ToSet(manager.ready) \cup ToSet(manager.todo) \subseteq Loaded
       /\ IsInjective(manager.ready) /\ IsInjective(manager.todo)
       /\ ToSet(manager.ready) \cap ToSet(manager.todo) = {}
       /\ \A m \in Loaded : manager.degree[m] = Cardinality(Requires(m) \ ToSet(manager.todo))
       /\ \A m \in Loaded : manager.degree[m] = 0 <=> m \in ToSet(manager.ready) \cup ToSet(manager.todo)
       /\ Placed(manager.todo)

\* While plugins are moved all together and initialize: those that are up are in the order.
UpInv ==
  ~outside =>
    /\ \A n \in Loaded : plugins[n].state # "Error"
    /\ \A n \in Loaded : Up(n) => n \in ToSet(loadOrder)

\* How far an operation on all plugins is: what is behind is up, or down.
ProgressInv ==
  /\ manager.op \in {"idle", "reload"} => manager.todo = <<>>
  /\ manager.op = "init" =>
       /\ ConstraintsHold /\ Placed(loadOrder) /\ Len(manager.todo) <= Len(loadOrder)
       /\ \A i \in DOMAIN manager.todo :
            manager.todo[i] = loadOrder[Len(loadOrder) - Len(manager.todo) + i]
       /\ ~outside => \A i \in 1..(Len(loadOrder) - Len(manager.todo)) : Up(loadOrder[i])
  /\ manager.op = "shutdown" /\ loadOrder # <<>> =>
       /\ Len(manager.todo) <= Len(loadOrder)
       /\ \A i \in DOMAIN manager.todo : manager.todo[i] = loadOrder[Len(manager.todo) - i + 1]
       /\ \A i \in DOMAIN loadOrder : i > Len(manager.todo) => ~Up(loadOrder[i])
  /\ manager.op = "unload" /\ loadOrder # <<>> =>
       /\ Len(manager.todo) <= Len(loadOrder)
       /\ \A i \in DOMAIN manager.todo : manager.todo[i] = loadOrder[Len(manager.todo) - i + 1]

\* DependenciesUp as long as nothing is being unloaded.
DependenciesHeld ==
  ~outside =>
    \A n \in Loaded : Up(n) =>
      \A dep \in plugins[n].bin.deps :
        dep.parses => /\ dep.name \in Loaded /\ Up(dep.name)
                      /\ AllSatisfied(dep, plugins[dep.name].bin.version)

\* The inductive invariant of the manager.
PluginInv ==
  PluginTypeOK /\ PlacingInv /\ LoadOrderSorted /\ UpInv /\ ProgressInv /\ DependenciesHeld

\* The loaded plugins are finitely many.
LEMMA LoadedFinite ==
  ASSUME PluginTypeOK
  PROVE  /\ \A S \in SUBSET Loaded : IsFiniteSet(S) /\ Cardinality(S) \in Nat
         /\ \A n : Requires(n) \subseteq Loaded
         /\ \A n : IsFiniteSet(Requires(n)) /\ Cardinality(Requires(n)) \in Nat
<1>1. ASSUME NEW S \in SUBSET Loaded PROVE IsFiniteSet(S) /\ Cardinality(S) \in Nat
  <2>1. S \in SUBSET PluginNames
    BY DEF PluginTypeOK
  <2>2. IsFiniteSet(S)
    BY <2>1, PluginAssumption, FS_Subset
  <2>. QED BY <2>2, FS_CardinalityType
<1>2. \A n : Requires(n) \subseteq Loaded
  BY DEF Requires
<1>. QED BY <1>1, <1>2

\* Plugins that stay loaded from the same binaries require the same.
LEMMA SameBinaries ==
  ASSUME Loaded' = Loaded, \A n \in Loaded : plugins'[n].bin = plugins[n].bin
  PROVE  /\ \A n \in Loaded : Requires(n)' = Requires(n)
         /\ HasCycle' <=> HasCycle
         /\ ConstraintsHold' <=> ConstraintsHold
<1>1. \A n \in Loaded : Requires(n)' = Requires(n)
  BY DEF Requires
<1>2. HasCycle' <=> HasCycle
  BY <1>1 DEF HasCycle
<1>3. ASSUME NEW n \in Loaded, NEW dep
      PROVE  (dep.name \in Loaded /\ AllSatisfied(dep, plugins[dep.name].bin.version))'
               <=> (dep.name \in Loaded /\ AllSatisfied(dep, plugins[dep.name].bin.version))
  BY DEF AllSatisfied, Satisfied, AtLeast, VersionLess
<1>4. ConstraintsHold' <=> ConstraintsHold
  BY <1>3 DEF ConstraintsHold
<1>. QED BY <1>1, <1>2, <1>4

\* The invariant at the start.
LEMMA PluginBegins == PluginInit => PluginInv
<1>. SUFFICES ASSUME PluginInit PROVE PluginInv
  OBVIOUS
<1>1. Loaded = {} /\ loadOrder = <<>> /\ manager = NoOperation /\ outside = FALSE
  BY DEF PluginInit, Loaded
<1>2. manager.op = "idle" /\ manager.degree = <<>> /\ manager.todo = <<>> /\ manager \in Operation
  BY <1>1 DEF NoOperation, Operation
<1>3. PluginTypeOK
  <2>1. plugins \in [Loaded -> PluginRecord]
    BY <1>1 DEF PluginInit, Loaded
  <2>2. \A n \in PluginNames : 1 \in DOMAIN Files[n]
    BY PluginAssumption
  <2>3. file \in [PluginNames -> Nat] /\ \A n \in PluginNames : file[n] \in DOMAIN Files[n]
    BY <2>2 DEF PluginInit
  <2>4. loadOrder \in Seq(PluginNames) /\ Loaded \subseteq PluginNames
    BY <1>1
  <2>5. outside \in BOOLEAN
    BY <1>1, Zenon
  <2>. QED BY <1>2, <2>1, <2>3, <2>4, <2>5, Zenon DEF PluginTypeOK
<1>4. LoadOrderSorted
  BY <1>1 DEF LoadOrderSorted, IsInjective, ToSet
<1>. QED BY <1>1, <1>2, <1>3, <1>4 DEF PluginInv, PlacingInv, UpInv, ProgressInv, DependenciesHeld

\* What is kept of a list, and in which order.
LEMMA Selected ==
  ASSUME NEW S, NEW s \in Seq(S), NEW P \in SUBSET (DOMAIN s), NEW t \in KeptAt(s, P)
  PROVE  /\ t \in Seq(S) /\ ToSet(t) = {s[i] : i \in P} /\ Len(t) <= Len(s)
         /\ \E f \in [DOMAIN t -> P] : Rising(f) /\ \A i \in DOMAIN t : t[i] = s[f[i]]
         /\ IsInjective(s) => IsInjective(t)
<1>. DEFINE n == Cardinality(P)
<1>1. DOMAIN s = 1..Len(s) /\ Len(s) \in Nat
  OBVIOUS
<1>2. IsFiniteSet(P) /\ Cardinality(P) <= Len(s)
  <2>1. IsFiniteSet(1..Len(s)) /\ Cardinality(1..Len(s)) = IF 1 > Len(s) THEN 0 ELSE Len(s) - 1 + 1
    BY <1>1, FS_Interval, 1 \in Int, Len(s) \in Int, Zenon
  <2>2. Cardinality(1..Len(s)) = Len(s)
    BY <1>1, <2>1
  <2>. QED BY <1>1, <2>1, <2>2, FS_Subset
<1>3. n \in Nat
  BY <1>2, FS_CardinalityType
<1>4. PICK f \in [1..n -> P] : Rising(f) /\ t = [i \in DOMAIN f |-> s[f[i]]]
  BY DEF KeptAt
<1>5. DOMAIN t = 1..n /\ \A i \in 1..n : t[i] = s[f[i]] /\ f[i] \in P /\ t[i] \in S
  BY <1>1, <1>4
<1>6. t \in Seq(S) /\ Len(t) <= Len(s)
  BY <1>1, <1>2, <1>3, <1>4, <1>5
<1>7. \A i, j \in 1..n : f[i] = f[j] => i = j
  BY <1>1, <1>3, <1>4, <1>5 DEF Rising
<1>8. f \in Surjection(1..n, P)
  <2>1. f \in Injection(1..n, P)
    BY <1>4, <1>7 DEF Injection, IsInjective
  <2>2. Cardinality(1..n) = Cardinality(P)
    BY <1>3, FS_Interval
  <2>. QED BY <1>2, <2>1, <2>2, FS_Injection
<1>. HIDE DEF n
<1>9. ToSet(t) = {s[i] : i \in P}
  BY <1>5, <1>8 DEF ToSet, Surjection
<1>10. IsInjective(s) => IsInjective(t)
  BY <1>5, <1>7 DEF IsInjective
<1>. QED BY <1>4, <1>5, <1>6, <1>9, <1>10

\* An order stays sorted while nobody in it begins to require another of it.
LEMMA OrderKept ==
  ASSUME PluginTypeOK, LoadOrderSorted, loadOrder' = loadOrder, ToSet(loadOrder) \subseteq Loaded',
         \A n \in ToSet(loadOrder) : \A m \in ToSet(loadOrder) : m \in Requires(n)' => m \in Requires(n)
  PROVE  LoadOrderSorted'
<1>1. \A i \in DOMAIN loadOrder : loadOrder[i] \in ToSet(loadOrder)
  BY DEF ToSet
<1>. QED BY <1>1 DEF LoadOrderSorted

\* Nothing is going on.
LEMMA IdleFacts ==
  ASSUME PluginInv, ManagerIdle
  PROVE  manager.op = "idle" /\ manager.degree = <<>> /\ manager.todo = <<>>
BY DEF PluginInv, PlacingInv, ProgressInv, ManagerIdle

\* More plugins are loaded.
LEMMA GrownInv ==
  ASSUME PluginInv, ManagerIdle, Loaded \subseteq Loaded', Loaded' \subseteq PluginNames,
         plugins' \in [Loaded' -> PluginRecord], \A m \in Loaded : plugins'[m] = plugins[m],
         \A m \in Loaded' : m \notin Loaded => plugins'[m].state = "Loaded",
         UNCHANGED <<loadOrder, manager, file, outside>>
  PROVE  PluginInv'
<1>1. manager' = manager /\ loadOrder' = loadOrder /\ file' = file /\ outside' = outside
  OBVIOUS
<1>2. PluginTypeOK'
  <2>1. manager \in [op : {"idle", "sort", "init", "activate", "update", "shutdown", "unload", "reload"},
                     todo : Seq(PluginNames), ready : Seq(PluginNames), degree : [Loaded' -> Nat] \cup {<<>>}]
    BY IdleFacts DEF PluginInv, PluginTypeOK, Operation
  <2>. QED BY <1>1, <2>1 DEF PluginInv, PluginTypeOK, Operation
<1>3. \A n \in Loaded : \A m \in Loaded : m \in Requires(n)' => m \in Requires(n)
  BY DEF Requires
<1>4. LoadOrderSorted'
  BY <1>1, <1>3, OrderKept DEF PluginInv, LoadOrderSorted
<1>5. PlacingInv' /\ ProgressInv'
  BY <1>1, IdleFacts DEF PlacingInv, ProgressInv
<1>6. \A n \in Loaded' : Up(n)' => n \in Loaded /\ Up(n)
  BY DEF Up
<1>7. UpInv'
  BY <1>1, <1>6 DEF PluginInv, UpInv, Up
<1>8. DependenciesHeld'
  <2>. SUFFICES ASSUME ~outside, NEW n \in Loaded', Up(n)', NEW dep \in plugins'[n].bin.deps, dep.parses
                PROVE  (/\ dep.name \in Loaded /\ Up(dep.name)
                        /\ AllSatisfied(dep, plugins[dep.name].bin.version))'
    BY <1>1 DEF DependenciesHeld
  <2>1. n \in Loaded /\ Up(n) /\ dep \in plugins[n].bin.deps
    BY <1>6
  <2>2. dep.name \in Loaded /\ Up(dep.name) /\ AllSatisfied(dep, plugins[dep.name].bin.version)
    BY <2>1 DEF PluginInv, DependenciesHeld
  <2>3. plugins'[dep.name] = plugins[dep.name] /\ dep.name \in Loaded'
    BY <2>2
  <2>. QED BY <2>2, <2>3 DEF Up, AllSatisfied
<1>. QED BY <1>2, <1>4, <1>5, <1>7, <1>8 DEF PluginInv

\* A plugin just loaded.
LEMMA FreshTyped ==
  ASSUME PluginTypeOK, NEW n \in PluginNames
  PROVE  /\ FreshPlugin(n) \in PluginRecord /\ FreshPlugin(n).state = "Loaded" /\ FreshPlugin(n).from = file[n]
         /\ \A s \in {"Loaded", "Initialized", "Active", "Error"} :
              /\ [FreshPlugin(n) EXCEPT !.state = s] \in PluginRecord
              /\ [FreshPlugin(n) EXCEPT !.state = s].from = file[n]
<1>1. file[n] \in Nat /\ file[n] \in DOMAIN Files[n]
  BY DEF PluginTypeOK
<1>2. Files[n][file[n]] \in UNION {{Files[k][i] : i \in DOMAIN Files[k]} : k \in PluginNames}
  BY <1>1
<1>. QED BY <1>1, <1>2 DEF FreshPlugin, PluginRecord

LEMMA LoadInv ==
  ASSUME PluginInv, \/ RegisterStaticPlugins
                    \/ \E n \in PluginNames : LoadPlugin(n)
  PROVE  PluginInv'
<1>1. PluginTypeOK /\ Loaded \subseteq PluginNames /\ plugins \in [Loaded -> PluginRecord]
  BY DEF PluginInv, PluginTypeOK
<1>2. ASSUME NEW n \in PluginNames, LoadPlugin(n) PROVE PluginInv'
  <2>1. /\ ManagerIdle /\ n \notin Loaded /\ plugins' = With(plugins, n, FreshPlugin(n))
        /\ UNCHANGED <<loadOrder, manager, file, outside>>
    BY <1>2 DEF LoadPlugin
  <2>2. Loaded' = Loaded \cup {n} /\ plugins'[n] = FreshPlugin(n) /\ \A m \in Loaded : plugins'[m] = plugins[m]
    BY <2>1 DEF With, Loaded
  <2>3. plugins' = [m \in Loaded' |-> plugins'[m]]
    BY <2>1 DEF With, Loaded
  <2>4. plugins' \in [Loaded' -> PluginRecord]
    BY <1>1, <2>2, <2>3, FreshTyped
  <2>5. Loaded \subseteq Loaded' /\ Loaded' \subseteq PluginNames
    BY <1>1, <2>2
  <2>6. \A m \in Loaded' : m \notin Loaded => plugins'[m].state = "Loaded"
    BY <1>1, <2>2, FreshTyped
  <2>. QED BY <2>1, <2>2, <2>4, <2>5, <2>6, GrownInv
<1>3. CASE RegisterStaticPlugins
  <2>1. PICK N \in SUBSET PluginNames :
          plugins' = [n \in Loaded \cup N |-> IF n \in Loaded THEN plugins[n] ELSE FreshPlugin(n)]
    <3>. DEFINE known == {i \in DOMAIN StaticPlugins : StaticPlugins[i] \in Loaded}
                new == {i \in DOMAIN StaticPlugins : \A k \in known : i < k}
                N == {StaticPlugins[i] : i \in new}
    <3>1. N \in SUBSET PluginNames
      BY PluginAssumption
    <3>2. plugins' = [n \in Loaded \cup N |-> IF n \in Loaded THEN plugins[n] ELSE FreshPlugin(n)]
      BY <1>3 DEF RegisterStaticPlugins
    <3>. QED BY <3>1, <3>2
  <2>2. ManagerIdle /\ UNCHANGED <<loadOrder, manager, file, outside>>
    BY <1>3 DEF RegisterStaticPlugins
  <2>3. /\ Loaded' = Loaded \cup N /\ \A m \in Loaded : plugins'[m] = plugins[m]
        /\ \A m \in Loaded' : m \notin Loaded => plugins'[m] = FreshPlugin(m) /\ m \in PluginNames
    BY <2>1 DEF Loaded
  <2>4. \A m \in Loaded' : plugins'[m] \in PluginRecord
    BY <1>1, <2>3, FreshTyped
  <2>5. plugins' \in [Loaded' -> PluginRecord]
    BY <2>1, <2>3, <2>4 DEF Loaded
  <2>6. \A m \in Loaded' : m \notin Loaded => plugins'[m].state = "Loaded"
    BY <1>1, <2>3, FreshTyped
  <2>7. Loaded' \subseteq PluginNames /\ Loaded \subseteq Loaded'
    BY <1>1, <2>1, <2>3
  <2>. QED BY <2>2, <2>3, <2>5, <2>6, <2>7, GrownInv
<1>. QED BY <1>2, <1>3

\* A plugin changes its state: what is loaded, from which binaries, stays.
LEMMA StateSet ==
  ASSUME PluginTypeOK, NEW n \in Loaded, NEW s \in {"Loaded", "Initialized", "Active", "Error"},
         SetState(n, s)
  PROVE  /\ Loaded' = Loaded /\ plugins' \in [Loaded' -> PluginRecord]
         /\ \A m \in Loaded : plugins'[m].bin = plugins[m].bin /\ plugins'[m].from = plugins[m].from
         /\ \A m \in Loaded : plugins'[m].state = IF m = n THEN s ELSE plugins[m].state
<1>1. plugins \in [Loaded -> PluginRecord]
  BY DEF PluginTypeOK
<1>2. plugins' = [plugins EXCEPT ![n].state = s]
  BY DEF SetState
<1>3. Loaded' = Loaded
  BY <1>2 DEF Loaded
<1>4. \A m \in Loaded : plugins[m] \in PluginRecord
  BY <1>1
<1>5. [plugins[n] EXCEPT !.state = s] \in PluginRecord
  BY <1>4 DEF PluginRecord
<1>6. /\ \A m \in Loaded : plugins'[m] = IF m = n THEN [plugins[n] EXCEPT !.state = s] ELSE plugins[m]
      /\ plugins' = [m \in Loaded |-> plugins'[m]]
  BY <1>1, <1>2
<1>7. plugins' \in [Loaded -> PluginRecord]
  BY <1>4, <1>5, <1>6
<1>8. /\ [plugins[n] EXCEPT !.state = s].bin = plugins[n].bin
      /\ [plugins[n] EXCEPT !.state = s].from = plugins[n].from
      /\ [plugins[n] EXCEPT !.state = s].state = s
  BY <1>4 DEF PluginRecord
<1>. QED BY <1>3, <1>6, <1>7, <1>8

\* With the same binaries and the same order, the order stays sorted.
LEMMA OrderStays ==
  ASSUME PluginInv, Loaded' = Loaded, \A n \in Loaded : plugins'[n].bin = plugins[n].bin,
         loadOrder' = loadOrder
  PROVE  LoadOrderSorted'
<1>1. \A n \in Loaded : Requires(n)' = Requires(n)
  BY SameBinaries
<1>2. ToSet(loadOrder) \subseteq Loaded
  BY DEF PluginInv, LoadOrderSorted
<1>3. \A n \in ToSet(loadOrder) : \A m \in ToSet(loadOrder) : m \in Requires(n)' => m \in Requires(n)
  BY <1>1, <1>2
<1>. QED BY <1>2, <1>3, OrderKept DEF PluginInv

\* Nothing of the plugins themselves has changed.
LEMMA TypesStay ==
  ASSUME PluginInv, Loaded' = Loaded, plugins' \in [Loaded' -> PluginRecord], loadOrder' = loadOrder,
         manager' \in Operation, file' = file, outside' \in BOOLEAN
  PROVE  PluginTypeOK'
<1>1. manager' \in Operation'
  BY DEF Operation
<1>2. /\ Loaded' \subseteq PluginNames /\ loadOrder' \in Seq(PluginNames)
      /\ file' \in [PluginNames -> Nat] /\ \A n \in PluginNames : file'[n] \in DOMAIN Files[n]
  BY DEF PluginInv, PluginTypeOK
<1>. QED BY <1>1, <1>2, Zenon DEF PluginTypeOK

\* One plugin at a time.
LEMMA SingleInv ==
  ASSUME PluginInv, NEW n \in PluginNames, InitPlugin(n) \/ ActivatePlugin(n) \/ ShutdownPlugin(n)
  PROVE  PluginInv'
<1>0. PluginTypeOK /\ manager \in Operation /\ outside \in BOOLEAN
  BY DEF PluginInv, PluginTypeOK
<1>1. PICK s \in {"Loaded", "Initialized", "Active", "Error"} :
        /\ ManagerIdle /\ n \in Loaded /\ SetState(n, s) /\ UNCHANGED <<loadOrder, manager, file>>
        /\ \/ outside' = TRUE
           \/ outside' = outside /\ s = "Active" /\ plugins[n].state = "Initialized"
  <2>1. CASE InitPlugin(n)
    BY <2>1 DEF InitPlugin
  <2>2. CASE ActivatePlugin(n)
    BY <2>2 DEF ActivatePlugin
  <2>3. CASE ShutdownPlugin(n)
    BY <2>3 DEF ShutdownPlugin
  <2>. QED BY <2>1, <2>2, <2>3
<1>2. /\ Loaded' = Loaded /\ plugins' \in [Loaded' -> PluginRecord]
      /\ \A m \in Loaded : plugins'[m].bin = plugins[m].bin
      /\ \A m \in Loaded : plugins'[m].state = IF m = n THEN s ELSE plugins[m].state
  BY <1>0, <1>1, StateSet
<1>3. manager' = manager /\ loadOrder' = loadOrder /\ file' = file
  BY <1>1
<1>4. outside' \in BOOLEAN
  <2>1. CASE outside' = TRUE
    BY <2>1, Zenon
  <2>2. CASE outside' = outside
    BY <1>0, <2>2, Zenon
  <2>. QED BY <1>1, <2>1, <2>2
<1>5. PluginTypeOK'
  BY <1>0, <1>2, <1>3, <1>4, TypesStay, Zenon
<1>6. LoadOrderSorted'
  BY <1>2, <1>3, OrderStays
<1>7. PlacingInv' /\ ProgressInv'
  BY <1>1, <1>3, IdleFacts DEF PlacingInv, ProgressInv
<1>8. CASE outside' = TRUE
  BY <1>5, <1>6, <1>7, <1>8 DEF PluginInv, UpInv, DependenciesHeld
<1>9. CASE outside' = outside /\ s = "Active" /\ plugins[n].state = "Initialized"
  <2>1. \A m \in Loaded : Up(m)' <=> Up(m)
    BY <1>2, <1>9 DEF Up
  <2>2. \A m \in Loaded : plugins'[m].state = "Error" => plugins[m].state = "Error"
    BY <1>2, <1>9
  <2>3. UpInv'
    BY <1>2, <1>3, <1>9, <2>1, <2>2 DEF PluginInv, UpInv
  <2>4. DependenciesHeld'
    <3>. SUFFICES ASSUME ~outside, NEW m \in Loaded, Up(m), NEW dep \in plugins[m].bin.deps, dep.parses
                  PROVE  (/\ dep.name \in Loaded /\ Up(dep.name)
                          /\ AllSatisfied(dep, plugins[dep.name].bin.version))'
      BY <1>2, <1>9, <2>1 DEF DependenciesHeld
    <3>1. dep.name \in Loaded /\ Up(dep.name) /\ AllSatisfied(dep, plugins[dep.name].bin.version)
      BY DEF PluginInv, DependenciesHeld
    <3>2. plugins'[dep.name].bin = plugins[dep.name].bin
      BY <1>2, <3>1
    <3>. QED BY <1>2, <2>1, <3>1, <3>2 DEF AllSatisfied
  <2>. QED BY <1>5, <1>6, <1>7, <2>3, <2>4 DEF PluginInv
<1>. QED BY <1>1, <1>8, <1>9

\* A plugin is gone, from the map and from the order.
LEMMA ShrunkInv ==
  ASSUME PluginInv, ManagerIdle, NEW n \in Loaded, plugins' = Without(plugins, n),
         loadOrder' \in OrderWithout(n), file' = file, outside' \in BOOLEAN,
         ~outside' => ~outside /\ ~Up(n),
         manager'.op \in {"idle", "reload"}, manager'.degree = <<>>, manager'.todo = <<>>,
         manager' \in Operation'
  PROVE  PluginInv'
<1>1. /\ PluginTypeOK /\ Loaded \subseteq PluginNames /\ plugins \in [Loaded -> PluginRecord]
      /\ loadOrder \in Seq(PluginNames)
  BY DEF PluginInv, PluginTypeOK
<1>2. /\ Loaded' = Loaded \ {n} /\ \A m \in Loaded' : plugins'[m] = plugins[m]
      /\ plugins' = [m \in Loaded' |-> plugins[m]]
  BY DEF Without, Loaded
<1>3. plugins' \in [Loaded' -> PluginRecord]
  BY <1>1, <1>2
<1>. DEFINE P == {i \in DOMAIN loadOrder : loadOrder[i] # n}
<1>6. P \in SUBSET (DOMAIN loadOrder) /\ loadOrder' \in KeptAt(loadOrder, P)
  BY DEF OrderWithout
<1>7. /\ loadOrder' \in Seq(PluginNames) /\ ToSet(loadOrder') = {loadOrder[i] : i \in P}
      /\ \E f \in [DOMAIN loadOrder' -> P] : Rising(f) /\ \A i \in DOMAIN loadOrder' : loadOrder'[i] = loadOrder[f[i]]
      /\ IsInjective(loadOrder) => IsInjective(loadOrder')
  BY <1>1, <1>6, Selected
<1>8. PluginTypeOK'
  <2>1. file \in [PluginNames -> Nat] /\ \A m \in PluginNames : file[m] \in DOMAIN Files[m]
    BY DEF PluginInv, PluginTypeOK
  <2>2. Loaded' \subseteq PluginNames
    BY <1>1, <1>2
  <2>. QED BY <1>3, <1>7, <2>1, <2>2, Zenon DEF PluginTypeOK
<1>9. ToSet(loadOrder') = ToSet(loadOrder) \ {n}
  BY <1>7 DEF ToSet
<1>10. \A m \in Loaded' : Requires(m)' \subseteq Requires(m)
  BY <1>2 DEF Requires
<1>11. LoadOrderSorted'
  <2>1. /\ IsInjective(loadOrder) /\ ToSet(loadOrder) \subseteq Loaded
        /\ \A i, j \in DOMAIN loadOrder : i <= j => loadOrder[j] \notin Requires(loadOrder[i])
    BY DEF PluginInv, LoadOrderSorted
  <2>2. IsInjective(loadOrder') /\ ToSet(loadOrder') \subseteq Loaded'
    BY <1>2, <1>7, <1>9, <2>1
  <2>3. ASSUME NEW i \in DOMAIN loadOrder', NEW j \in DOMAIN loadOrder', i <= j
        PROVE  (loadOrder[j] \notin Requires(loadOrder[i]))'
    <3>1. PICK f \in [DOMAIN loadOrder' -> P] :
            Rising(f) /\ \A k \in DOMAIN loadOrder' : loadOrder'[k] = loadOrder[f[k]]
      BY <1>7
    <3>2. DOMAIN loadOrder' \subseteq Nat /\ P \subseteq Nat
      BY <1>1, <1>7
    <3>3. f[i] \in P /\ f[j] \in P /\ f[i] <= f[j]
      BY <2>3, <3>1, <3>2 DEF Rising
    <3>4. loadOrder[f[j]] \notin Requires(loadOrder[f[i]])
      BY <2>1, <3>3
    <3>5. loadOrder'[i] \in Loaded'
      BY <2>2 DEF ToSet
    <3>. QED BY <1>10, <3>1, <3>4, <3>5
  <2>. QED BY <2>2, <2>3 DEF LoadOrderSorted
<1>12. PlacingInv' /\ ProgressInv'
  BY DEF PlacingInv, ProgressInv
<1>13. \A m \in Loaded' : Up(m)' <=> Up(m)
  BY <1>2 DEF Up
<1>14. UpInv'
  BY <1>2, <1>9, <1>13 DEF PluginInv, UpInv
<1>15. DependenciesHeld'
  <2>. SUFFICES ASSUME ~outside', NEW m \in Loaded', Up(m)', NEW dep \in plugins'[m].bin.deps, dep.parses
                PROVE  (/\ dep.name \in Loaded /\ Up(dep.name)
                        /\ AllSatisfied(dep, plugins[dep.name].bin.version))'
    BY DEF DependenciesHeld
  <2>1. ~outside /\ m \in Loaded /\ Up(m) /\ dep \in plugins[m].bin.deps
    BY <1>2, <1>13
  <2>2. dep.name \in Loaded /\ Up(dep.name) /\ AllSatisfied(dep, plugins[dep.name].bin.version)
    BY <2>1 DEF PluginInv, DependenciesHeld
  <2>3. dep.name \in Loaded'
    BY <1>2, <2>2
  <2>4. plugins'[dep.name] = plugins[dep.name]
    BY <1>2, <2>3
  <2>. QED BY <1>13, <2>2, <2>3, <2>4 DEF AllSatisfied
<1>. QED BY <1>8, <1>11, <1>12, <1>14, <1>15 DEF PluginInv

LEMMA UnloadInv ==
  ASSUME PluginInv, NEW n \in PluginNames, UnloadPlugin(n)
  PROVE  PluginInv'
<1>1. /\ ManagerIdle /\ n \in Loaded /\ ~Up(n) /\ plugins' = Without(plugins, n)
      /\ loadOrder' \in OrderWithout(n) /\ UNCHANGED <<manager, file, outside>>
  BY DEF UnloadPlugin, Up
<1>2. manager.op = "idle" /\ manager.degree = <<>> /\ manager.todo = <<>> /\ manager \in Operation
  BY <1>1, IdleFacts DEF PluginInv, PluginTypeOK
<1>3. manager' \in Operation'
  BY <1>1, <1>2 DEF Operation
<1>4. outside' \in BOOLEAN
  BY <1>1, Zenon DEF PluginInv, PluginTypeOK
<1>. QED BY <1>1, <1>2, <1>3, <1>4, ShrunkInv

\* Only the manager's own records change.
LEMMA PluginsStay ==
  ASSUME PluginInv, plugins' = plugins, manager' \in Operation, file' = file, outside' = outside
  PROVE  /\ Loaded' = Loaded /\ \A n : Requires(n)' = Requires(n) /\ (Up(n)' <=> Up(n))
         /\ HasCycle' <=> HasCycle
         /\ ConstraintsHold' <=> ConstraintsHold
         /\ DependenciesHeld'
         /\ loadOrder' = loadOrder => PluginTypeOK' /\ LoadOrderSorted' /\ UpInv'
<1>1. Loaded' = Loaded
  BY DEF Loaded
<1>2. \A n : Requires(n)' = Requires(n) /\ (Up(n)' <=> Up(n))
  BY <1>1 DEF Requires, Up
<1>3. (HasCycle' <=> HasCycle) /\ (ConstraintsHold' <=> ConstraintsHold)
  BY <1>1, SameBinaries
<1>4. DependenciesHeld'
  BY <1>1, <1>2 DEF PluginInv, DependenciesHeld
<1>5. ASSUME loadOrder' = loadOrder PROVE PluginTypeOK' /\ LoadOrderSorted' /\ UpInv'
  <2>1. plugins' \in [Loaded' -> PluginRecord]
    BY <1>1 DEF PluginInv, PluginTypeOK
  <2>2. outside' \in BOOLEAN
    BY Zenon DEF PluginInv, PluginTypeOK
  <2>3. PluginTypeOK'
    BY <1>1, <1>5, <2>1, <2>2, TypesStay, Zenon
  <2>4. LoadOrderSorted'
    BY <1>1, <1>5, OrderStays
  <2>5. UpInv'
    BY <1>1, <1>2, <1>5 DEF PluginInv, UpInv
  <2>. QED BY <2>3, <2>4, <2>5
<1>. QED BY <1>1, <1>2, <1>3, <1>4, <1>5

\* An empty list.
LEMMA EmptyList == /\ ToSet(<<>>) = {} /\ IsInjective(<<>>) /\ DOMAIN <<>> = {} /\ Len(<<>>) = 0
                   /\ \A S : <<>> \in Seq(S)
BY DEF ToSet, IsInjective

LEMMA InitializeAllInv ==
  ASSUME PluginInv, InitializeAll
  PROVE  PluginInv'
<1>. DEFINE R == {n \in Loaded : Requires(n) = {}}
<1>0. PluginTypeOK /\ Loaded \subseteq PluginNames
  BY DEF PluginInv, PluginTypeOK
<1>1. /\ ConstraintsHold /\ ~HasCycle
      /\ plugins' = plugins /\ loadOrder' = loadOrder /\ file' = file /\ outside' = outside
  BY DEF InitializeAll
<1>2. PICK s \in SetToSeqs(R) :
        manager' = [op |-> "sort", todo |-> <<>>, ready |-> s,
                    degree |-> [n \in Loaded |-> Cardinality(Requires(n))]]
  BY DEF InitializeAll
<1>3. IsFiniteSet(R) /\ \A n : Cardinality(Requires(n)) \in Nat /\ IsFiniteSet(Requires(n))
  BY <1>0, LoadedFinite
<1>4. s \in Seq(R) /\ ToSet(s) = R /\ IsInjective(s)
  BY <1>3, ListOfSet
<1>5. s \in Seq(PluginNames)
  BY <1>0, <1>4
<1>6. /\ manager'.op = "sort" /\ manager'.todo = <<>> /\ manager'.ready = s
      /\ manager'.degree = [n \in Loaded |-> Cardinality(Requires(n))]
  BY <1>2
<1>7. manager'.degree \in [Loaded -> Nat] /\ \A n \in Loaded : manager'.degree[n] = Cardinality(Requires(n))
  BY <1>3, <1>6
<1>8. manager' \in Operation
  BY <1>2, <1>5, <1>6, <1>7 DEF Operation
<1>9. /\ PluginTypeOK' /\ LoadOrderSorted' /\ UpInv' /\ DependenciesHeld' /\ Loaded' = Loaded
      /\ \A n : Requires(n)' = Requires(n)
      /\ ~HasCycle' /\ ConstraintsHold'
  BY <1>1, <1>8, PluginsStay
<1>10. \A n \in Loaded : manager'.degree[n] = 0 <=> n \in R
  BY <1>3, <1>7, FS_EmptySet
<1>11. PlacingInv'
  <2>1. ToSet(manager'.todo) = {} /\ IsInjective(manager'.todo) /\ DOMAIN manager'.todo = {}
    BY <1>6, EmptyList
  <2>2. \A n \in Loaded : Requires(n) \ ToSet(manager'.todo) = Requires(n)
    BY <2>1
  <2>3. Placed(manager.todo)'
    BY <2>1 DEF Placed
  <2>4. ToSet(manager'.ready) = R /\ IsInjective(manager'.ready)
    BY <1>4, <1>6
  <2>5. \A n \in Loaded : manager'.degree[n] = Cardinality(Requires(n) \ ToSet(manager'.todo))
    BY <1>7, <2>2
  <2>. HIDE DEF R
  <2>6. R \subseteq Loaded
    BY DEF R
  <2>7. \A n \in Loaded : manager'.degree[n] = 0 <=> n \in ToSet(manager'.ready) \cup ToSet(manager'.todo)
    BY <1>10, <2>1, <2>4
  <2>. QED BY <1>6, <1>7, <1>9, <2>1, <2>3, <2>4, <2>5, <2>6, <2>7 DEF PlacingInv
<1>12. ProgressInv'
  BY <1>6 DEF ProgressInv
<1>. QED BY <1>9, <1>11, <1>12 DEF PluginInv

\* A round of the sort.
LEMMA PlaceReadyInv ==
  ASSUME PluginInv, PlaceReady
  PROVE  PluginInv'
<1>. DEFINE n == Head(manager.ready)
            T == ToSet(manager.todo)
            R == ToSet(manager.ready)
            degree == [m \in Loaded |-> manager.degree[m] - (IF n \in Requires(m) THEN 1 ELSE 0)]
            freed == {m \in Loaded : n \in Requires(m) /\ degree[m] = 0}
<1>0. /\ PluginTypeOK /\ Loaded \subseteq PluginNames
      /\ manager.todo \in Seq(PluginNames) /\ manager.ready \in Seq(PluginNames)
  BY DEF PluginInv, PluginTypeOK, Operation
<1>1. /\ manager.op = "sort" /\ manager.ready # <<>>
      /\ plugins' = plugins /\ loadOrder' = loadOrder /\ file' = file /\ outside' = outside
  BY DEF PlaceReady
<1>2. PICK s \in SetToSeqs(freed) :
        manager' = [manager EXCEPT !.todo = Append(@, n), !.ready = Tail(@) \o s, !.degree = degree]
  BY DEF PlaceReady
<1>3. /\ ~HasCycle /\ ConstraintsHold /\ manager.degree \in [Loaded -> Nat]
      /\ R \subseteq Loaded /\ T \subseteq Loaded
      /\ IsInjective(manager.ready) /\ IsInjective(manager.todo) /\ R \cap T = {}
      /\ \A m \in Loaded : manager.degree[m] = Cardinality(Requires(m) \ T)
      /\ \A m \in Loaded : manager.degree[m] = 0 <=> m \in R \cup T
      /\ Placed(manager.todo)
  BY <1>1 DEF PluginInv, PlacingInv
<1>4. /\ n \in R /\ Tail(manager.ready) \in Seq(PluginNames) /\ IsInjective(Tail(manager.ready))
      /\ ToSet(Tail(manager.ready)) = R \ {n} /\ n \in PluginNames
  BY <1>0, <1>1, <1>3, ListTail
<1>5. n \in Loaded /\ n \notin T
  BY <1>3, <1>4
<1>6. \A m : Requires(m) \subseteq Loaded /\ IsFiniteSet(Requires(m) \ T)
  <2>1. \A m : Requires(m) \subseteq Loaded
    BY <1>0, LoadedFinite
  <2>2. \A m : Requires(m) \ T \in SUBSET Loaded
    BY <2>1
  <2>3. \A S \in SUBSET Loaded : IsFiniteSet(S)
    BY <1>0, LoadedFinite
  <2>. QED BY <2>1, <2>2, <2>3
<1>7. IsFiniteSet(freed)
  <2>1. freed \in SUBSET Loaded
    OBVIOUS
  <2>. QED BY <1>0, <2>1, LoadedFinite
<1>8. s \in Seq(freed) /\ ToSet(s) = freed /\ IsInjective(s)
  BY <1>7, ListOfSet
<1>9. s \in Seq(PluginNames)
  <2>1. freed \subseteq PluginNames
    BY <1>0
  <2>. HIDE DEF freed
  <2>. QED BY <1>8, <2>1
<1>10. ASSUME NEW m \in Loaded
       PROVE  /\ degree[m] = Cardinality(Requires(m) \ (T \cup {n})) /\ degree[m] \in Nat
              /\ n \in Requires(m) => manager.degree[m] # 0
  <2>. DEFINE U == Requires(m) \ T
  <2>1. IsFiniteSet(U) /\ manager.degree[m] = Cardinality(U) /\ Cardinality(U) \in Nat
    BY <1>3, <1>6, FS_CardinalityType
  <2>2. CASE n \in Requires(m)
    <3>1. n \in U /\ U \ {n} = Requires(m) \ (T \cup {n})
      BY <1>5, <2>2
    <3>2. Cardinality(U \ {n}) = Cardinality(U) - 1 /\ IsFiniteSet(U \ {n})
      BY <2>1, <3>1, FS_RemoveElement
    <3>3. Cardinality(U \ {n}) \in Nat
      BY <3>2, FS_CardinalityType
    <3>4. degree[m] = Cardinality(U) - 1
      BY <2>1, <2>2
    <3>5. Cardinality(Requires(m) \ (T \cup {n})) = Cardinality(U \ {n})
      BY <3>1
    <3>. HIDE DEF U, degree, T, n
    <3>. QED BY <2>1, <3>2, <3>3, <3>4, <3>5
  <2>3. CASE n \notin Requires(m)
    <3>1. U = Requires(m) \ (T \cup {n})
      BY <2>3
    <3>2. degree[m] = Cardinality(U)
      BY <2>1, <2>3
    <3>. HIDE DEF U, degree
    <3>. QED BY <2>1, <2>3, <3>1, <3>2
  <2>. QED BY <2>2, <2>3
<1>11. degree \in [Loaded -> Nat]
  BY <1>10
<1>12. freed \cap (R \cup T) = {}
  BY <1>3, <1>10
<1>13. /\ Tail(manager.ready) \o s \in Seq(PluginNames) /\ IsInjective(Tail(manager.ready) \o s)
       /\ ToSet(Tail(manager.ready) \o s) = (R \ {n}) \cup freed
  <2>1. ToSet(Tail(manager.ready)) \cap ToSet(s) = {}
    BY <1>4, <1>8, <1>12
  <2>2. IsInjective(s) /\ ToSet(s) = freed /\ ToSet(Tail(manager.ready)) = R \ {n}
    BY <1>4, <1>8
  <2>3. Tail(manager.ready) \in Seq(PluginNames) /\ IsInjective(Tail(manager.ready))
    BY <1>4
  <2>. DEFINE t == Tail(manager.ready)
  <2>. HIDE DEF t, freed, R, n
  <2>4. t \o s \in Seq(PluginNames) /\ ToSet(t \o s) = ToSet(t) \cup ToSet(s) /\ IsInjective(t \o s)
    BY <1>9, <2>1, <2>2, <2>3, ListJoined DEF t
  <2>. QED BY <2>2, <2>4 DEF t
<1>14. /\ Append(manager.todo, n) \in Seq(PluginNames) /\ IsInjective(Append(manager.todo, n))
       /\ ToSet(Append(manager.todo, n)) = T \cup {n}
  BY <1>0, <1>3, <1>4, <1>5, ListAppended
<1>15. ASSUME NEW m \in Loaded PROVE degree[m] = 0 <=> m \in ((R \ {n}) \cup freed) \cup (T \cup {n})
  <2>1. CASE n \in Requires(m)
    <3>1. m \notin R \cup T
      BY <1>3, <1>10, <2>1
    <3>2. m \in freed <=> degree[m] = 0
      BY <2>1
    <3>. QED BY <1>4, <3>1, <3>2
  <2>2. CASE n \notin Requires(m)
    <3>1. degree[m] = manager.degree[m] /\ m \notin freed
      BY <1>3, <2>2
    <3>. QED BY <1>3, <1>4, <3>1
  <2>. QED BY <2>1, <2>2
<1>. DEFINE todo == Append(manager.todo, n)
            ready == Tail(manager.ready) \o s
<1>16. /\ manager'.op = "sort" /\ manager'.todo = todo /\ manager'.ready = ready /\ manager'.degree = degree
       /\ manager' \in Operation
  <2>1. manager \in Operation
    BY <1>0 DEF PluginTypeOK
  <2>. HIDE DEF degree, n
  <2>. QED BY <1>1, <1>2, <1>11, <1>13, <1>14, <2>1 DEF Operation
<1>17. /\ PluginTypeOK' /\ LoadOrderSorted' /\ UpInv' /\ DependenciesHeld' /\ Loaded' = Loaded
       /\ \A m : Requires(m)' = Requires(m)
       /\ ~HasCycle' /\ ConstraintsHold'
  BY <1>1, <1>3, <1>16, PluginsStay
<1>18. Placed(todo)
  <2>1. Requires(n) \subseteq T
    <3>1. manager.degree[n] = 0
      BY <1>3, <1>4, <1>5
    <3>2. Cardinality(Requires(n) \ T) = 0
      BY <1>3, <1>5, <3>1
    <3>3. Requires(n) \ T = {}
      BY <1>6, <3>2, FS_EmptySet
    <3>. QED BY <3>3
  <2>2. /\ Len(todo) = Len(manager.todo) + 1 /\ Len(manager.todo) \in Nat
        /\ DOMAIN todo = 1..(Len(manager.todo) + 1) /\ DOMAIN manager.todo = 1..Len(manager.todo)
        /\ \A i \in 1..Len(manager.todo) : todo[i] = manager.todo[i]
        /\ todo[Len(manager.todo) + 1] = n
    BY <1>0, <1>4
  <2>3. \A m \in T : \E j \in 1..Len(manager.todo) : manager.todo[j] = m
    BY <2>2 DEF ToSet
  <2>. HIDE DEF todo, n, T
  <2>. SUFFICES ASSUME NEW i \in 1..(Len(manager.todo) + 1), NEW m \in Requires(todo[i])
                PROVE  \E j \in 1..(i - 1) : todo[j] = m
    BY <2>2 DEF Placed
  <2>4. CASE i \in 1..Len(manager.todo)
    <3>1. m \in Requires(manager.todo[i]) /\ i \in DOMAIN manager.todo
      BY <2>2, <2>4
    <3>2. PICK j \in 1..(i - 1) : manager.todo[j] = m
      BY <1>3, <3>1 DEF Placed
    <3>3. todo[j] = m
      BY <2>2, <2>4, <3>2
    <3>. QED BY <3>3
  <2>5. CASE i = Len(manager.todo) + 1
    <3>1. m \in T
      BY <2>1, <2>2, <2>5
    <3>2. PICK j \in 1..Len(manager.todo) : manager.todo[j] = m
      BY <2>3, <3>1
    <3>3. j \in 1..(i - 1) /\ todo[j] = m
      BY <2>2, <2>5, <3>2
    <3>. QED BY <3>3
  <2>. QED BY <2>2, <2>4, <2>5
<1>. HIDE DEF todo, ready, degree, freed, n, T, R
<1>19. PlacingInv'
  <2>1. ToSet(manager'.todo) = T \cup {n} /\ ToSet(manager'.ready) = (R \ {n}) \cup freed
    BY <1>13, <1>14, <1>16 DEF todo, ready
  <2>2. IsInjective(manager'.todo) /\ IsInjective(manager'.ready)
    BY <1>13, <1>14, <1>16 DEF todo, ready
  <2>3. freed \subseteq Loaded
    BY DEF freed
  <2>4. /\ ToSet(manager'.ready) \cup ToSet(manager'.todo) \subseteq Loaded
        /\ ToSet(manager'.ready) \cap ToSet(manager'.todo) = {}
    BY <1>3, <1>4, <1>5, <1>12, <2>1, <2>3
  <2>5. \A m \in Loaded : manager'.degree[m] = Cardinality(Requires(m) \ ToSet(manager'.todo))
    BY <1>10, <1>16, <2>1
  <2>6. \A m \in Loaded : manager'.degree[m] = 0 <=> m \in ToSet(manager'.ready) \cup ToSet(manager'.todo)
    BY <1>15, <1>16, <2>1
  <2>7. Placed(manager.todo)'
    BY <1>16, <1>17, <1>18 DEF Placed
  <2>. QED BY <1>11, <1>16, <1>17, <2>2, <2>4, <2>5, <2>6, <2>7 DEF PlacingInv
<1>20. ProgressInv'
  BY <1>16 DEF ProgressInv
<1>. QED BY <1>17, <1>19, <1>20 DEF PluginInv

\* The sort is over: everyone is placed, since those left over would be a cycle.
LEMMA KeepOrderInv ==
  ASSUME PluginInv, KeepOrder
  PROVE  PluginInv'
<1>. DEFINE todo == manager.todo
            T == ToSet(todo)
<1>0. PluginTypeOK /\ todo \in Seq(PluginNames) /\ manager \in Operation
  BY DEF PluginInv, PluginTypeOK, Operation
<1>1. /\ manager.op = "sort" /\ manager.ready = <<>> /\ loadOrder' = todo
      /\ plugins' = plugins /\ file' = file /\ outside' = outside
      /\ manager' = IF todo = <<>> THEN NoOperation ELSE [NoOperation EXCEPT !.op = "init", !.todo = todo]
  BY DEF KeepOrder
<1>2. /\ ~HasCycle /\ ConstraintsHold /\ IsInjective(todo) /\ T \subseteq Loaded /\ Placed(todo)
      /\ \A m \in Loaded : manager.degree[m] = Cardinality(Requires(m) \ T)
      /\ \A m \in Loaded : manager.degree[m] = 0 <=> m \in T
  <2>1. ToSet(manager.ready) = {}
    BY <1>1, EmptyList
  <2>. QED BY <1>1, <2>1 DEF PluginInv, PlacingInv
<1>3. T = Loaded
  <2>. DEFINE S == Loaded \ T
  <2>1. ASSUME NEW m \in S PROVE Requires(m) \cap S # {}
    <3>1. Cardinality(Requires(m) \ T) # 0
      BY <1>2
    <3>2. Requires(m) \ T # {}
      BY <3>1, FS_EmptySet
    <3>. QED BY <3>2 DEF Requires
  <2>2. S \in SUBSET Loaded
    OBVIOUS
  <2>. HIDE DEF S
  <2>3. S = {}
    BY <1>2, <2>1, <2>2 DEF HasCycle
  <2>. QED BY <1>2, <2>3 DEF S
<1>4. /\ manager'.op \in {"idle", "init"} /\ manager'.degree = <<>> /\ manager' \in Operation
      /\ manager'.op = "idle" => manager'.todo = <<>>
  BY <1>0, <1>1 DEF NoOperation, Operation
<1>5. manager'.op = "init" => manager'.todo = todo
  BY <1>1 DEF NoOperation
<1>6. /\ DependenciesHeld' /\ Loaded' = Loaded
      /\ \A m : Requires(m)' = Requires(m) /\ (Up(m)' <=> Up(m))
      /\ ConstraintsHold'
  BY <1>1, <1>2, <1>4, PluginsStay
<1>7. PluginTypeOK'
  <2>1. plugins' \in [Loaded' -> PluginRecord] /\ manager' \in Operation'
    BY <1>0, <1>1, <1>4, <1>6 DEF PluginTypeOK, Operation
  <2>2. outside' \in BOOLEAN
    BY <1>0, <1>1, Zenon DEF PluginTypeOK
  <2>3. file' \in [PluginNames -> Nat] /\ \A m \in PluginNames : file'[m] \in DOMAIN Files[m]
    BY <1>0, <1>1 DEF PluginTypeOK
  <2>4. Loaded' \subseteq PluginNames /\ loadOrder' \in Seq(PluginNames)
    BY <1>0, <1>1, <1>6 DEF PluginTypeOK
  <2>. QED BY <2>1, <2>2, <2>3, <2>4, Zenon DEF PluginTypeOK
<1>8. PlacingInv'
  BY <1>4 DEF PlacingInv
<1>9. UpInv'
  BY <1>1, <1>3, <1>6 DEF PluginInv, UpInv
<1>10. LoadOrderSorted'
  <2>1. ASSUME NEW i \in DOMAIN todo, NEW j \in DOMAIN todo, i <= j PROVE todo[j] \notin Requires(todo[i])
    <3>. SUFFICES ASSUME todo[j] \in Requires(todo[i]) PROVE FALSE
      OBVIOUS
    <3>1. PICK k \in 1..(i - 1) : todo[k] = todo[j]
      BY <1>2 DEF Placed
    <3>2. DOMAIN todo = 1..Len(todo) /\ Len(todo) \in Nat
      BY <1>0
    <3>3. k \in DOMAIN todo /\ k # j
      BY <2>1, <3>2
    <3>. QED BY <1>2, <3>1, <3>3 DEF IsInjective
  <2>. HIDE DEF todo
  <2>. QED BY <1>1, <1>2, <1>6, <2>1 DEF LoadOrderSorted
<1>11. ProgressInv'
  <2>1. Len(todo) \in Nat /\ DOMAIN todo = 1..Len(todo)
    BY <1>0
  <2>2. Placed(loadOrder)'
    BY <1>1, <1>2, <1>6 DEF Placed
  <2>. HIDE DEF todo
  <2>3. ASSUME manager'.op = "init"
        PROVE  /\ Len(manager'.todo) <= Len(loadOrder')
               /\ \A i \in DOMAIN manager'.todo :
                    manager'.todo[i] = loadOrder'[Len(loadOrder') - Len(manager'.todo) + i]
               /\ 1..(Len(loadOrder') - Len(manager'.todo)) = {}
    <3>1. manager'.todo = todo /\ loadOrder' = todo
      BY <1>1, <1>5, <2>3
    <3>2. \A i \in DOMAIN todo : Len(todo) - Len(todo) + i = i
      BY <2>1
    <3>. QED BY <2>1, <3>1, <3>2
  <2>. QED BY <1>4, <1>6, <2>2, <2>3 DEF ProgressInv
<1>. QED BY <1>6, <1>7, <1>8, <1>9, <1>10, <1>11 DEF PluginInv

\* What ActivateAll(), UpdateAll() and ShutdownAll() go through.
LEMMA OrderChosen ==
  ASSUME PluginTypeOK, NEW s \in CurrentOrders
  PROVE  s \in Seq(PluginNames) /\ (loadOrder # <<>> => s = loadOrder)
<1>1. CASE loadOrder # <<>>
  BY <1>1 DEF CurrentOrders, PluginTypeOK
<1>2. CASE loadOrder = <<>>
  <2>1. s \in [1..Cardinality(Loaded) -> Loaded]
    BY <1>2 DEF CurrentOrders, Orders
  <2>2. Cardinality(Loaded) \in Nat /\ Loaded \subseteq PluginNames
    BY LoadedFinite DEF PluginTypeOK
  <2>3. s \in Seq(PluginNames)
    BY <2>1, <2>2
  <2>. QED BY <1>2, <2>3
<1>. QED BY <1>1, <1>2

LEMMA BeginInv ==
  ASSUME PluginInv, ActivateAll \/ UpdateAll
  PROVE  PluginInv'
<1>1. PICK op \in {"activate", "update"} : Begin(op)
  BY DEF ActivateAll, UpdateAll
<1>2. PICK s \in CurrentOrders : manager' = [NoOperation EXCEPT !.op = op, !.todo = s]
  BY <1>1 DEF Begin
<1>3. plugins' = plugins /\ loadOrder' = loadOrder /\ file' = file /\ outside' = outside
  BY <1>1 DEF Begin
<1>4. s \in Seq(PluginNames)
  BY OrderChosen DEF PluginInv
<1>5. manager'.op = op /\ manager'.degree = <<>> /\ manager' \in Operation
  <2>1. manager' = [op |-> op, todo |-> s, ready |-> <<>>, degree |-> <<>>]
    BY <1>2 DEF NoOperation
  <2>2. <<>> \in Seq(PluginNames)
    OBVIOUS
  <2>. QED BY <1>4, <2>1, <2>2 DEF Operation
<1>6. PluginTypeOK' /\ LoadOrderSorted' /\ UpInv' /\ DependenciesHeld'
  BY <1>3, <1>5, PluginsStay
<1>7. PlacingInv' /\ ProgressInv'
  BY <1>5 DEF PlacingInv, ProgressInv
<1>. QED BY <1>6, <1>7 DEF PluginInv

\* ShutdownAll() and UnloadAll() go through the order backwards.
LEMMA BackwardsInv ==
  ASSUME PluginInv, ShutdownAll \/ UnloadAll
  PROVE  PluginInv'
<1>1. PICK op \in {"shutdown", "unload"} :
        \E s \in CurrentOrders : manager' = [NoOperation EXCEPT !.op = op, !.todo = Reverse(s)]
  BY DEF ShutdownAll, UnloadAll
<1>2. PICK s \in CurrentOrders : manager' = [NoOperation EXCEPT !.op = op, !.todo = Reverse(s)]
  BY <1>1
<1>3. plugins' = plugins /\ loadOrder' = loadOrder /\ file' = file /\ outside' = outside
  BY DEF ShutdownAll, UnloadAll
<1>4. s \in Seq(PluginNames) /\ (loadOrder # <<>> => s = loadOrder)
  BY OrderChosen DEF PluginInv
<1>. DEFINE r == Reverse(s)
<1>5. /\ r \in Seq(PluginNames) /\ Len(r) = Len(s) /\ DOMAIN r = 1..Len(s) /\ Len(s) \in Nat
      /\ \A i \in 1..Len(s) : r[i] = s[Len(s) - i + 1]
  <2>1. Len(s) \in Nat /\ \A i \in 1..Len(s) : Len(s) - i + 1 \in 1..Len(s)
    BY <1>4
  <2>2. r = [i \in 1..Len(s) |-> s[Len(s) - i + 1]]
    BY DEF Reverse
  <2>3. \A i \in 1..Len(s) : s[Len(s) - i + 1] \in PluginNames
    BY <1>4, <2>1
  <2>. QED BY <2>1, <2>2, <2>3
<1>. HIDE DEF r
<1>6. /\ manager'.op = op /\ manager'.degree = <<>> /\ manager'.todo = r /\ manager' \in Operation
  <2>1. manager' = [op |-> op, todo |-> r, ready |-> <<>>, degree |-> <<>>]
    BY <1>2 DEF NoOperation, r
  <2>2. <<>> \in Seq(PluginNames)
    OBVIOUS
  <2>. QED BY <1>5, <2>1, <2>2 DEF Operation
<1>7. PluginTypeOK' /\ LoadOrderSorted' /\ UpInv' /\ DependenciesHeld'
  BY <1>3, <1>6, PluginsStay
<1>8. PlacingInv'
  BY <1>6 DEF PlacingInv
<1>9. ProgressInv'
  <2>1. ASSUME loadOrder # <<>>
        PROVE  /\ Len(manager'.todo) <= Len(loadOrder')
               /\ \A i \in DOMAIN manager'.todo : manager'.todo[i] = loadOrder'[Len(manager'.todo) - i + 1]
               /\ \A i \in DOMAIN loadOrder' : ~(i > Len(manager'.todo))
    BY <1>3, <1>4, <1>5, <1>6, <2>1
  <2>. QED BY <1>3, <1>6, <2>1 DEF ProgressInv
<1>. QED BY <1>7, <1>8, <1>9 DEF PluginInv

\* One instance is ended.
LEMMA UnloadNextInv ==
  ASSUME PluginInv, UnloadNext
  PROVE  PluginInv' /\ manager'.op = "unload"
<1>1. /\ plugins' = plugins /\ loadOrder' = loadOrder /\ file' = file /\ outside' = outside
      /\ manager.op = "unload" /\ manager.todo # <<>>
      /\ manager' = [manager EXCEPT !.todo = Tail(@)]
  BY DEF UnloadNext
<1>2. manager \in Operation /\ manager.todo \in Seq(PluginNames) /\ manager.degree = <<>>
  BY <1>1 DEF PluginInv, PluginTypeOK, PlacingInv, Operation
<1>. DEFINE k == Len(manager.todo)
            t == Tail(manager.todo)
<1>3. /\ k \in Nat \ {0} /\ t \in Seq(PluginNames) /\ Len(t) = k - 1 /\ DOMAIN t = 1..(k - 1)
      /\ \A i \in 1..(k - 1) : i + 1 \in DOMAIN manager.todo /\ t[i] = manager.todo[i + 1]
  BY <1>1, <1>2
<1>. HIDE DEF k, t
<1>4. manager' \in Operation /\ manager'.op = "unload" /\ manager'.degree = <<>> /\ manager'.todo = t
  BY <1>1, <1>2, <1>3 DEF Operation, t
<1>5. PluginTypeOK' /\ LoadOrderSorted' /\ UpInv' /\ DependenciesHeld'
  BY <1>1, <1>4, PluginsStay
<1>6. PlacingInv'
  BY <1>4 DEF PlacingInv
<1>7. ASSUME loadOrder # <<>>
      PROVE  /\ k - 1 <= Len(loadOrder)
             /\ \A i \in 1..(k - 1) : t[i] = loadOrder[(k - 1) - i + 1]
  <2>1. k <= Len(loadOrder) /\ \A i \in DOMAIN manager.todo : manager.todo[i] = loadOrder[k - i + 1]
    BY <1>1, <1>7 DEF PluginInv, ProgressInv, k
  <2>2. Len(loadOrder) \in Nat
    BY DEF PluginInv, PluginTypeOK
  <2>3. ASSUME NEW i \in 1..(k - 1) PROVE t[i] = loadOrder[(k - 1) - i + 1]
    <3>1. k - (i + 1) + 1 = (k - 1) - i + 1
      BY <1>3
    <3>. QED BY <1>3, <2>1, <3>1
  <2>4. k - 1 <= Len(loadOrder)
    BY <1>3, <2>1, <2>2
  <2>. QED BY <2>3, <2>4
<1>8. ProgressInv'
  BY <1>1, <1>3, <1>4, <1>7 DEF ProgressInv
<1>. QED BY <1>4, <1>5, <1>6, <1>8 DEF PluginInv

\* All are gone.
LEMMA UnloadEndInv ==
  ASSUME PluginInv, UnloadEnd
  PROVE  PluginInv' /\ Loaded' = {} /\ manager'.op = "idle"
<1>1. /\ plugins' = <<>> /\ loadOrder' = <<>> /\ manager' = NoOperation /\ file' = file /\ outside' = outside
  BY DEF UnloadEnd
<1>2. /\ Loaded' = {} /\ manager'.op = "idle" /\ manager'.degree = <<>> /\ manager'.todo = <<>>
      /\ manager' \in Operation'
  BY <1>1 DEF Loaded, NoOperation, Operation
<1>3. PluginTypeOK'
  <2>1. plugins' \in [Loaded' -> PluginRecord] /\ Loaded' \subseteq PluginNames
    BY <1>1, <1>2
  <2>2. loadOrder' \in Seq(PluginNames)
    BY <1>1
  <2>3. outside' \in BOOLEAN
    BY <1>1, Zenon DEF PluginInv, PluginTypeOK
  <2>4. file' \in [PluginNames -> Nat] /\ \A m \in PluginNames : file'[m] \in DOMAIN Files[m]
    BY <1>1 DEF PluginInv, PluginTypeOK
  <2>. QED BY <1>2, <2>1, <2>2, <2>3, <2>4, Zenon DEF PluginTypeOK
<1>4. LoadOrderSorted'
  BY <1>1, EmptyList DEF LoadOrderSorted
<1>5. PlacingInv' /\ ProgressInv'
  BY <1>1, <1>2 DEF PlacingInv, ProgressInv
<1>6. UpInv' /\ DependenciesHeld'
  BY <1>2 DEF UpInv, DependenciesHeld
<1>. QED BY <1>2, <1>3, <1>4, <1>5, <1>6 DEF PluginInv

\* One plugin of an operation on all of them is done.
LEMMA Advanced ==
  ASSUME PluginInv, manager.todo # <<>>, manager.op \notin {"sort", "unload"}, Advance
  PROVE  /\ manager.op \in {"init", "activate", "update", "shutdown"}
         /\ manager' \in Operation /\ manager'.degree = <<>> /\ Len(manager.todo) \in Nat \ {0}
         /\ Head(manager.todo) = manager.todo[1] /\ 1 \in DOMAIN manager.todo
         /\ \/ manager'.op = "idle" /\ manager'.todo = <<>>
            \/ /\ manager'.op = manager.op /\ Len(manager'.todo) = Len(manager.todo) - 1
               /\ DOMAIN manager'.todo = 1..(Len(manager.todo) - 1)
               /\ \A i \in 1..(Len(manager.todo) - 1) :
                    i + 1 \in DOMAIN manager.todo /\ manager'.todo[i] = manager.todo[i + 1]
<1>1. manager \in Operation /\ manager.todo \in Seq(PluginNames)
  BY DEF PluginInv, PluginTypeOK, Operation
<1>2. manager.op \in {"init", "activate", "update", "shutdown"} /\ manager.degree = <<>>
  BY <1>1 DEF PluginInv, PlacingInv, ProgressInv, Operation
<1>3. /\ Len(manager.todo) \in Nat \ {0} /\ Tail(manager.todo) \in Seq(PluginNames)
      /\ Head(manager.todo) = manager.todo[1] /\ 1 \in DOMAIN manager.todo
      /\ Len(Tail(manager.todo)) = Len(manager.todo) - 1
      /\ DOMAIN Tail(manager.todo) = 1..(Len(manager.todo) - 1)
      /\ \A i \in 1..(Len(manager.todo) - 1) :
           i + 1 \in DOMAIN manager.todo /\ Tail(manager.todo)[i] = manager.todo[i + 1]
  BY <1>1
<1>4. CASE Len(manager.todo) = 1
  <2>1. manager' = NoOperation
    BY <1>4 DEF Advance
  <2>2. manager' \in Operation /\ manager'.op = "idle" /\ manager'.todo = <<>> /\ manager'.degree = <<>>
    BY <2>1 DEF NoOperation, Operation
  <2>. QED BY <1>2, <1>3, <2>2
<1>5. CASE Len(manager.todo) # 1
  <2>1. manager' = [manager EXCEPT !.todo = Tail(@)]
    BY <1>5 DEF Advance
  <2>2. /\ manager' \in Operation /\ manager'.op = manager.op /\ manager'.todo = Tail(manager.todo)
        /\ manager'.degree = <<>>
    BY <1>1, <1>2, <1>3, <2>1 DEF Operation
  <2>. QED BY <1>2, <1>3, <2>2
<1>. QED BY <1>4, <1>5

\* It is up, or down, now, as those in front of it.
LEMMA ProgressAdvanced ==
  ASSUME PluginInv, manager.todo # <<>>, manager.op \notin {"sort", "unload"}, Advance,
         loadOrder' = loadOrder, outside' = outside, Loaded' = Loaded,
         \A m \in Loaded : plugins'[m].bin = plugins[m].bin,
         \A m \in Loaded : m # Head(manager.todo) => (Up(m)' <=> Up(m)),
         \A m \in Loaded : m = Head(manager.todo) =>
           /\ manager.op = "init" /\ ~outside => Up(m)'
           /\ manager.op = "shutdown" => ~Up(m)'
  PROVE  PlacingInv' /\ ProgressInv'
<1>. DEFINE k == Len(manager.todo)
            L == Len(loadOrder)
<1>1. /\ manager.op \in {"init", "activate", "update", "shutdown"}
      /\ manager'.degree = <<>> /\ k \in Nat \ {0} /\ 1 \in DOMAIN manager.todo
      /\ Head(manager.todo) = manager.todo[1]
      /\ \/ manager'.op = "idle" /\ manager'.todo = <<>>
         \/ /\ manager'.op = manager.op /\ Len(manager'.todo) = k - 1
            /\ DOMAIN manager'.todo = 1..(k - 1)
            /\ \A i \in 1..(k - 1) : i + 1 \in DOMAIN manager.todo /\ manager'.todo[i] = manager.todo[i + 1]
  BY Advanced
<1>2. PlacingInv'
  BY <1>1 DEF PlacingInv
<1>3. L \in Nat /\ DOMAIN loadOrder = 1..L /\ \A i \in 1..L : loadOrder[i] \in Loaded
  <2>1. loadOrder \in Seq(PluginNames) /\ ToSet(loadOrder) \subseteq Loaded
    BY DEF PluginInv, PluginTypeOK, LoadOrderSorted
  <2>. QED BY <2>1 DEF ToSet
<1>. HIDE DEF k, L
<1>4. CASE manager'.op = "idle" /\ manager'.todo = <<>>
  BY <1>2, <1>4 DEF ProgressInv
<1>5. CASE manager'.op # "idle"
  <2>1. /\ manager'.op = manager.op /\ Len(manager'.todo) = k - 1 /\ DOMAIN manager'.todo = 1..(k - 1)
        /\ \A i \in 1..(k - 1) : i + 1 \in DOMAIN manager.todo /\ manager'.todo[i] = manager.todo[i + 1]
    BY <1>1, <1>5
  <2>2. ASSUME manager.op = "init"
        PROVE  /\ ConstraintsHold' /\ Placed(loadOrder)' /\ k - 1 <= L
               /\ \A i \in 1..(k - 1) : manager'.todo[i] = loadOrder[L - (k - 1) + i]
               /\ ~outside => \A i \in 1..(L - (k - 1)) : Up(loadOrder[i])'
    <3>1. /\ ConstraintsHold /\ Placed(loadOrder) /\ k <= L
          /\ \A i \in DOMAIN manager.todo : manager.todo[i] = loadOrder[L - k + i]
          /\ ~outside => \A i \in 1..(L - k) : Up(loadOrder[i])
      BY <2>2 DEF PluginInv, ProgressInv, k, L
    <3>2. ConstraintsHold' /\ \A m \in Loaded : Requires(m)' = Requires(m)
      BY <3>1, SameBinaries
    <3>3. Placed(loadOrder)'
      BY <1>3, <3>1, <3>2 DEF Placed
    <3>4. ASSUME NEW i \in 1..(k - 1) PROVE manager'.todo[i] = loadOrder[L - (k - 1) + i]
      <4>1. L - k + (i + 1) = L - (k - 1) + i
        BY <1>1, <1>3
      <4>. QED BY <2>1, <3>1, <4>1
    <3>5. ASSUME ~outside, NEW i \in 1..(L - (k - 1)) PROVE Up(loadOrder[i])'
      <4>0. loadOrder[i] \in Loaded
        BY <1>1, <1>3, <3>1
      <4>1. CASE i \in 1..(L - k)
        BY <2>2, <3>1, <3>5, <4>0, <4>1
      <4>2. CASE i = L - k + 1
        <5>1. loadOrder[i] = Head(manager.todo)
          BY <1>1, <3>1, <4>2
        <5>. QED BY <2>2, <3>5, <4>0, <5>1
      <4>. QED BY <1>1, <1>3, <4>1, <4>2
    <3>. QED BY <1>1, <1>3, <3>1, <3>2, <3>3, <3>4, <3>5
  <2>3. ASSUME manager.op = "shutdown", loadOrder # <<>>
        PROVE  /\ k - 1 <= L
               /\ \A i \in 1..(k - 1) : manager'.todo[i] = loadOrder[(k - 1) - i + 1]
               /\ \A i \in 1..L : i > k - 1 => ~Up(loadOrder[i])'
    <3>1. /\ k <= L /\ \A i \in DOMAIN manager.todo : manager.todo[i] = loadOrder[k - i + 1]
          /\ \A i \in 1..L : i > k => ~Up(loadOrder[i])
      BY <1>3, <2>3 DEF PluginInv, ProgressInv, k, L
    <3>2. ASSUME NEW i \in 1..(k - 1) PROVE manager'.todo[i] = loadOrder[(k - 1) - i + 1]
      <4>1. k - (i + 1) + 1 = (k - 1) - i + 1
        BY <1>1
      <4>. QED BY <2>1, <3>1, <4>1
    <3>3. ASSUME NEW i \in 1..L, i > k - 1 PROVE ~Up(loadOrder[i])'
      <4>1. CASE loadOrder[i] = Head(manager.todo)
        BY <1>3, <2>3, <4>1
      <4>2. CASE loadOrder[i] # Head(manager.todo)
        <5>1. k - 1 + 1 = k
          BY <1>1
        <5>2. i # k
          BY <1>1, <3>1, <4>2, <5>1
        <5>3. i > k
          BY <1>1, <3>3, <5>2
        <5>. QED BY <1>3, <3>1, <4>2, <5>3
      <4>. QED BY <4>1, <4>2
    <3>. QED BY <1>1, <1>3, <3>1, <3>2, <3>3
  <2>4. Len(loadOrder') = L /\ DOMAIN loadOrder' = 1..L
    BY <1>3 DEF L
  <2>. QED BY <1>1, <1>2, <2>1, <2>2, <2>3, <2>4 DEF ProgressInv
<1>. QED BY <1>1, <1>4, <1>5

LEMMA NextPluginInv ==
  ASSUME PluginInv, NextPlugin
  PROVE  PluginInv'
<1>. DEFINE n == Head(manager.todo)
<1>0. PluginTypeOK /\ outside \in BOOLEAN
  BY DEF PluginInv, PluginTypeOK
<1>1. manager.todo # <<>> /\ manager.op \notin {"sort", "unload"} /\ loadOrder' = loadOrder /\ file' = file
  BY DEF NextPlugin
<1>2. ASSUME NEW i \in DOMAIN loadOrder PROVE loadOrder[i] \in Loaded
  BY DEF PluginInv, LoadOrderSorted, ToSet
<1>3. CASE (Skips(n) \/ manager.op = "update") /\ Advance /\ UNCHANGED <<plugins, outside>>
  <2>1. manager' \in Operation
    BY <1>1, <1>3, Advanced
  <2>2. /\ PluginTypeOK' /\ LoadOrderSorted' /\ UpInv' /\ DependenciesHeld' /\ Loaded' = Loaded
        /\ \A m : Up(m)' <=> Up(m)
    BY <1>1, <1>3, <2>1, PluginsStay
  <2>3. ASSUME NEW m \in Loaded, m = n
        PROVE  /\ manager.op = "init" /\ ~outside => Up(m)'
               /\ manager.op = "shutdown" => ~Up(m)'
    <3>1. ASSUME manager.op = "init", ~outside PROVE Up(m)
      <4>1. plugins[m].state # "Loaded"
        BY <1>3, <2>3, <3>1 DEF Skips
      <4>2. plugins[m].state # "Error"
        BY <3>1 DEF PluginInv, UpInv
      <4>3. plugins[m].state \in {"Loaded", "Initialized", "Active", "Error"}
        BY <1>0 DEF PluginTypeOK, PluginRecord
      <4>. QED BY <4>1, <4>2, <4>3 DEF Up
    <3>2. ASSUME manager.op = "shutdown" PROVE ~Up(m)
      BY <1>3, <2>3, <3>2 DEF Skips
    <3>. QED BY <2>2, <3>1, <3>2
  <2>4. PlacingInv' /\ ProgressInv'
    BY <1>1, <1>3, <2>2, <2>3, ProgressAdvanced
  <2>. QED BY <2>2, <2>4 DEF PluginInv
<1>4. ASSUME NEW s \in {"Initialized", "Active", "Loaded"}, ~Skips(n), Advance, outside' = outside, SetState(n, s),
             \/ manager.op = "init" /\ s = "Initialized"
             \/ manager.op = "activate" /\ s = "Active"
             \/ manager.op = "shutdown" /\ s = "Loaded"
      PROVE  PluginInv'
  <2>1. n \in Loaded
    BY <1>4 DEF Skips
  <2>2. /\ Loaded' = Loaded /\ plugins' \in [Loaded' -> PluginRecord]
        /\ \A m \in Loaded : plugins'[m].bin = plugins[m].bin
        /\ \A m \in Loaded : plugins'[m].state = IF m = n THEN s ELSE plugins[m].state
    BY <1>0, <1>4, <2>1, StateSet
  <2>3. manager' \in Operation /\ n = manager.todo[1] /\ 1 \in DOMAIN manager.todo /\ Len(manager.todo) \in Nat \ {0}
    BY <1>1, <1>4, Advanced
  <2>4. PluginTypeOK'
    <3>1. outside' \in BOOLEAN
      BY <1>0, <1>4, Zenon
    <3>. QED BY <1>1, <2>2, <2>3, <3>1, TypesStay, Zenon
  <2>5. LoadOrderSorted'
    BY <1>1, <2>2, OrderStays
  <2>0. PICK p \in Loaded : p = n
    BY <2>1
  <2>. HIDE DEF n
  <2>6. \A m \in Loaded : m # p => (Up(m)' <=> Up(m))
    BY <2>0, <2>2 DEF Up
  <2>7. Up(p)' <=> s # "Loaded"
    BY <2>0, <2>2 DEF Up
  <2>8. PlacingInv' /\ ProgressInv'
    <3>1. \A m \in Loaded : m = p =>
             /\ manager.op = "init" /\ ~outside => Up(m)'
             /\ manager.op = "shutdown" => ~Up(m)'
      BY <1>4, <2>7
    <3>. QED BY <1>1, <1>4, <2>0, <2>2, <2>6, <3>1, ProgressAdvanced DEF n
  <2>. DEFINE L == Len(loadOrder)
              k == Len(manager.todo)
  <2>9. L \in Nat /\ DOMAIN loadOrder = 1..L
    BY <1>0 DEF PluginTypeOK
  <2>. HIDE DEF L, k
  <2>10. ASSUME manager.op = "init"
         PROVE  /\ L - k + 1 \in 1..L /\ p = loadOrder[L - k + 1] /\ ConstraintsHold /\ Placed(loadOrder)
                /\ ~outside => \A i \in 1..(L - k) : Up(loadOrder[i])
    <3>1. /\ ConstraintsHold /\ Placed(loadOrder) /\ k <= L
          /\ \A i \in DOMAIN manager.todo : manager.todo[i] = loadOrder[L - k + i]
          /\ ~outside => \A i \in 1..(L - k) : Up(loadOrder[i])
      BY <2>10 DEF PluginInv, ProgressInv, k, L
    <3>2. k \in Nat \ {0}
      BY <2>3 DEF k
    <3>. QED BY <2>0, <2>3, <2>9, <3>1, <3>2
  <2>11. ASSUME NEW m \in Loaded, Up(m)', ~outside
         PROVE  m \in ToSet(loadOrder) /\ plugins'[m].state # "Error"
    <3>1. CASE m # p
      BY <2>0, <2>2, <2>6, <2>11, <3>1 DEF PluginInv, UpInv
    <3>2. CASE m = p /\ manager.op = "init"
      BY <2>0, <2>2, <2>9, <2>10, <3>2, <1>4 DEF ToSet
    <3>3. CASE m = p /\ manager.op = "activate"
      <4>1. Up(m)
        BY <1>4, <2>0, <3>3 DEF Skips, Up, n
      <4>. QED BY <1>4, <2>0, <2>2, <2>11, <3>3, <4>1 DEF PluginInv, UpInv
    <3>4. CASE m = p /\ manager.op = "shutdown"
      BY <1>4, <2>7, <2>11, <3>4
    <3>. QED BY <1>4, <3>1, <3>2, <3>3, <3>4
  <2>12. UpInv'
    <3>1. ASSUME NEW m \in Loaded, ~outside PROVE plugins'[m].state # "Error"
      BY <1>4, <2>0, <2>2, <3>1 DEF PluginInv, UpInv
    <3>. QED BY <1>1, <1>4, <2>2, <2>11, <3>1 DEF UpInv
  <2>13. DependenciesHeld'
    <3>. SUFFICES ASSUME ~outside, NEW m \in Loaded, Up(m)', NEW dep \in plugins[m].bin.deps, dep.parses
                  PROVE  /\ dep.name \in Loaded /\ Up(dep.name)'
                         /\ AllSatisfied(dep, plugins[dep.name].bin.version)
      <4>1. \A dep : dep.name \in Loaded => plugins'[dep.name].bin = plugins[dep.name].bin
        BY <2>2
      <4>. QED BY <1>4, <2>2, <4>1 DEF DependenciesHeld, AllSatisfied
    <3>1. CASE m = p /\ manager.op = "init"
      <4>1. dep.name \in Loaded /\ AllSatisfied(dep, plugins[dep.name].bin.version)
        BY <2>10, <3>1 DEF ConstraintsHold
      <4>2. dep.name \in Requires(p)
        BY <3>1, <4>1 DEF Requires
      <4>. DEFINE i == L - k + 1
      <4>3. i \in DOMAIN loadOrder /\ loadOrder[i] = p /\ Placed(loadOrder)
        BY <2>9, <2>10, <3>1
      <4>4. i - 1 = L - k
        BY <2>3, <2>9 DEF k
      <4>. HIDE DEF i
      <4>5. PICK j \in 1..(i - 1) : loadOrder[j] = dep.name
        BY <4>2, <4>3 DEF Placed
      <4>6. j \in 1..(L - k)
        BY <4>4
      <4>7. Up(dep.name)
        BY <2>10, <3>1, <4>5, <4>6
      <4>8. Up(dep.name)'
        BY <1>4, <2>6, <2>7, <3>1, <4>1, <4>7
      <4>. QED BY <4>1, <4>8
    <3>2. ASSUME Up(m)
          PROVE  dep.name \in Loaded /\ Up(dep.name) /\ AllSatisfied(dep, plugins[dep.name].bin.version)
      BY <3>2 DEF PluginInv, DependenciesHeld
    <3>3. CASE Up(m) /\ manager.op # "shutdown"
      BY <1>4, <2>6, <2>7, <3>2, <3>3
    <3>4. CASE manager.op = "shutdown"
      <4>1. m # p /\ Up(m)
        BY <1>4, <2>6, <2>7, <3>4
      <4>2. PICK i \in 1..L : loadOrder[i] = m
        BY <2>9, <4>1 DEF PluginInv, UpInv, ToSet
      <4>3. loadOrder # <<>>
        BY <2>9, <4>2 DEF L
      <4>4. /\ k <= L /\ p = loadOrder[k - 1 + 1] /\ k \in Nat \ {0}
            /\ \A j \in 1..L : j > k => ~Up(loadOrder[j])
        BY <2>0, <2>3, <2>9, <3>4, <4>3 DEF PluginInv, ProgressInv, k, L
      <4>5. k - 1 + 1 = k
        BY <4>4
      <4>6. i <= k /\ k \in 1..L
        BY <2>9, <4>1, <4>2, <4>4
      <4>7. p \notin Requires(m)
        BY <2>9, <4>2, <4>4, <4>5, <4>6 DEF PluginInv, LoadOrderSorted
      <4>8. dep.name # p
        BY <3>2, <4>1, <4>7 DEF Requires
      <4>. QED BY <2>6, <3>2, <4>1, <4>8
    <3>5. CASE m = p /\ manager.op = "activate"
      <4>1. Up(m)
        BY <1>4, <2>0, <3>5 DEF Skips, Up, n
      <4>. QED BY <3>3, <3>5, <4>1
    <3>. QED BY <1>4, <2>6, <3>1, <3>3, <3>4, <3>5
  <2>. QED BY <2>4, <2>5, <2>8, <2>12, <2>13 DEF PluginInv
<1>5. CASE ~Skips(n) /\ manager.op = "init" /\ SetState(n, "Error") /\ manager' = NoOperation /\ outside' = TRUE
  <2>1. n \in Loaded
    BY <1>5 DEF Skips
  <2>2. /\ Loaded' = Loaded /\ plugins' \in [Loaded' -> PluginRecord]
        /\ \A m \in Loaded : plugins'[m].bin = plugins[m].bin
    BY <1>0, <1>5, <2>1, StateSet
  <2>3. manager' \in Operation /\ manager'.op = "idle" /\ manager'.todo = <<>> /\ manager'.degree = <<>>
    BY <1>5 DEF NoOperation, Operation
  <2>4. outside' \in BOOLEAN
    BY <1>5, Zenon
  <2>5. PluginTypeOK'
    BY <1>1, <2>2, <2>3, <2>4, TypesStay, Zenon
  <2>6. LoadOrderSorted'
    BY <1>1, <2>2, OrderStays
  <2>. QED BY <1>5, <2>3, <2>5, <2>6 DEF PluginInv, PlacingInv, ProgressInv, UpInv, DependenciesHeld
<1>6. manager.op \in {"idle", "sort", "init", "activate", "update", "shutdown", "unload", "reload"}
  BY <1>0 DEF PluginTypeOK, Operation
<1>7. manager.op \notin {"idle", "reload"}
  BY <1>1 DEF PluginInv, ProgressInv
<1>8. \/ Skips(n) /\ Advance /\ UNCHANGED <<plugins, outside>>
      \/ ~Skips(n) /\ manager.op = "update" /\ Advance /\ UNCHANGED <<plugins, outside>>
      \/ /\ ~Skips(n) /\ manager.op # "update" /\ Advance /\ outside' = outside
         /\ SetState(n, CASE manager.op = "init" -> "Initialized"
                          [] manager.op = "activate" -> "Active"
                          [] manager.op = "shutdown" -> "Loaded")
      \/ /\ ~Skips(n) /\ manager.op = "init"
         /\ SetState(n, "Error") /\ manager' = NoOperation /\ outside' = TRUE
  BY DEF NextPlugin
<1>. HIDE DEF n
<1>. QED BY <1>1, <1>3, <1>4, <1>5, <1>6, <1>7, <1>8

\* An operation of the manager leaves the files alone and every plugin with its binary,
\* or loads it from the file as it is.
LEMMA PluginNextInv ==
  ASSUME PluginInv, PluginNext, manager.op # "reload"
  PROVE  /\ PluginInv' /\ file' = file /\ missing' = missing /\ manager'.op # "reload"
         /\ \A n \in Loaded' : \/ n \in Loaded /\ plugins'[n].from = plugins[n].from
                               \/ plugins'[n].from = file[n]
<1>0. PluginTypeOK /\ \A n : FreshPlugin(n).from = file[n]
  BY DEF PluginInv, FreshPlugin
<1>10. missing' = missing
  BY DEF PluginNext, RegisterStaticPlugins, InitializeAll, PlaceReady, KeepOrder, NextPlugin, ActivateAll,
         UpdateAll, Begin, ShutdownAll, UnloadAll, UnloadNext, UnloadEnd, LoadPlugin, InitPlugin,
         ActivatePlugin, ShutdownPlugin, UnloadPlugin
<1>1. CASE RegisterStaticPlugins \/ \E n \in PluginNames : LoadPlugin(n)
  <2>1. PluginInv'
    BY <1>1, LoadInv
  <2>2. CASE RegisterStaticPlugins
    <3>1. file' = file /\ manager' = manager
      BY <2>2 DEF RegisterStaticPlugins
    <3>2. \A n \in Loaded' : plugins'[n] = IF n \in Loaded THEN plugins[n] ELSE FreshPlugin(n)
      BY <2>2 DEF RegisterStaticPlugins, Loaded
    <3>. QED BY <1>10, <1>0, <2>1, <3>1, <3>2
  <2>3. CASE \E n \in PluginNames : LoadPlugin(n)
    <3>1. PICK n \in PluginNames : LoadPlugin(n)
      BY <2>3
    <3>2. file' = file /\ manager' = manager /\ plugins' = With(plugins, n, FreshPlugin(n))
      BY <3>1 DEF LoadPlugin
    <3>3. \A m \in Loaded' : \/ m = n /\ plugins'[m] = FreshPlugin(m)
                             \/ m \in Loaded /\ plugins'[m] = plugins[m]
      BY <3>2 DEF With, Loaded
    <3>. QED BY <1>10, <1>0, <2>1, <3>2, <3>3
  <2>. QED BY <1>1, <2>2, <2>3
<1>2. ASSUME NEW n \in PluginNames, InitPlugin(n) \/ ActivatePlugin(n) \/ ShutdownPlugin(n)
      PROVE  /\ PluginInv' /\ file' = file /\ manager' = manager
             /\ \A m \in Loaded' : m \in Loaded /\ plugins'[m].from = plugins[m].from
  <2>1. PluginInv'
    BY <1>2, SingleInv
  <2>2. /\ n \in Loaded /\ file' = file /\ manager' = manager
        /\ \E s \in {"Loaded", "Initialized", "Active", "Error"} : SetState(n, s)
    BY <1>2 DEF InitPlugin, ActivatePlugin, ShutdownPlugin
  <2>3. Loaded' = Loaded /\ \A m \in Loaded : plugins'[m].from = plugins[m].from
    BY <1>0, <2>2, StateSet
  <2>. QED BY <2>1, <2>2, <2>3
<1>3. ASSUME NEW n \in PluginNames, UnloadPlugin(n)
      PROVE  /\ PluginInv' /\ file' = file /\ manager' = manager
             /\ \A m \in Loaded' : m \in Loaded /\ plugins'[m].from = plugins[m].from
  <2>1. PluginInv'
    BY <1>3, UnloadInv
  <2>2. file' = file /\ manager' = manager /\ plugins' = Without(plugins, n)
    BY <1>3 DEF UnloadPlugin
  <2>. QED BY <2>1, <2>2 DEF Without, Loaded
<1>4. CASE InitializeAll
  <2>1. plugins' = plugins /\ file' = file /\ manager'.op = "sort"
    BY <1>4 DEF InitializeAll
  <2>. QED BY <1>10, <1>4, <2>1, InitializeAllInv DEF Loaded
<1>5. CASE PlaceReady
  <2>1. plugins' = plugins /\ file' = file
    BY <1>5 DEF PlaceReady
  <2>2. manager \in Operation /\ manager.op = "sort"
    BY <1>0, <1>5 DEF PluginTypeOK, PlaceReady
  <2>3. manager'.op = "sort"
    BY <1>5, <2>2 DEF PlaceReady, Operation
  <2>. QED BY <1>10, <1>5, <2>1, <2>3, PlaceReadyInv DEF Loaded
<1>6. CASE KeepOrder
  <2>1. plugins' = plugins /\ file' = file /\ manager'.op # "reload"
    BY <1>6 DEF KeepOrder, NoOperation
  <2>. QED BY <1>10, <1>6, <2>1, KeepOrderInv DEF Loaded
<1>7. CASE ActivateAll \/ UpdateAll \/ ShutdownAll \/ UnloadAll
  <2>1. plugins' = plugins /\ file' = file /\ manager'.op # "reload"
    BY <1>7 DEF ActivateAll, UpdateAll, ShutdownAll, UnloadAll, Begin, NoOperation
  <2>. QED BY <1>10, <1>7, <2>1, BeginInv, BackwardsInv DEF Loaded
<1>8. CASE UnloadNext \/ UnloadEnd
  <2>1. CASE UnloadNext
    <3>1. plugins' = plugins /\ file' = file
      BY <2>1 DEF UnloadNext
    <3>. QED BY <1>10, <2>1, <3>1, UnloadNextInv DEF Loaded
  <2>2. CASE UnloadEnd
    <3>1. file' = file
      BY <2>2 DEF UnloadEnd
    <3>. QED BY <1>10, <2>2, <3>1, UnloadEndInv
  <2>. QED BY <1>8, <2>1, <2>2
<1>9. CASE NextPlugin
  <2>1. PluginInv' /\ file' = file /\ manager.todo # <<>> /\ manager.op \notin {"sort", "unload"}
    BY <1>9, NextPluginInv DEF NextPlugin
  <2>2. manager'.op # "reload"
    <3>1. CASE Advance
      BY <2>1, <3>1, Advanced
    <3>2. CASE manager' = NoOperation
      BY <3>2 DEF NoOperation
    <3>. QED BY <1>9, <3>1, <3>2 DEF NextPlugin
  <2>3. manager.op \in {"init", "activate", "update", "shutdown"}
    BY <1>0, <2>1 DEF PluginTypeOK, Operation, PluginInv, ProgressInv
  <2>4. \/ plugins' = plugins
        \/ \E n \in Loaded, s \in {"Loaded", "Initialized", "Active", "Error"} : SetState(n, s)
    BY <1>9, <2>3 DEF NextPlugin, Skips
  <2>5. CASE plugins' = plugins
    BY <1>10, <2>1, <2>2, <2>5 DEF Loaded
  <2>6. CASE \E n \in Loaded, s \in {"Loaded", "Initialized", "Active", "Error"} : SetState(n, s)
    <3>1. Loaded' = Loaded /\ \A m \in Loaded : plugins'[m].from = plugins[m].from
      BY <1>0, <2>6, StateSet
    <3>. QED BY <1>10, <2>1, <2>2, <3>1
  <2>. QED BY <2>4, <2>5, <2>6
<1>. QED BY <1>1, <1>2, <1>3, <1>4, <1>5, <1>6, <1>7, <1>8, <1>9, <1>10 DEF PluginNext

\* Nothing happens to the plugins: they keep their binaries when a library is built anew.
LEMMA PluginsUntouched ==
  ASSUME PluginInv, UNCHANGED <<plugins, loadOrder, manager, outside>>,
         file' \in [PluginNames -> Nat], \A n \in PluginNames : file'[n] \in DOMAIN Files[n]
  PROVE  PluginInv' /\ Loaded' = Loaded
<1>1. plugins' = plugins /\ manager' = manager /\ loadOrder' = loadOrder /\ outside' = outside
  OBVIOUS
<1>2. Loaded' = Loaded
  BY <1>1 DEF Loaded
<1>3. PluginTypeOK'
  <2>1. manager' \in Operation' /\ plugins' \in [Loaded' -> PluginRecord]
    BY <1>1, <1>2 DEF PluginInv, PluginTypeOK, Operation
  <2>2. outside' \in BOOLEAN
    BY <1>1, Zenon DEF PluginInv, PluginTypeOK
  <2>3. Loaded' \subseteq PluginNames /\ loadOrder' \in Seq(PluginNames)
    BY <1>1, <1>2 DEF PluginInv, PluginTypeOK
  <2>. QED BY <2>1, <2>2, <2>3, Zenon DEF PluginTypeOK
<1>4. /\ \A m : Requires(m)' = Requires(m) /\ (Up(m)' <=> Up(m))
      /\ HasCycle' <=> HasCycle
      /\ ConstraintsHold' <=> ConstraintsHold
  <2>1. \A m : Requires(m)' = Requires(m) /\ (Up(m)' <=> Up(m))
    BY <1>1, <1>2 DEF Requires, Up
  <2>. QED BY <1>1, <1>2, <2>1, SameBinaries
<1>5. /\ Placed(manager.todo) => Placed(manager.todo)'
      /\ Placed(loadOrder) => Placed(loadOrder)'
  <2>1. ASSUME Placed(manager.todo) PROVE Placed(manager.todo)'
    BY <1>1, <1>4, <2>1 DEF Placed
  <2>2. ASSUME Placed(loadOrder) PROVE Placed(loadOrder)'
    BY <1>1, <1>4, <2>2 DEF Placed
  <2>. QED BY <2>1, <2>2
<1>6. LoadOrderSorted' /\ DependenciesHeld' /\ UpInv'
  BY <1>1, <1>2, <1>4 DEF PluginInv, LoadOrderSorted, DependenciesHeld, UpInv
<1>7. PlacingInv'
  BY <1>1, <1>2, <1>4, <1>5 DEF PluginInv, PlacingInv
<1>8. ProgressInv'
  BY <1>1, <1>2, <1>4, <1>5 DEF PluginInv, ProgressInv
<1>. QED BY <1>2, <1>3, <1>6, <1>7, <1>8 DEF PluginInv

\* A library is removed, ...
LEMMA RemoveFileInv ==
  ASSUME PluginInv, NEW n \in PluginNames, RemoveFile(n)
  PROVE  PluginInv' /\ plugins' = plugins /\ manager' = manager /\ Loaded' = Loaded /\ file' = file
<1>1. /\ file \in [PluginNames -> Nat] /\ \A m \in PluginNames : file[m] \in DOMAIN Files[m]
      /\ file' = file /\ UNCHANGED <<plugins, loadOrder, manager, outside>>
  BY DEF PluginInv, PluginTypeOK, RemoveFile
<1>. QED BY <1>1, PluginsUntouched

\* ... and written anew.
LEMMA WriteFileInv ==
  ASSUME PluginInv, NEW n \in PluginNames, WriteFile(n)
  PROVE  /\ PluginInv' /\ plugins' = plugins /\ manager' = manager /\ Loaded' = Loaded
         /\ file[n] \in Nat /\ file'[n] = file[n] + 1
         /\ \A m \in PluginNames : m # n => file'[m] = file[m]
<1>1. /\ file \in [PluginNames -> Nat] /\ \A m \in PluginNames : file[m] \in DOMAIN Files[m]
      /\ file[n] < Len(Files[n]) /\ file' = [file EXCEPT ![n] = @ + 1]
      /\ UNCHANGED <<plugins, loadOrder, manager, outside>>
  BY DEF PluginInv, PluginTypeOK, WriteFile
<1>2. /\ file[n] \in Nat /\ file'[n] = file[n] + 1 /\ file' \in [PluginNames -> Nat]
      /\ \A m \in PluginNames : m # n => file'[m] = file[m]
  BY <1>1
<1>3. \A m \in PluginNames : file'[m] \in DOMAIN Files[m]
  BY <1>1, <1>2, PluginAssumption
<1>. QED BY <1>1, <1>2, <1>3, PluginsUntouched

(***************************************************************************)
(* Hot reload.                                                             *)
(***************************************************************************)

\* An instance that stands during UnloadAll() has what it depends on standing.
LEMMA StandingInv ==
  ASSUME PluginInv
  PROVE  DependenciesUp
<1>. SUFFICES ASSUME ~outside, NEW n \in Loaded, n \notin Gone, Up(n), NEW dep \in plugins[n].bin.deps, dep.parses
              PROVE  dep.name \in Loaded /\ dep.name \notin Gone /\ Up(dep.name)
                     /\ AllSatisfied(dep, plugins[dep.name].bin.version)
  BY DEF DependenciesUp
<1>1. dep.name \in Loaded /\ Up(dep.name) /\ AllSatisfied(dep, plugins[dep.name].bin.version)
  BY DEF PluginInv, DependenciesHeld
<1>2. CASE manager.op # "unload"
  BY <1>1, <1>2 DEF Gone
<1>3. CASE manager.op = "unload"
  <2>. DEFINE L == Len(loadOrder)
              k == Len(manager.todo)
  <2>1. /\ L \in Nat /\ DOMAIN loadOrder = 1..L /\ k \in Nat /\ DOMAIN manager.todo = 1..k
    BY DEF PluginInv, PluginTypeOK, Operation
  <2>2. PICK a \in 1..L, b \in 1..L : loadOrder[a] = n /\ loadOrder[b] = dep.name
    BY <1>1, <2>1 DEF PluginInv, UpInv, ToSet
  <2>3. loadOrder # <<>>
    BY <2>1, <2>2
  <2>4. k <= L /\ \A i \in 1..k : manager.todo[i] = loadOrder[k - i + 1]
    BY <1>3, <2>1, <2>3 DEF PluginInv, ProgressInv
  <2>. HIDE DEF L, k
  <2>5. n \in ToSet(manager.todo)
    BY <1>3, <2>1, <2>2, <2>3 DEF Gone, ToSet
  <2>6. PICK i \in 1..k : manager.todo[i] = n
    BY <2>1, <2>5 DEF ToSet
  <2>7. k - i + 1 \in 1..L /\ loadOrder[k - i + 1] = n
    BY <2>1, <2>4, <2>6
  <2>8. dep.name \in Requires(n)
    BY <1>1 DEF Requires
  <2>9. b < k - i + 1
    <3>1. ~(k - i + 1 <= b)
      BY <2>1, <2>2, <2>7, <2>8 DEF PluginInv, LoadOrderSorted
    <3>. QED BY <2>1, <2>2, <2>7, <3>1
  <2>10. k - b + 1 \in 1..k /\ k - (k - b + 1) + 1 = b
    BY <2>1, <2>2, <2>6, <2>9
  <2>11. manager.todo[k - b + 1] = dep.name
    BY <2>2, <2>4, <2>10
  <2>12. dep.name \in ToSet(manager.todo)
    BY <2>1, <2>10, <2>11 DEF ToSet
  <2>. QED BY <1>1, <1>3, <2>12 DEF Gone
<1>. QED BY <1>2, <1>3

\* What the watcher has seen of a file is not newer than the file, what is reloaded is
\* watched, and a reload in the middle has its plugin unloaded: they make NoChangeMissed
\* inductive.
ReloadInv ==
  /\ \A n \in DOMAIN watched : watched[n].seen <= file[n]
  /\ ToSet(changed) \subseteq DOMAIN watched
  /\ manager.op = "reload" => Polling /\ Head(changed) \notin Loaded

WatchInv == WatchTypeOK /\ ReloadInv /\ NoChangeMissed

\* The fields of an entry.
LEMMA EntryTyped ==
  ASSUME WatchTypeOK, NEW n \in DOMAIN watched
  PROVE  /\ n \in Watchable /\ n \in PluginNames
         /\ watched[n] \in [seen : Nat, age : 0..Debounce, pending : BOOLEAN]
         /\ watched[n].seen \in Nat /\ watched[n].age \in 0..Debounce
BY HotReloadAssumption DEF WatchTypeOK

\* Who calls the manager, and who writes the libraries.
LEMMA ManagerInv ==
  ASSUME PluginInv, WatchInv, ManagerNext
  PROVE  PluginInv' /\ WatchInv'
<1>1. watched' = watched /\ changed' = changed /\ unnoticed' = unnoticed
  BY DEF ManagerNext, reloadVars
<1>2. missing' \subseteq PluginNames => WatchTypeOK'
  BY <1>1 DEF WatchInv, WatchTypeOK
<1>3. CASE ~Polling /\ PluginNext
  <2>1. manager.op # "reload"
    BY <1>3 DEF WatchInv, ReloadInv
  <2>2. /\ PluginInv' /\ file' = file /\ missing' = missing /\ manager'.op # "reload"
        /\ \A n \in Loaded' : \/ n \in Loaded /\ plugins'[n].from = plugins[n].from
                              \/ plugins'[n].from = file[n]
    BY <1>3, <2>1, PluginNextInv
  <2>3. ReloadInv'
    BY <1>1, <2>2 DEF WatchInv, ReloadInv
  <2>4. NoChangeMissed'
    <3>. SUFFICES ASSUME NEW n \in DOMAIN watched, n \in Loaded', plugins'[n].from # file[n]
                  PROVE  \/ watched[n].seen # file[n] \/ watched[n].pending \/ n \in ToSet(changed)
                         \/ <<n, file[n]>> \in unnoticed
      BY <1>1, <2>2 DEF NoChangeMissed
    <3>1. n \in Loaded /\ plugins[n].from # file[n]
      BY <2>2
    <3>. QED BY <3>1 DEF WatchInv, NoChangeMissed
  <2>5. WatchTypeOK'
    BY <1>2, <2>2 DEF WatchInv, WatchTypeOK
  <2>. QED BY <2>2, <2>3, <2>4, <2>5 DEF WatchInv
<1>4. ASSUME NEW k \in PluginNames, WriteFile(k) PROVE PluginInv' /\ WatchInv'
  <2>1. /\ PluginInv' /\ plugins' = plugins /\ manager' = manager /\ Loaded' = Loaded
        /\ file[k] \in Nat /\ file'[k] = file[k] + 1
        /\ \A m \in PluginNames : m # k => file'[m] = file[m]
    BY <1>4, WriteFileInv
  <2>2. \A n \in DOMAIN watched : n \in PluginNames /\ watched[n].seen \in Nat /\ watched[n].seen <= file[n]
    BY EntryTyped DEF WatchInv, ReloadInv
  <2>3. \A n \in DOMAIN watched : watched[n].seen <= file'[n] /\ (n = k => watched[n].seen # file'[n])
    BY <2>1, <2>2
  <2>4. ReloadInv'
    BY <1>1, <2>1, <2>3 DEF WatchInv, ReloadInv, Polling
  <2>5. NoChangeMissed'
    <3>. SUFFICES ASSUME NEW n \in DOMAIN watched, n \in Loaded, plugins[n].from # file'[n]
                  PROVE  \/ watched[n].seen # file'[n] \/ watched[n].pending \/ n \in ToSet(changed)
                         \/ <<n, file'[n]>> \in unnoticed
      BY <1>1, <2>1 DEF NoChangeMissed
    <3>1. CASE n = k
      BY <2>3, <3>1
    <3>2. CASE n # k
      <4>1. file'[n] = file[n]
        BY <2>1, <2>2, <3>2
      <4>. QED BY <4>1 DEF WatchInv, NoChangeMissed
    <3>. QED BY <3>1, <3>2
  <2>6. WatchTypeOK'
    BY <1>2, <1>4 DEF WatchInv, WatchTypeOK, WriteFile
  <2>. QED BY <2>1, <2>4, <2>5, <2>6 DEF WatchInv
<1>5. ASSUME NEW k \in PluginNames, RemoveFile(k) PROVE PluginInv' /\ WatchInv'
  <2>1. PluginInv' /\ plugins' = plugins /\ manager' = manager /\ Loaded' = Loaded /\ file' = file
    BY <1>5, RemoveFileInv
  <2>2. WatchTypeOK'
    BY <1>2, <1>5 DEF WatchInv, WatchTypeOK, RemoveFile
  <2>3. ReloadInv' /\ NoChangeMissed'
    BY <1>1, <2>1 DEF WatchInv, ReloadInv, NoChangeMissed, Polling
  <2>. QED BY <2>1, <2>2, <2>3 DEF WatchInv
<1>. QED BY <1>3, <1>4, <1>5 DEF ManagerNext

\* The watcher alone is at work.
LEMMA ManagerRests ==
  ASSUME PluginInv, UNCHANGED pluginVars
  PROVE  /\ PluginInv' /\ Loaded' = Loaded /\ plugins' = plugins /\ file' = file /\ manager' = manager
         /\ missing' = missing
<1>1. UNCHANGED <<plugins, loadOrder, manager, outside>> /\ file' = file /\ missing' = missing
  BY DEF pluginVars
<1>2. file \in [PluginNames -> Nat] /\ \A n \in PluginNames : file[n] \in DOMAIN Files[n]
  BY DEF PluginInv, PluginTypeOK
<1>. QED BY <1>1, <1>2, PluginsUntouched

\* Plugins are watched, or no longer watched.
LEMMA WatchingInv ==
  ASSUME PluginInv, WatchInv, NEW k \in Watchable, WatchPlugin(k) \/ UnwatchPlugin(k)
  PROVE  PluginInv' /\ WatchInv'
<1>1. /\ PluginInv' /\ Loaded' = Loaded /\ plugins' = plugins /\ file' = file /\ manager' = manager
      /\ missing' = missing /\ FreeToCall /\ changed' = changed
  BY ManagerRests DEF WatchPlugin, UnwatchPlugin
<1>2. manager.op = "idle" /\ changed = <<>> /\ ToSet(changed) = {}
  BY <1>1, EmptyList DEF FreeToCall, ManagerIdle, Polling
<1>3. k \in PluginNames /\ file[k] \in Nat
  BY HotReloadAssumption DEF PluginInv, PluginTypeOK
<1>. DEFINE Entry == [seen : Nat, age : 0..Debounce, pending : BOOLEAN]
<1>4. /\ DOMAIN watched \subseteq Watchable /\ watched \in [DOMAIN watched -> Entry]
      /\ changed \in Seq(Watchable) /\ unnoticed \subseteq PluginNames \X Nat /\ missing \subseteq PluginNames
  BY DEF WatchInv, WatchTypeOK
<1>5. CASE WatchPlugin(k)
  <2>. DEFINE e == [seen |-> file[k], age |-> Debounce, pending |-> FALSE]
  <2>1. /\ watched' = With(watched, k, e)
        /\ unnoticed' = unnoticed \cup (IF k \in Loaded /\ plugins[k].from # file[k] THEN {<<k, file[k]>>} ELSE {})
    BY <1>5 DEF WatchPlugin
  <2>2. e \in Entry /\ e.seen = file[k]
    BY <1>3, HotReloadAssumption
  <2>. HIDE DEF e, Entry
  <2>3. /\ DOMAIN watched' = DOMAIN watched \cup {k} /\ watched'[k] = e
        /\ \A n \in DOMAIN watched : n # k => watched'[n] = watched[n]
        /\ watched' = [n \in DOMAIN watched' |-> watched'[n]]
    BY <2>1 DEF With
  <2>4. \A n \in DOMAIN watched' : watched'[n] \in Entry
    BY <1>4, <2>2, <2>3
  <2>5. WatchTypeOK'
    <3>1. unnoticed' \subseteq PluginNames \X Nat
      BY <1>3, <1>4, <2>1
    <3>. QED BY <1>1, <1>4, <2>3, <2>4, <3>1 DEF WatchTypeOK, Entry
  <2>6. ReloadInv'
    BY <1>1, <1>2, <1>3, <2>2, <2>3 DEF WatchInv, ReloadInv
  <2>7. NoChangeMissed'
    BY <1>1, <2>1, <2>3 DEF WatchInv, NoChangeMissed
  <2>. QED BY <1>1, <2>5, <2>6, <2>7 DEF WatchInv
<1>6. CASE UnwatchPlugin(k)
  <2>1. watched' = Without(watched, k) /\ unnoticed' = unnoticed
    BY <1>6 DEF UnwatchPlugin
  <2>2. /\ DOMAIN watched' = DOMAIN watched \ {k}
        /\ \A n \in DOMAIN watched' : watched'[n] = watched[n]
        /\ watched' = [n \in DOMAIN watched' |-> watched[n]]
    BY <2>1 DEF Without
  <2>. HIDE DEF Entry
  <2>3. WatchTypeOK'
    BY <1>1, <1>4, <2>1, <2>2 DEF WatchTypeOK, Entry
  <2>4. ReloadInv' /\ NoChangeMissed'
    BY <1>1, <1>2, <2>1, <2>2 DEF WatchInv, ReloadInv, NoChangeMissed
  <2>. QED BY <1>1, <2>3, <2>4 DEF WatchInv
<1>. QED BY <1>5, <1>6

\* Time passes for the watcher.
LEMMA AgeInv ==
  ASSUME PluginInv, WatchInv, Age
  PROVE  PluginInv' /\ WatchInv'
<1>1. /\ PluginInv' /\ Loaded' = Loaded /\ plugins' = plugins /\ file' = file /\ manager' = manager
      /\ changed' = changed /\ unnoticed' = unnoticed /\ missing' = missing
      /\ watched' = [n \in DOMAIN watched |-> [watched[n] EXCEPT !.age = IF @ < Debounce THEN @ + 1 ELSE @]]
  BY ManagerRests DEF Age
<1>2. ASSUME NEW n \in DOMAIN watched
      PROVE  /\ watched'[n].seen = watched[n].seen /\ watched'[n].pending = watched[n].pending
             /\ watched'[n] \in [seen : Nat, age : 0..Debounce, pending : BOOLEAN]
  <2>1. /\ watched[n] \in [seen : Nat, age : 0..Debounce, pending : BOOLEAN]
        /\ watched[n].age \in 0..Debounce
    BY EntryTyped DEF WatchInv
  <2>2. (IF watched[n].age < Debounce THEN watched[n].age + 1 ELSE watched[n].age) \in 0..Debounce
    BY <2>1, HotReloadAssumption
  <2>3. watched'[n] = [watched[n] EXCEPT !.age = IF watched[n].age < Debounce THEN watched[n].age + 1 ELSE watched[n].age]
    BY <1>1
  <2>. QED BY <2>1, <2>2, <2>3
<1>3. DOMAIN watched' = DOMAIN watched /\ watched' = [n \in DOMAIN watched |-> watched'[n]]
  BY <1>1
<1>4. WatchTypeOK'
  BY <1>1, <1>2, <1>3 DEF WatchInv, WatchTypeOK
<1>5. ReloadInv'
  BY <1>1, <1>2, <1>3 DEF WatchInv, ReloadInv, Polling
<1>6. NoChangeMissed'
  BY <1>1, <1>2, <1>3 DEF WatchInv, NoChangeMissed
<1>. QED BY <1>1, <1>4, <1>5, <1>6 DEF WatchInv

\* What a poll makes of the entries: a change is seen, and due or pending.
LEMMA PollInv ==
  ASSUME PluginInv, WatchInv, Poll
  PROVE  PluginInv' /\ WatchInv'
<1>. DEFINE D == {n \in DOMAIN watched : Due(n)}
<1>1. /\ PluginInv' /\ Loaded' = Loaded /\ plugins' = plugins /\ file' = file /\ manager' = manager
      /\ FreeToCall /\ changed' \in SetToSeqs(D) /\ unnoticed' = unnoticed /\ missing' = missing
      /\ watched' = [n \in DOMAIN watched |-> [Looked(n) EXCEPT !.pending = @ /\ ~Due(n)]]
  BY ManagerRests DEF Poll
<1>2. manager.op = "idle" /\ ToSet(changed) = {}
  BY <1>1, EmptyList DEF FreeToCall, ManagerIdle, Polling
<1>3. \A n \in DOMAIN watched : n \in Watchable /\ n \in PluginNames
  BY EntryTyped DEF WatchInv
<1>4. changed' \in Seq(Watchable) /\ ToSet(changed') = D
  <2>1. D \in SUBSET PluginNames /\ D \subseteq Watchable
    BY <1>3
  <2>2. IsFiniteSet(D)
    BY <2>1, PluginAssumption, FS_Subset
  <2>3. changed' \in Seq(D) /\ ToSet(changed') = D
    BY <1>1, <2>2, ListOfSet
  <2>. HIDE DEF D
  <2>. QED BY <2>1, <2>3
<1>5. ASSUME NEW n \in DOMAIN watched
      PROVE  /\ Looked(n) \in [seen : Nat, age : 0..Debounce, pending : BOOLEAN]
             /\ Looked(n).seen <= file[n] /\ Due(n) \in BOOLEAN
             /\ ~Looked(n).pending => ~watched[n].pending
             /\ ~Looked(n).pending => Looked(n).seen = watched[n].seen
             /\ Looked(n).seen # file[n] => Looked(n) = watched[n]
  <2>1. file[n] \in Nat
    BY <1>3 DEF PluginInv, PluginTypeOK
  <2>2. /\ watched[n] \in [seen : Nat, age : 0..Debounce, pending : BOOLEAN]
        /\ watched[n].seen <= file[n]
    BY EntryTyped DEF WatchInv, ReloadInv
  <2>3. CASE n \in missing \/ file[n] = watched[n].seen
    <3>1. Looked(n) = watched[n]
      BY <2>3 DEF Looked
    <3>. QED BY <2>1, <2>2, <3>1 DEF Due
  <2>4. CASE ~(n \in missing \/ file[n] = watched[n].seen)
    <3>1. Looked(n) = [seen |-> file[n], age |-> 0, pending |-> TRUE]
      BY <2>4 DEF Looked
    <3>2. 0 \in 0..Debounce
      BY HotReloadAssumption
    <3>. QED BY <2>1, <3>1, <3>2 DEF Due
  <2>. QED BY <2>3, <2>4
<1>6. ASSUME NEW n \in DOMAIN watched
      PROVE  /\ watched'[n] \in [seen : Nat, age : 0..Debounce, pending : BOOLEAN]
             /\ watched'[n].seen = Looked(n).seen
             /\ watched'[n].pending <=> Looked(n).pending /\ ~Due(n)
  <2>. DEFINE p == Looked(n).pending /\ ~Due(n)
  <2>1. p \in BOOLEAN
    OBVIOUS
  <2>2. watched'[n] = [Looked(n) EXCEPT !.pending = p]
    BY <1>1
  <2>. HIDE DEF p
  <2>3. watched'[n] \in [seen : Nat, age : 0..Debounce, pending : BOOLEAN]
    BY <1>5, <2>1, <2>2
  <2>4. watched'[n].seen = Looked(n).seen /\ watched'[n].pending = p
    BY <1>5, <2>2
  <2>. QED BY <2>3, <2>4 DEF p
<1>7. DOMAIN watched' = DOMAIN watched /\ watched' = [n \in DOMAIN watched |-> watched'[n]]
  BY <1>1
<1>8. WatchTypeOK'
  BY <1>1, <1>4, <1>6, <1>7 DEF WatchInv, WatchTypeOK
<1>9. ReloadInv'
  BY <1>1, <1>2, <1>4, <1>5, <1>6, <1>7 DEF WatchInv, ReloadInv
<1>10. NoChangeMissed'
  <2>. SUFFICES ASSUME NEW n \in DOMAIN watched, n \in Loaded, plugins[n].from # file[n],
                       <<n, file[n]>> \notin unnoticed, watched'[n].seen = file[n], ~watched'[n].pending
                PROVE  n \in D
    BY <1>1, <1>4, <1>7 DEF NoChangeMissed
  <2>1. watched[n].seen # file[n] \/ watched[n].pending
    BY <1>2 DEF WatchInv, NoChangeMissed
  <2>2. Looked(n).pending
    BY <1>5, <1>6, <2>1
  <2>. QED BY <1>6, <2>2
<1>. QED BY <1>1, <1>8, <1>9, <1>10 DEF WatchInv

\* A plugin is taken down, by Poll() or by hand.
LEMMA TakeDownInv ==
  ASSUME PluginInv, WatchInv, NEW p \in Watchable, ManagerIdle, TakeDown(p),
         changed' \in Seq(Watchable), changed' # <<>>, Head(changed') = p, ToSet(changed) \subseteq ToSet(changed'),
         ToSet(changed') \subseteq DOMAIN watched
  PROVE  PluginInv' /\ WatchInv'
<1>0. outside \in BOOLEAN /\ p \in PluginNames
  BY HotReloadAssumption DEF PluginInv, PluginTypeOK
<1>1. /\ p \in Loaded /\ outside' = (outside \/ Up(p)) /\ plugins' = Without(plugins, p)
      /\ loadOrder' \in OrderWithout(p) /\ manager' = [NoOperation EXCEPT !.op = "reload"]
      /\ file' = file /\ missing' = missing /\ watched' = watched /\ unnoticed' = unnoticed
  BY DEF TakeDown
<1>2. /\ manager'.op = "reload" /\ manager'.degree = <<>> /\ manager'.todo = <<>> /\ manager' \in Operation'
  <2>1. manager' = [op |-> "reload", todo |-> <<>>, ready |-> <<>>, degree |-> <<>>]
    BY <1>1 DEF NoOperation
  <2>2. <<>> \in Seq(PluginNames)
    OBVIOUS
  <2>. QED BY <2>1, <2>2 DEF Operation
<1>3. outside' \in BOOLEAN
  BY <1>0, <1>1, Zenon
<1>4. ~outside' => ~outside /\ ~Up(p)
  BY <1>1
<1>5. PluginInv'
  BY <1>1, <1>2, <1>3, <1>4, ShrunkInv
<1>6. Loaded' = Loaded \ {p} /\ \A m \in Loaded' : plugins'[m] = plugins[m]
  BY <1>1 DEF Without, Loaded
<1>7. WatchTypeOK'
  BY <1>1 DEF WatchInv, WatchTypeOK
<1>8. ReloadInv'
  BY <1>1, <1>2, <1>6 DEF WatchInv, ReloadInv, Polling
<1>9. NoChangeMissed'
  BY <1>1, <1>6 DEF WatchInv, NoChangeMissed
<1>. QED BY <1>5, <1>7, <1>8, <1>9 DEF WatchInv

\* A reload by hand.
LEMMA ReloadInvByHand ==
  ASSUME PluginInv, WatchInv, NEW k \in Watchable, ReloadPlugin(k)
  PROVE  PluginInv' /\ WatchInv'
<1>1. ManagerIdle /\ changed = <<>> /\ k \in DOMAIN watched /\ TakeDown(k) /\ changed' = <<k>>
  BY DEF ReloadPlugin, FreeToCall, Polling
<1>2. /\ changed' \in Seq(Watchable) /\ changed' # <<>> /\ Head(changed') = k
      /\ ToSet(changed) \subseteq ToSet(changed') /\ ToSet(changed') \subseteq DOMAIN watched
  <2>1. ToSet(changed) = {}
    BY <1>1, EmptyList
  <2>2. ToSet(<<k>>) = {k}
    BY DEF ToSet
  <2>. QED BY <1>1, <2>1, <2>2
<1>. QED BY <1>1, <1>2, TakeDownInv

\* A reload, step by step.
LEMMA ReloadingInv ==
  ASSUME PluginInv, WatchInv, ReloadChanged \/ ReloadNothing \/ CallbackThrows \/ BringUp
  PROVE  PluginInv' /\ WatchInv'
<1>. DEFINE n == Head(changed)
<1>0. /\ changed \in Seq(Watchable) /\ PluginTypeOK /\ outside \in BOOLEAN
      /\ \A k \in DOMAIN watched : k \in PluginNames
  BY EntryTyped DEF WatchInv, WatchTypeOK, PluginInv, PluginTypeOK
<1>1. changed # <<>>
  BY DEF ReloadChanged, ReloadNothing, CallbackThrows, FindsPlugin, BringUp, WatchInv, ReloadInv, Polling
<1>2. /\ n \in Watchable /\ n \in PluginNames /\ Tail(changed) \in Seq(Watchable)
      /\ \A k \in ToSet(changed) : k = n \/ k \in ToSet(Tail(changed))
      /\ ToSet(Tail(changed)) \subseteq ToSet(changed)
  <2>3. ToSet(Tail(changed)) \subseteq ToSet(changed)
    BY <1>0, <1>1 DEF ToSet
  <2>1. n \in Watchable /\ Tail(changed) \in Seq(Watchable)
    BY <1>0, <1>1
  <2>2. ASSUME NEW k \in ToSet(changed), k # n PROVE k \in ToSet(Tail(changed))
    <3>1. PICK i \in 1..Len(changed) : changed[i] = k
      BY <1>0 DEF ToSet
    <3>2. i # 1
      BY <1>0, <1>1, <2>2, <3>1
    <3>3. i - 1 \in DOMAIN Tail(changed) /\ Tail(changed)[i - 1] = k
      BY <1>0, <1>1, <3>1, <3>2
    <3>. QED BY <3>3 DEF ToSet
  <2>. QED BY <2>1, <2>2, <2>3, HotReloadAssumption
<1>3. CASE ReloadNothing
  <2>1. /\ PluginInv' /\ Loaded' = Loaded /\ plugins' = plugins /\ file' = file /\ manager' = manager
        /\ ManagerIdle /\ n \notin Loaded /\ changed' = Tail(changed) /\ missing' = missing
        /\ watched' = watched /\ unnoticed' = unnoticed
    BY <1>3, ManagerRests DEF ReloadNothing, FindsPlugin
  <2>2. WatchTypeOK'
    BY <1>2, <2>1 DEF WatchInv, WatchTypeOK
  <2>3. ReloadInv'
    BY <1>2, <2>1 DEF WatchInv, ReloadInv, ManagerIdle
  <2>4. NoChangeMissed'
    BY <1>2, <2>1 DEF WatchInv, NoChangeMissed
  <2>. QED BY <2>1, <2>2, <2>3, <2>4 DEF WatchInv
<1>4. CASE ReloadChanged
  <2>1. ManagerIdle /\ TakeDown(n) /\ changed' = changed
    BY <1>4 DEF ReloadChanged, FindsPlugin
  <2>2. ToSet(changed) \subseteq DOMAIN watched
    BY DEF WatchInv, ReloadInv
  <2>. QED BY <1>0, <1>1, <1>2, <2>1, <2>2, TakeDownInv
<1>6. CASE CallbackThrows
  <2>1. /\ PluginInv' /\ Loaded' = Loaded /\ plugins' = plugins /\ file' = file /\ manager' = manager
        /\ missing' = missing /\ ManagerIdle /\ changed' = <<>> /\ watched' = watched
        /\ unnoticed' = unnoticed \cup {<<k, watched[k].seen>> : k \in ToSet(changed)}
    BY <1>6, ManagerRests DEF CallbackThrows
  <2>2. \A k \in ToSet(changed) : k \in PluginNames /\ watched[k].seen \in Nat
    BY EntryTyped DEF WatchInv, ReloadInv
  <2>3. ToSet(changed') = {} /\ changed' \in Seq(Watchable)
    BY <2>1, EmptyList
  <2>4. WatchTypeOK'
    BY <2>1, <2>2, <2>3 DEF WatchInv, WatchTypeOK
  <2>5. ReloadInv'
    BY <2>1, <2>3 DEF WatchInv, ReloadInv, ManagerIdle
  <2>6. NoChangeMissed'
    BY <2>1 DEF WatchInv, NoChangeMissed
  <2>. QED BY <2>1, <2>4, <2>5, <2>6 DEF WatchInv
<1>5. CASE BringUp
  <2>1. /\ manager.op = "reload" /\ outside' = TRUE /\ changed' = Tail(changed) /\ manager' = NoOperation
        /\ loadOrder' = loadOrder /\ file' = file /\ missing' = missing /\ watched' = watched
        /\ unnoticed' = unnoticed
        /\ \/ plugins' = plugins
           \/ \E s \in {"Error", "Active"} : plugins' = With(plugins, n, [FreshPlugin(n) EXCEPT !.state = s])
    BY <1>5 DEF BringUp
  <2>2. manager' \in Operation' /\ manager'.op = "idle" /\ manager'.todo = <<>> /\ manager'.degree = <<>>
    BY <2>1 DEF NoOperation, Operation
  <2>3. n \notin Loaded
    BY <2>1 DEF WatchInv, ReloadInv
  <2>4. PICK p \in PluginNames : p = n
    BY <1>2
  <2>. HIDE DEF n
  <2>5. /\ Loaded \subseteq Loaded' /\ Loaded' \subseteq Loaded \cup {p} /\ plugins' \in [Loaded' -> PluginRecord]
        /\ \A m \in Loaded : plugins'[m] = plugins[m]
        /\ p \in Loaded' => plugins'[p].from = file[p]
    <3>0. plugins \in [Loaded -> PluginRecord]
      BY <1>0 DEF PluginTypeOK
    <3>1. CASE plugins' = plugins
      BY <2>3, <2>4, <3>0, <3>1 DEF Loaded
    <3>2. ASSUME NEW s \in {"Error", "Active"}, plugins' = With(plugins, p, [FreshPlugin(p) EXCEPT !.state = s])
          PROVE  /\ Loaded \subseteq Loaded' /\ Loaded' \subseteq Loaded \cup {p}
                 /\ plugins' \in [Loaded' -> PluginRecord]
                 /\ \A m \in Loaded : plugins'[m] = plugins[m]
                 /\ plugins'[p].from = file[p]
      <4>. DEFINE r == [FreshPlugin(p) EXCEPT !.state = s]
      <4>1. r \in PluginRecord /\ r.from = file[p]
        BY <1>0, FreshTyped
      <4>. HIDE DEF r
      <4>2. /\ Loaded' = Loaded \cup {p} /\ plugins' = [m \in Loaded' |-> plugins'[m]] /\ plugins'[p] = r
            /\ \A m \in Loaded : plugins'[m] = plugins[m]
        BY <2>3, <2>4, <3>2 DEF With, Loaded, r
      <4>. QED BY <3>0, <4>1, <4>2
    <3>. QED BY <2>1, <2>4, <3>1, <3>2
  <2>6. PluginInv'
    <3>1. PluginTypeOK'
      <4>1. outside' \in BOOLEAN
        BY <2>1, Zenon
      <4>2. /\ Loaded' \subseteq PluginNames /\ loadOrder' \in Seq(PluginNames)
            /\ file' \in [PluginNames -> Nat] /\ \A m \in PluginNames : file'[m] \in DOMAIN Files[m]
        BY <1>0, <2>1, <2>5 DEF PluginTypeOK
      <4>. QED BY <2>2, <2>5, <4>1, <4>2, Zenon DEF PluginTypeOK
    <3>2. ToSet(loadOrder) \subseteq Loaded
      BY DEF PluginInv, LoadOrderSorted
    <3>3. \A a \in Loaded : \A b \in Loaded : b \in Requires(a)' => b \in Requires(a)
      BY <2>5 DEF Requires
    <3>4. LoadOrderSorted'
      BY <1>0, <2>1, <2>5, <3>2, <3>3, OrderKept DEF PluginInv
    <3>. QED BY <2>1, <2>2, <3>1, <3>4 DEF PluginInv, PlacingInv, ProgressInv, UpInv, DependenciesHeld
  <2>7. WatchTypeOK'
    BY <1>2, <2>1 DEF WatchInv, WatchTypeOK
  <2>8. ReloadInv'
    BY <1>2, <2>1, <2>2 DEF WatchInv, ReloadInv
  <2>9. NoChangeMissed'
    <3>. SUFFICES ASSUME NEW m \in DOMAIN watched, m \in Loaded', plugins'[m].from # file[m]
                  PROVE  \/ watched[m].seen # file[m] \/ watched[m].pending \/ m \in ToSet(Tail(changed))
                         \/ <<m, file[m]>> \in unnoticed
      BY <2>1 DEF NoChangeMissed
    <3>1. m # p
      BY <2>5
    <3>2. m \in Loaded /\ plugins[m].from # file[m]
      BY <2>1, <2>4, <2>5, <3>1
    <3>3. \/ watched[m].seen # file[m] \/ watched[m].pending \/ m \in ToSet(changed)
          \/ <<m, file[m]>> \in unnoticed
      BY <3>2 DEF WatchInv, NoChangeMissed
    <3>. QED BY <1>2, <2>4, <3>1, <3>3
  <2>. QED BY <2>6, <2>7, <2>8, <2>9 DEF WatchInv
<1>. QED BY <1>3, <1>4, <1>5, <1>6

LEMMA HotReloadInv == HotReloadSpec => [](PluginInv /\ WatchInv)
<1>1. PluginInit /\ HotReloadInit => PluginInv /\ WatchInv
  <2>. SUFFICES ASSUME PluginInit, HotReloadInit PROVE PluginInv /\ WatchInv
    OBVIOUS
  <2>1. PluginInv
    BY PluginBegins
  <2>2. /\ DOMAIN watched = {} /\ changed = <<>> /\ unnoticed = {} /\ watched = <<>> /\ missing = {}
        /\ ToSet(changed) = {}
    BY EmptyList DEF HotReloadInit, PluginInit
  <2>3. manager.op = "idle"
    BY DEF PluginInit, NoOperation
  <2>4. WatchTypeOK
    BY <2>2 DEF WatchTypeOK
  <2>. QED BY <2>1, <2>2, <2>3, <2>4 DEF WatchInv, ReloadInv, NoChangeMissed
<1>2. PluginInv /\ WatchInv /\ [ManagerNext \/ ReloadNext]_<<pluginVars, reloadVars>> => (PluginInv /\ WatchInv)'
  <2>. SUFFICES ASSUME PluginInv, WatchInv, [ManagerNext \/ ReloadNext]_<<pluginVars, reloadVars>>
                PROVE  PluginInv' /\ WatchInv'
    OBVIOUS
  <2>1. CASE ManagerNext
    BY <2>1, ManagerInv
  <2>2. CASE ReloadNext
    BY <2>2, WatchingInv, ReloadInvByHand, AgeInv, PollInv, ReloadingInv DEF ReloadNext
  <2>3. CASE UNCHANGED <<pluginVars, reloadVars>>
    <3>1. /\ PluginInv' /\ Loaded' = Loaded /\ plugins' = plugins /\ file' = file /\ manager' = manager
          /\ missing' = missing
      BY <2>3, ManagerRests
    <3>2. watched' = watched /\ changed' = changed /\ unnoticed' = unnoticed
      BY <2>3 DEF reloadVars
    <3>. QED BY <3>1, <3>2 DEF WatchInv, WatchTypeOK, ReloadInv, NoChangeMissed, Polling
  <2>. QED BY <2>1, <2>2, <2>3
<1>. QED BY <1>1, <1>2, PTL DEF HotReloadSpec

\* The plugin manager and the watcher keep to their plugins (PluginManager, FileWatcher).
THEOREM PluginsTypeCorrect == HotReloadSpec => [](PluginTypeOK /\ WatchTypeOK)
<1>1. PluginInv /\ WatchInv => PluginTypeOK /\ WatchTypeOK
  BY DEF PluginInv, WatchInv
<1>. QED BY <1>1, HotReloadInv, PTL

\* The load order stays sorted, what is up has its dependencies up, and a change of a
\* watched library is overlooked only if it was there before or a callback threw, however the manager's operations, failing callbacks,
\* writes, polls and reloads follow each other (InitializeAll, ShutdownAll, doReload, Poll).
THEOREM PluginsStaySound == HotReloadSpec => []PluginsSound
<1>1. PluginInv /\ WatchInv => PluginsSound
  BY StandingInv DEF PluginInv, WatchInv, PluginsSound
<1>. QED BY <1>1, HotReloadInv, PTL

(***************************************************************************)
(* Quests.                                                                 *)
(***************************************************************************)

\* An entry is complete when its state says so, and in progress within its time.
EntryFine(e) ==
  /\ AllObjectivesComplete(e) <=> e.state \in {"ObjectivesComplete", "TurnedIn"}
  /\ e.state = "Accepted" /\ QuestTemplates[e.quest].timeLimit > 0
       => e.elapsed < QuestTemplates[e.quest].timeLimit

\* A quest that was rewarded before and can still be turned in is repeatable: what a second
\* reward would take.
OpenAgain ==
  \A k \in DOMAIN activeQuests :
    activeQuests[k].state # "TurnedIn" /\ rewards[activeQuests[k].quest] > 0
      => QuestTemplates[activeQuests[k].quest].repeatable

QuestInv == QuestTypeOK /\ QuestsSound /\ OpenAgain

\* The fields of an entry.
LEMMA QuestEntryFields ==
  ASSUME NEW e \in QuestEntry
  PROVE  /\ e.quest \in Quests /\ e.elapsed \in Nat
         /\ e.state \in {"Accepted", "ObjectivesComplete", "TurnedIn", "Failed"}
         /\ e = [quest |-> e.quest, state |-> e.state, elapsed |-> e.elapsed, progress |-> e.progress]
         /\ e.progress \in [DOMAIN Objectives(e.quest) -> Nat]
<1>1. PICK q \in Quests :
        e \in [quest : {q}, state : {"Accepted", "ObjectivesComplete", "TurnedIn", "Failed"},
               elapsed : Nat, progress : [DOMAIN Objectives(q) -> Nat]]
  BY DEF QuestEntry
<1>. QED BY <1>1

LEMMA QuestEntryMade ==
  ASSUME NEW q \in Quests, NEW s \in {"Accepted", "ObjectivesComplete", "TurnedIn", "Failed"},
         NEW t \in Nat, NEW p \in [DOMAIN Objectives(q) -> Nat]
  PROVE  [quest |-> q, state |-> s, elapsed |-> t, progress |-> p] \in QuestEntry
BY DEF QuestEntry

\* The entries of the log change, and nobody is rewarded.
LEMMA LogChanged ==
  ASSUME QuestInv, activeQuests' \in Seq(QuestEntry), Len(activeQuests') <= MaxActiveQuests,
         \A j, k \in DOMAIN activeQuests' : activeQuests'[j].quest = activeQuests'[k].quest => j = k,
         \A k \in DOMAIN activeQuests' : EntryFine(activeQuests'[k]),
         \A k \in DOMAIN activeQuests' :
           \/ CanAccept(activeQuests'[k].quest)
           \/ \E j \in DOMAIN activeQuests :
                /\ activeQuests[j].quest = activeQuests'[k].quest
                /\ activeQuests'[k].state # "TurnedIn" => activeQuests[j].state # "TurnedIn",
         questEvents' \in Seq([event : QuestEvents, processed : BOOLEAN]),
         processing' \in 0..Len(questEvents'), completedQuests' = completedQuests, rewards' = rewards
  PROVE  QuestInv'
<1>1. QuestTypeOK'
  BY DEF QuestInv, QuestTypeOK
<1>2. \A q \in Quests : /\ rewards[q] > 0 <=> q \in completedQuests
                        /\ rewards[q] <= 1 \/ QuestTemplates[q].repeatable
                        /\ HasQuest(q) \/ rewards[q] > 0
                             => \A p \in QuestTemplates[q].prerequisites : rewards[p] > 0
  BY DEF QuestInv, QuestsSound
<1>3. \A k \in DOMAIN activeQuests' : activeQuests'[k].quest \in Quests
  BY QuestEntryFields
<1>4. ASSUME NEW q \in Quests, HasQuest(q)' PROVE \A p \in QuestTemplates[q].prerequisites : rewards[p] > 0
  <2>1. PICK k \in DOMAIN activeQuests' : activeQuests'[k].quest = q
    BY <1>4 DEF HasQuest
  <2>2. CASE CanAccept(q)
    BY <1>2, <2>2, QuestAssumption DEF CanAccept
  <2>3. CASE HasQuest(q)
    BY <1>2, <2>3
  <2>. QED BY <2>1, <2>2, <2>3 DEF HasQuest
<1>5. OpenAgain'
  <2>. SUFFICES ASSUME NEW k \in DOMAIN activeQuests', activeQuests'[k].state # "TurnedIn",
                       rewards[activeQuests'[k].quest] > 0
                PROVE  QuestTemplates[activeQuests'[k].quest].repeatable
    BY DEF OpenAgain
  <2>1. CASE CanAccept(activeQuests'[k].quest)
    BY <1>2, <1>3, <2>1 DEF CanAccept
  <2>2. CASE ~CanAccept(activeQuests'[k].quest)
    BY <2>2 DEF QuestInv, OpenAgain
  <2>. QED BY <2>1, <2>2
<1>6. QuestsSound'
  BY <1>2, <1>4 DEF QuestsSound, EntryFine
<1>. QED BY <1>1, <1>5, <1>6 DEF QuestInv

\* What the log has, entry by entry.
LEMMA LogFacts ==
  ASSUME QuestInv
  PROVE  /\ activeQuests \in Seq(QuestEntry) /\ DOMAIN activeQuests = 1..Len(activeQuests)
         /\ Len(activeQuests) \in Nat /\ Len(activeQuests) <= MaxActiveQuests
         /\ \A k \in DOMAIN activeQuests : activeQuests[k] \in QuestEntry /\ EntryFine(activeQuests[k])
         /\ \A j, k \in DOMAIN activeQuests : activeQuests[j].quest = activeQuests[k].quest => j = k
         /\ questEvents \in Seq([event : QuestEvents, processed : BOOLEAN])
         /\ processing \in 0..Len(questEvents)
BY DEF QuestInv, QuestTypeOK, QuestsSound, EntryFine

\* Some entries leave the log.
LEMMA LogShrunk ==
  ASSUME QuestInv, NEW P \in SUBSET (DOMAIN activeQuests), activeQuests' \in KeptAt(activeQuests, P),
         UNCHANGED <<completedQuests, questEvents, processing, rewards>>
  PROVE  QuestInv'
<1>1. /\ activeQuests' \in Seq(QuestEntry) /\ Len(activeQuests') <= Len(activeQuests)
      /\ \E f \in [DOMAIN activeQuests' -> P] :
           Rising(f) /\ \A i \in DOMAIN activeQuests' : activeQuests'[i] = activeQuests[f[i]]
  BY LogFacts, Selected
<1>2. PICK f \in [DOMAIN activeQuests' -> P] :
        Rising(f) /\ \A i \in DOMAIN activeQuests' : activeQuests'[i] = activeQuests[f[i]]
  BY <1>1
<1>3. \A k \in DOMAIN activeQuests' : f[k] \in DOMAIN activeQuests /\ f[k] \in Nat /\ k \in Nat
  BY <1>1, <1>2, LogFacts
<1>4. ASSUME NEW j \in DOMAIN activeQuests', NEW k \in DOMAIN activeQuests',
             activeQuests'[j].quest = activeQuests'[k].quest
      PROVE  j = k
  <2>1. f[j] = f[k]
    BY <1>2, <1>3, <1>4, LogFacts
  <2>. QED BY <1>2, <1>3, <2>1 DEF Rising
<1>5. \A k \in DOMAIN activeQuests' : EntryFine(activeQuests'[k])
  BY <1>2, <1>3, LogFacts
<1>6. Len(activeQuests') <= MaxActiveQuests
  BY <1>1, LogFacts, QuestAssumption
<1>7. \A k \in DOMAIN activeQuests' : \E j \in DOMAIN activeQuests : activeQuests[j] = activeQuests'[k]
  BY <1>2, <1>3
<1>8. questEvents' = questEvents /\ processing' = processing /\ completedQuests' = completedQuests /\ rewards' = rewards
  OBVIOUS
<1>9. \A k \in DOMAIN activeQuests' :
        \/ CanAccept(activeQuests'[k].quest)
        \/ \E j \in DOMAIN activeQuests :
             /\ activeQuests[j].quest = activeQuests'[k].quest
             /\ activeQuests'[k].state # "TurnedIn" => activeQuests[j].state # "TurnedIn"
  BY <1>7
<1>10. /\ questEvents' \in Seq([event : QuestEvents, processed : BOOLEAN])
       /\ processing' \in 0..Len(questEvents')
  BY <1>8, LogFacts
<1>. QED BY <1>1, <1>4, <1>5, <1>6, <1>8, <1>9, <1>10, LogChanged

\* The entries change in place, without becoming another quest's.
LEMMA LogUpdated ==
  ASSUME QuestInv, DOMAIN activeQuests' = DOMAIN activeQuests,
         activeQuests' = [k \in DOMAIN activeQuests |-> activeQuests'[k]],
         \A k \in DOMAIN activeQuests :
           /\ activeQuests'[k] \in QuestEntry /\ EntryFine(activeQuests'[k])
           /\ activeQuests'[k].quest = activeQuests[k].quest
           /\ activeQuests'[k].state # "TurnedIn" => activeQuests[k].state # "TurnedIn",
         questEvents' \in Seq([event : QuestEvents, processed : BOOLEAN]),
         processing' \in 0..Len(questEvents'), completedQuests' = completedQuests, rewards' = rewards
  PROVE  QuestInv'
<1>1. activeQuests' \in Seq(QuestEntry) /\ Len(activeQuests') = Len(activeQuests)
  <2>1. activeQuests' \in [1..Len(activeQuests) -> QuestEntry] /\ Len(activeQuests) \in Nat
    BY LogFacts
  <2>. QED BY <2>1
<1>2. \A j, k \in DOMAIN activeQuests' : activeQuests'[j].quest = activeQuests'[k].quest => j = k
  BY LogFacts
<1>3. \A k \in DOMAIN activeQuests' :
        \/ CanAccept(activeQuests'[k].quest)
        \/ \E j \in DOMAIN activeQuests :
             /\ activeQuests[j].quest = activeQuests'[k].quest
             /\ activeQuests'[k].state # "TurnedIn" => activeQuests[j].state # "TurnedIn"
  OBVIOUS
<1>4. Len(activeQuests') <= MaxActiveQuests /\ \A k \in DOMAIN activeQuests' : EntryFine(activeQuests'[k])
  BY <1>1, LogFacts
<1>. QED BY <1>1, <1>2, <1>3, <1>4, LogChanged

\* The smaller and the larger of two numbers.
LEMMA MinMaxOfTwo ==
  ASSUME NEW a \in Int, NEW b \in Int
  PROVE  /\ Min({a, b}) \in {a, b} /\ Min({a, b}) <= a /\ Min({a, b}) <= b
         /\ Max({a, b}) \in {a, b} /\ Max({a, b}) >= a /\ Max({a, b}) >= b
<1>1. Min({a, b}) \in {a, b} /\ Min({a, b}) <= a /\ Min({a, b}) <= b
  <2>. DEFINE P(x) == \A y \in {a, b} : x <= y
  <2>1. \E x \in {a, b} : P(x)
    BY DEF P
  <2>2. Min({a, b}) = CHOOSE x \in {a, b} : P(x)
    BY DEF Min, P
  <2>3. Min({a, b}) \in {a, b} /\ P(Min({a, b}))
    <3>. HIDE DEF P
    <3>. QED BY <2>1, <2>2
  <2>. QED BY <2>3
<1>2. Max({a, b}) \in {a, b} /\ Max({a, b}) >= a /\ Max({a, b}) >= b
  <2>. DEFINE P(x) == \A y \in {a, b} : x >= y
  <2>1. \E x \in {a, b} : P(x)
    BY DEF P
  <2>2. Max({a, b}) = CHOOSE x \in {a, b} : P(x)
    BY DEF Max, P
  <2>3. Max({a, b}) \in {a, b} /\ P(Max({a, b}))
    <3>. HIDE DEF P
    <3>. QED BY <2>1, <2>2
  <2>. QED BY <2>3
<1>. QED BY <1>1, <1>2

\* updateTimers() fails an entry that is out of time and changes nothing else.
LEMMA TimedFine ==
  ASSUME NEW e \in QuestEntry, EntryFine(e), NEW dt \in Nat
  PROVE  /\ Timed(e, dt) \in QuestEntry /\ EntryFine(Timed(e, dt)) /\ Timed(e, dt).quest = e.quest
         /\ Timed(e, dt).state # "TurnedIn" => e.state # "TurnedIn"
<1>. DEFINE limit == QuestTemplates[e.quest].timeLimit
            late == e.elapsed + dt >= limit
            r == [quest |-> e.quest, state |-> IF late THEN "Failed" ELSE e.state,
                  elapsed |-> e.elapsed + dt, progress |-> e.progress]
<1>1. CASE e.state # "Accepted" \/ limit = 0
  <2>1. Timed(e, dt) = e
    BY <1>1 DEF Timed
  <2>. QED BY <2>1
<1>2. CASE e.state = "Accepted" /\ limit # 0
  <2>1. Timed(e, dt) = [e EXCEPT !.elapsed = e.elapsed + dt,
                                 !.state = IF late THEN "Failed" ELSE e.state]
    BY <1>2 DEF Timed
  <2>2. Timed(e, dt) = r
    BY <2>1, QuestEntryFields
  <2>3. r \in QuestEntry
    <3>1. (IF late THEN "Failed" ELSE e.state) \in {"Accepted", "ObjectivesComplete", "TurnedIn", "Failed"}
      BY QuestEntryFields
    <3>2. e.elapsed + dt \in Nat
      BY QuestEntryFields
    <3>. QED BY <3>1, <3>2, QuestEntryFields, QuestEntryMade
  <2>4. limit \in Nat /\ e.elapsed \in Nat
    BY QuestEntryFields, QuestAssumption
  <2>5. r.quest = e.quest /\ r.progress = e.progress /\ r.elapsed = e.elapsed + dt
        /\ r.state = (IF late THEN "Failed" ELSE "Accepted")
    BY <1>2
  <2>6. AllObjectivesComplete(r) <=> AllObjectivesComplete(e)
    BY <2>5 DEF AllObjectivesComplete
  <2>7. ~AllObjectivesComplete(e)
    BY <1>2 DEF EntryFine
  <2>8. EntryFine(r)
    <3>. HIDE DEF r
    <3>. QED BY <2>4, <2>5, <2>6, <2>7 DEF EntryFine
  <2>. QED BY <1>2, <2>2, <2>3, <2>5, <2>8
<1>. QED BY <1>1, <1>2

\* UpdateObjective() adds progress to an accepted quest, and completes it when there is
\* nothing left to do.
LEMMA UpdateFine ==
  ASSUME NEW e \in QuestEntry, EntryFine(e), NEW event \in QuestEvents
  PROVE  /\ UpdateObjective(e, event) \in QuestEntry /\ EntryFine(UpdateObjective(e, event))
         /\ UpdateObjective(e, event).quest = e.quest
         /\ UpdateObjective(e, event).state # "TurnedIn" => e.state # "TurnedIn"
<1>. DEFINE obj == Objectives(e.quest)
            Hit(o) == /\ obj[o].kind = event.kind /\ obj[o].target = event.target
                      /\ e.progress[o] < obj[o].required
            prog == [o \in DOMAIN e.progress |->
                       IF Hit(o) THEN Min({e.progress[o] + event.count, obj[o].required})
                       ELSE e.progress[o]]
            after == [e EXCEPT !.progress = prog]
            res == [after EXCEPT !.state = IF AllObjectivesComplete(after) THEN "ObjectivesComplete"
                                           ELSE after.state]
<1>1. UpdateObjective(e, event) = IF e.state # "Accepted" \/ ~\E o \in DOMAIN e.progress : Hit(o)
                                  THEN e ELSE res
  BY DEF UpdateObjective
<1>2. e.progress \in [DOMAIN obj -> Nat] /\ e.quest \in Quests /\ event.count \in Nat
  BY QuestEntryFields, QuestAssumption
<1>3. prog \in [DOMAIN obj -> Nat]
  <2>1. ASSUME NEW o \in DOMAIN obj PROVE prog[o] \in Nat
    <3>1. o \in DOMAIN e.progress /\ e.progress[o] \in Nat
      BY <1>2
    <3>2. obj[o].required \in Nat
      BY <1>2, QuestAssumption DEF Objectives
    <3>3. Min({e.progress[o] + event.count, obj[o].required}) \in Nat
      <4>. DEFINE a == e.progress[o] + event.count
                  b == obj[o].required
      <4>1. a \in Nat /\ b \in Nat /\ a \in Int /\ b \in Int
        BY <1>2, <3>1, <3>2
      <4>. HIDE DEF a, b
      <4>2. Min({a, b}) \in {a, b}
        BY <4>1, MinMaxOfTwo
      <4>3. Min({a, b}) \in Nat
        BY <4>1, <4>2
      <4>. QED BY <4>3 DEF a, b
    <3>. QED BY <3>1, <3>3
  <2>2. DOMAIN prog = DOMAIN obj
    BY <1>2
  <2>. HIDE DEF Hit
  <2>. QED BY <2>1, <2>2
<1>. HIDE DEF prog, Hit
<1>4. after = [quest |-> e.quest, state |-> e.state, elapsed |-> e.elapsed, progress |-> prog]
  BY QuestEntryFields
<1>. HIDE DEF after
<1>5. CASE e.state # "Accepted" \/ ~\E o \in DOMAIN e.progress : Hit(o)
  BY <1>1, <1>5
<1>6. CASE e.state = "Accepted" /\ \E o \in DOMAIN e.progress : Hit(o)
  <2>. DEFINE s == IF AllObjectivesComplete(after) THEN "ObjectivesComplete" ELSE e.state
  <2>1. UpdateObjective(e, event) = res
    BY <1>1, <1>6, Zenon
  <2>2. res = [quest |-> e.quest, state |-> s, elapsed |-> e.elapsed, progress |-> prog]
    BY <1>4
  <2>3. s \in {"Accepted", "ObjectivesComplete", "TurnedIn", "Failed"}
    BY QuestEntryFields
  <2>4. s = IF AllObjectivesComplete(after) THEN "ObjectivesComplete" ELSE "Accepted"
    BY <1>6
  <2>. HIDE DEF s, res
  <2>5. res \in QuestEntry
    BY <1>2, <1>3, <2>2, <2>3, QuestEntryFields, QuestEntryMade
  <2>6. res.quest = e.quest /\ res.progress = prog /\ res.elapsed = e.elapsed /\ res.state = s
    BY <2>2
  <2>7. after.quest = e.quest /\ after.progress = prog
    BY <1>4
  <2>8. AllObjectivesComplete(res) <=> AllObjectivesComplete(after)
    BY <2>6, <2>7 DEF AllObjectivesComplete
  <2>9. EntryFine(res)
    BY <1>6, <2>4, <2>6, <2>8 DEF EntryFine
  <2>. QED BY <1>6, <2>1, <2>5, <2>6, <2>9
<1>. QED BY <1>5, <1>6

\* The entry of a quest that is in the log.
LEMMA QuestFound ==
  ASSUME QuestInv, NEW q \in Quests, HasQuest(q)
  PROVE  GetQuest(q) \in DOMAIN activeQuests /\ activeQuests[GetQuest(q)].quest = q
BY DEF HasQuest, GetQuest

LEMMA AcceptKeeps ==
  ASSUME QuestInv, NEW q \in Quests, Accept(q)
  PROVE  QuestInv'
<1>. DEFINE e == [quest |-> q, state |-> "Accepted", elapsed |-> 0,
                  progress |-> [o \in DOMAIN Objectives(q) |-> 0]]
            n == Len(activeQuests)
<1>1. e \in QuestEntry
  BY QuestEntryMade
<1>2. EntryFine(e)
  <2>1. e.quest = q /\ e.state = "Accepted" /\ e.elapsed = 0 /\ DOMAIN e.progress = DOMAIN Objectives(q)
        /\ \A o \in DOMAIN e.progress : e.progress[o] = 0
    OBVIOUS
  <2>2. \A o \in DOMAIN Objectives(q) : Objectives(q)[o].required \in Nat \ {0}
    BY QuestAssumption DEF Objectives
  <2>3. DOMAIN Objectives(q) # {} /\ QuestTemplates[q].timeLimit \in Nat
    BY QuestAssumption DEF Objectives
  <2>. HIDE DEF e
  <2>4. ~AllObjectivesComplete(e)
    BY <2>1, <2>2, <2>3 DEF AllObjectivesComplete
  <2>. QED BY <2>1, <2>3, <2>4 DEF EntryFine
<1>3. activeQuests' = Append(activeQuests, e) /\ CanAccept(q) /\ n < MaxActiveQuests
      /\ UNCHANGED <<completedQuests, questEvents, processing, rewards>>
  BY DEF Accept
<1>4. e.quest = q /\ e.state = "Accepted"
  OBVIOUS
<1>. HIDE DEF e
<1>5. /\ activeQuests' \in Seq(QuestEntry) /\ Len(activeQuests') = n + 1 /\ n \in Nat
      /\ DOMAIN activeQuests' = 1..(n + 1) /\ DOMAIN activeQuests = 1..n
      /\ activeQuests'[n + 1] = e
      /\ \A k \in 1..n : activeQuests'[k] = activeQuests[k]
  BY <1>1, <1>3, LogFacts
<1>6. \A k \in DOMAIN activeQuests' : k \in DOMAIN activeQuests \/ k = n + 1
  BY <1>5
<1>7. Len(activeQuests') <= MaxActiveQuests
  BY <1>3, <1>5, QuestAssumption
<1>8. \A k \in DOMAIN activeQuests : activeQuests[k].quest # q
  BY <1>3 DEF CanAccept, HasQuest
<1>9. \A j, k \in DOMAIN activeQuests' : activeQuests'[j].quest = activeQuests'[k].quest => j = k
  BY <1>4, <1>5, <1>6, <1>8, LogFacts
<1>10. \A k \in DOMAIN activeQuests' : EntryFine(activeQuests'[k])
  BY <1>2, <1>5, <1>6, LogFacts
<1>11. \A k \in DOMAIN activeQuests' :
         \/ CanAccept(activeQuests'[k].quest)
         \/ \E j \in DOMAIN activeQuests :
              /\ activeQuests[j].quest = activeQuests'[k].quest
              /\ activeQuests'[k].state # "TurnedIn" => activeQuests[j].state # "TurnedIn"
  BY <1>3, <1>4, <1>5, <1>6
<1>12. /\ questEvents' \in Seq([event : QuestEvents, processed : BOOLEAN])
       /\ processing' \in 0..Len(questEvents')
  BY <1>3, LogFacts
<1>. QED BY <1>3, <1>5, <1>7, <1>9, <1>10, <1>11, <1>12, LogChanged

LEMMA TurnInKeeps ==
  ASSUME QuestInv, NEW q \in Quests, TurnIn(q)
  PROVE  QuestInv'
<1>. DEFINE g == GetQuest(q)
            e == [quest |-> activeQuests[g].quest, state |-> "TurnedIn",
                  elapsed |-> activeQuests[g].elapsed, progress |-> activeQuests[g].progress]
<1>1. g \in DOMAIN activeQuests /\ activeQuests[g].quest = q /\ activeQuests[g].state = "ObjectivesComplete"
  BY QuestFound DEF TurnIn
<1>2. activeQuests[g] \in QuestEntry /\ EntryFine(activeQuests[g])
  BY <1>1, LogFacts
<1>3. /\ completedQuests' = completedQuests \cup {q} /\ questEvents' = questEvents /\ processing' = processing
      /\ rewards' = [rewards EXCEPT ![q] = rewards[q] + 1]
  BY DEF TurnIn
<1>4. /\ DOMAIN activeQuests' = DOMAIN activeQuests /\ activeQuests'[g] = e
      /\ \A k \in DOMAIN activeQuests : k # g => activeQuests'[k] = activeQuests[k]
      /\ activeQuests' = [k \in DOMAIN activeQuests |-> activeQuests'[k]]
  <2>1. activeQuests' = [activeQuests EXCEPT ![g] = [activeQuests[g] EXCEPT !.state = "TurnedIn"]]
    BY DEF TurnIn
  <2>2. [activeQuests[g] EXCEPT !.state = "TurnedIn"] = e
    BY <1>2, QuestEntryFields
  <2>. HIDE DEF g, e
  <2>. QED BY <1>1, <2>1, <2>2, LogFacts
<1>5. e \in QuestEntry
  BY <1>2, QuestEntryFields, QuestEntryMade
<1>6. EntryFine(e)
  <2>1. AllObjectivesComplete(activeQuests[g])
    BY <1>1, <1>2 DEF EntryFine
  <2>2. e.progress = activeQuests[g].progress /\ e.quest = activeQuests[g].quest /\ e.state = "TurnedIn"
    OBVIOUS
  <2>. HIDE DEF e, g
  <2>3. AllObjectivesComplete(e)
    BY <2>1, <2>2 DEF AllObjectivesComplete
  <2>. QED BY <2>2, <2>3 DEF EntryFine
<1>7. e.quest = q /\ e.state = "TurnedIn"
  BY <1>1
<1>. HIDE DEF g, e
<1>8. rewards \in [Quests -> Nat]
  BY DEF QuestInv, QuestTypeOK
<1>9. /\ rewards' \in [Quests -> Nat] /\ rewards'[q] = rewards[q] + 1 /\ rewards[q] \in Nat
      /\ \A p \in Quests : p # q => rewards'[p] = rewards[p]
  BY <1>3, <1>8
<1>10. activeQuests' \in Seq(QuestEntry) /\ Len(activeQuests') = Len(activeQuests)
  <2>1. activeQuests' \in [1..Len(activeQuests) -> QuestEntry] /\ Len(activeQuests) \in Nat
    BY <1>4, <1>5, LogFacts
  <2>. QED BY <2>1
<1>11. QuestTypeOK'
  BY <1>3, <1>9, <1>10 DEF QuestInv, QuestTypeOK
<1>12. \A k \in DOMAIN activeQuests : activeQuests'[k].quest = activeQuests[k].quest
                                      /\ EntryFine(activeQuests'[k]) /\ activeQuests[k].quest \in Quests
  BY <1>1, <1>4, <1>6, <1>7, LogFacts, QuestEntryFields
<1>13. \A r \in Quests : HasQuest(r)' <=> HasQuest(r)
  BY <1>4, <1>12 DEF HasQuest
<1>14. \A r \in Quests : /\ rewards[r] > 0 <=> r \in completedQuests
                         /\ rewards[r] <= 1 \/ QuestTemplates[r].repeatable
                         /\ HasQuest(r) \/ rewards[r] > 0
                              => \A p \in QuestTemplates[r].prerequisites : rewards[p] > 0
  BY DEF QuestInv, QuestsSound
<1>15. HasQuest(q)
  BY DEF TurnIn
<1>16. ASSUME NEW r \in Quests
       PROVE  /\ rewards'[r] > 0 <=> r \in completedQuests'
              /\ rewards'[r] <= 1 \/ QuestTemplates[r].repeatable
              /\ HasQuest(r)' \/ rewards'[r] > 0
                   => \A p \in QuestTemplates[r].prerequisites : rewards'[p] > 0
  <2>1. rewards'[r] > 0 <=> r \in completedQuests'
    BY <1>3, <1>9, <1>14
  <2>2. rewards'[r] <= 1 \/ QuestTemplates[r].repeatable
    <3>1. rewards[q] > 0 => QuestTemplates[q].repeatable
      BY <1>1 DEF QuestInv, OpenAgain
    <3>. QED BY <1>9, <1>14, <3>1
  <2>3. ASSUME HasQuest(r)' \/ rewards'[r] > 0, NEW p \in QuestTemplates[r].prerequisites
        PROVE  rewards'[p] > 0
    <3>1. p \in Quests
      BY QuestAssumption
    <3>2. HasQuest(r) \/ rewards[r] > 0
      BY <1>9, <1>13, <1>15, <2>3
    <3>3. rewards[p] > 0
      BY <1>14, <3>2
    <3>. QED BY <1>8, <1>9, <3>1, <3>3
  <2>. QED BY <2>1, <2>2, <2>3
<1>17. QuestsSound'
  <2>1. Len(activeQuests') <= MaxActiveQuests
    BY <1>10, LogFacts
  <2>2. \A j, k \in DOMAIN activeQuests' : activeQuests'[j].quest = activeQuests'[k].quest => j = k
    BY <1>4, <1>12, LogFacts
  <2>3. \A k \in DOMAIN activeQuests' : EntryFine(activeQuests'[k])
    BY <1>4, <1>12
  <2>. QED BY <1>16, <2>1, <2>2, <2>3 DEF QuestsSound, EntryFine
<1>18. OpenAgain'
  <2>. SUFFICES ASSUME NEW k \in DOMAIN activeQuests', activeQuests'[k].state # "TurnedIn",
                       rewards'[activeQuests'[k].quest] > 0
                PROVE  QuestTemplates[activeQuests'[k].quest].repeatable
    BY DEF OpenAgain
  <2>1. k # g /\ activeQuests'[k] = activeQuests[k] /\ k \in DOMAIN activeQuests
    BY <1>4, <1>7
  <2>2. activeQuests[k].quest # q
    BY <1>1, <2>1, LogFacts
  <2>. QED BY <1>9, <1>12, <2>1, <2>2 DEF QuestInv, OpenAgain
<1>. QED BY <1>11, <1>17, <1>18 DEF QuestInv

LEMMA QuestTickKeeps ==
  ASSUME QuestInv, NEW dt \in QuestTimes, QuestTick(dt)
  PROVE  QuestInv'
<1>1. /\ activeQuests' = [k \in DOMAIN activeQuests |-> Timed(activeQuests[k], dt)]
      /\ processing' = (IF questEvents = <<>> THEN 0 ELSE 1)
      /\ questEvents' = questEvents /\ completedQuests' = completedQuests /\ rewards' = rewards
  BY DEF QuestTick
<1>2. dt \in Nat
  BY QuestAssumption
<1>3. DOMAIN activeQuests' = DOMAIN activeQuests
      /\ activeQuests' = [k \in DOMAIN activeQuests |-> activeQuests'[k]]
      /\ \A k \in DOMAIN activeQuests : activeQuests'[k] = Timed(activeQuests[k], dt)
  BY <1>1
<1>4. \A k \in DOMAIN activeQuests :
        /\ activeQuests'[k] \in QuestEntry /\ EntryFine(activeQuests'[k])
        /\ activeQuests'[k].quest = activeQuests[k].quest
        /\ activeQuests'[k].state # "TurnedIn" => activeQuests[k].state # "TurnedIn"
  BY <1>2, <1>3, LogFacts, TimedFine
<1>5. /\ questEvents' \in Seq([event : QuestEvents, processed : BOOLEAN])
      /\ processing' \in 0..Len(questEvents')
  BY <1>1, LogFacts
<1>. QED BY <1>1, <1>3, <1>4, <1>5, LogUpdated

LEMMA ProcessEventKeeps ==
  ASSUME QuestInv, ProcessEvent
  PROVE  QuestInv'
<1>. DEFINE e == questEvents[processing]
<1>1. /\ processing > 0
      /\ activeQuests' = (IF e.processed THEN activeQuests
                          ELSE [k \in DOMAIN activeQuests |-> UpdateObjective(activeQuests[k], e.event)])
      /\ questEvents' = [questEvents EXCEPT ![processing].processed = TRUE]
      /\ processing' = (IF processing = Len(questEvents) THEN 0 ELSE processing + 1)
      /\ completedQuests' = completedQuests /\ rewards' = rewards
  BY DEF ProcessEvent
<1>2. /\ processing \in 1..Len(questEvents) /\ DOMAIN questEvents = 1..Len(questEvents)
      /\ e \in [event : QuestEvents, processed : BOOLEAN]
  <2>. DEFINE E == [event : QuestEvents, processed : BOOLEAN]
  <2>1. questEvents \in Seq(E) /\ processing \in 0..Len(questEvents)
    BY LogFacts
  <2>. HIDE DEF E
  <2>2. /\ processing \in 1..Len(questEvents) /\ DOMAIN questEvents = 1..Len(questEvents) /\ e \in E
    BY <1>1, <2>1
  <2>. QED BY <2>2 DEF E
<1>3. e.event \in QuestEvents
  BY <1>2, Zenon
<1>4. /\ questEvents' \in Seq([event : QuestEvents, processed : BOOLEAN])
      /\ processing' \in 0..Len(questEvents')
  <2>1. questEvents' = [questEvents EXCEPT ![processing] = [e EXCEPT !.processed = TRUE]]
    BY <1>1
  <2>. DEFINE E == [event : QuestEvents, processed : BOOLEAN]
              f == [e EXCEPT !.processed = TRUE]
  <2>2. f \in E
    BY <1>2, Zenon
  <2>3. questEvents \in Seq(E)
    BY LogFacts
  <2>. HIDE DEF e, E, f
  <2>4. questEvents' \in Seq(E) /\ Len(questEvents') = Len(questEvents)
    <3>1. questEvents' = [questEvents EXCEPT ![processing] = f]
      BY <2>1 DEF f
    <3>. QED BY <1>2, <2>2, <2>3, <3>1
  <2>5. questEvents' \in Seq([event : QuestEvents, processed : BOOLEAN])
    BY <2>4 DEF E
  <2>. QED BY <1>1, <1>2, <2>4, <2>5
<1>5. DOMAIN activeQuests' = DOMAIN activeQuests
      /\ activeQuests' = [k \in DOMAIN activeQuests |-> activeQuests'[k]]
      /\ \A k \in DOMAIN activeQuests : \/ activeQuests'[k] = activeQuests[k]
                                        \/ activeQuests'[k] = UpdateObjective(activeQuests[k], e.event)
  <2>. DEFINE v == e.event
  <2>1. \/ activeQuests' = activeQuests
        \/ activeQuests' = [k \in DOMAIN activeQuests |-> UpdateObjective(activeQuests[k], v)]
    BY <1>1, Zenon
  <2>. HIDE DEF e, v
  <2>2. CASE activeQuests' = activeQuests
    BY <2>2, LogFacts
  <2>3. CASE activeQuests' = [k \in DOMAIN activeQuests |-> UpdateObjective(activeQuests[k], v)]
    BY <2>3 DEF v
  <2>. QED BY <2>1, <2>2, <2>3
<1>6. \A k \in DOMAIN activeQuests :
        /\ activeQuests'[k] \in QuestEntry /\ EntryFine(activeQuests'[k])
        /\ activeQuests'[k].quest = activeQuests[k].quest
        /\ activeQuests'[k].state # "TurnedIn" => activeQuests[k].state # "TurnedIn"
  <2>. DEFINE v == e.event
  <2>1. v \in QuestEvents
    BY <1>3
  <2>. HIDE DEF e, v
  <2>. SUFFICES ASSUME NEW k \in DOMAIN activeQuests
                PROVE  /\ activeQuests'[k] \in QuestEntry /\ EntryFine(activeQuests'[k])
                       /\ activeQuests'[k].quest = activeQuests[k].quest
                       /\ activeQuests'[k].state # "TurnedIn" => activeQuests[k].state # "TurnedIn"
    OBVIOUS
  <2>2. activeQuests[k] \in QuestEntry /\ EntryFine(activeQuests[k])
    BY LogFacts
  <2>3. CASE activeQuests'[k] = activeQuests[k]
    BY <2>2, <2>3
  <2>4. CASE activeQuests'[k] = UpdateObjective(activeQuests[k], v)
    BY <2>1, <2>2, <2>4, UpdateFine
  <2>. QED BY <1>5, <2>3, <2>4 DEF v
<1>. QED BY <1>1, <1>4, <1>5, <1>6, LogUpdated

\* The events come and go.
LEMMA EventsKeep ==
  ASSUME QuestInv, DropQuestEvent \/ \E event \in QuestEvents : RaiseQuestEvent(event)
  PROVE  QuestInv'
<1>1. UNCHANGED <<activeQuests, completedQuests, processing, rewards>> /\ processing = 0
  BY DEF DropQuestEvent, RaiseQuestEvent, BetweenTicks
<1>2. questEvents' \in Seq([event : QuestEvents, processed : BOOLEAN])
  <2>1. CASE DropQuestEvent
    BY <2>1, LogFacts DEF DropQuestEvent
  <2>2. ASSUME NEW event \in QuestEvents, RaiseQuestEvent(event)
        PROVE  questEvents' \in Seq([event : QuestEvents, processed : BOOLEAN])
    <3>1. [event |-> event, processed |-> FALSE] \in [event : QuestEvents, processed : BOOLEAN]
      OBVIOUS
    <3>2. questEvents' = Append(questEvents, [event |-> event, processed |-> FALSE])
      BY <2>2 DEF RaiseQuestEvent
    <3>. QED BY <3>1, <3>2, LogFacts
  <2>. QED BY <2>1, <2>2
<1>3. processing' \in 0..Len(questEvents')
  BY <1>1, <1>2
<1>4. DOMAIN activeQuests' = DOMAIN activeQuests
      /\ activeQuests' = [k \in DOMAIN activeQuests |-> activeQuests'[k]]
      /\ \A k \in DOMAIN activeQuests :
           /\ activeQuests'[k] \in QuestEntry /\ EntryFine(activeQuests'[k])
           /\ activeQuests'[k].quest = activeQuests[k].quest
           /\ activeQuests'[k].state # "TurnedIn" => activeQuests[k].state # "TurnedIn"
  BY <1>1, LogFacts
<1>. QED BY <1>1, <1>2, <1>3, <1>4, LogUpdated

LEMMA QuestInvariant == QuestSpec => []QuestInv
<1>1. QuestInit => QuestInv
  <2>. SUFFICES ASSUME QuestInit PROVE QuestInv
    OBVIOUS
  <2>1. QuestTypeOK
    BY DEF QuestInit, QuestTypeOK
  <2>2. QuestsSound
    <3>1. DOMAIN activeQuests = {} /\ Len(activeQuests) = 0
      BY DEF QuestInit
    <3>2. \A q \in Quests : ~HasQuest(q) /\ rewards[q] = 0 /\ q \notin completedQuests
      BY <3>1 DEF QuestInit, HasQuest
    <3>. QED BY <3>1, <3>2, QuestAssumption DEF QuestsSound
  <2>3. OpenAgain
    BY DEF QuestInit, OpenAgain
  <2>. QED BY <2>1, <2>2, <2>3 DEF QuestInv
<1>2. QuestInv /\ [QuestNext]_questVars => QuestInv'
  <2>. SUFFICES ASSUME QuestInv, [QuestNext]_questVars PROVE QuestInv'
    OBVIOUS
  <2>1. CASE \E q \in Quests : Accept(q)
    BY <2>1, AcceptKeeps
  <2>2. ASSUME NEW q \in Quests, Abandon(q) PROVE QuestInv'
    <3>1. DOMAIN activeQuests \ {GetQuest(q)} \in SUBSET (DOMAIN activeQuests)
      OBVIOUS
    <3>. QED BY <2>2, <3>1, LogShrunk DEF Abandon
  <2>3. CASE \E q \in Quests : TurnIn(q)
    BY <2>3, TurnInKeeps
  <2>4. CASE CleanupFinished
    <3>. DEFINE P == {k \in DOMAIN activeQuests : activeQuests[k].state \notin {"TurnedIn", "Failed"}}
    <3>1. P \in SUBSET (DOMAIN activeQuests) /\ activeQuests' \in KeptAt(activeQuests, P)
          /\ UNCHANGED <<completedQuests, questEvents, processing, rewards>>
      BY <2>4 DEF CleanupFinished
    <3>. HIDE DEF P
    <3>. QED BY <3>1, LogShrunk
  <2>5. CASE DropQuestEvent \/ \E event \in QuestEvents : RaiseQuestEvent(event)
    BY <2>5, EventsKeep
  <2>6. CASE ProcessEvent
    BY <2>6, ProcessEventKeeps
  <2>7. CASE \E dt \in QuestTimes : QuestTick(dt)
    BY <2>7, QuestTickKeeps
  <2>8. CASE UNCHANGED questVars
    BY <2>8 DEF questVars, QuestInv, QuestTypeOK, QuestsSound, OpenAgain, HasQuest
  <2>. QED BY <2>1, <2>2, <2>3, <2>4, <2>5, <2>6, <2>7, <2>8 DEF QuestNext
<1>. QED BY <1>1, <1>2, PTL DEF QuestSpec

\* The log and the events have their types whatever is accepted, abandoned, turned in, cleaned
\* up and timed out.
THEOREM QuestsTypeCorrect == QuestSpec => []QuestTypeOK
<1>1. QuestInv => QuestTypeOK
  BY DEF QuestInv
<1>. QED BY <1>1, QuestInvariant, PTL

\* A quest that is not repeatable is rewarded once, prerequisites are met, and the state of an
\* entry agrees with its objectives and its time (Accept, TurnIn, QuestSystem::Execute).
THEOREM QuestsStaySound == QuestSpec => []QuestsSound
<1>1. QuestInv => QuestsSound
  BY DEF QuestInv
<1>. QED BY <1>1, QuestInvariant, PTL

(***************************************************************************)
(* Combat.                                                                 *)
(***************************************************************************)

ThreatEntry == [source : Attackers, amount : Nat]

\* A threat list without repetition, in the order of the damage each attacker dealt.
ThreatListed(list, damage) ==
  /\ list \in Seq(ThreatEntry)
  /\ \A j, k \in DOMAIN list : list[j].source = list[k].source => j = k
  /\ \A k \in DOMAIN list : list[k].amount = damage[list[k].source]
  /\ \A j, k \in DOMAIN list : j < k => list[j].amount >= list[k].amount
  /\ \A a \in Attackers : damage[a] > 0 => \E k \in DOMAIN list : list[k].source = a

\* What holds of an aura at any time: a tick that came late was the last one.
AuraFine(a) ==
  /\ a.stacks <= MaxAuraStacks \/ a.stacks = AuraKinds[a.id].stacks
  /\ a.late \in {0, 1} /\ (a.late = 1 => a.remaining < 0 /\ a.timer > 0)
  /\ AuraInterval(a) > 0 => a.timer <= AuraInterval(a) \/ a.timer <= AuraKinds[a.id].first

\* Between frames, ...
AtRest(a) ==
  /\ AuraFine(a) /\ a.late = 0
  /\ a.seen = "aged" => a.remaining > 0 /\ (AuraInterval(a) > 0 => a.timer > 0)

\* ... before its turn in updateAuras(), ...
ToDo(a) == AuraFine(a) /\ a.late = 0

\* ... in its turn, ...
AtTurn(a) == AuraFine(a) /\ a.seen = "aged"

\* ... and after it: its ticks are caught up, unless it ended long ago.
Done(a) ==
  /\ AuraFine(a) /\ a.seen = "aged"
  /\ AuraInterval(a) > 0 => a.timer > 0 \/ a.remaining <= -AuraInterval(a)

\* What holds of aura k when Execute() is at e.
InPhase(a, k, e) ==
  IF e.step \in {"none", "events"} THEN AtRest(a)
  ELSE IF k < e.next THEN Done(a)
  ELSE IF k = e.next /\ e.step = "ticks" THEN AtTurn(a) ELSE ToDo(a)

AurasListed ==
  /\ \A j, k \in DOMAIN auras : auras[j].id = auras[k].id /\ auras[j].caster = auras[k].caster => j = k
  /\ \A k \in DOMAIN auras : InPhase(auras[k], k, executing)

CombatInv == CombatTypeOK /\ ThreatListed(threat, dealt) /\ AurasListed

\* SetHealth() clamps.
LEMMA HealthClamped ==
  ASSUME NEW v \in Int
  PROVE  SetHealth(v) \in 0..MaxHealth
<1>. DEFINE m == Min({v, MaxHealth})
<1>0. MaxHealth \in Nat /\ MaxHealth \in Int
  BY CombatAssumption
<1>1. m \in Int /\ m <= MaxHealth /\ MaxHealth \in Nat
  BY <1>0, MinMaxOfTwo
<1>. HIDE DEF m
<1>2. Max({0, m}) \in {0, m} /\ Max({0, m}) >= 0
  BY <1>1, MinMaxOfTwo
<1>3. SetHealth(v) = Max({0, m})
  BY DEF SetHealth, m
<1>. QED BY <1>1, <1>2, <1>3

LEMMA DamageNatural ==
  ASSUME NEW base \in Int, NEW type \in DamageTypes, NEW critical
  PROVE  CalculateDamage(base, type, critical) \in Nat
<1>1. CASE base <= 0
  BY <1>1 DEF CalculateDamage
<1>2. CASE ~(base <= 0)
  <2>. DEFINE c == IF critical THEN CritMultiplier ELSE 1
              w == DefenceConstant(type)
              v == Defence(type)
              d == (base * c * w) \div (v + w)
  <2>1. c \in Nat
    BY CombatAssumption
  <2>2. CalculateDamage(base, type, critical) = Max({1, d})
    BY <1>2 DEF CalculateDamage
  <2>6. w \in Nat \ {0}
    BY CombatAssumption DEF DefenceConstant
  <2>7. v \in Int /\ v >= 0
    <3>. DEFINE u == IF type = "physical" THEN Armor ELSE Resistances[type]
    <3>1. u \in Int
      BY CombatAssumption
    <3>. HIDE DEF u
    <3>2. Max({u, 0}) \in {u, 0} /\ Max({u, 0}) >= 0
      BY <3>1, MinMaxOfTwo
    <3>3. v = Max({u, 0})
      BY DEF Defence, u
    <3>. HIDE DEF v
    <3>. QED BY <3>1, <3>2, <3>3
  <2>. HIDE DEF c, v, w
  <2>3. base * c * w \in Int /\ v + w \in Int /\ v + w > 0
    BY <2>1, <2>6, <2>7
  <2>4. d \in Int
    BY <2>3
  <2>. HIDE DEF d
  <2>5. Max({1, d}) \in {1, d} /\ Max({1, d}) >= 1
    BY <2>4, MinMaxOfTwo
  <2>. QED BY <2>2, <2>4, <2>5
<1>. QED BY <1>1, <1>2

\* A sorted list has the elements of the list, each at one place.
LEMMA SortedPermutes ==
  ASSUME NEW S, NEW list \in Seq(S), NEW s \in Sorted(list)
  PROVE  /\ s \in Seq(S) /\ DOMAIN s = DOMAIN list
         /\ \A j, k \in DOMAIN s : j < k => s[j].amount >= s[k].amount
         /\ \E p \in [DOMAIN list -> DOMAIN list] :
              /\ \A k \in DOMAIN list : s[k] = list[p[k]]
              /\ \A j, k \in DOMAIN list : p[j] = p[k] => j = k
              /\ \A j \in DOMAIN list : \E k \in DOMAIN list : p[k] = j
<1>. DEFINE D == DOMAIN list
<1>1. D = 1..Len(list) /\ Len(list) \in Nat
  OBVIOUS
<1>2. PICK p \in [D -> D] : IsInjective(p) /\ s = [k \in D |-> list[p[k]]]
  BY DEF Sorted
<1>3. \A j, k \in DOMAIN s : j < k => s[j].amount >= s[k].amount
  BY DEF Sorted
<1>4. \A j, k \in D : p[j] = p[k] => j = k
  BY <1>2 DEF IsInjective
<1>5. IsFiniteSet(D)
  BY <1>1, FS_Interval, 1 \in Int, Len(list) \in Int, Zenon
<1>6. p \in Surjection(D, D)
  <2>1. p \in Injection(D, D)
    BY <1>2, <1>4 DEF Injection, IsInjective
  <2>. QED BY <1>5, <2>1, FS_Injection, Zenon
<1>7. \A j \in D : \E k \in D : p[k] = j
  BY <1>6, Zenon DEF Surjection
<1>8. s \in Seq(S) /\ DOMAIN s = D /\ \A k \in D : s[k] = list[p[k]]
  <2>1. DOMAIN s = D /\ \A k \in D : s[k] = list[p[k]] /\ p[k] \in D
    BY <1>2
  <2>2. \A k \in 1..Len(list) : s[k] \in S
    BY <1>1, <2>1
  <2>3. s \in [1..Len(list) -> S]
    BY <1>1, <1>2, <2>1, <2>2
  <2>. QED BY <1>1, <2>1, <2>3
<1>. QED BY <1>2, <1>3, <1>4, <1>7, <1>8

\* AddThreat() keeps the list: the attacker has what it had and the damage of this event.
LEMMA ThreatGrows ==
  ASSUME NEW list, NEW damage \in [Attackers -> Nat], ThreatListed(list, damage),
         NEW source \in Attackers, NEW amount \in Nat,
         NEW s \in Sorted(ThreatAdded(list, source, amount))
  PROVE  ThreatListed(s, [damage EXCEPT ![source] = @ + amount])
<1>. DEFINE added == ThreatAdded(list, source, amount)
            d == [damage EXCEPT ![source] = damage[source] + amount]
            n == Len(list)
<1>1. /\ list \in Seq(ThreatEntry) /\ n \in Nat /\ DOMAIN list = 1..n
      /\ \A k \in DOMAIN list : /\ list[k].source \in Attackers /\ list[k].amount \in Nat
                                /\ list[k].amount = damage[list[k].source]
      /\ \A j, k \in DOMAIN list : list[j].source = list[k].source => j = k
      /\ \A a \in Attackers : damage[a] > 0 => \E k \in DOMAIN list : list[k].source = a
  <2>1. list \in Seq(ThreatEntry)
    BY DEF ThreatListed
  <2>2. n \in Nat /\ DOMAIN list = 1..n /\ \A k \in DOMAIN list : list[k] \in ThreatEntry
    BY <2>1
  <2>3. \A e \in ThreatEntry : e.source \in Attackers /\ e.amount \in Nat
    BY DEF ThreatEntry
  <2>. QED BY <2>1, <2>2, <2>3 DEF ThreatListed
<1>2. /\ d \in [Attackers -> Nat] /\ d[source] = damage[source] + amount
      /\ \A a \in Attackers : a # source => d[a] = damage[a]
  OBVIOUS
<1>. HIDE DEF d
<1>3. /\ added \in Seq(ThreatEntry)
      /\ \A j, k \in DOMAIN added : added[j].source = added[k].source => j = k
      /\ \A k \in DOMAIN added : added[k].source \in Attackers /\ added[k].amount = d[added[k].source]
      /\ \A a \in Attackers : d[a] > 0 => \E k \in DOMAIN added : added[k].source = a
  <2>1. CASE \E k \in DOMAIN list : list[k].source = source
    <3>1. added = [k \in DOMAIN list |-> IF list[k].source = source
                                         THEN [list[k] EXCEPT !.amount = list[k].amount + amount]
                                         ELSE list[k]]
      BY <2>1 DEF ThreatAdded
    <3>2. DOMAIN added = DOMAIN list
      BY <3>1
    <3>3. ASSUME NEW k \in DOMAIN list
          PROVE  /\ added[k] \in ThreatEntry /\ added[k].source = list[k].source
                 /\ added[k].amount = d[list[k].source]
      <4>1. list[k] \in ThreatEntry
        BY <1>1
      <4>2. CASE list[k].source = source
        <5>1. added[k] = [list[k] EXCEPT !.amount = list[k].amount + amount]
          BY <3>1, <4>2
        <5>2. list[k].source \in Attackers /\ list[k].amount \in Nat /\ list[k].amount = damage[source]
          BY <1>1, <4>2
        <5>3. added[k] = [source |-> list[k].source, amount |-> list[k].amount + amount]
          BY <4>1, <5>1 DEF ThreatEntry
        <5>. HIDE DEF added
        <5>. QED BY <1>2, <4>2, <5>2, <5>3 DEF ThreatEntry
      <4>3. CASE list[k].source # source
        BY <1>1, <1>2, <3>1, <4>1, <4>3
      <4>. QED BY <4>2, <4>3
    <3>4. added \in Seq(ThreatEntry)
      <4>1. added \in [1..n -> ThreatEntry]
        BY <1>1, <3>1, <3>2, <3>3
      <4>. HIDE DEF added, n
      <4>. QED BY <1>1, <4>1
    <3>. HIDE DEF added
    <3>5. \A a \in Attackers : d[a] > 0 => \E k \in DOMAIN list : list[k].source = a
      BY <1>1, <1>2, <2>1
    <3>. QED BY <1>1, <3>2, <3>3, <3>4, <3>5
  <2>2. CASE ~\E k \in DOMAIN list : list[k].source = source
    <3>. DEFINE e == [source |-> source, amount |-> amount]
    <3>1. added = Append(list, e)
      BY <2>2 DEF ThreatAdded
    <3>2. e \in ThreatEntry /\ e.source = source /\ e.amount = amount
      BY DEF ThreatEntry
    <3>. HIDE DEF e, added
    <3>3. /\ added \in Seq(ThreatEntry) /\ DOMAIN added = 1..(n + 1) /\ added[n + 1] = e
          /\ \A k \in 1..n : added[k] = list[k]
      BY <1>1, <3>1, <3>2
    <3>4. damage[source] = 0
      BY <1>1, <2>2
    <3>5. \A k \in DOMAIN added : k \in DOMAIN list \/ k = n + 1
      BY <1>1, <3>3
    <3>6. \A k \in DOMAIN list : added[k] = list[k] /\ k \in DOMAIN added /\ list[k].source # source
      BY <1>1, <2>2, <3>3
    <3>7. n + 1 \in DOMAIN added
      BY <1>1, <3>3
    <3>8. \A j, k \in DOMAIN added : added[j].source = added[k].source => j = k
      BY <1>1, <3>2, <3>3, <3>5, <3>6
    <3>9. \A k \in DOMAIN added : added[k].source \in Attackers /\ added[k].amount = d[added[k].source]
      BY <1>1, <1>2, <3>2, <3>3, <3>4, <3>5, <3>6
    <3>10. \A a \in Attackers : d[a] > 0 => \E k \in DOMAIN added : added[k].source = a
      BY <1>1, <1>2, <3>2, <3>3, <3>6, <3>7
    <3>. QED BY <3>3, <3>8, <3>9, <3>10
  <2>. QED BY <2>1, <2>2
<1>4. s \in Sorted(added)
  OBVIOUS
<1>. HIDE DEF added
<1>5. /\ s \in Seq(ThreatEntry) /\ DOMAIN s = DOMAIN added
      /\ \A j, k \in DOMAIN s : j < k => s[j].amount >= s[k].amount
  BY <1>3, <1>4, SortedPermutes
<1>6. PICK p \in [DOMAIN added -> DOMAIN added] :
        /\ \A k \in DOMAIN added : s[k] = added[p[k]]
        /\ \A j, k \in DOMAIN added : p[j] = p[k] => j = k
        /\ \A j \in DOMAIN added : \E k \in DOMAIN added : p[k] = j
  BY <1>3, <1>4, SortedPermutes
<1>7. ASSUME NEW j \in DOMAIN s, NEW k \in DOMAIN s, s[j].source = s[k].source PROVE j = k
  <2>1. p[j] \in DOMAIN added /\ p[k] \in DOMAIN added /\ s[j] = added[p[j]] /\ s[k] = added[p[k]]
    BY <1>5, <1>6
  <2>2. p[j] = p[k]
    BY <1>3, <1>7, <2>1
  <2>. QED BY <1>5, <1>6, <2>2
<1>8. \A k \in DOMAIN s : s[k].amount = d[s[k].source]
  BY <1>3, <1>5, <1>6
<1>9. ASSUME NEW a \in Attackers, d[a] > 0 PROVE \E k \in DOMAIN s : s[k].source = a
  <2>1. PICK j \in DOMAIN added : added[j].source = a
    BY <1>3, <1>9
  <2>2. PICK k \in DOMAIN added : p[k] = j
    BY <1>6
  <2>. QED BY <1>5, <1>6, <2>1, <2>2
<1>10. ThreatListed(s, d)
  BY <1>5, <1>7, <1>8, <1>9 DEF ThreatListed
<1>. QED BY <1>10 DEF d

\* The list without an attacker, whose damage is forgotten.
LEMMA ThreatShrinks ==
  ASSUME NEW list, NEW damage \in [Attackers -> Nat], ThreatListed(list, damage), NEW source \in Attackers,
         NEW s \in KeptAt(list, {k \in DOMAIN list : list[k].source # source})
  PROVE  ThreatListed(s, [damage EXCEPT ![source] = 0])
<1>. DEFINE d == [damage EXCEPT ![source] = 0]
            P == {k \in DOMAIN list : list[k].source # source}
<1>1. list \in Seq(ThreatEntry) /\ P \in SUBSET (DOMAIN list) /\ s \in KeptAt(list, P)
  BY DEF ThreatListed
<1>2. /\ d[source] = 0 /\ \A a \in Attackers : a # source => d[a] = damage[a]
  OBVIOUS
<1>3. \A k \in P : k \in DOMAIN list /\ list[k].source # source
  OBVIOUS
<1>4. \A k \in DOMAIN list : list[k].source # source => k \in P
  OBVIOUS
<1>5. \A k \in DOMAIN list : list[k].source \in Attackers /\ k \in Nat
  <2>1. \A k \in DOMAIN list : list[k] \in ThreatEntry /\ k \in Nat
    BY <1>1
  <2>. QED BY <2>1 DEF ThreatEntry
<1>. HIDE DEF d, P
<1>6. s \in Seq(ThreatEntry) /\ ToSet(s) = {list[i] : i \in P}
  BY <1>1, Selected
<1>7. PICK f \in [DOMAIN s -> P] : Rising(f) /\ \A i \in DOMAIN s : s[i] = list[f[i]]
  BY <1>1, Selected
<1>8. \A k \in DOMAIN s : f[k] \in P /\ k \in Nat
  BY <1>6, <1>7
<1>9. \A j, k \in DOMAIN s : f[j] = f[k] => j = k
  BY <1>3, <1>5, <1>7, <1>8 DEF Rising
<1>10. \A j, k \in DOMAIN s : s[j].source = s[k].source => j = k
  BY <1>3, <1>7, <1>8, <1>9 DEF ThreatListed
<1>11. \A k \in DOMAIN s : s[k].amount = d[s[k].source]
  BY <1>2, <1>3, <1>5, <1>7, <1>8 DEF ThreatListed
<1>12. \A j, k \in DOMAIN s : j < k => s[j].amount >= s[k].amount
  BY <1>3, <1>7, <1>8 DEF ThreatListed, Rising
<1>13. \A a \in Attackers : d[a] > 0 => \E k \in DOMAIN s : s[k].source = a
  <2>. SUFFICES ASSUME NEW a \in Attackers, d[a] > 0 PROVE \E k \in DOMAIN s : s[k].source = a
    OBVIOUS
  <2>1. a # source /\ damage[a] > 0
    BY <1>2
  <2>2. PICK j \in DOMAIN list : list[j].source = a
    BY <2>1 DEF ThreatListed
  <2>3. list[j] \in ToSet(s)
    BY <1>4, <1>6, <2>1, <2>2
  <2>. QED BY <2>2, <2>3 DEF ToSet
<1>14. ThreatListed(s, d)
  BY <1>6, <1>10, <1>11, <1>12, <1>13 DEF ThreatListed
<1>. QED BY <1>14 DEF d

\* What holds, in the form the steps below use.
LEMMA CombatFacts ==
  ASSUME CombatInv
  PROVE  /\ auras \in Seq(Aura) /\ DOMAIN auras = 1..Len(auras) /\ Len(auras) \in Nat
         /\ \A k \in DOMAIN auras : auras[k] \in Aura /\ AuraFine(auras[k])
         /\ \A j, k \in DOMAIN auras : auras[j].id = auras[k].id /\ auras[j].caster = auras[k].caster => j = k
         /\ health \in 0..MaxHealth /\ health \in Int
         /\ damageEvents \in Seq(DamageEvent) /\ Len(damageEvents) \in Nat
         /\ DOMAIN damageEvents = 1..Len(damageEvents)
         /\ \A k \in DOMAIN damageEvents : damageEvents[k] \in DamageEvent
         /\ dealt \in [Attackers -> Nat] /\ ThreatListed(threat, dealt)
         /\ executing \in [step : {"none", "auras", "ticks", "events"}, dt : Nat, next : Nat]
         /\ executing.next \in Nat /\ executing.dt \in Nat
<1>. USE DEF CombatInv, CombatTypeOK
<1>1. auras \in Seq(Aura) /\ damageEvents \in Seq(DamageEvent)
  OBVIOUS
<1>2. /\ DOMAIN auras = 1..Len(auras) /\ Len(auras) \in Nat
      /\ DOMAIN damageEvents = 1..Len(damageEvents) /\ Len(damageEvents) \in Nat
      /\ \A k \in DOMAIN auras : auras[k] \in Aura
      /\ \A k \in DOMAIN damageEvents : damageEvents[k] \in DamageEvent
  BY <1>1
<1>3. \A k \in DOMAIN auras : AuraFine(auras[k])
  BY DEF AurasListed, InPhase, AtRest, ToDo, AtTurn, Done
<1>. QED BY <1>1, <1>2, <1>3, CombatAssumption DEF AurasListed

\* The fields of an aura.
LEMMA AuraFields ==
  ASSUME NEW a \in Aura
  PROVE  /\ a.id \in AuraIds /\ a.caster \in Attackers /\ a.stacks \in Int
         /\ a.remaining \in Int /\ a.timer \in Int /\ a.late \in Nat /\ a.seen \in {"new", "aged"}
         /\ AuraInterval(a) \in Nat /\ AuraKinds[a.id].damage \in Int /\ AuraKinds[a.id].first \in Int
BY CombatAssumption DEF Aura, AuraInterval

\* One aura changes, without becoming another one.
LEMMA AuraReplaced ==
  ASSUME CombatInv, NEW k \in DOMAIN auras, NEW a \in Aura,
         a.id = auras[k].id, a.caster = auras[k].caster, auras' = [auras EXCEPT ![k] = a],
         InPhase(a, k, executing'), \A j \in DOMAIN auras : j # k => InPhase(auras[j], j, executing')
  PROVE  auras' \in Seq(Aura) /\ Len(auras') = Len(auras) /\ AurasListed'
<1>1. /\ DOMAIN auras' = DOMAIN auras /\ auras'[k] = a
      /\ \A j \in DOMAIN auras : j # k => auras'[j] = auras[j]
  BY CombatFacts
<1>2. auras' \in Seq(Aura) /\ Len(auras') = Len(auras)
  <2>1. auras \in Seq(Aura)
    BY CombatFacts
  <2>. QED BY <2>1
<1>3. \A j \in DOMAIN auras : auras'[j].id = auras[j].id /\ auras'[j].caster = auras[j].caster
  BY <1>1
<1>4. \A i, j \in DOMAIN auras' : auras'[i].id = auras'[j].id /\ auras'[i].caster = auras'[j].caster => i = j
  BY <1>1, <1>3, CombatFacts
<1>5. \A j \in DOMAIN auras' : InPhase(auras'[j], j, executing')
  BY <1>1
<1>. QED BY <1>1, <1>2, <1>3, <1>4, <1>5 DEF AurasListed

\* Some auras leave.
LEMMA AurasShrunk ==
  ASSUME CombatInv, NEW P \in SUBSET (DOMAIN auras), auras' \in KeptAt(auras, P),
         executing'.step \in {"none", "events"}, \A k \in P : AtRest(auras[k])
  PROVE  auras' \in Seq(Aura) /\ AurasListed'
<1>0. auras \in Seq(Aura)
  BY CombatFacts
<1>1. /\ auras' \in Seq(Aura)
      /\ \E f \in [DOMAIN auras' -> P] : Rising(f) /\ \A i \in DOMAIN auras' : auras'[i] = auras[f[i]]
  BY <1>0, Selected
<1>2. PICK f \in [DOMAIN auras' -> P] : Rising(f) /\ \A i \in DOMAIN auras' : auras'[i] = auras[f[i]]
  BY <1>1
<1>3. \A k \in DOMAIN auras' : f[k] \in P /\ f[k] \in DOMAIN auras /\ f[k] \in Nat /\ k \in Nat
  BY <1>1, <1>2, CombatFacts
<1>4. ASSUME NEW j \in DOMAIN auras', NEW k \in DOMAIN auras',
             auras'[j].id = auras'[k].id /\ auras'[j].caster = auras'[k].caster
      PROVE  j = k
  <2>1. f[j] = f[k]
    BY <1>2, <1>3, <1>4, CombatFacts
  <2>. QED BY <1>2, <1>3, <2>1 DEF Rising
<1>5. \A k \in DOMAIN auras' : InPhase(auras'[k], k, executing')
  BY <1>2, <1>3 DEF InPhase
<1>. QED BY <1>1, <1>4, <1>5 DEF AurasListed

LEMMA ChangeCastKeeps ==
  ASSUME CombatInv, ChangeCast
  PROVE  CombatInv'
<1>1. cast' \in [state : {"Idle", "Casting", "Channeling", "Interrupted", "Complete"}, remaining : Nat]
  <2>1. ASSUME NEW time \in CastTimes, cast' = [state |-> "Casting", remaining |-> time]
        PROVE  cast' \in [state : {"Idle", "Casting", "Channeling", "Interrupted", "Complete"}, remaining : Nat]
    <3>1. time \in Nat
      BY CombatAssumption
    <3>. QED BY <2>1, <3>1
  <2>2. CASE cast' = [state |-> "Interrupted", remaining |-> 0] \/ cast' = [state |-> "Idle", remaining |-> 0]
    BY <2>2
  <2>. QED BY <2>1, <2>2 DEF ChangeCast, NoCast
<1>2. UNCHANGED <<auras, health, damageEvents, threat, dealt, executing>>
  BY DEF ChangeCast
<1>. QED BY <1>1, <1>2 DEF CombatInv, CombatTypeOK, AurasListed

\* A frame begins: nobody has been updated yet.
LEMMA CombatTickKeeps ==
  ASSUME CombatInv, NEW dt \in CombatTimes, CombatTick(dt)
  PROVE  CombatInv'
<1>1. cast' \in [state : {"Idle", "Casting", "Channeling", "Interrupted", "Complete"}, remaining : Nat]
  <2>1. cast \in [state : {"Idle", "Casting", "Channeling", "Interrupted", "Complete"}, remaining : Nat]
    BY DEF CombatInv, CombatTypeOK
  <2>2. cast' = CastAfter(dt) /\ dt \in Nat
    BY CombatAssumption DEF CombatTick
  <2>. QED BY <2>1, <2>2 DEF CastAfter
<1>2. /\ UNCHANGED <<auras, health, damageEvents, threat, dealt>>
      /\ executing' = [step |-> "auras", dt |-> dt, next |-> 1] /\ dt \in Nat
  BY CombatAssumption DEF CombatTick
<1>3. executing' \in [step : {"none", "auras", "ticks", "events"}, dt : Nat, next : Nat]
      /\ executing'.step = "auras" /\ executing'.next = 1
  BY <1>2
<1>4. 1 \in 1..(Len(auras) + 1)
  BY CombatFacts
<1>5. AurasListed'
  <2>1. \A k \in DOMAIN auras : InPhase(auras[k], k, executing) /\ k \in Nat /\ ~(k < 1)
    BY CombatFacts DEF CombatInv, AurasListed
  <2>2. \A k \in DOMAIN auras : InPhase(auras[k], k, executing')
    BY <1>3, <2>1 DEF InPhase, AtRest, ToDo, CombatTick, BetweenFrames
  <2>. QED BY <1>2, <2>2 DEF CombatInv, AurasListed
<1>. QED BY <1>1, <1>2, <1>3, <1>4, <1>5 DEF CombatInv, CombatTypeOK

LEMMA AddOrStackKeeps ==
  ASSUME CombatInv, NEW id \in AuraIds, NEW caster \in Attackers, AddOrStack(id, caster)
  PROVE  CombatInv'
<1>. DEFINE kind == AuraKinds[id]
            given == kind.stacks
            rem == kind.remaining
            fst == kind.first
            dur == kind.duration
            new == [id |-> id, caster |-> caster, stacks |-> given, remaining |-> rem,
                    timer |-> fst, seen |-> "new", late |-> 0]
            Same == {k \in DOMAIN auras : SameAura(auras[k], id, caster)}
            n == Len(auras)
<1>0. given \in Int /\ rem \in Int /\ fst \in Int /\ dur \in Int
  BY CombatAssumption
<1>1. UNCHANGED <<cast, health, damageEvents, threat, dealt, executing>> /\ executing.step = "none"
  BY Zenon DEF AddOrStack, BetweenFrames
<1>2. \A k \in DOMAIN auras : AtRest(auras[k]) /\ InPhase(auras[k], k, executing')
  BY <1>1 DEF CombatInv, AurasListed, InPhase
<1>3. auras' \in Seq(Aura) /\ AurasListed'
  <2>1. CASE Same = {} /\ auras' = Append(auras, new)
    <3>1. new \in Aura
      <4>. HIDE DEF given, rem, fst
      <4>. QED BY <1>0, Zenon, 0 \in Nat DEF Aura
    <3>2. new.id = id /\ new.caster = caster /\ new.stacks = AuraKinds[id].stacks
          /\ new.timer = AuraKinds[id].first /\ new.late = 0 /\ new.seen = "new"
      OBVIOUS
    <3>4. AtRest(new)
      <4>. HIDE DEF new
      <4>. QED BY <1>0, <3>2 DEF AtRest, AuraFine
    <3>5. \A k \in DOMAIN auras : ~(auras[k].id = id /\ auras[k].caster = caster)
      BY <2>1 DEF SameAura
    <3>. HIDE DEF new
    <3>6. /\ auras' \in Seq(Aura) /\ DOMAIN auras' = 1..(n + 1) /\ auras'[n + 1] = new
          /\ \A k \in 1..n : auras'[k] = auras[k]
      BY <2>1, <3>1, CombatFacts
    <3>7. \A k \in DOMAIN auras' : (k \in DOMAIN auras /\ auras'[k] = auras[k]) \/ k = n + 1
      BY <3>6, CombatFacts
    <3>8. \A j, k \in DOMAIN auras' : auras'[j].id = auras'[k].id /\ auras'[j].caster = auras'[k].caster => j = k
      <4>. SUFFICES ASSUME NEW j \in DOMAIN auras', NEW k \in DOMAIN auras',
                           auras'[j].id = auras'[k].id, auras'[j].caster = auras'[k].caster
                    PROVE  j = k
        OBVIOUS
      <4>1. CASE j \in DOMAIN auras /\ auras'[j] = auras[j] /\ k \in DOMAIN auras /\ auras'[k] = auras[k]
        BY <4>1, CombatFacts
      <4>2. CASE j = n + 1 /\ k # n + 1
        BY <3>2, <3>5, <3>6, <3>7, <4>2
      <4>3. CASE k = n + 1 /\ j # n + 1
        BY <3>2, <3>5, <3>6, <3>7, <4>3
      <4>. QED BY <3>7, <4>1, <4>2, <4>3
    <3>9. \A k \in DOMAIN auras' : InPhase(auras'[k], k, executing')
      BY <1>1, <1>2, <3>4, <3>6, <3>7 DEF InPhase
    <3>. QED BY <3>6, <3>8, <3>9 DEF AurasListed
  <2>2. CASE /\ Same # {}
             /\ auras' = [auras EXCEPT ![Min(Same)].stacks = Min({@ + given, MaxAuraStacks}),
                                       ![Min(Same)].remaining = dur,
                                       ![Min(Same)].seen = "new"]
    <3>1. PICK k \in DOMAIN auras : auras[k].id = id /\ auras[k].caster = caster
      BY <2>2, Zenon DEF SameAura
    <3>2. Same = {k}
      BY <3>1, CombatFacts DEF SameAura
    <3>3. Min(Same) = k
      <4>1. k \in Int
        BY CombatFacts
      <4>. HIDE DEF Same
      <4>. QED BY <3>2, <4>1 DEF Min
    <3>. DEFINE was == auras[k]
                st == Min({was.stacks + given, MaxAuraStacks})
                a == [was EXCEPT !.stacks = st, !.remaining = dur, !.seen = "new"]
    <3>4. auras' = [auras EXCEPT ![k] = a]
      <4>. HIDE DEF Same, given, dur
      <4>. QED BY <2>2, <3>3, CombatFacts
    <3>5. was \in Aura /\ AtRest(was)
      BY <1>2, CombatFacts
    <3>6. was.stacks + given \in Int /\ MaxAuraStacks \in Int
      BY <1>0, <3>5, AuraFields, CombatAssumption
    <3>7. st \in Int /\ st <= MaxAuraStacks
      <4>. DEFINE c == was.stacks + given
      <4>. HIDE DEF c
      <4>1. Min({c, MaxAuraStacks}) \in {c, MaxAuraStacks} /\ Min({c, MaxAuraStacks}) <= MaxAuraStacks
        BY <3>6, MinMaxOfTwo DEF c
      <4>. QED BY <3>6, <4>1 DEF c
    <3>. HIDE DEF st, dur, was
    <3>9. a \in Aura /\ a.id = was.id /\ a.caster = was.caster /\ a.timer = was.timer
          /\ a.stacks = st /\ a.seen = "new" /\ a.late = was.late
      BY <1>0, <3>5, <3>7, Zenon DEF Aura
    <3>. HIDE DEF a
    <3>10. AtRest(a)
      <4>1. AuraInterval(a) = AuraInterval(was) /\ AuraKinds[a.id].first = AuraKinds[was.id].first
        BY <3>9 DEF AuraInterval
      <4>. QED BY <3>5, <3>7, <3>9, <4>1 DEF AtRest, AuraFine
    <3>11. InPhase(a, k, executing')
      BY <1>1, <3>10 DEF InPhase
    <3>. QED BY <1>2, <3>1, <3>4, <3>9, <3>11, AuraReplaced DEF was
  <2>. QED BY <2>1, <2>2, Zenon DEF AddOrStack
<1>. QED BY <1>1, <1>3 DEF CombatInv, CombatTypeOK

LEMMA RemoveByIdKeeps ==
  ASSUME CombatInv, NEW id \in AuraIds, RemoveById(id)
  PROVE  CombatInv'
<1>. DEFINE P == {k \in DOMAIN auras : auras[k].id # id}
<1>1. /\ UNCHANGED <<cast, health, damageEvents, threat, dealt, executing>> /\ executing.step = "none"
      /\ auras' \in KeptAt(auras, P) /\ P \in SUBSET (DOMAIN auras)
  BY DEF RemoveById, BetweenFrames
<1>2. executing'.step \in {"none", "events"} /\ \A k \in P : AtRest(auras[k])
  BY <1>1 DEF CombatInv, AurasListed, InPhase
<1>. HIDE DEF P
<1>3. auras' \in Seq(Aura) /\ AurasListed'
  BY <1>1, <1>2, AurasShrunk
<1>. QED BY <1>1, <1>3 DEF CombatInv, CombatTypeOK

\* An aura whose turn it is not stays in its phase while another one's turn goes on.
LEMMA OthersInPhase ==
  ASSUME CombatInv, executing.step \in {"auras", "ticks"}, executing'.step = "ticks",
         executing'.next = executing.next
  PROVE  \A j \in DOMAIN auras : j # executing.next => InPhase(auras[j], j, executing')
BY CombatFacts DEF CombatInv, AurasListed, InPhase

LEMMA AgeAuraKeeps ==
  ASSUME CombatInv, AgeAura
  PROVE  CombatInv'
<1>. DEFINE k == executing.next
            was == auras[k]
            rem == was.remaining - executing.dt
            time == IF AuraInterval(was) > 0 THEN was.timer - executing.dt ELSE was.timer
            a == [was EXCEPT !.remaining = rem, !.timer = time, !.seen = "aged"]
<1>1. /\ executing.step = "auras" /\ k <= Len(auras)
      /\ executing' = [executing EXCEPT !.step = "ticks"]
      /\ UNCHANGED <<cast, health, damageEvents, threat, dealt>>
  BY DEF AgeAura
<1>2. k \in DOMAIN auras /\ k \in 1..Len(auras)
  BY <1>1, CombatFacts DEF CombatInv, CombatTypeOK
<1>3. auras' = [auras EXCEPT ![k] = a]
  BY <1>2, CombatFacts DEF AgeAura
<1>4. /\ executing' \in [step : {"none", "auras", "ticks", "events"}, dt : Nat, next : Nat]
      /\ executing'.step = "ticks" /\ executing'.next = k
  BY <1>1, CombatFacts
<1>5. was \in Aura /\ ToDo(was) /\ executing.dt \in Nat
  BY <1>1, <1>2, CombatFacts DEF CombatInv, AurasListed, InPhase
<1>12. \A j \in DOMAIN auras : j # k => InPhase(auras[j], j, executing')
  BY <1>1, <1>4, OthersInPhase
<1>. HIDE DEF was, k
<1>6. rem \in Int /\ time \in Int /\ was.timer \in Int /\ AuraInterval(was) \in Nat /\ was.remaining \in Int
      /\ AuraKinds[was.id].first \in Int
  BY <1>5, AuraFields
<1>7. AuraInterval(was) > 0 => time <= was.timer
  BY <1>5, <1>6
<1>8. a = [was EXCEPT !.remaining = rem, !.timer = time, !.seen = "aged"]
  OBVIOUS
<1>. HIDE DEF a, rem, time
<1>9. /\ a \in Aura /\ a.id = was.id /\ a.caster = was.caster /\ a.stacks = was.stacks
      /\ a.remaining = rem /\ a.timer = time /\ a.seen = "aged" /\ a.late = was.late
  BY <1>5, <1>6, <1>8, Zenon DEF Aura
<1>10. AtTurn(a)
  <2>1. AuraInterval(a) = AuraInterval(was) /\ AuraKinds[a.id].first = AuraKinds[was.id].first
    BY <1>9 DEF AuraInterval
  <2>. QED BY <1>5, <1>6, <1>7, <1>9, <2>1 DEF ToDo, AtTurn, AuraFine
<1>13. InPhase(a, k, executing')
  BY <1>2, <1>4, <1>10, CombatFacts DEF InPhase
<1>11. auras' \in Seq(Aura) /\ Len(auras') = Len(auras) /\ AurasListed'
  BY <1>2, <1>3, <1>9, <1>12, <1>13, AuraReplaced DEF was
<1>. QED BY <1>1, <1>2, <1>4, <1>11 DEF CombatInv, CombatTypeOK

LEMMA TickAuraKeeps ==
  ASSUME CombatInv, TickAura
  PROVE  CombatInv'
<1>. DEFINE k == executing.next
            was == auras[k]
            time == was.timer + AuraInterval(was)
            l == was.late + DueLate(was)
            a == [was EXCEPT !.timer = time, !.late = l]
<1>1. /\ executing.step = "ticks" /\ TickDue(was)
      /\ UNCHANGED <<cast, damageEvents, threat, dealt, executing>>
      /\ health' = SetHealth(health - AuraKinds[was.id].damage * was.stacks)
  BY DEF TickAura
<1>2. k \in DOMAIN auras
  BY <1>1, CombatFacts DEF CombatInv, CombatTypeOK
<1>3. auras' = [auras EXCEPT ![k] = a]
  BY <1>2, CombatFacts DEF TickAura
<1>4. was \in Aura /\ AtTurn(was)
  BY <1>1, <1>2, CombatFacts DEF CombatInv, AurasListed, InPhase
<1>12. \A j \in DOMAIN auras : j # k => InPhase(auras[j], j, executing')
  BY <1>1, OthersInPhase
<1>. HIDE DEF was, k
<1>5. time \in Int /\ was.timer \in Int /\ AuraInterval(was) \in Nat /\ was.remaining \in Int
      /\ AuraKinds[was.id].damage \in Int /\ was.stacks \in Int /\ l \in Nat /\ was.late \in Nat
      /\ AuraKinds[was.id].first \in Int
  BY <1>4, AuraFields DEF DueLate
<1>6. health' \in 0..MaxHealth
  <2>. DEFINE v == health - AuraKinds[was.id].damage * was.stacks
  <2>1. v \in Int
    BY <1>5, CombatFacts
  <2>. HIDE DEF v
  <2>2. SetHealth(v) \in 0..MaxHealth
    BY <2>1, HealthClamped
  <2>. QED BY <1>1, <2>2 DEF v
<1>7. time = was.timer + AuraInterval(was) /\ a = [was EXCEPT !.timer = time, !.late = l]
      /\ l = was.late + DueLate(was)
  OBVIOUS
<1>. HIDE DEF a, time, l
<1>8. /\ a \in Aura /\ a.id = was.id /\ a.caster = was.caster /\ a.stacks = was.stacks
      /\ a.remaining = was.remaining /\ a.timer = time /\ a.late = l /\ a.seen = was.seen
  BY <1>4, <1>5, <1>7, Zenon DEF Aura
<1>9. AtTurn(a)
  <2>1. AuraInterval(a) = AuraInterval(was) /\ AuraKinds[a.id].first = AuraKinds[was.id].first
    BY <1>8 DEF AuraInterval
  <2>2. /\ AuraInterval(was) > 0 /\ was.timer <= 0 /\ was.remaining > -AuraInterval(was)
        /\ AuraFine(was) /\ was.seen = "aged" /\ was.late = 0
    BY <1>1, <1>4, <1>5 DEF TickDue, AtTurn, AuraFine
  <2>3. l \in {0, 1} /\ (l = 1 => was.timer > was.remaining)
    BY <1>5, <1>7, <2>2 DEF DueLate
  <2>4. time <= AuraInterval(was) /\ (l = 1 => was.remaining < 0 /\ time > 0)
    BY <1>5, <1>7, <2>2, <2>3
  <2>. QED BY <1>8, <2>1, <2>2, <2>3, <2>4 DEF AtTurn, AuraFine
<1>10. InPhase(a, k, executing')
  BY <1>1, <1>2, <1>9, CombatFacts DEF InPhase, k
<1>11. auras' \in Seq(Aura) /\ Len(auras') = Len(auras) /\ AurasListed'
  BY <1>2, <1>3, <1>8, <1>10, <1>12, AuraReplaced DEF was
<1>. QED BY <1>1, <1>6, <1>11 DEF CombatInv, CombatTypeOK

LEMMA NextAuraKeeps ==
  ASSUME CombatInv, NextAura
  PROVE  CombatInv'
<1>1. /\ executing.step = "ticks" /\ executing' = [executing EXCEPT !.step = "auras", !.next = executing.next + 1]
      /\ UNCHANGED <<cast, auras, health, damageEvents, threat, dealt>>
  BY DEF NextAura
<1>2. executing.next \in 1..Len(auras)
  BY <1>1 DEF CombatInv, CombatTypeOK
<1>3. /\ executing' \in [step : {"none", "auras", "ticks", "events"}, dt : Nat, next : Nat]
      /\ executing'.step = "auras" /\ executing'.next = executing.next + 1
  <2>1. executing.next + 1 \in Nat
    BY <1>2, CombatFacts
  <2>. QED BY <1>1, <2>1, CombatFacts
<1>4. executing'.next \in 1..(Len(auras) + 1)
  BY <1>2, <1>3, CombatFacts
<1>5. AurasListed'
  <2>. SUFFICES ASSUME NEW k \in DOMAIN auras PROVE InPhase(auras[k], k, executing')
    BY <1>1 DEF CombatInv, AurasListed
  <2>1. InPhase(auras[k], k, executing) /\ k \in Nat /\ executing.next \in Nat /\ auras[k] \in Aura
    BY CombatFacts DEF CombatInv, AurasListed
  <2>2. CASE k < executing.next
    BY <1>1, <1>3, <2>1, <2>2 DEF InPhase
  <2>3. CASE k > executing.next
    <3>1. ~(k < executing.next) /\ k # executing.next /\ ~(k < executing.next + 1)
      BY <2>1, <2>3
    <3>. QED BY <1>1, <1>3, <2>1, <3>1 DEF InPhase
  <2>4. CASE k = executing.next
    <3>1. AtTurn(auras[k]) /\ ~TickDue(auras[k])
      BY <1>1, <2>1, <2>4 DEF InPhase, NextAura
    <3>2. auras[k].timer \in Int /\ auras[k].remaining \in Int /\ AuraInterval(auras[k]) \in Nat
      BY <2>1, AuraFields
    <3>3. Done(auras[k])
      BY <3>1, <3>2 DEF Done, AtTurn, TickDue
    <3>4. k < executing'.next
      BY <1>3, <2>1, <2>4
    <3>. QED BY <1>3, <3>3, <3>4 DEF InPhase
  <2>. QED BY <2>1, <2>2, <2>3, <2>4
<1>. QED BY <1>1, <1>3, <1>4, <1>5 DEF CombatInv, CombatTypeOK

LEMMA RemoveExpiredKeeps ==
  ASSUME CombatInv, RemoveExpired
  PROVE  CombatInv'
<1>. DEFINE P == {k \in DOMAIN auras : auras[k].remaining > 0}
<1>1. /\ executing' = (IF damageEvents = <<>> THEN NotExecuting
                       ELSE [executing EXCEPT !.step = "events", !.next = 1])
      /\ UNCHANGED <<cast, health, damageEvents, threat, dealt>>
      /\ auras' \in KeptAt(auras, P) /\ P \in SUBSET (DOMAIN auras)
  BY DEF RemoveExpired
<1>4. \A k \in P : AtRest(auras[k])
  <2>. SUFFICES ASSUME NEW k \in P PROVE AtRest(auras[k])
    OBVIOUS
  <2>1. k \in DOMAIN auras /\ auras[k] \in Aura /\ auras[k].remaining > 0 /\ k < executing.next
    BY CombatFacts DEF RemoveExpired
  <2>2. Done(auras[k])
    BY <2>1 DEF CombatInv, AurasListed, InPhase, RemoveExpired
  <2>3. auras[k].timer \in Int /\ auras[k].remaining \in Int /\ AuraInterval(auras[k]) \in Nat
    BY <2>1, AuraFields
  <2>. QED BY <2>1, <2>2, <2>3 DEF Done, AtRest, AuraFine
<1>. HIDE DEF P
<1>5. executing'.step \in {"none", "events"}
  BY <1>1, CombatFacts DEF NotExecuting
<1>2. auras' \in Seq(Aura) /\ AurasListed'
  BY <1>1, <1>4, <1>5, AurasShrunk
<1>3. /\ executing' \in [step : {"none", "auras", "ticks", "events"}, dt : Nat, next : Nat]
      /\ executing'.step \notin {"auras", "ticks"}
      /\ executing'.step = "events" => executing'.next \in 1..Len(damageEvents)
  <2>1. CASE damageEvents = <<>>
    BY <1>1, <2>1 DEF NotExecuting
  <2>2. CASE damageEvents # <<>>
    <3>1. executing' = [executing EXCEPT !.step = "events", !.next = 1]
      BY <1>1, <2>2
    <3>2. 1 \in 1..Len(damageEvents)
      BY <2>2, CombatFacts
    <3>. QED BY <3>1, <3>2, CombatFacts
  <2>. QED BY <2>1, <2>2
<1>. QED BY <1>1, <1>2, <1>3 DEF CombatInv, CombatTypeOK

LEMMA ProcessDamageKeeps ==
  ASSUME CombatInv, ProcessDamage
  PROVE  CombatInv'
<1>. DEFINE k == executing.next
            event == damageEvents[k]
            attacker == event.attacker
            final == CalculateDamage(event.base, event.type, event.critical)
<1>1. /\ executing.step = "events"
      /\ executing' = (IF k = Len(damageEvents) THEN NotExecuting ELSE [executing EXCEPT !.next = k + 1])
      /\ cast' = cast /\ auras' = auras
  BY DEF ProcessDamage
<1>2. k \in 1..Len(damageEvents) /\ k \in DOMAIN damageEvents /\ event \in DamageEvent
  BY <1>1, CombatFacts DEF CombatInv, CombatTypeOK
<1>3. attacker \in Attackers /\ event.base \in Int /\ event.type \in DamageTypes
  <2>1. attacker \in Attackers /\ event.base \in BaseDamages /\ event.type \in DamageTypes
    BY <1>2, Zenon DEF DamageEvent
  <2>. QED BY <2>1, CombatAssumption
<1>4. final \in Nat
  BY <1>3, DamageNatural
<1>5. /\ health' \in 0..MaxHealth /\ damageEvents' \in Seq(DamageEvent) /\ Len(damageEvents') = Len(damageEvents)
      /\ dealt' \in [Attackers -> Nat] /\ ThreatListed(threat', dealt')
  <2>1. CASE UNCHANGED <<health, damageEvents, threat, dealt>>
    BY <2>1, CombatFacts
  <2>2. CASE /\ health' = SetHealth(health - final)
             /\ threat' \in Sorted(ThreatAdded(threat, attacker, final))
             /\ dealt' = [dealt EXCEPT ![attacker] = @ + final]
             /\ damageEvents' = [damageEvents EXCEPT ![k].processed = TRUE]
    <3>1. health' \in 0..MaxHealth
      <4>. DEFINE v == health - final
      <4>1. v \in Int
        BY <1>4, CombatFacts
      <4>. HIDE DEF v
      <4>2. SetHealth(v) \in 0..MaxHealth
        BY <4>1, HealthClamped
      <4>. QED BY <2>2, <4>2 DEF v
    <3>2. damageEvents' \in Seq(DamageEvent) /\ Len(damageEvents') = Len(damageEvents)
      <4>. DEFINE f == [event EXCEPT !.processed = TRUE]
      <4>1. f \in DamageEvent
        BY <1>2, Zenon DEF DamageEvent
      <4>2. damageEvents' = [damageEvents EXCEPT ![k] = f] /\ damageEvents \in Seq(DamageEvent)
        BY <2>2, CombatFacts
      <4>. HIDE DEF f, event
      <4>. QED BY <1>2, <4>1, <4>2
    <3>. HIDE DEF final, attacker
    <3>3. dealt \in [Attackers -> Nat] /\ ThreatListed(threat, dealt)
      BY CombatFacts
    <3>4. dealt' \in [Attackers -> Nat]
      BY <1>3, <1>4, <2>2, <3>3
    <3>5. ThreatListed(threat', dealt')
      BY <1>3, <1>4, <2>2, <3>3, ThreatGrows
    <3>. QED BY <3>1, <3>2, <3>4, <3>5
  <2>. QED BY <2>1, <2>2, Zenon DEF ProcessDamage
<1>6. /\ executing' \in [step : {"none", "auras", "ticks", "events"}, dt : Nat, next : Nat]
      /\ executing'.step \notin {"auras", "ticks"}
      /\ executing'.step = "events" => executing'.next \in 1..Len(damageEvents)
  <2>1. CASE k = Len(damageEvents)
    BY <1>1, <2>1 DEF NotExecuting
  <2>2. CASE k # Len(damageEvents)
    <3>1. executing' = [executing EXCEPT !.next = k + 1]
      BY <1>1, <2>2
    <3>2. k + 1 \in 1..Len(damageEvents) /\ k + 1 \in Nat
      BY <1>2, <2>2, CombatFacts
    <3>. HIDE DEF k
    <3>. QED BY <1>1, <3>1, <3>2, CombatFacts
  <2>. QED BY <2>1, <2>2
<1>7. AurasListed'
  <2>1. executing'.step \in {"none", "events"}
    BY <1>6
  <2>. QED BY <1>1, <2>1 DEF CombatInv, AurasListed, InPhase
<1>8. threat' \in Seq([source : Attackers, amount : Nat])
  BY <1>5 DEF ThreatListed, ThreatEntry
<1>. QED BY <1>1, <1>5, <1>6, <1>7, <1>8 DEF CombatInv, CombatTypeOK

LEMMA DamageEventsKeep ==
  ASSUME CombatInv,
         \/ DropDamage
         \/ \E a \in Attackers, base \in BaseDamages, type \in DamageTypes, c \in BOOLEAN :
                  RaiseDamage(a, base, type, c)
  PROVE  CombatInv'
<1>1. UNCHANGED <<cast, auras, health, threat, dealt, executing>> /\ executing.step = "none"
  BY DEF DropDamage, RaiseDamage, BetweenFrames
<1>2. damageEvents' \in Seq(DamageEvent)
  <2>0. damageEvents \in Seq(DamageEvent)
    BY CombatFacts
  <2>1. CASE DropDamage
    BY <2>0, <2>1 DEF DropDamage
  <2>2. ASSUME NEW a \in Attackers, NEW base \in BaseDamages, NEW type \in DamageTypes, NEW c \in BOOLEAN,
               RaiseDamage(a, base, type, c)
        PROVE  damageEvents' \in Seq(DamageEvent)
    <3>. DEFINE e == [attacker |-> a, base |-> base, type |-> type, critical |-> c, processed |-> FALSE]
    <3>1. e \in DamageEvent
      BY Zenon DEF DamageEvent
    <3>2. damageEvents' = Append(damageEvents, e)
      BY <2>2 DEF RaiseDamage
    <3>. HIDE DEF e
    <3>. QED BY <2>0, <3>1, <3>2
  <2>. QED BY <2>1, <2>2
<1>. QED BY <1>1, <1>2 DEF CombatInv, CombatTypeOK, AurasListed

LEMMA RemoveThreatKeeps ==
  ASSUME CombatInv, NEW source \in Attackers, RemoveThreat(source)
  PROVE  CombatInv'
<1>1. /\ UNCHANGED <<cast, auras, health, damageEvents, executing>>
      /\ dealt' = [dealt EXCEPT ![source] = 0]
      /\ threat' \in KeptAt(threat, {k \in DOMAIN threat : threat[k].source # source})
  BY DEF RemoveThreat
<1>2. dealt \in [Attackers -> Nat] /\ ThreatListed(threat, dealt)
  BY CombatFacts
<1>3. ThreatListed(threat', dealt') /\ dealt' \in [Attackers -> Nat]
  BY <1>1, <1>2, ThreatShrinks
<1>4. threat' \in Seq([source : Attackers, amount : Nat])
  BY <1>3 DEF ThreatListed, ThreatEntry
<1>. QED BY <1>1, <1>3, <1>4 DEF CombatInv, CombatTypeOK, AurasListed

LEMMA CombatInvariant == CombatSpec => []CombatInv
<1>1. CombatInit => CombatInv
  <2>. SUFFICES ASSUME CombatInit PROVE CombatInv
    OBVIOUS
  <2>1. CombatTypeOK
    BY CombatAssumption DEF CombatInit, CombatTypeOK, NotExecuting, NoCast
  <2>2. ThreatListed(threat, dealt)
    BY DEF CombatInit, ThreatListed
  <2>3. AurasListed
    BY DEF CombatInit, AurasListed
  <2>. QED BY <2>1, <2>2, <2>3 DEF CombatInv
<1>2. CombatInv /\ [AuraNext \/ DamageNext]_combatVars => CombatInv'
  <2>. SUFFICES ASSUME CombatInv, [AuraNext \/ DamageNext]_combatVars PROVE CombatInv'
    OBVIOUS
  <2>1. CASE ChangeCast
    BY <2>1, ChangeCastKeeps
  <2>2. CASE \E a \in Attackers, id \in AuraIds : AddOrStack(id, a)
    BY <2>2, AddOrStackKeeps
  <2>3. CASE \E id \in AuraIds : RemoveById(id)
    BY <2>3, RemoveByIdKeeps
  <2>4. CASE CombatExecute
    BY <2>4, CombatTickKeeps, AgeAuraKeeps, TickAuraKeeps, NextAuraKeeps, RemoveExpiredKeeps,
       ProcessDamageKeeps DEF CombatExecute
  <2>5. CASE \E a \in Attackers : RemoveThreat(a)
    BY <2>5, RemoveThreatKeeps
  <2>6. CASE \/ DropDamage
             \/ \E a \in Attackers, base \in BaseDamages, type \in DamageTypes, c \in BOOLEAN :
                  RaiseDamage(a, base, type, c)
    BY <2>6, DamageEventsKeep
  <2>7. CASE UNCHANGED combatVars
    BY <2>7 DEF combatVars, CombatInv, CombatTypeOK, AurasListed
  <2>. QED BY <2>1, <2>2, <2>3, <2>4, <2>5, <2>6, <2>7 DEF AuraNext, DamageNext
<1>. QED BY <1>1, <1>2, PTL DEF CombatSpec

\* Casts, auras, damage events and threat have their types, and health stays within its bounds
\* whatever hurts or heals (SetHealth, updateAuras, processDamageEvents).
THEOREM CombatTypeCorrect == CombatSpec => []CombatTypeOK
<1>1. CombatInv => CombatTypeOK
  BY DEF CombatInv
<1>. QED BY <1>1, CombatInvariant, PTL

\* The victim turns on whoever hurt it most, and an aura ticks on time however the time is cut
\* into frames: never early, none missed while it lasts, and at most one tick that was due
\* after its end (AddThreat, updateAuras, AddOrStack).
THEOREM CombatStaysSound == CombatSpec => []CombatSound
<1>1. CombatInv => CombatSound
  <2>. SUFFICES ASSUME CombatInv PROVE CombatSound
    OBVIOUS
  <2>1. /\ \A j, k \in DOMAIN threat : threat[j].source = threat[k].source => j = k
        /\ \A k \in DOMAIN threat : threat[k].amount = dealt[threat[k].source]
    BY DEF CombatInv, ThreatListed
  <2>2. ASSUME NEW a \in Attackers, dealt[a] > 0
        PROVE  (\E k \in DOMAIN threat : threat[k].source = a) /\ dealt[TopThreat] >= dealt[a]
    <3>1. PICK k \in DOMAIN threat : threat[k].source = a
      BY <2>2 DEF CombatInv, ThreatListed
    <3>2. threat \in Seq(ThreatEntry)
      BY DEF CombatInv, ThreatListed
    <3>3. DOMAIN threat = 1..Len(threat) /\ Len(threat) \in Nat /\ k \in Nat /\ 1 \in DOMAIN threat /\ threat # <<>>
      BY <3>1, <3>2
    <3>4. threat[1].amount >= threat[k].amount
      <4>1. \A j \in DOMAIN threat : threat[j].amount \in Nat
        <5>1. \A j \in DOMAIN threat : threat[j] \in ThreatEntry
          BY <3>2
        <5>. QED BY <5>1 DEF ThreatEntry
      <4>2. CASE k = 1
        BY <3>3, <4>1, <4>2
      <4>3. CASE k # 1
        <5>1. 1 < k
          BY <3>3, <4>3
        <5>. QED BY <3>3, <5>1 DEF CombatInv, ThreatListed
      <4>. QED BY <4>2, <4>3
    <3>5. TopThreat = threat[1].source
      BY <3>3 DEF TopThreat
    <3>. QED BY <2>1, <3>1, <3>3, <3>4, <3>5
  <2>3. \A j, k \in DOMAIN auras : SameAura(auras[j], auras[k].id, auras[k].caster) => j = k
    BY CombatFacts DEF SameAura
  <2>4. ASSUME NEW k \in DOMAIN auras
        PROVE  /\ auras[k].stacks <= MaxAuraStacks \/ auras[k].stacks = AuraKinds[auras[k].id].stacks
               /\ executing.step \in {"none", "events"} /\ auras[k].seen = "aged" => auras[k].remaining > 0
               /\ TicksOnTime(auras[k])
    <3>1. AuraFine(auras[k])
      BY CombatFacts
    <3>2. executing.step \in {"none", "events"} => AtRest(auras[k])
      BY DEF CombatInv, AurasListed, InPhase
    <3>. QED BY <3>1, <3>2 DEF AuraFine, AtRest, TicksOnTime
  <2>. QED BY <2>1, <2>2, <2>3, <2>4 DEF CombatSound
<1>. QED BY <1>1, CombatInvariant, PTL

(***************************************************************************)
(* The items of a player.                                                  *)
(***************************************************************************)

\* The items of one kind in one slot, as a set.
Units(slots, item, p) == {p} \X (1..CountIn(slots[p], item))

\* A slot holds a natural number of an item.
LEMMA CountInSlot ==
  ASSUME NEW slot \in Slot, NEW item
  PROVE  CountIn(slot, item) \in Nat
BY DEF CountIn, Slot

\* There are as many units in a slot as it counts.
LEMMA UnitsFinite ==
  ASSUME NEW D, NEW f \in [D -> Slot], NEW item, NEW p \in D
  PROVE  IsFiniteSet(Units(f, item, p)) /\ Cardinality(Units(f, item, p)) = CountIn(f[p], item)
<1>. DEFINE n == CountIn(f[p], item)
<1>1. n \in Nat
  BY CountInSlot
<1>. HIDE DEF n
<1>2. IsFiniteSet(1..n) /\ Cardinality(1..n) = n
  BY <1>1, FS_Interval
<1>3. IsFiniteSet({p}) /\ Cardinality({p}) = 1
  BY FS_Singleton
<1>4. IsFiniteSet({p} \X (1..n)) /\ Cardinality({p} \X (1..n)) = Cardinality({p}) * Cardinality(1..n)
  BY <1>2, <1>3, FS_Product
<1>. QED BY <1>1, <1>2, <1>3, <1>4 DEF Units, n

\* All slots together hold finitely many.
LEMMA AllUnitsFinite ==
  ASSUME NEW D, IsFiniteSet(D), NEW f \in [D -> Slot], NEW item
  PROVE  IsFiniteSet(UNION {Units(f, item, p) : p \in D})
<1>. DEFINE T == {Units(f, item, p) : p \in D}
            g == [p \in D |-> Units(f, item, p)]
<1>1. g \in Surjection(D, T)
  BY DEF Surjection
<1>2. IsFiniteSet(T)
  BY <1>1, FS_Surjection, Zenon
<1>3. \A S \in T : IsFiniteSet(S)
  BY UnitsFinite
<1>. HIDE DEF T
<1>4. IsFiniteSet(UNION T)
  BY <1>2, <1>3, FS_UNION, Zenon
<1>. QED BY <1>4 DEF T

\* CountItem() is a natural number.
LEMMA CountNatural ==
  ASSUME NEW D, IsFiniteSet(D), NEW f \in [D -> Slot], NEW item
  PROVE  CountItem(f, item) \in Nat
<1>1. IsFiniteSet(UNION {Units(f, item, p) : p \in D})
  BY AllUnitsFinite
<1>2. CountItem(f, item) = Cardinality(UNION {Units(f, item, p) : p \in D})
  BY DEF CountItem, Units
<1>. QED BY <1>1, <1>2, FS_CardinalityType, Zenon

\* CountItem() after one slot has changed.
LEMMA OneSlotChanged ==
  ASSUME NEW D, IsFiniteSet(D), NEW f \in [D -> Slot], NEW g \in [D -> Slot], NEW p \in D,
         \A q \in D \ {p} : g[q] = f[q], NEW item
  PROVE  /\ CountItem(f, item) \in Nat /\ CountItem(g, item) \in Nat
         /\ CountItem(g, item) = CountItem(f, item) - CountIn(f[p], item) + CountIn(g[p], item)
<1>. DEFINE Rest == UNION {Units(f, item, q) : q \in D \ {p}}
            F == Units(f, item, p)
            G == Units(g, item, p)
            AllF == UNION {Units(f, item, q) : q \in D}
            AllG == UNION {Units(g, item, q) : q \in D}
<1>1. AllF = Rest \cup F
  OBVIOUS
<1>2. AllG = Rest \cup G
  <2>1. \A q \in D \ {p} : Units(g, item, q) = Units(f, item, q)
    BY DEF Units
  <2>. QED BY <2>1
<1>3. Rest \cap F = {} /\ Rest \cap G = {}
  BY DEF Units
<1>4. IsFiniteSet(AllF)
  BY AllUnitsFinite
<1>5. /\ IsFiniteSet(F) /\ Cardinality(F) = CountIn(f[p], item)
      /\ IsFiniteSet(G) /\ Cardinality(G) = CountIn(g[p], item)
  BY UnitsFinite
<1>6. CountItem(f, item) = Cardinality(AllF) /\ CountItem(g, item) = Cardinality(AllG)
  BY DEF CountItem, Units
<1>7. CountIn(f[p], item) \in Nat /\ CountIn(g[p], item) \in Nat
  BY CountInSlot
<1>. HIDE DEF Rest, F, G, AllF, AllG
<1>8. IsFiniteSet(Rest) /\ Cardinality(Rest) \in Nat
  BY <1>1, <1>4, FS_Subset, FS_CardinalityType
<1>9. Cardinality(Rest \cup F) = Cardinality(Rest) + Cardinality(F) - Cardinality(Rest \cap F)
  BY <1>5, <1>8, FS_Union, Zenon
<1>10. Cardinality(Rest \cup G) = Cardinality(Rest) + Cardinality(G) - Cardinality(Rest \cap G)
  BY <1>5, <1>8, FS_Union, Zenon
<1>11. Cardinality({}) = 0
  BY FS_EmptySet
<1>12. Cardinality(AllF) = Cardinality(Rest) + CountIn(f[p], item)
  <2>1. Cardinality(AllF) = Cardinality(Rest) + CountIn(f[p], item) - 0
    BY <1>1, <1>3, <1>5, <1>9, <1>11, Zenon
  <2>. QED BY <2>1, <1>7, <1>8
<1>13. Cardinality(AllG) = Cardinality(Rest) + CountIn(g[p], item)
  <2>1. Cardinality(AllG) = Cardinality(Rest) + CountIn(g[p], item) - 0
    BY <1>2, <1>3, <1>5, <1>10, <1>11, Zenon
  <2>. QED BY <2>1, <1>7, <1>8
<1>. QED BY <1>6, <1>7, <1>8, <1>12, <1>13

\* CountItem() when no slot holds more or less.
LEMMA SameCounts ==
  ASSUME NEW D, NEW f \in [D -> Slot], NEW g \in [D -> Slot], NEW item,
         \A q \in D : CountIn(g[q], item) = CountIn(f[q], item)
  PROVE  CountItem(g, item) = CountItem(f, item)
<1>1. \A q \in D : {q} \X (1..CountIn(g[q], item)) = {q} \X (1..CountIn(f[q], item))
  OBVIOUS
<1>2. {{q} \X (1..CountIn(g[q], item)) : q \in D} = {{q} \X (1..CountIn(f[q], item)) : q \in D}
  BY <1>1, Zenon
<1>3. DOMAIN f = D /\ DOMAIN g = D
  OBVIOUS
<1>. QED BY <1>2, <1>3, Zenon DEF CountItem

\* What a template gives an item.
LEMMA StackAllowed ==
  ASSUME InventoryTypeOK, NEW item \in Items
  PROVE  /\ MaxStack(item) \in Nat \ {0} /\ NewDurability(item) \in Int
         /\ IF item \in Gear THEN MaxStack(item) = 1 ELSE MaxStack(item) \in StackSizes
<1>1. stackSize \in [Stackables -> StackSizes]
  BY DEF InventoryTypeOK
<1>2. CASE item \in Gear
  BY <1>2, InventoryAssumption DEF MaxStack, NewDurability
<1>3. CASE item \notin Gear
  <2>1. stackSize[item] \in StackSizes
    BY <1>1, <1>3 DEF Items
  <2>2. MaxStack(item) = stackSize[item] /\ NewDurability(item) = -1
    BY <1>3 DEF MaxStack, NewDurability, Indestructible
  <2>3. StackSizes \subseteq Nat \ {0}
    BY InventoryAssumption
  <2>4. MaxStack(item) \in StackSizes /\ MaxStack(item) \in Nat \ {0}
    BY <2>1, <2>2, <2>3
  <2>5. NewDurability(item) \in Int
    BY <2>2
  <2>. QED BY <1>3, <2>4, <2>5, Zenon
<1>. QED BY <1>2, <1>3

\* A stack with room holds the item, and filling the room reaches maxStackSize.
LEMMA RoomNatural ==
  ASSUME InventoryTypeOK, NEW item \in Items, NEW slot \in Slot
  PROVE  /\ Room(slot, item) \in Nat
         /\ Room(slot, item) > 0 => slot.item = item /\ slot.count + Room(slot, item) = MaxStack(item)
BY StackAllowed DEF Room, Slot

\* The empty slot is a slot.
LEMMA EmptySlotType == EmptySlot \in Slot
BY DEF EmptySlot, Slot, Indestructible

\* What AddItem() puts into a slot of its second pass.
FillCount(slot, left, item) == IF IsEmpty(slot) THEN Min({left, MaxStack(item)}) ELSE 0

\* It is no more than is left to add, and no more than the stack allows.
LEMMA FillNatural ==
  ASSUME InventoryTypeOK, NEW item \in Items, NEW slot \in Slot, NEW left \in Nat
  PROVE  LET n == FillCount(slot, left, item)
         IN  n \in Nat /\ n <= left /\ n <= MaxStack(item) /\ (~IsEmpty(slot) => n = 0)
<1>1. MaxStack(item) \in Nat
  BY StackAllowed
<1>. DEFINE m == MaxStack(item)
<1>. HIDE DEF m
<1>2. m \in Nat
  BY <1>1 DEF m
<1>3. Min({left, m}) \in {left, m} /\ Min({left, m}) <= left /\ Min({left, m}) <= m
  BY <1>2, MinMaxOfTwo
<1>4. FillCount(slot, left, item) = IF IsEmpty(slot) THEN Min({left, m}) ELSE 0
  BY DEF FillCount, m
<1>. QED BY <1>2, <1>3, <1>4 DEF m

\* What AddItem() puts onto a stack in its first pass.
StackCount(slot, left, item) == Min({left, Room(slot, item)})

\* It is no more than is left to add, and no more than there is room.
LEMMA StackNatural ==
  ASSUME InventoryTypeOK, NEW item \in Items, NEW slot \in Slot, NEW left \in Nat
  PROVE  LET n == StackCount(slot, left, item)
         IN  n \in Nat /\ n <= left /\ n <= Room(slot, item)
<1>. DEFINE m == Room(slot, item)
<1>1. m \in Nat
  BY RoomNatural
<1>. HIDE DEF m
<1>3. Min({left, m}) \in {left, m} /\ Min({left, m}) <= left /\ Min({left, m}) <= m
  BY <1>1, MinMaxOfTwo
<1>4. StackCount(slot, left, item) = Min({left, m})
  BY DEF StackCount, m
<1>. QED BY <1>1, <1>3, <1>4 DEF m

\* ReduceDurability() gives a slot.
LEMMA ReduceType ==
  ASSUME NEW slot \in Slot, NEW amount \in Nat
  PROVE  ReduceDurability(slot, amount) \in Slot
<1>. DEFINE d == slot.durability - amount
            m == Max({d, 0})
<1>1. d \in Int /\ slot.durability \in Int
  BY DEF Slot
<1>2. m \in Int
  <2>. HIDE DEF d
  <2>1. 0 \in Int
    OBVIOUS
  <2>2. Max({d, 0}) \in {d, 0}
    BY <1>1, <2>1, MinMaxOfTwo, Zenon
  <2>. QED BY <1>1, <2>2
<1>3. ReduceDurability(slot, amount) = IF slot.durability <= 0 THEN slot ELSE [slot EXCEPT !.durability = m]
  BY DEF ReduceDurability
<1>. HIDE DEF m
<1>4. [slot EXCEPT !.durability = m] \in Slot
  BY <1>2 DEF Slot
<1>. QED BY <1>3, <1>4

\* The inventory has its type to begin with ...
LEMMA InventoryTypeInit == InventoryInit => InventoryTypeOK
BY EmptySlotType, InventoryAssumption DEF InventoryInit, InventoryTypeOK, NoCall, Items

\* A DurabilityEvent, and a call in progress.
Event == [slot : EquipSlots, amount : Amounts, processed : BOOLEAN]

Call == [at : {"none", "stack", "fill", "added", "wear", "enchants"}, next : Nat,
         item : Items \cup {"none"}, left : Nat]

\* The inductive invariant: a slot that is not empty holds something, so that what Equip()
\* drops is a number of items.
ItemsInv == InventoryTypeOK /\ ItemsConserved

\* ... and keeps it.
LEMMA InventoryTypeStep ==
  ItemsInv /\ [InventoryNext]_bagVars => InventoryTypeOK'
<1>. SUFFICES ASSUME InventoryTypeOK, ItemsConserved, [InventoryNext]_bagVars PROVE InventoryTypeOK'
  BY DEF ItemsInv
<1>1. CASE UNCHANGED bagVars
  BY <1>1 DEF InventoryTypeOK, bagVars
<1>2. ASSUME NEW item \in Items, NEW n \in Amounts, AddItem(item, n) PROVE InventoryTypeOK'
  BY <1>2, InventoryAssumption DEF InventoryTypeOK, AddItem
<1>3. CASE PutBack
  <2>1. hand \in Slot /\ hand.item \in Items /\ hand.count \in Nat
    BY <1>3 DEF InventoryTypeOK, PutBack, IsEmpty, Slot
  <2>2. bag' \in [1..Capacity -> Slot] /\ lost' \in [Items -> Nat]
    <3>1. CASE UNCHANGED lost /\ \E j \in 1..Capacity : bag' = [bag EXCEPT ![j] = hand]
      BY <2>1, <3>1 DEF InventoryTypeOK
    <3>2. CASE UNCHANGED bag /\ lost' = [lost EXCEPT ![hand.item] = @ + hand.count]
      BY <2>1, <3>2 DEF InventoryTypeOK
    <3>. QED BY <1>3, <3>1, <3>2 DEF PutBack
  <2>. QED BY <1>3, <2>2, EmptySlotType DEF InventoryTypeOK, PutBack
<1>4. CASE StackOnto
  <2>. DEFINE i == calling.next
              item == calling.item
              n == StackCount(bag[i], calling.left, item)
              slot == [bag[i] EXCEPT !.count = @ + n]
  <2>1. i \in 1..Capacity /\ item \in Items /\ bag[i] \in Slot /\ calling.left \in Nat /\ i \in Nat
    BY <1>4 DEF InventoryTypeOK, StackOnto
  <2>2. n \in Nat /\ n <= calling.left
    BY <2>1, StackNatural
  <2>3. /\ bag' = [bag EXCEPT ![i] = slot]
        /\ ledger' = [ledger EXCEPT ![item] = @ + n]
        /\ calling' = [calling EXCEPT !.left = @ - n,
                                    !.at = IF n = calling.left THEN "added"
                                           ELSE IF i = Capacity THEN "fill" ELSE "stack",
                                    !.next = IF i = Capacity THEN 1 ELSE i + 1]
        /\ UNCHANGED <<equipped, hand, stackSize, wear, lost>>
    BY <1>4 DEF StackOnto, StackCount
  <2>. HIDE DEF n
  <2>4. slot \in Slot
    BY <2>1, <2>2 DEF Slot
  <2>. HIDE DEF slot
  <2>5. bag' \in [1..Capacity -> Slot]
    BY <2>1, <2>3, <2>4 DEF InventoryTypeOK
  <2>6. ledger' \in [Items -> Int]
    BY <2>1, <2>2, <2>3 DEF InventoryTypeOK
  <2>7. calling \in Call
    BY DEF InventoryTypeOK, Call
  <2>. DEFINE at == IF n = calling.left THEN "added" ELSE IF i = Capacity THEN "fill" ELSE "stack"
              next == IF i = Capacity THEN 1 ELSE i + 1
              left == calling.left - n
  <2>11. calling' = [calling EXCEPT !.left = left, !.at = at, !.next = next]
    BY <2>3
  <2>12. next \in 1..Capacity /\ at \in {"added", "fill", "stack"} /\ left \in Nat /\ next \in Nat
    BY <2>1, <2>2, InventoryAssumption
  <2>. HIDE DEF at, next, left
  <2>8. calling' \in Call /\ calling'.item = item
    BY <2>7, <2>11, <2>12 DEF Call
  <2>9. calling'.next \in 1..Capacity /\ calling'.at \in {"added", "fill", "stack"}
    BY <2>7, <2>11, <2>12 DEF Call
  <2>. QED BY <2>1, <2>3, <2>5, <2>6, <2>8, <2>9 DEF InventoryTypeOK, Call
<1>5. CASE FillEmpty
  <2>. DEFINE i == calling.next
              item == calling.item
              n == FillCount(bag[i], calling.left, item)
              new == NewDurability(item)
              slot == IF n = 0 THEN bag[i] ELSE Filled(bag[i], item, n, new, new)
  <2>1. i \in 1..Capacity /\ item \in Items /\ bag[i] \in Slot /\ calling.left \in Nat /\ i \in Nat
    BY <1>5 DEF InventoryTypeOK, FillEmpty
  <2>2. n \in Nat /\ n <= calling.left /\ new \in Int
    BY <2>1, FillNatural, StackAllowed
  <2>3. /\ bag' = [bag EXCEPT ![i] = slot]
        /\ ledger' = [ledger EXCEPT ![item] = @ + n]
        /\ calling' = [calling EXCEPT !.left = @ - n,
                                    !.at = IF n = calling.left \/ i = Capacity THEN "added" ELSE "fill",
                                    !.next = i + 1]
        /\ UNCHANGED <<equipped, hand, stackSize, wear, lost>>
    BY <1>5 DEF FillEmpty, FillCount
  <2>. HIDE DEF n, new
  <2>4. slot \in Slot
    BY <2>1, <2>2 DEF Slot, Filled
  <2>. HIDE DEF slot
  <2>5. bag' \in [1..Capacity -> Slot]
    BY <2>1, <2>3, <2>4 DEF InventoryTypeOK
  <2>6. ledger' \in [Items -> Int]
    BY <2>1, <2>2, <2>3 DEF InventoryTypeOK
  <2>7. calling \in Call
    BY DEF InventoryTypeOK, Call
  <2>. DEFINE at == IF n = calling.left \/ i = Capacity THEN "added" ELSE "fill"
              next == i + 1
              left == calling.left - n
  <2>11. calling' = [calling EXCEPT !.left = left, !.at = at, !.next = next]
    BY <2>3
  <2>12. (at = "added" \/ (at = "fill" /\ next \in 1..Capacity)) /\ left \in Nat /\ next \in Nat
    <3>1. left \in Nat /\ next \in Nat /\ (i # Capacity => next \in 1..Capacity)
      BY <2>1, <2>2, InventoryAssumption
    <3>2. at = "added" \/ (at = "fill" /\ i # Capacity)
      OBVIOUS
    <3>. QED BY <3>1, <3>2
  <2>. HIDE DEF at, next, left
  <2>8. calling' \in Call /\ calling'.item = item
    BY <2>7, <2>11, <2>12 DEF Call
  <2>9. calling'.at = "added" \/ (calling'.at = "fill" /\ calling'.next \in 1..Capacity)
    BY <2>7, <2>11, <2>12 DEF Call
  <2>. QED BY <2>1, <2>3, <2>5, <2>6, <2>8, <2>9 DEF InventoryTypeOK, Call
<1>6. CASE FinishAdding
  BY <1>6 DEF FinishAdding, InventoryTypeOK, NoCall
<1>7. ASSUME NEW i \in 1..Capacity, NEW n \in Amounts, RemoveItem(i, n) PROVE InventoryTypeOK'
  <2>1. Removed(bag[i], n) \in Slot
    <3>1. bag[i] \in Slot /\ n \in Nat /\ bag[i].count >= n
      BY <1>7, InventoryAssumption DEF InventoryTypeOK, RemoveItem
    <3>. QED BY <3>1, EmptySlotType DEF Removed, Slot
  <2>2. n \in Int
    BY InventoryAssumption
  <2>3. bag' \in [1..Capacity -> Slot]
    BY <1>7, <2>1 DEF RemoveItem, InventoryTypeOK
  <2>4. ledger' \in [Items -> Int]
    <3>1. ledger' = [ledger EXCEPT ![bag[i].item] = @ - n] /\ ledger \in [Items -> Int]
      BY <1>7 DEF RemoveItem, InventoryTypeOK
    <3>. DEFINE it == bag[i].item
    <3>. HIDE DEF it
    <3>2. ledger' = [ledger EXCEPT ![it] = @ - n]
      BY <3>1 DEF it
    <3>3. it \in Items
      BY <1>7 DEF RemoveItem, InventoryTypeOK, Slot, IsEmpty, it
    <3>4. ledger[it] - n \in Int
      BY <3>1, <3>3, <2>2
    <3>. QED BY <3>1, <3>2, <3>3, <3>4
  <2>. QED BY <1>7, <2>3, <2>4 DEF RemoveItem, InventoryTypeOK
<1>8. ASSUME NEW i \in 1..Capacity, NEW n \in Amounts, SplitStack(i, n) PROVE InventoryTypeOK'
  <2>1. PICK j \in 1..Capacity : /\ IsEmpty(bag[j])
          /\ bag' = [bag EXCEPT ![j] = Filled(@, bag[i].item, n, bag[i].durability, bag[i].most),
                                ![i].count = @ - n]
    BY <1>8 DEF SplitStack
  <2>2. bag[i] \in Slot /\ bag[j] \in Slot /\ n \in Nat /\ bag[i].count > n /\ i # j
    BY <1>8, <2>1, InventoryAssumption DEF InventoryTypeOK, SplitStack
  <2>3. Filled(bag[j], bag[i].item, n, bag[i].durability, bag[i].most) \in Slot
    BY <2>2 DEF Filled, Slot
  <2>4. [bag[i] EXCEPT !.count = @ - n] \in Slot
    BY <2>2 DEF Slot
  <2>5. bag' = [bag EXCEPT ![j] = Filled(bag[j], bag[i].item, n, bag[i].durability, bag[i].most),
                           ![i] = [bag[i] EXCEPT !.count = @ - n]]
    BY <2>1, <2>2 DEF InventoryTypeOK
  <2>6. bag' \in [1..Capacity -> Slot]
    BY <2>3, <2>4, <2>5 DEF InventoryTypeOK
  <2>. QED BY <1>8, <2>6 DEF SplitStack, InventoryTypeOK
<1>9. ASSUME NEW i \in 1..Capacity, NEW j \in 1..Capacity, MoveItem(i, j) PROVE InventoryTypeOK'
  BY <1>9 DEF MoveItem, InventoryTypeOK
<1>10. ASSUME NEW i \in 1..Capacity, NEW s \in EquipSlots, Equip(i, s) PROVE InventoryTypeOK'
  <2>1. [bag[i] EXCEPT !.count = 1] \in Slot
    BY DEF InventoryTypeOK, Slot
  <2>2. lost' \in [Items -> Nat]
    <3>. DEFINE it == bag[i].item
                n == bag[i].count - 1
    <3>1. it \in Items /\ n \in Nat
      <4>1. bag[i] \in Slot /\ ~IsEmpty(bag[i])
        BY <1>10 DEF Equip, InventoryTypeOK
      <4>2. bag[i].count > 0
        BY <4>1 DEF ItemsConserved, SlotSound
      <4>. QED BY <4>1, <4>2 DEF Slot, IsEmpty
    <3>2. lost' = [lost EXCEPT ![it] = @ + n]
      BY <1>10 DEF Equip
    <3>. HIDE DEF it, n
    <3>. QED BY <3>1, <3>2 DEF InventoryTypeOK
  <2>. QED BY <1>10, <2>1, <2>2, EmptySlotType DEF Equip, InventoryTypeOK
<1>19. ASSUME NEW i \in 1..Capacity, EquipNowhere(i) PROVE InventoryTypeOK'
  <2>1. bag[i].item \in Items /\ bag[i].count \in Nat
    BY <1>19 DEF EquipNowhere, InventoryTypeOK, IsEmpty, Slot
  <2>2. lost' \in [Items -> Nat]
    BY <1>19, <2>1 DEF EquipNowhere, InventoryTypeOK
  <2>. QED BY <1>19, <2>2, EmptySlotType DEF EquipNowhere, InventoryTypeOK
<1>11. ASSUME NEW s \in EquipSlots, Unequip(s) PROVE InventoryTypeOK'
  BY <1>11, EmptySlotType DEF Unequip, InventoryTypeOK
<1>12. ASSUME NEW s \in EquipSlots, NEW time \in EnchantTimes, Enchant(s, time) PROVE InventoryTypeOK'
  <2>1. [equipped[s] EXCEPT !.enchants = @ \cup {time}] \in Slot
    <3>1. time \in Int
      BY InventoryAssumption
    <3>2. equipped[s] \in Slot
      BY DEF InventoryTypeOK
    <3>3. equipped[s].enchants \cup {time} \in SUBSET Int
      BY <3>1, <3>2 DEF Slot
    <3>. QED BY <3>2, <3>3 DEF Slot
  <2>. QED BY <1>12, <2>1 DEF Enchant, InventoryTypeOK
<1>13. ASSUME NEW s \in EquipSlots, NEW amount \in Amounts, RaiseWear(s, amount) PROVE InventoryTypeOK'
  <2>1. [slot |-> s, amount |-> amount, processed |-> FALSE] \in Event
    BY Zenon DEF Event
  <2>. DEFINE e == [slot |-> s, amount |-> amount, processed |-> FALSE]
  <2>2. wear \in Seq(Event) /\ wear' = Append(wear, e)
    BY <1>13 DEF RaiseWear, InventoryTypeOK, Event
  <2>. HIDE DEF e
  <2>3. wear' \in Seq(Event)
    BY <2>1, <2>2 DEF e
  <2>. QED BY <1>13, <2>3 DEF RaiseWear, InventoryTypeOK, Event, BetweenCalls
<1>14. CASE DropWear
  <2>1. wear \in Seq(Event) /\ wear # <<>> /\ wear' = Tail(wear)
    BY <1>14 DEF DropWear, InventoryTypeOK, Event
  <2>2. wear' \in Seq(Event)
    BY <2>1
  <2>. QED BY <1>14, <2>2 DEF DropWear, InventoryTypeOK, Event, BetweenCalls
<1>15. CASE InventoryTick
  <2>1. wear \in Seq(Event)
    BY DEF InventoryTypeOK, Event
  <2>2. wear # <<>> => 1 \in 1..Len(wear)
    BY <2>1
  <2>. QED BY <1>15, <2>2 DEF InventoryTick, InventoryTypeOK, NoCall
<1>16. CASE WearOut
  <2>. DEFINE e == calling.next
              event == [wear[e] EXCEPT !.processed = TRUE]
              worn == ReduceDurability(equipped[wear[e].slot], wear[e].amount)
  <2>1. wear \in Seq(Event) /\ e \in 1..Len(wear) /\ wear' = [wear EXCEPT ![e] = event]
    BY <1>16 DEF WearOut, InventoryTypeOK, Event
  <2>2. wear[e] \in Event
    BY <2>1
  <2>3. event \in Event
    BY <2>2, Zenon DEF Event
  <2>4. wear' \in Seq(Event) /\ Len(wear') = Len(wear)
    <3>. HIDE DEF event
    <3>. QED BY <2>1, <2>3
  <2>5. wear[e].slot \in EquipSlots /\ wear[e].amount \in Nat
    BY <2>2, InventoryAssumption DEF Event
  <2>6. equipped[wear[e].slot] \in Slot
    BY <2>5 DEF InventoryTypeOK
  <2>7. worn \in Slot
    BY <2>5, <2>6, ReduceType
  <2>8. equipped' \in [EquipSlots -> Slot]
    <3>1. equipped' = IF wear[e].processed THEN equipped ELSE [equipped EXCEPT ![wear[e].slot] = worn]
      BY <1>16 DEF WearOut
    <3>. HIDE DEF worn
    <3>. QED BY <2>5, <2>7, <3>1 DEF InventoryTypeOK
  <2>9. /\ calling' = [calling EXCEPT !.at = IF e = Len(wear) THEN "enchants" ELSE "wear", !.next = e + 1]
        /\ UNCHANGED <<bag, hand, stackSize, ledger, lost>>
    BY <1>16 DEF WearOut
  <2>10. Len(wear) \in Nat
    BY <2>1
  <2>11. calling \in Call /\ calling.at = "wear"
    BY <1>16 DEF InventoryTypeOK, Call, WearOut
  <2>12. calling' \in Call /\ (calling'.at = "enchants" \/ (calling'.at = "wear" /\ calling'.next \in 1..Len(wear')))
    <3>. DEFINE at == IF e = Len(wear) THEN "enchants" ELSE "wear"
                next == e + 1
    <3>1. calling' = [calling EXCEPT !.at = at, !.next = next]
      BY <2>9
    <3>2. (at = "enchants" \/ (at = "wear" /\ next \in 1..Len(wear'))) /\ next \in Nat
      <4>1. next \in Nat /\ (e # Len(wear) => next \in 1..Len(wear'))
        BY <2>1, <2>4, <2>10
      <4>2. at = "enchants" \/ (at = "wear" /\ e # Len(wear))
        OBVIOUS
      <4>. QED BY <4>1, <4>2
    <3>. HIDE DEF at, next
    <3>. QED BY <2>11, <3>1, <3>2 DEF Call
  <2>. QED BY <2>4, <2>8, <2>9, <2>12 DEF InventoryTypeOK, Event, Call
<1>17. CASE UpdateEnchants(1)
  <2>1. \A slot \in Slot : Aged(slot, 1) \in Slot
    BY DEF Aged, Slot
  <2>2. bag' \in [1..Capacity -> Slot] /\ equipped' \in [EquipSlots -> Slot]
    BY <1>17, <2>1 DEF UpdateEnchants, InventoryTypeOK
  <2>. QED BY <1>17, <2>2 DEF UpdateEnchants, InventoryTypeOK, NoCall
<1>18. ASSUME NEW item \in Stackables, NEW size \in StackSizes, RegisterItem(item, size)
       PROVE  InventoryTypeOK'
  BY <1>18 DEF RegisterItem, InventoryTypeOK
<1>. QED BY <1>1, <1>2, <1>3, <1>4, <1>5, <1>6, <1>7, <1>8, <1>9, <1>10, <1>11, <1>12, <1>13, <1>14,
            <1>15, <1>16, <1>17, <1>18, <1>19 DEF InventoryNext, AddNext

(***************************************************************************)
(* Where the items are.                                                    *)
(***************************************************************************)

\* The total after a step.
LEMMA TotalNext ==
  ASSUME NEW item
  PROVE  TotalOf(item)' = CountItem(bag', item) + CountItem(equipped', item) + CountIn(hand', item) + lost'[item]
BY DEF TotalOf

\* There are finitely many slots.
LEMMA FiniteSlots == IsFiniteSet(1..Capacity) /\ IsFiniteSet(EquipSlots)
BY InventoryAssumption, FS_Interval

\* The same for one slot of the bag ...
LEMMA BagChanged ==
  ASSUME InventoryTypeOK, InventoryTypeOK', NEW i \in 1..Capacity,
         \A q \in (1..Capacity) \ {i} : bag'[q] = bag[q], NEW item
  PROVE  /\ CountItem(bag, item) \in Nat /\ CountItem(bag', item) \in Nat
         /\ CountItem(bag', item) = CountItem(bag, item) - CountIn(bag[i], item) + CountIn(bag'[i], item)
<1>. DEFINE D == 1..Capacity
            f == bag
            g == bag'
            p == i
<1>1. IsFiniteSet(D) /\ f \in [D -> Slot] /\ g \in [D -> Slot] /\ p \in D
  BY FiniteSlots DEF InventoryTypeOK
<1>2. \A q \in D \ {p} : g[q] = f[q]
  OBVIOUS
<1>. HIDE DEF D, f, g, p
<1>3. /\ CountItem(f, item) \in Nat /\ CountItem(g, item) \in Nat
      /\ CountItem(g, item) = CountItem(f, item) - CountIn(f[p], item) + CountIn(g[p], item)
  BY <1>1, <1>2, OneSlotChanged
<1>. QED BY <1>3 DEF f, g, p

\* ... and for one that is worn.
LEMMA EquippedChanged ==
  ASSUME InventoryTypeOK, InventoryTypeOK', NEW s \in EquipSlots,
         \A q \in EquipSlots \ {s} : equipped'[q] = equipped[q], NEW item
  PROVE  /\ CountItem(equipped, item) \in Nat /\ CountItem(equipped', item) \in Nat
         /\ CountItem(equipped', item)
              = CountItem(equipped, item) - CountIn(equipped[s], item) + CountIn(equipped'[s], item)
<1>. DEFINE f == equipped
            g == equipped'
<1>1. IsFiniteSet(EquipSlots) /\ f \in [EquipSlots -> Slot] /\ g \in [EquipSlots -> Slot]
  BY FiniteSlots DEF InventoryTypeOK
<1>2. \A q \in EquipSlots \ {s} : g[q] = f[q]
  OBVIOUS
<1>. HIDE DEF f, g
<1>3. /\ CountItem(f, item) \in Nat /\ CountItem(g, item) \in Nat
      /\ CountItem(g, item) = CountItem(f, item) - CountIn(f[s], item) + CountIn(g[s], item)
  BY <1>1, <1>2, OneSlotChanged
<1>. QED BY <1>3 DEF f, g

\* The four parts of a total are natural numbers.
LEMMA CountsNatural ==
  ASSUME InventoryTypeOK, NEW item \in Items
  PROVE  /\ CountItem(bag, item) \in Nat /\ CountItem(equipped, item) \in Nat /\ CountIn(hand, item) \in Nat
         /\ lost[item] \in Nat
<1>1. bag \in [1..Capacity -> Slot] /\ equipped \in [EquipSlots -> Slot] /\ hand \in Slot
  BY DEF InventoryTypeOK
<1>2. CountItem(bag, item) \in Nat
  BY <1>1, FiniteSlots, CountNatural
<1>3. CountItem(equipped, item) \in Nat
  BY <1>1, FiniteSlots, CountNatural
<1>4. lost[item] \in Nat
  BY DEF InventoryTypeOK
<1>. QED BY <1>1, <1>2, <1>3, <1>4, CountInSlot

(***************************************************************************)
(* Slots stay sound.                                                       *)
(***************************************************************************)

\* Whether durability is the item's own or less.
DurabilityFine(slot) ==
  /\ slot.most = NewDurability(slot.item)
  /\ IF slot.most = Indestructible THEN slot.durability = Indestructible ELSE slot.durability \in 0..slot.most

\* Whether a count is one that some template allowed.
CountFine(item, n) ==
  n > 0 /\ IF item \in Gear THEN n = 1 ELSE \E size \in StackSizes : n <= size

\* What SlotSound says of an empty and of a filled slot.
LEMMA SoundSlot ==
  ASSUME NEW slot
  PROVE  /\ IsEmpty(slot) => (SlotSound(slot) <=> slot = EmptySlot)
         /\ ~IsEmpty(slot) => (SlotSound(slot) <=> CountFine(slot.item, slot.count) /\ DurabilityFine(slot))
BY DEF SlotSound, CountFine, DurabilityFine

\* The empty slot is sound.
LEMMA EmptySlotSound == SlotSound(EmptySlot) /\ IsEmpty(EmptySlot) /\ EmptySlot.item = "none"
BY DEF SlotSound, EmptySlot, IsEmpty

\* No item is the one an empty slot has.
LEMMA SomeIsNotEmpty == "none" \notin Items
BY InventoryAssumption DEF Items

\* A stack within maxStackSize is allowed ...
LEMMA CountWithin ==
  ASSUME InventoryTypeOK, NEW item \in Items, NEW n \in Nat, n > 0, n <= MaxStack(item)
  PROVE  CountFine(item, n)
<1>1. CASE item \in Gear
  BY <1>1, StackAllowed DEF CountFine
<1>2. CASE item \notin Gear
  BY <1>2, StackAllowed DEF CountFine
<1>. QED BY <1>1, <1>2

\* ... and so is part of one that is.
LEMMA FewerFine ==
  ASSUME NEW item, NEW c \in Nat, NEW n \in Nat, CountFine(item, c), n > 0, n <= c
  PROVE  CountFine(item, n)
<1>1. CASE item \in Gear
  BY <1>1 DEF CountFine
<1>2. CASE item \notin Gear
  <2>1. PICK size \in StackSizes : c <= size
    BY <1>2 DEF CountFine
  <2>2. size \in Nat
    BY InventoryAssumption
  <2>3. n <= size
    BY <2>1, <2>2
  <2>. QED BY <1>2, <2>3 DEF CountFine
<1>. QED BY <1>1, <1>2

\* A slot whose count alone changes.
LEMMA Recounted ==
  ASSUME NEW slot \in Slot, SlotSound(slot), ~IsEmpty(slot), NEW n \in Nat, CountFine(slot.item, n)
  PROVE  LET new == [slot EXCEPT !.count = n]
         IN  SlotSound(new) /\ ~IsEmpty(new) /\ new.item = slot.item /\ new.count = n
<1>. DEFINE new == [slot EXCEPT !.count = n]
<1>1. /\ new.item = slot.item /\ new.count = n /\ new.durability = slot.durability
      /\ new.most = slot.most
  BY DEF Slot
<1>. HIDE DEF new
<1>2. ~IsEmpty(new)
  BY <1>1 DEF IsEmpty
<1>3. DurabilityFine(slot)
  BY SoundSlot
<1>4. DurabilityFine(new)
  BY <1>1, <1>3 DEF DurabilityFine
<1>5. CountFine(new.item, new.count)
  BY <1>1
<1>6. SlotSound(new)
  BY <1>2, <1>4, <1>5, SoundSlot
<1>. QED BY <1>1, <1>2, <1>6 DEF new

\* What a filled slot holds.
LEMMA FilledFields ==
  ASSUME NEW slot \in Slot, NEW item, NEW n, NEW d, NEW m
  PROVE  LET new == Filled(slot, item, n, d, m)
         IN  new.item = item /\ new.count = n /\ new.durability = d /\ new.most = m
BY DEF Filled, Slot

\* New items are whole.
LEMMA NewDurabilityFine ==
  ASSUME NEW item
  PROVE  LET d == NewDurability(item) IN IF d = Indestructible THEN TRUE ELSE d \in 0..d
BY InventoryAssumption DEF NewDurability, Indestructible

\* A slot that AddItem() or SplitStack() fills is sound.
LEMMA FilledSound ==
  ASSUME NEW slot \in Slot, NEW item \in Items, NEW n, CountFine(item, n), NEW d, NEW m,
         m = NewDurability(item), IF m = Indestructible THEN d = Indestructible ELSE d \in 0..m
  PROVE  SlotSound(Filled(slot, item, n, d, m))
<1>. DEFINE new == Filled(slot, item, n, d, m)
<1>1. new.item = item /\ new.count = n /\ new.durability = d /\ new.most = m
  BY FilledFields
<1>. HIDE DEF new
<1>2. ~IsEmpty(new)
  BY <1>1, SomeIsNotEmpty DEF IsEmpty
<1>3. DurabilityFine(new)
  BY <1>1 DEF DurabilityFine
<1>4. CountFine(new.item, new.count)
  BY <1>1
<1>5. SlotSound(new)
  BY <1>2, <1>3, <1>4, SoundSlot
<1>. QED BY <1>5 DEF new

\* ReduceDurability() keeps a slot sound, and what it holds.
LEMMA ReducedSound ==
  ASSUME NEW slot \in Slot, SlotSound(slot), NEW amount \in Nat
  PROVE  LET new == ReduceDurability(slot, amount)
         IN  SlotSound(new) /\ new.item = slot.item /\ new.count = slot.count
<1>. DEFINE d == slot.durability - amount
            m == Max({d, 0})
            new == ReduceDurability(slot, amount)
<1>1. CASE slot.durability <= 0
  BY <1>1 DEF ReduceDurability
<1>2. CASE ~(slot.durability <= 0)
  <2>1. d \in Int /\ slot.durability \in Int /\ slot.most \in Int /\ d <= slot.durability /\ slot.durability > 0
    BY <1>2 DEF Slot
  <2>2. m \in {d, 0} /\ m >= 0
    <3>. HIDE DEF d
    <3>1. 0 \in Int
      OBVIOUS
    <3>. QED BY <2>1, <3>1, MinMaxOfTwo, Zenon
  <2>3. m \in Int /\ m >= 0 /\ m <= slot.durability
    <3>. HIDE DEF m
    <3>. QED BY <2>1, <2>2
  <2>4. new = [slot EXCEPT !.durability = m]
    BY <1>2 DEF ReduceDurability
  <2>. HIDE DEF m, new
  <2>5. new.item = slot.item /\ new.count = slot.count /\ new.durability = m /\ new.most = slot.most
    BY <2>4 DEF Slot
  <2>6. ~IsEmpty(slot)
    BY <2>1 DEF SlotSound, EmptySlot, Indestructible
  <2>7. CountFine(slot.item, slot.count) /\ DurabilityFine(slot)
    BY <2>6, SoundSlot
  <2>8. DurabilityFine(new)
    <3>1. slot.durability \in 0..slot.most /\ slot.most # Indestructible
      BY <2>1, <2>7 DEF DurabilityFine, Indestructible
    <3>2. new.most = NewDurability(new.item)
      BY <2>5, <2>7 DEF DurabilityFine
    <3>3. new.durability \in 0..new.most /\ new.most # Indestructible
      BY <2>1, <2>3, <2>5, <3>1
    <3>. QED BY <3>2, <3>3 DEF DurabilityFine
  <2>9. ~IsEmpty(new)
    BY <2>5, <2>6 DEF IsEmpty
  <2>10. CountFine(new.item, new.count)
    BY <2>5, <2>7
  <2>11. SlotSound(new)
    BY <2>8, <2>9, <2>10, SoundSlot
  <2>. QED BY <2>5, <2>11 DEF new
<1>. QED BY <1>1, <1>2

\* A slot whose enchantments alone change.
LEMMA Reenchanted ==
  ASSUME NEW slot \in Slot, SlotSound(slot), NEW e, IsEmpty(slot) => e = {}
  PROVE  LET new == [slot EXCEPT !.enchants = e]
         IN  SlotSound(new) /\ new.item = slot.item /\ new.count = slot.count
<1>. DEFINE new == [slot EXCEPT !.enchants = e]
<1>1. /\ new.item = slot.item /\ new.count = slot.count /\ new.durability = slot.durability
      /\ new.most = slot.most
  BY DEF Slot
<1>2. CASE IsEmpty(slot)
  <2>1. slot = EmptySlot /\ e = {}
    BY <1>2, SoundSlot
  <2>2. new = EmptySlot
    BY <2>1 DEF EmptySlot
  <2>. QED BY <1>1, <2>2, EmptySlotSound
<1>3. CASE ~IsEmpty(slot)
  <2>. HIDE DEF new
  <2>1. CountFine(slot.item, slot.count) /\ DurabilityFine(slot)
    BY <1>3, SoundSlot
  <2>2. ~IsEmpty(new) /\ DurabilityFine(new) /\ CountFine(new.item, new.count)
    BY <1>1, <1>3, <2>1 DEF IsEmpty, DurabilityFine
  <2>3. SlotSound(new)
    BY <2>2, SoundSlot
  <2>. QED BY <1>1, <2>3 DEF new
<1>. QED BY <1>2, <1>3

(***************************************************************************)
(* Totals.                                                                 *)
(***************************************************************************)

\* CountItem() after two slots have changed.
LEMMA TwoSlotsChanged ==
  ASSUME NEW D, IsFiniteSet(D), NEW f \in [D -> Slot], NEW g \in [D -> Slot], NEW p \in D, NEW q \in D,
         p # q, \A r \in D \ {p, q} : g[r] = f[r], NEW item
  PROVE  CountItem(g, item) = CountItem(f, item) - CountIn(f[p], item) - CountIn(f[q], item)
                                + CountIn(g[p], item) + CountIn(g[q], item)
<1>. DEFINE h == [f EXCEPT ![p] = g[p]]
<1>1. h \in [D -> Slot] /\ h[p] = g[p] /\ h[q] = f[q]
  OBVIOUS
<1>2. (\A r \in D \ {p} : h[r] = f[r]) /\ (\A r \in D \ {q} : g[r] = h[r])
  OBVIOUS
<1>. HIDE DEF h
<1>3. /\ CountItem(f, item) \in Nat /\ CountItem(h, item) \in Nat
      /\ CountItem(h, item) = CountItem(f, item) - CountIn(f[p], item) + CountIn(h[p], item)
  BY <1>1, <1>2, OneSlotChanged
<1>4. /\ CountItem(g, item) \in Nat
      /\ CountItem(g, item) = CountItem(h, item) - CountIn(h[q], item) + CountIn(g[q], item)
  BY <1>1, <1>2, OneSlotChanged
<1>5. /\ CountIn(f[p], item) \in Nat /\ CountIn(f[q], item) \in Nat
      /\ CountIn(g[p], item) \in Nat /\ CountIn(g[q], item) \in Nat
  BY CountInSlot
<1>. QED BY <1>1, <1>3, <1>4, <1>5

\* The same for two slots of the bag.
LEMMA TwoBagSlotsChanged ==
  ASSUME InventoryTypeOK, InventoryTypeOK', NEW i \in 1..Capacity, NEW j \in 1..Capacity, i # j,
         \A q \in (1..Capacity) \ {i, j} : bag'[q] = bag[q], NEW item
  PROVE  CountItem(bag', item) = CountItem(bag, item) - CountIn(bag[i], item) - CountIn(bag[j], item)
                                   + CountIn(bag'[i], item) + CountIn(bag'[j], item)
<1>. DEFINE D == 1..Capacity
            f == bag
            g == bag'
            p == i
            q == j
<1>1. IsFiniteSet(D) /\ f \in [D -> Slot] /\ g \in [D -> Slot] /\ p \in D /\ q \in D /\ p # q
  BY FiniteSlots DEF InventoryTypeOK
<1>2. \A r \in D \ {p, q} : g[r] = f[r]
  OBVIOUS
<1>. HIDE DEF D, f, g, p, q
<1>3. CountItem(g, item) = CountItem(f, item) - CountIn(f[p], item) - CountIn(f[q], item)
                                + CountIn(g[p], item) + CountIn(g[q], item)
  BY <1>1, <1>2, TwoSlotsChanged
<1>. QED BY <1>3 DEF f, g, p, q

\* The two parts of ItemsConserved.
Accounted == \A item \in Items : TotalOf(item) = ledger[item]

SlotsFine ==
  /\ \A i \in 1..Capacity : SlotSound(bag[i])
  /\ \A s \in EquipSlots : SlotSound(equipped[s]) /\ equipped[s].count <= 1
  /\ SlotSound(hand)

\* They are all of it: nothing but gear has a durability that could reach 0.
LEMMA ConservedParts ==
  /\ ItemsConserved => Accounted /\ SlotsFine
  /\ Accounted /\ SlotsFine => ItemsConserved
<1>1. ASSUME NEW slot, SlotSound(slot), IsBroken(slot) PROVE slot.item \in Gear
  BY <1>1 DEF SlotSound, IsBroken, EmptySlot, Indestructible, NewDurability
<1>2. ItemsConserved => Accounted /\ SlotsFine
  BY DEF ItemsConserved, Accounted, SlotsFine
<1>3. Accounted /\ SlotsFine => ItemsConserved
  BY <1>1 DEF ItemsConserved, Accounted, SlotsFine
<1>. QED BY <1>2, <1>3

\* A step that touches no slot.
LEMMA NothingMoved ==
  ASSUME ItemsConserved, UNCHANGED <<bag, equipped, hand, ledger, lost>>
  PROVE  ItemsConserved'
<1>1. \A item \in Items : TotalOf(item)' = TotalOf(item)
  BY DEF TotalOf
<1>2. Accounted' /\ SlotsFine'
  BY <1>1, ConservedParts DEF Accounted, SlotsFine
<1>. QED BY <1>2, ConservedParts DEF ItemsConserved, Accounted, SlotsFine

\* The same after a step.
LEMMA ConservedNext == Accounted' /\ SlotsFine' => ItemsConserved'
BY ConservedParts, PTL

\* Some items go into or out of one slot of the bag.
LEMMA OneSlotStep ==
  ASSUME InventoryTypeOK, InventoryTypeOK', ItemsConserved,
         NEW i \in 1..Capacity, NEW item \in Items, NEW n \in Int,
         \A q \in (1..Capacity) \ {i} : bag'[q] = bag[q],
         SlotSound(bag'[i]),
         \A other \in Items :
           CountIn(bag'[i], other) = CountIn(bag[i], other) + (IF other = item THEN n ELSE 0),
         ledger' = [ledger EXCEPT ![item] = @ + n],
         UNCHANGED <<equipped, hand, lost>>
  PROVE  ItemsConserved'
<1>1. Accounted'
  <2>. SUFFICES ASSUME NEW other \in Items PROVE TotalOf(other)' = ledger'[other]
    BY DEF Accounted
  <2>1. /\ CountItem(bag, other) \in Nat /\ CountItem(bag', other) \in Nat
        /\ CountItem(bag', other) = CountItem(bag, other) - CountIn(bag[i], other) + CountIn(bag'[i], other)
    BY BagChanged
  <2>2. CountItem(equipped, other) \in Nat /\ CountIn(hand, other) \in Nat /\ lost[other] \in Nat
    BY CountsNatural
  <2>3. TotalOf(other)' = CountItem(bag', other) + CountItem(equipped, other) + CountIn(hand, other) + lost'[other]
    BY TotalNext
  <2>4. ledger[other] = CountItem(bag, other) + CountItem(equipped, other) + CountIn(hand, other) + lost[other]
    BY DEF ItemsConserved, TotalOf
  <2>5. ledger'[other] = ledger[other] + (IF other = item THEN n ELSE 0)
    BY DEF InventoryTypeOK
  <2>6. CountIn(bag[i], other) \in Nat
    BY CountInSlot DEF InventoryTypeOK
  <2>7. CountIn(bag'[i], other) = CountIn(bag[i], other) + (IF other = item THEN n ELSE 0)
    OBVIOUS
  <2>8. CASE other = item
    <3>1. CountIn(bag'[i], other) = CountIn(bag[i], other) + n /\ ledger'[other] = ledger[other] + n
      BY <2>5, <2>7, <2>8
    <3>. QED BY <2>1, <2>2, <2>3, <2>4, <2>6, <3>1
  <2>9. CASE other # item
    <3>1. CountIn(bag'[i], other) = CountIn(bag[i], other) + 0 /\ ledger'[other] = ledger[other] + 0
      BY <2>5, <2>7, <2>9
    <3>. QED BY <2>1, <2>2, <2>3, <2>4, <2>6, <3>1
  <2>. QED BY <2>8, <2>9
<1>2. SlotsFine'
  BY ConservedParts DEF SlotsFine
<1>. QED BY <1>1, <1>2, ConservedNext

\* One step of AddItem()'s first pass ...
LEMMA StackOntoStep ==
  ASSUME ItemsInv, InventoryTypeOK', StackOnto
  PROVE  ItemsConserved'
<1>. USE DEF ItemsInv
<1>. DEFINE i == calling.next
            item == calling.item
            n == StackCount(bag[i], calling.left, item)
            slot == [bag[i] EXCEPT !.count = @ + n]
<1>1. i \in 1..Capacity /\ item \in Items /\ bag[i] \in Slot /\ calling.left \in Nat /\ SlotSound(bag[i])
  BY DEF InventoryTypeOK, StackOnto, ItemsConserved
<1>2. n \in Nat /\ n <= calling.left /\ n <= Room(bag[i], item)
  BY <1>1, StackNatural
<1>3. /\ bag' = [bag EXCEPT ![i] = slot]
      /\ ledger' = [ledger EXCEPT ![item] = @ + n]
      /\ UNCHANGED <<equipped, hand, stackSize, wear, lost>>
  BY DEF StackOnto, StackCount, InventoryTypeOK
<1>. HIDE DEF n
<1>4. slot.item = bag[i].item /\ slot.count = bag[i].count + n
  BY <1>1 DEF Slot
<1>5. bag'[i] = slot /\ \A q \in (1..Capacity) \ {i} : bag'[q] = bag[q]
  BY <1>1, <1>3 DEF InventoryTypeOK
<1>6. bag[i].count \in Nat
  BY <1>1 DEF Slot
<1>7. Room(bag[i], item) \in Nat
  BY <1>1, RoomNatural
<1>8. n > 0 => bag[i].item = item /\ bag[i].count + n <= MaxStack(item) /\ MaxStack(item) \in Nat
  BY <1>1, <1>2, <1>6, <1>7, RoomNatural, StackAllowed
<1>9. SlotSound(slot)
  <2>1. CASE n = 0
    <3>1. slot = bag[i]
      BY <1>1, <1>6, <2>1 DEF Slot
    <3>. QED BY <1>1, <3>1
  <2>2. CASE n > 0
    <3>. DEFINE c == bag[i].count + n
    <3>1. c \in Nat /\ c > 0 /\ c <= MaxStack(item)
      BY <1>2, <1>6, <1>8, <2>2
    <3>. HIDE DEF c
    <3>2. CountFine(item, c)
      BY <1>1, <3>1, CountWithin
    <3>3. ~IsEmpty(bag[i]) /\ bag[i].item = item
      BY <1>1, <1>8, <2>2, SomeIsNotEmpty DEF IsEmpty
    <3>4. CountFine(bag[i].item, c)
      BY <3>2, <3>3
    <3>5. slot = [bag[i] EXCEPT !.count = c]
      BY DEF c
    <3>. HIDE DEF slot
    <3>. QED BY <1>1, <3>1, <3>3, <3>4, <3>5, Recounted
  <2>. QED BY <1>2, <2>1, <2>2
<1>. HIDE DEF slot
<1>10. \A other \in Items :
         CountIn(bag'[i], other) = CountIn(bag[i], other) + (IF other = item THEN n ELSE 0)
  BY <1>2, <1>4, <1>5, <1>6, <1>8 DEF CountIn
<1>11. ItemsConserved'
  <2>1. n \in Int /\ i \in 1..Capacity /\ item \in Items
    BY <1>1, <1>2
  <2>2. SlotSound(bag'[i]) /\ \A q \in (1..Capacity) \ {i} : bag'[q] = bag[q]
    BY <1>5, <1>9
  <2>3. ledger' = [ledger EXCEPT ![item] = @ + n] /\ UNCHANGED <<equipped, hand, lost>>
    BY <1>3
  <2>. HIDE DEF i, item
  <2>. QED BY <2>1, <2>2, <2>3, <1>10, OneSlotStep, Zenon
<1>. QED BY <1>11

\* ... of its second pass ...
LEMMA FillEmptyStep ==
  ASSUME ItemsInv, InventoryTypeOK', FillEmpty
  PROVE  ItemsConserved'
<1>. USE DEF ItemsInv
<1>. DEFINE i == calling.next
            item == calling.item
            n == FillCount(bag[i], calling.left, item)
            new == NewDurability(item)
            slot == IF n = 0 THEN bag[i] ELSE Filled(bag[i], item, n, new, new)
<1>1. i \in 1..Capacity /\ item \in Items /\ bag[i] \in Slot /\ calling.left \in Nat /\ SlotSound(bag[i])
  BY DEF InventoryTypeOK, FillEmpty, ItemsConserved
<1>2. n \in Nat /\ n <= calling.left /\ n <= MaxStack(item) /\ (~IsEmpty(bag[i]) => n = 0)
  BY <1>1, FillNatural
<1>3. /\ bag' = [bag EXCEPT ![i] = slot]
      /\ ledger' = [ledger EXCEPT ![item] = @ + n]
      /\ UNCHANGED <<equipped, hand, stackSize, wear, lost>>
  BY DEF FillEmpty, FillCount, InventoryTypeOK
<1>4. (IF new = Indestructible THEN TRUE ELSE new \in 0..new) /\ new = NewDurability(item)
  BY NewDurabilityFine
<1>. HIDE DEF n, new
<1>5. bag'[i] = slot /\ \A q \in (1..Capacity) \ {i} : bag'[q] = bag[q]
  BY <1>1, <1>3 DEF InventoryTypeOK
<1>6. bag[i].count \in Nat
  BY <1>1 DEF Slot
<1>7. n # 0 => SlotSound(slot) /\ slot.item = item /\ slot.count = n /\ bag[i].item = "none"
  <2>. SUFFICES ASSUME n # 0 PROVE SlotSound(slot) /\ slot.item = item /\ slot.count = n /\ bag[i].item = "none"
    OBVIOUS
  <2>1. CountFine(item, n)
    BY <1>1, <1>2, CountWithin
  <2>2. slot = Filled(bag[i], item, n, new, new)
    OBVIOUS
  <2>. HIDE DEF slot
  <2>3. SlotSound(slot)
    BY <1>1, <1>4, <2>1, <2>2, FilledSound
  <2>4. slot.item = item /\ slot.count = n
    BY <1>1, <2>2, FilledFields
  <2>. QED BY <1>2, <2>3, <2>4 DEF IsEmpty
<1>8. n = 0 => slot = bag[i]
  OBVIOUS
<1>. HIDE DEF slot
<1>9. SlotSound(slot)
  BY <1>1, <1>7, <1>8
<1>10. \A other \in Items :
         CountIn(bag'[i], other) = CountIn(bag[i], other) + (IF other = item THEN n ELSE 0)
  <2>1. CASE n = 0
    BY <1>5, <1>6, <1>8, <2>1 DEF CountIn
  <2>2. CASE n # 0
    BY <1>2, <1>5, <1>7, <2>2, SomeIsNotEmpty DEF CountIn
  <2>. QED BY <2>1, <2>2
<1>11. ItemsConserved'
  <2>1. n \in Int /\ i \in 1..Capacity /\ item \in Items
    BY <1>1, <1>2
  <2>2. SlotSound(bag'[i]) /\ \A q \in (1..Capacity) \ {i} : bag'[q] = bag[q]
    BY <1>5, <1>9
  <2>3. ledger' = [ledger EXCEPT ![item] = @ + n] /\ UNCHANGED <<equipped, hand, lost>>
    BY <1>3
  <2>. HIDE DEF i, item
  <2>. QED BY <2>1, <2>2, <2>3, <1>10, OneSlotStep, Zenon
<1>. QED BY <1>11

\* RemoveItem(): the ledger falls by what the slot loses.
LEMMA RemoveItemStep ==
  ASSUME ItemsInv, InventoryTypeOK', NEW i \in 1..Capacity, NEW n \in Amounts, RemoveItem(i, n)
  PROVE  ItemsConserved'
<1>. USE DEF ItemsInv
<1>. DEFINE item == bag[i].item
            slot == Removed(bag[i], n)
            less == -n
<1>1. n \in Nat /\ bag[i] \in Slot /\ SlotSound(bag[i]) /\ ~IsEmpty(bag[i]) /\ bag[i].count \in Nat
  BY InventoryAssumption DEF InventoryTypeOK, RemoveItem, ItemsConserved, Slot
<1>2. item \in Items /\ bag[i].count >= n
  BY <1>1 DEF Slot, IsEmpty, RemoveItem
<1>3. /\ bag'[i] = slot /\ \A q \in (1..Capacity) \ {i} : bag'[q] = bag[q]
      /\ ledger' = [ledger EXCEPT ![item] = @ - n]
      /\ UNCHANGED <<equipped, hand, lost>>
  BY DEF RemoveItem, InventoryTypeOK
<1>4. SlotSound(slot) /\ ((slot = EmptySlot /\ bag[i].count = n) \/ (slot.item = item /\ slot.count = bag[i].count - n))
  <2>1. CASE bag[i].count = n
    BY <2>1, EmptySlotSound DEF Removed
  <2>2. CASE bag[i].count # n
    <3>. DEFINE c == bag[i].count - n
    <3>1. slot = [bag[i] EXCEPT !.count = c]
      BY <2>2 DEF Removed
    <3>2. c \in Nat /\ c > 0 /\ c <= bag[i].count
      BY <1>1, <1>2, <2>2
    <3>. HIDE DEF c, slot
    <3>3. CountFine(item, bag[i].count)
      BY <1>1, SoundSlot
    <3>4. CountFine(item, c)
      BY <1>1, <3>2, <3>3, FewerFine
    <3>5. SlotSound(slot) /\ slot.item = item /\ slot.count = c
      BY <1>1, <3>1, <3>2, <3>4, Recounted
    <3>. QED BY <3>5 DEF c
  <2>. QED BY <2>1, <2>2
<1>. HIDE DEF slot
<1>5. less \in Int /\ ledger' = [ledger EXCEPT ![item] = @ + less]
  <2>1. ledger[item] - n = ledger[item] + less /\ less \in Int
    BY <1>1, <1>2 DEF InventoryTypeOK
  <2>. QED BY <1>3, <2>1, Zenon
<1>6. \A other \in Items :
         CountIn(bag'[i], other) = CountIn(bag[i], other) + (IF other = item THEN less ELSE 0)
  BY <1>1, <1>2, <1>3, <1>4, SomeIsNotEmpty, EmptySlotSound DEF CountIn
<1>7. ItemsConserved'
  <2>1. SlotSound(bag'[i])
    BY <1>3, <1>4
  <2>. HIDE DEF item, less
  <2>. QED BY <1>2, <1>3, <1>5, <1>6, <2>1, OneSlotStep, Zenon
<1>. QED BY <1>7

\* Two slots of the bag exchange items.
LEMMA TwoSlotsStep ==
  ASSUME InventoryTypeOK, InventoryTypeOK', ItemsConserved,
         NEW i \in 1..Capacity, NEW j \in 1..Capacity, i # j,
         \A q \in (1..Capacity) \ {i, j} : bag'[q] = bag[q],
         SlotSound(bag'[i]), SlotSound(bag'[j]),
         \A other \in Items :
           CountIn(bag'[i], other) + CountIn(bag'[j], other) = CountIn(bag[i], other) + CountIn(bag[j], other),
         UNCHANGED <<equipped, hand, ledger, lost>>
  PROVE  ItemsConserved'
<1>1. Accounted'
  <2>. SUFFICES ASSUME NEW other \in Items PROVE TotalOf(other)' = ledger'[other]
    BY DEF Accounted
  <2>1. CountItem(bag', other) = CountItem(bag, other) - CountIn(bag[i], other) - CountIn(bag[j], other)
                                   + CountIn(bag'[i], other) + CountIn(bag'[j], other)
    BY TwoBagSlotsChanged
  <2>2. CountItem(bag, other) \in Nat /\ CountItem(equipped, other) \in Nat /\ CountIn(hand, other) \in Nat /\ lost[other] \in Nat
    BY CountsNatural
  <2>3. TotalOf(other)' = CountItem(bag', other) + CountItem(equipped, other) + CountIn(hand, other) + lost'[other]
    BY TotalNext
  <2>4. ledger[other] = CountItem(bag, other) + CountItem(equipped, other) + CountIn(hand, other) + lost[other]
    BY DEF ItemsConserved, TotalOf
  <2>5. /\ CountIn(bag[i], other) \in Nat /\ CountIn(bag[j], other) \in Nat
        /\ CountIn(bag'[i], other) \in Nat /\ CountIn(bag'[j], other) \in Nat
    BY CountInSlot DEF InventoryTypeOK
  <2>6. CountIn(bag'[i], other) + CountIn(bag'[j], other) = CountIn(bag[i], other) + CountIn(bag[j], other)
    OBVIOUS
  <2>7. CountItem(bag', other) = CountItem(bag, other)
    BY <2>1, <2>2, <2>5, <2>6
  <2>. QED BY <2>3, <2>4, <2>7
<1>2. SlotsFine'
  BY ConservedParts DEF SlotsFine
<1>. QED BY <1>1, <1>2, ConservedNext

\* MoveItem(): two slots change places.
LEMMA MoveItemStep ==
  ASSUME ItemsInv, InventoryTypeOK', NEW i \in 1..Capacity, NEW j \in 1..Capacity, MoveItem(i, j)
  PROVE  ItemsConserved'
<1>. USE DEF ItemsInv
<1>1. /\ bag'[i] = bag[j] /\ bag'[j] = bag[i] /\ i # j
      /\ \A q \in (1..Capacity) \ {i, j} : bag'[q] = bag[q]
      /\ UNCHANGED <<equipped, hand, ledger, lost>>
  BY DEF MoveItem, InventoryTypeOK
<1>2. SlotSound(bag'[i]) /\ SlotSound(bag'[j])
  BY <1>1 DEF ItemsConserved
<1>3. \A other \in Items :
        CountIn(bag'[i], other) + CountIn(bag'[j], other) = CountIn(bag[i], other) + CountIn(bag[j], other)
  <2>. SUFFICES ASSUME NEW other \in Items
                PROVE  CountIn(bag[j], other) + CountIn(bag[i], other) = CountIn(bag[i], other) + CountIn(bag[j], other)
    BY <1>1
  <2>1. CountIn(bag[i], other) \in Nat /\ CountIn(bag[j], other) \in Nat
    BY CountInSlot DEF InventoryTypeOK
  <2>. QED BY <2>1
<1>4. ItemsConserved'
  BY <1>1, <1>2, <1>3, TwoSlotsStep, Zenon
<1>. QED BY <1>4

\* SplitStack(): the two stacks add up to the one there was.
LEMMA SplitStackStep ==
  ASSUME ItemsInv, InventoryTypeOK', NEW i \in 1..Capacity, NEW n \in Amounts, SplitStack(i, n)
  PROVE  ItemsConserved'
<1>. USE DEF ItemsInv
<1>1. PICK j \in 1..Capacity : /\ IsEmpty(bag[j])
        /\ bag' = [bag EXCEPT ![j] = Filled(@, bag[i].item, n, bag[i].durability, bag[i].most),
                              ![i].count = @ - n]
  BY DEF SplitStack
<1>. DEFINE c == bag[i].count - n
            taken == Filled(bag[j], bag[i].item, n, bag[i].durability, bag[i].most)
            rest == [bag[i] EXCEPT !.count = c]
<1>2. /\ n \in Nat /\ n # 0 /\ bag[i] \in Slot /\ bag[j] \in Slot /\ SlotSound(bag[i]) /\ ~IsEmpty(bag[i])
      /\ bag[i].count \in Nat /\ bag[i].count > n /\ i # j
  BY <1>1, InventoryAssumption DEF InventoryTypeOK, SplitStack, ItemsConserved, Slot
<1>3. /\ bag'[i] = rest /\ bag'[j] = taken
      /\ \A q \in (1..Capacity) \ {i, j} : bag'[q] = bag[q]
      /\ UNCHANGED <<equipped, hand, ledger, lost>>
  BY <1>1, <1>2 DEF SplitStack, InventoryTypeOK
<1>4. bag[i].item \in Items /\ CountFine(bag[i].item, bag[i].count) /\ DurabilityFine(bag[i])
  BY <1>2, SoundSlot DEF Slot, IsEmpty
<1>5. c \in Nat /\ c > 0 /\ c <= bag[i].count
  BY <1>2
<1>. HIDE DEF c
<1>6. CountFine(bag[i].item, c) /\ CountFine(bag[i].item, n)
  BY <1>2, <1>4, <1>5, FewerFine
<1>7. SlotSound(rest) /\ rest.item = bag[i].item /\ rest.count = c
  BY <1>2, <1>5, <1>6, Recounted
<1>8. SlotSound(taken)
  BY <1>2, <1>4, <1>6, FilledSound DEF DurabilityFine
<1>9. taken.item = bag[i].item /\ taken.count = n
  BY <1>2, FilledFields
<1>. HIDE DEF taken, rest
<1>10. \A other \in Items :
        CountIn(bag'[i], other) + CountIn(bag'[j], other) = CountIn(bag[i], other) + CountIn(bag[j], other)
  <2>. SUFFICES ASSUME NEW other \in Items
                PROVE  CountIn(rest, other) + CountIn(taken, other) = CountIn(bag[i], other) + CountIn(bag[j], other)
    BY <1>3
  <2>1. CountIn(bag[j], other) = 0
    BY <1>1, SomeIsNotEmpty DEF CountIn, IsEmpty
  <2>2. c + n = bag[i].count + 0
    BY <1>2 DEF c
  <2>. QED BY <1>2, <1>7, <1>9, <2>1, <2>2 DEF CountIn
<1>11. ItemsConserved'
  <2>1. SlotSound(bag'[i]) /\ SlotSound(bag'[j])
    BY <1>3, <1>7, <1>8
  <2>. QED BY <1>2, <1>3, <1>10, <2>1, TwoSlotsStep, Zenon
<1>. QED BY <1>11

\* Equip(): bag to body, body to hand, and the rest of a stack is gone.
LEMMA EquipStep ==
  ASSUME ItemsInv, InventoryTypeOK', NEW i \in 1..Capacity, NEW s \in EquipSlots, Equip(i, s)
  PROVE  ItemsConserved'
<1>. USE DEF ItemsInv
<1>. DEFINE worn == [bag[i] EXCEPT !.count = 1]
            it == bag[i].item
            n == bag[i].count
<1>1. /\ bag[i] \in Slot /\ SlotSound(bag[i]) /\ ~IsEmpty(bag[i]) /\ IsEmpty(hand)
      /\ SlotSound(equipped[s]) /\ equipped[s].count <= 1
  BY ConservedParts DEF InventoryTypeOK, Equip, SlotsFine
<1>2. n \in Nat /\ n > 0 /\ it \in Items /\ CountFine(it, n)
  <2>1. CountFine(it, n)
    BY <1>1, SoundSlot
  <2>. QED BY <1>1, <2>1 DEF CountFine, Slot, IsEmpty
<1>3. SlotSound(worn) /\ worn.item = it /\ worn.count = 1
  <2>1. CountFine(it, 1)
    BY <1>2, FewerFine
  <2>. QED BY <1>1, <2>1, Recounted
<1>4. /\ bag'[i] = EmptySlot /\ \A q \in (1..Capacity) \ {i} : bag'[q] = bag[q]
      /\ equipped'[s] = worn /\ \A q \in EquipSlots \ {s} : equipped'[q] = equipped[q]
      /\ hand' = equipped[s] /\ UNCHANGED ledger
      /\ lost' = [lost EXCEPT ![it] = @ + (n - 1)]
  BY DEF Equip, InventoryTypeOK
<1>. HIDE DEF worn
<1>5. Accounted'
  <2>. SUFFICES ASSUME NEW other \in Items PROVE TotalOf(other)' = ledger'[other]
    BY DEF Accounted
  <2>1. /\ CountItem(bag, other) \in Nat /\ CountItem(bag', other) \in Nat
        /\ CountItem(bag', other) = CountItem(bag, other) - CountIn(bag[i], other) + CountIn(bag'[i], other)
    BY <1>4, BagChanged
  <2>2. /\ CountItem(equipped, other) \in Nat /\ CountItem(equipped', other) \in Nat
        /\ CountItem(equipped', other)
             = CountItem(equipped, other) - CountIn(equipped[s], other) + CountIn(equipped'[s], other)
    BY <1>4, EquippedChanged
  <2>3. TotalOf(other)' = CountItem(bag', other) + CountItem(equipped', other) + CountIn(hand', other) + lost'[other]
    BY TotalNext
  <2>4. ledger[other] = CountItem(bag, other) + CountItem(equipped, other) + CountIn(hand, other) + lost[other]
    BY DEF ItemsConserved, TotalOf
  <2>5. CountIn(hand, other) = 0 /\ CountIn(bag'[i], other) = 0
    BY <1>1, <1>4, SomeIsNotEmpty, EmptySlotSound DEF CountIn, IsEmpty
  <2>6. CountIn(equipped[s], other) \in Nat /\ lost[other] \in Nat
    BY CountInSlot DEF InventoryTypeOK
  <2>7. CountIn(hand', other) = CountIn(equipped[s], other)
    BY <1>4
  <2>8. lost'[other] = IF other = it THEN lost[other] + (n - 1) ELSE lost[other]
    BY <1>2, <1>4 DEF InventoryTypeOK
  <2>9. CountIn(bag[i], other) = IF other = it THEN n ELSE 0
    BY DEF CountIn
  <2>10. CountIn(equipped'[s], other) = IF other = it THEN 1 ELSE 0
    BY <1>3, <1>4 DEF CountIn
  <2>. HIDE DEF it, n
  <2>11. CASE other = it
    <3>1. lost'[other] = lost[other] + (n - 1) /\ CountIn(bag[i], other) = n /\ CountIn(equipped'[s], other) = 1
      BY <2>8, <2>9, <2>10, <2>11
    <3>. QED BY <1>2, <1>4, <2>1, <2>2, <2>3, <2>4, <2>5, <2>6, <2>7, <3>1
  <2>12. CASE other # it
    <3>1. lost'[other] = lost[other] /\ CountIn(bag[i], other) = 0 /\ CountIn(equipped'[s], other) = 0
      BY <2>8, <2>9, <2>10, <2>12
    <3>. QED BY <1>4, <2>1, <2>2, <2>3, <2>4, <2>5, <2>6, <2>7, <3>1
  <2>. QED BY <2>11, <2>12
<1>6. SlotsFine'
  <2>1. SlotsFine
    BY ConservedParts
  <2>2. \A q \in 1..Capacity : SlotSound(bag'[q])
    BY <1>4, <2>1, EmptySlotSound DEF SlotsFine
  <2>3. \A q \in EquipSlots : SlotSound(equipped'[q]) /\ equipped'[q].count <= 1
    BY <1>3, <1>4, <2>1 DEF SlotsFine
  <2>. QED BY <1>1, <1>4, <2>2, <2>3 DEF SlotsFine
<1>. QED BY <1>5, <1>6, ConservedNext

\* Equip() to no slot: out of the bag, and gone.
LEMMA EquipNowhereStep ==
  ASSUME ItemsInv, InventoryTypeOK', NEW i \in 1..Capacity, EquipNowhere(i)
  PROVE  ItemsConserved'
<1>. USE DEF ItemsInv
<1>. DEFINE it == bag[i].item
            n == bag[i].count
<1>2. n \in Nat /\ it \in Items
  BY DEF EquipNowhere, IsEmpty, InventoryTypeOK, Slot
<1>4. /\ bag'[i] = EmptySlot /\ \A q \in (1..Capacity) \ {i} : bag'[q] = bag[q]
      /\ UNCHANGED <<equipped, hand, ledger>> /\ lost' = [lost EXCEPT ![it] = @ + n]
  BY DEF EquipNowhere, InventoryTypeOK
<1>5. Accounted'
  <2>. SUFFICES ASSUME NEW other \in Items PROVE TotalOf(other)' = ledger'[other]
    BY DEF Accounted
  <2>1. /\ CountItem(bag, other) \in Nat /\ CountItem(bag', other) \in Nat
        /\ CountItem(bag', other) = CountItem(bag, other) - CountIn(bag[i], other) + CountIn(bag'[i], other)
    BY <1>4, BagChanged
  <2>2. CountItem(equipped, other) \in Nat /\ CountIn(hand, other) \in Nat /\ lost[other] \in Nat
    BY CountsNatural
  <2>3. TotalOf(other)' = CountItem(bag', other) + CountItem(equipped, other) + CountIn(hand, other) + lost'[other]
    BY <1>4, TotalNext
  <2>4. ledger[other] = CountItem(bag, other) + CountItem(equipped, other) + CountIn(hand, other) + lost[other]
    BY DEF ItemsConserved, TotalOf
  <2>5. CountIn(bag'[i], other) = 0
    BY <1>4, SomeIsNotEmpty, EmptySlotSound DEF CountIn
  <2>8. lost'[other] = IF other = it THEN lost[other] + n ELSE lost[other]
    BY <1>2, <1>4 DEF InventoryTypeOK
  <2>9. CountIn(bag[i], other) = IF other = it THEN n ELSE 0
    BY DEF CountIn
  <2>. HIDE DEF it, n
  <2>. QED BY <1>2, <1>4, <2>1, <2>2, <2>3, <2>4, <2>5, <2>8, <2>9
<1>6. SlotsFine'
  BY <1>4, ConservedParts, EmptySlotSound DEF SlotsFine
<1>. QED BY <1>5, <1>6, ConservedNext

\* What is held goes into an empty slot as it is ...
LEMMA PutDownStep ==
  ASSUME ItemsInv, InventoryTypeOK', NEW j \in 1..Capacity, IsEmpty(bag[j]),
         bag' = [bag EXCEPT ![j] = hand], hand' = EmptySlot, UNCHANGED <<equipped, ledger, lost>>
  PROVE  ItemsConserved'
<1>. USE DEF ItemsInv
<1>4. bag'[j] = hand /\ \A q \in (1..Capacity) \ {j} : bag'[q] = bag[q]
  BY DEF InventoryTypeOK
<1>5. Accounted'
  <2>. SUFFICES ASSUME NEW other \in Items PROVE TotalOf(other)' = ledger'[other]
    BY DEF Accounted
  <2>1. /\ CountItem(bag, other) \in Nat /\ CountItem(bag', other) \in Nat
        /\ CountItem(bag', other) = CountItem(bag, other) - CountIn(bag[j], other) + CountIn(bag'[j], other)
    BY <1>4, BagChanged
  <2>2. CountItem(equipped, other) \in Nat /\ CountIn(hand, other) \in Nat /\ lost[other] \in Nat
    BY CountsNatural
  <2>3. TotalOf(other)' = CountItem(bag', other) + CountItem(equipped, other) + CountIn(hand', other) + lost[other]
    BY TotalNext
  <2>4. ledger[other] = CountItem(bag, other) + CountItem(equipped, other) + CountIn(hand, other) + lost[other]
    BY DEF ItemsConserved, TotalOf
  <2>5. CountIn(bag[j], other) = 0 /\ CountIn(hand', other) = 0
    BY SomeIsNotEmpty, EmptySlotSound DEF CountIn, IsEmpty
  <2>6. CountIn(bag'[j], other) = CountIn(hand, other)
    BY <1>4
  <2>. QED BY <2>1, <2>2, <2>3, <2>4, <2>5, <2>6
<1>6. SlotsFine'
  BY <1>4, ConservedParts, EmptySlotSound DEF SlotsFine
<1>. QED BY <1>5, <1>6, ConservedNext

\* ... or is gone when there is none.
LEMMA PutAwayStep ==
  ASSUME ItemsInv, InventoryTypeOK', ~IsEmpty(hand), hand' = EmptySlot,
         lost' = [lost EXCEPT ![hand.item] = @ + hand.count], UNCHANGED <<bag, equipped, ledger>>
  PROVE  ItemsConserved'
<1>. USE DEF ItemsInv
<1>. DEFINE it == hand.item
            n == hand.count
<1>2. n \in Nat /\ it \in Items
  BY DEF IsEmpty, InventoryTypeOK, Slot
<1>5. Accounted'
  <2>. SUFFICES ASSUME NEW other \in Items PROVE TotalOf(other)' = ledger'[other]
    BY DEF Accounted
  <2>2. CountItem(bag, other) \in Nat /\ CountItem(equipped, other) \in Nat /\ lost[other] \in Nat
    BY CountsNatural
  <2>3. TotalOf(other)' = CountItem(bag, other) + CountItem(equipped, other) + CountIn(hand', other) + lost'[other]
    BY TotalNext
  <2>4. ledger[other] = CountItem(bag, other) + CountItem(equipped, other) + CountIn(hand, other) + lost[other]
    BY DEF ItemsConserved, TotalOf
  <2>5. CountIn(hand', other) = 0
    BY SomeIsNotEmpty, EmptySlotSound DEF CountIn
  <2>8. lost'[other] = IF other = it THEN lost[other] + n ELSE lost[other]
    BY <1>2 DEF InventoryTypeOK
  <2>9. CountIn(hand, other) = IF other = it THEN n ELSE 0
    BY DEF CountIn
  <2>. HIDE DEF it, n
  <2>. QED BY <1>2, <2>2, <2>3, <2>4, <2>5, <2>8, <2>9
<1>6. SlotsFine'
  BY ConservedParts, EmptySlotSound DEF SlotsFine
<1>. QED BY <1>5, <1>6, ConservedNext

\* Unequip(): body to hand.
LEMMA UnequipStep ==
  ASSUME ItemsInv, InventoryTypeOK', NEW s \in EquipSlots, Unequip(s)
  PROVE  ItemsConserved'
<1>. USE DEF ItemsInv
<1>1. /\ IsEmpty(hand) /\ SlotSound(equipped[s])
  BY ConservedParts DEF Unequip, SlotsFine
<1>4. /\ equipped'[s] = EmptySlot /\ \A q \in EquipSlots \ {s} : equipped'[q] = equipped[q]
      /\ hand' = equipped[s] /\ UNCHANGED <<bag, ledger, lost>>
  BY DEF Unequip, InventoryTypeOK
<1>5. Accounted'
  <2>. SUFFICES ASSUME NEW other \in Items PROVE TotalOf(other)' = ledger'[other]
    BY DEF Accounted
  <2>1. CountItem(bag, other) \in Nat /\ lost[other] \in Nat
    BY CountsNatural
  <2>2. /\ CountItem(equipped, other) \in Nat /\ CountItem(equipped', other) \in Nat
        /\ CountItem(equipped', other)
             = CountItem(equipped, other) - CountIn(equipped[s], other) + CountIn(equipped'[s], other)
    BY <1>4, EquippedChanged
  <2>3. TotalOf(other)' = CountItem(bag, other) + CountItem(equipped', other) + CountIn(hand', other) + lost'[other]
    BY <1>4, TotalNext
  <2>4. ledger[other] = CountItem(bag, other) + CountItem(equipped, other) + CountIn(hand, other) + lost[other]
    BY DEF ItemsConserved, TotalOf
  <2>5. CountIn(hand, other) = 0 /\ CountIn(equipped'[s], other) = 0
    BY <1>1, <1>4, SomeIsNotEmpty, EmptySlotSound DEF CountIn, IsEmpty
  <2>6. CountIn(equipped[s], other) \in Nat
    BY CountInSlot DEF InventoryTypeOK
  <2>7. CountIn(hand', other) = CountIn(equipped[s], other)
    BY <1>4
  <2>. QED BY <1>4, <2>1, <2>2, <2>3, <2>4, <2>5, <2>6, <2>7
<1>6. SlotsFine'
  <2>1. SlotsFine
    BY ConservedParts
  <2>2. \A q \in EquipSlots : SlotSound(equipped'[q]) /\ equipped'[q].count <= 1
    BY <1>4, <2>1, EmptySlotSound DEF SlotsFine, EmptySlot
  <2>. QED BY <1>1, <1>4, <2>1, <2>2 DEF SlotsFine
<1>. QED BY <1>5, <1>6, ConservedNext

\* The slots keep what they hold and how much of it.
LEMMA SlotsKept ==
  ASSUME InventoryTypeOK, InventoryTypeOK', ItemsConserved,
         \A i \in 1..Capacity : SlotSound(bag'[i]) /\ bag'[i].item = bag[i].item /\ bag'[i].count = bag[i].count,
         \A s \in EquipSlots : /\ SlotSound(equipped'[s]) /\ equipped'[s].item = equipped[s].item
                               /\ equipped'[s].count = equipped[s].count,
         UNCHANGED <<hand, ledger, lost>>
  PROVE  ItemsConserved'
<1>1. Accounted'
  <2>. SUFFICES ASSUME NEW other \in Items PROVE TotalOf(other)' = ledger'[other]
    BY DEF Accounted
  <2>1. CountItem(bag', other) = CountItem(bag, other)
    <3>1. \A q \in 1..Capacity : CountIn(bag'[q], other) = CountIn(bag[q], other)
      BY DEF CountIn
    <3>2. bag \in [1..Capacity -> Slot] /\ bag' \in [1..Capacity -> Slot]
      BY DEF InventoryTypeOK
    <3>. DEFINE D == 1..Capacity
    <3>. HIDE DEF D
    <3>3. bag \in [D -> Slot] /\ bag' \in [D -> Slot] /\ \A q \in D : CountIn(bag'[q], other) = CountIn(bag[q], other)
      BY <3>1, <3>2 DEF D
    <3>. QED BY <3>3, SameCounts
  <2>2. CountItem(equipped', other) = CountItem(equipped, other)
    <3>1. \A q \in EquipSlots : CountIn(equipped'[q], other) = CountIn(equipped[q], other)
      BY DEF CountIn
    <3>2. equipped \in [EquipSlots -> Slot] /\ equipped' \in [EquipSlots -> Slot]
      BY DEF InventoryTypeOK
    <3>. QED BY <3>1, <3>2, SameCounts
  <2>3. TotalOf(other)' = CountItem(bag', other) + CountItem(equipped', other) + CountIn(hand, other) + lost'[other]
    BY TotalNext
  <2>. QED BY <2>1, <2>2, <2>3 DEF ItemsConserved, TotalOf
<1>2. SlotsFine'
  BY ConservedParts DEF SlotsFine, IsEmpty
<1>. QED BY <1>1, <1>2, ConservedNext

\* An enchantment changes nothing else ...
LEMMA EnchantStep ==
  ASSUME ItemsInv, InventoryTypeOK', NEW s \in EquipSlots, NEW time \in EnchantTimes, Enchant(s, time)
  PROVE  ItemsConserved'
<1>. USE DEF ItemsInv
<1>. DEFINE e == equipped[s].enchants \cup {time}
<1>1. equipped[s] \in Slot /\ SlotSound(equipped[s]) /\ ~IsEmpty(equipped[s])
  BY DEF InventoryTypeOK, ItemsConserved, Enchant
<1>2. /\ equipped'[s] = [equipped[s] EXCEPT !.enchants = e]
      /\ \A q \in EquipSlots \ {s} : equipped'[q] = equipped[q]
      /\ UNCHANGED <<bag, hand, ledger, lost>>
  BY DEF Enchant, InventoryTypeOK
<1>. HIDE DEF e
<1>3. /\ SlotSound(equipped'[s]) /\ equipped'[s].item = equipped[s].item
      /\ equipped'[s].count = equipped[s].count
  BY <1>1, <1>2, Reenchanted
<1>4. \A q \in EquipSlots : /\ SlotSound(equipped'[q]) /\ equipped'[q].item = equipped[q].item
                            /\ equipped'[q].count = equipped[q].count
  BY <1>2, <1>3 DEF ItemsConserved
<1>5. \A i \in 1..Capacity : SlotSound(bag'[i]) /\ bag'[i].item = bag[i].item /\ bag'[i].count = bag[i].count
  BY <1>2 DEF ItemsConserved
<1>6. ItemsConserved'
  BY <1>2, <1>4, <1>5, SlotsKept
<1>. QED BY <1>6

\* ... nor does wear ...
LEMMA WearOutStep ==
  ASSUME ItemsInv, InventoryTypeOK', WearOut
  PROVE  ItemsConserved'
<1>. USE DEF ItemsInv
<1>. DEFINE e == calling.next
            s == wear[e].slot
            worn == ReduceDurability(equipped[s], wear[e].amount)
<1>1. wear \in Seq(Event) /\ e \in 1..Len(wear)
  BY DEF WearOut, InventoryTypeOK, Event
<1>2. wear[e] \in Event
  BY <1>1
<1>3. s \in EquipSlots /\ wear[e].amount \in Nat
  BY <1>2, InventoryAssumption DEF Event
<1>4. equipped[s] \in Slot /\ SlotSound(equipped[s])
  BY <1>3 DEF InventoryTypeOK, ItemsConserved
<1>5. SlotSound(worn) /\ worn.item = equipped[s].item /\ worn.count = equipped[s].count
  BY <1>3, <1>4, ReducedSound
<1>6. /\ equipped' = IF wear[e].processed THEN equipped ELSE [equipped EXCEPT ![s] = worn]
      /\ UNCHANGED <<bag, hand, ledger, lost>>
  BY DEF WearOut, InventoryTypeOK
<1>. HIDE DEF worn, s
<1>7. \A q \in EquipSlots : /\ SlotSound(equipped'[q]) /\ equipped'[q].item = equipped[q].item
                            /\ equipped'[q].count = equipped[q].count
  <2>1. CASE wear[e].processed
    BY <1>6, <2>1 DEF ItemsConserved
  <2>2. CASE ~wear[e].processed
    <3>1. equipped' = [equipped EXCEPT ![s] = worn]
      BY <1>6, <2>2
    <3>. QED BY <1>3, <1>5, <3>1 DEF ItemsConserved, InventoryTypeOK
  <2>. QED BY <2>1, <2>2
<1>8. \A i \in 1..Capacity : SlotSound(bag'[i]) /\ bag'[i].item = bag[i].item /\ bag'[i].count = bag[i].count
  BY <1>6 DEF ItemsConserved
<1>9. ItemsConserved'
  BY <1>6, <1>7, <1>8, SlotsKept
<1>. QED BY <1>9

\* ... nor time.
LEMMA UpdateEnchantsStep ==
  ASSUME ItemsInv, InventoryTypeOK', UpdateEnchants(1)
  PROVE  ItemsConserved'
<1>. USE DEF ItemsInv
<1>1. ASSUME NEW slot \in Slot, SlotSound(slot)
      PROVE  /\ SlotSound(Aged(slot, 1)) /\ Aged(slot, 1).item = slot.item
             /\ Aged(slot, 1).count = slot.count
  <2>. DEFINE e == {IF t = 0 THEN 0 ELSE t - 1 : t \in {u \in slot.enchants : u = 0 \/ u > 1}}
  <2>1. CASE IsEmpty(slot)
    BY <1>1, <2>1 DEF Aged
  <2>2. CASE ~IsEmpty(slot)
    <3>1. Aged(slot, 1) = [slot EXCEPT !.enchants = e]
      BY <2>2 DEF Aged
    <3>. HIDE DEF e
    <3>2. LET new == [slot EXCEPT !.enchants = e]
          IN  SlotSound(new) /\ new.item = slot.item /\ new.count = slot.count
      BY <1>1, <2>2, Reenchanted, Zenon
    <3>. QED BY <3>1, <3>2
  <2>. QED BY <2>1, <2>2
<1>2. /\ \A i \in 1..Capacity : bag'[i] = Aged(bag[i], 1)
      /\ \A s \in EquipSlots : equipped'[s] = Aged(equipped[s], 1)
      /\ UNCHANGED <<hand, ledger, lost>>
  BY DEF UpdateEnchants
<1>3. \A i \in 1..Capacity : SlotSound(bag'[i]) /\ bag'[i].item = bag[i].item /\ bag'[i].count = bag[i].count
  <2>. SUFFICES ASSUME NEW i \in 1..Capacity
                PROVE  SlotSound(bag'[i]) /\ bag'[i].item = bag[i].item /\ bag'[i].count = bag[i].count
    OBVIOUS
  <2>. DEFINE slot == bag[i]
  <2>1. slot \in Slot /\ SlotSound(slot) /\ bag'[i] = Aged(slot, 1)
    BY <1>2 DEF ItemsConserved, InventoryTypeOK
  <2>. HIDE DEF slot
  <2>2. SlotSound(bag'[i]) /\ bag'[i].item = slot.item /\ bag'[i].count = slot.count
    BY <1>1, <2>1
  <2>. QED BY <2>2 DEF slot
<1>4. \A s \in EquipSlots : /\ SlotSound(equipped'[s]) /\ equipped'[s].item = equipped[s].item
                            /\ equipped'[s].count = equipped[s].count
  BY <1>1, <1>2 DEF ItemsConserved, InventoryTypeOK
<1>5. ItemsConserved'
  BY <1>2, <1>3, <1>4, SlotsKept
<1>. QED BY <1>5

\* An empty inventory satisfies the invariant ...
LEMMA ItemsInit == InventoryInit => ItemsInv
<1>. SUFFICES ASSUME InventoryInit PROVE ItemsInv
  OBVIOUS
<1>1. InventoryTypeOK
  BY InventoryTypeInit
<1>2. Accounted
  <2>. SUFFICES ASSUME NEW item \in Items PROVE TotalOf(item) = ledger[item]
    BY DEF Accounted
  <2>1. CountIn(EmptySlot, item) = 0
    BY EmptySlotSound, SomeIsNotEmpty DEF CountIn
  <2>2. ASSUME NEW D PROVE CountItem([p \in D |-> EmptySlot], item) = 0
    <3>. DEFINE f == [p \in D |-> EmptySlot]
    <3>1. DOMAIN f = D /\ \A p \in D : CountIn(f[p], item) = 0
      BY <2>1
    <3>. HIDE DEF f
    <3>2. \A p \in D : {p} \X (1..CountIn(f[p], item)) = {}
      BY <3>1
    <3>3. UNION {{p} \X (1..CountIn(f[p], item)) : p \in DOMAIN f} = {}
      BY <3>1, <3>2
    <3>4. CountItem(f, item) = 0
      BY <3>3, FS_EmptySet DEF CountItem
    <3>. QED BY <3>4 DEF f
  <2>3. CountItem(bag, item) = 0 /\ CountItem(equipped, item) = 0
    BY <2>2 DEF InventoryInit
  <2>4. CountIn(hand, item) = 0 /\ lost[item] = 0 /\ ledger[item] = 0
    BY <2>1 DEF InventoryInit
  <2>. QED BY <2>3, <2>4 DEF TotalOf
<1>3. SlotsFine
  <2>1. EmptySlot.count <= 1
    BY DEF EmptySlot
  <2>. QED BY <2>1, EmptySlotSound DEF InventoryInit, SlotsFine
<1>. QED BY <1>1, <1>2, <1>3, ConservedParts DEF ItemsInv

\* ... and every step keeps it.
LEMMA ItemsStep == ItemsInv /\ [InventoryNext]_bagVars => ItemsInv'
<1>. SUFFICES ASSUME ItemsInv, [InventoryNext]_bagVars PROVE ItemsInv'
  OBVIOUS
<1>0. InventoryTypeOK'
  BY InventoryTypeStep DEF ItemsInv
<1>. DEFINE Kept == ItemsConserved'
<1>1. ASSUME UNCHANGED bagVars PROVE Kept
  BY <1>1, NothingMoved DEF ItemsInv, bagVars
<1>2. ASSUME NEW item \in Items, NEW n \in Amounts, AddItem(item, n) PROVE Kept
  BY <1>2, NothingMoved DEF ItemsInv, AddItem
<1>3. ASSUME PutBack PROVE Kept
  <2>1. ASSUME NEW j \in 1..Capacity, IsEmpty(bag[j]), bag' = [bag EXCEPT ![j] = hand], UNCHANGED lost
        PROVE  Kept
    BY <1>0, <1>3, <2>1, PutDownStep DEF PutBack
  <2>2. ASSUME UNCHANGED bag, lost' = [lost EXCEPT ![hand.item] = @ + hand.count] PROVE Kept
    BY <1>0, <1>3, <2>2, PutAwayStep DEF PutBack
  <2>. HIDE DEF Kept
  <2>. QED BY <1>3, <2>1, <2>2 DEF PutBack
<1>4. ASSUME StackOnto PROVE Kept
  BY <1>0, <1>4, StackOntoStep
<1>5. ASSUME FillEmpty PROVE Kept
  BY <1>0, <1>5, FillEmptyStep
<1>6. ASSUME FinishAdding PROVE Kept
  BY <1>6, NothingMoved DEF ItemsInv, FinishAdding
<1>7. ASSUME NEW i \in 1..Capacity, NEW n \in Amounts, RemoveItem(i, n) PROVE Kept
  BY <1>0, <1>7, RemoveItemStep
<1>8. ASSUME NEW i \in 1..Capacity, NEW n \in Amounts, SplitStack(i, n) PROVE Kept
  BY <1>0, <1>8, SplitStackStep
<1>9. ASSUME NEW i \in 1..Capacity, NEW j \in 1..Capacity, MoveItem(i, j) PROVE Kept
  BY <1>0, <1>9, MoveItemStep
<1>10. ASSUME NEW i \in 1..Capacity, NEW s \in EquipSlots, Equip(i, s) PROVE Kept
  BY <1>0, <1>10, EquipStep
<1>19. ASSUME NEW i \in 1..Capacity, EquipNowhere(i) PROVE Kept
  BY <1>0, <1>19, EquipNowhereStep
<1>11. ASSUME NEW s \in EquipSlots, Unequip(s) PROVE Kept
  BY <1>0, <1>11, UnequipStep
<1>12. ASSUME NEW s \in EquipSlots, NEW time \in EnchantTimes, Enchant(s, time) PROVE Kept
  BY <1>0, <1>12, EnchantStep
<1>13. ASSUME NEW s \in EquipSlots, NEW amount \in Amounts, RaiseWear(s, amount) PROVE Kept
  BY <1>13, NothingMoved DEF ItemsInv, RaiseWear
<1>14. ASSUME DropWear PROVE Kept
  BY <1>14, NothingMoved DEF ItemsInv, DropWear
<1>15. ASSUME InventoryTick PROVE Kept
  BY <1>15, NothingMoved DEF ItemsInv, InventoryTick
<1>16. ASSUME WearOut PROVE Kept
  BY <1>0, <1>16, WearOutStep
<1>17. ASSUME UpdateEnchants(1) PROVE Kept
  BY <1>0, <1>17, UpdateEnchantsStep
<1>18. ASSUME NEW item \in Stackables, NEW size \in StackSizes, RegisterItem(item, size) PROVE Kept
  BY <1>18, NothingMoved DEF ItemsInv, RegisterItem
<1>20. Kept
  <2>. HIDE DEF Kept
  <2>. QED BY <1>1, <1>2, <1>3, <1>4, <1>5, <1>6, <1>7, <1>8, <1>9, <1>10, <1>11, <1>12, <1>13, <1>14,
            <1>15, <1>16, <1>17, <1>18, <1>19 DEF InventoryNext, AddNext
<1>. QED BY <1>0, <1>20 DEF ItemsInv

\* Type correctness: every slot is a slot, counts are natural numbers, and AddItem() and
\* Execute() are at a slot or an event that exists.
THEOREM InventoryTypeCorrect == InventorySpec => []InventoryTypeOK
<1>1. InventorySpec => []ItemsInv
  BY ItemsInit, ItemsStep, PTL DEF InventorySpec
<1>2. ItemsInv => InventoryTypeOK
  BY DEF ItemsInv
<1>. QED BY <1>1, <1>2, PTL

\* No sequence of calls of AddItem(), RemoveItem(), MoveItem(), SplitStack(), Equip() and
\* Unequip(), with templates replaced between them, makes an item, overfills a stack, or breaks
\* anything but gear, and none loses an item but where the code drops one: the rest of a stack
\* that is equipped, an item equipped to no slot, one put back into a full bag.
THEOREM ItemsStayConserved == InventorySpec => []ItemsConserved
<1>1. InventorySpec => []ItemsInv
  BY ItemsInit, ItemsStep, PTL DEF InventorySpec
<1>2. ItemsInv => ItemsConserved
  BY DEF ItemsInv
<1>. QED BY <1>1, <1>2, PTL
=============================================================================
