------------------------------ MODULE GameServer ------------------------------
(***************************************************************************)
(* GameServer of src/services/game/game_server.cpp with its map instances  *)
(* (map_instance_manager.cpp).  Players are added, removed and transferred *)
(* under playerMutex, instances are created and destroyed without it, and  *)
(* the instance manager has a mutex of its own: an operation is a sequence *)
(* of steps, one for each access the others can see.  The entity tables    *)
(* are read and written without a lock; each access is taken to be atomic  *)
(* here.                                                                   *)
(*                                                                         *)
(* An instance id is used once, and has one map entity; a player has one   *)
(* entity, which names the map entity it is a member of by the instance.   *)
(***************************************************************************)
EXTENDS Naturals, FiniteSets

CONSTANTS Threads, Players,
          InstanceIds,       \* bound: 1..n, handed out in this order
          MaxInstances,      \* GameServerConfig
          MaxPlayers         \* of an instance

ASSUME ServerAssumption ==
  /\ MaxInstances \in Nat /\ MaxPlayers \in Nat
  /\ InstanceIds = 1..Cardinality(InstanceIds)
  /\ IsFiniteSet(InstanceIds) /\ IsFiniteSet(Threads) /\ IsFiniteSet(Players)

VARIABLES instances,         \* MapInstanceManager::instances_
          nextInstance,      \* nextInstanceId_
          mapped,            \* instanceEntities: instances with a map entity
          playerSessions,    \* the instance of each player, or 0
          membership,        \* the map entity of a player's entity, or 0 without entity
          threadAt,          \* where each thread is
          dropped            \* ghost: instances destroyed before they were mapped

worldVars == <<instances, nextInstance, mapped, playerSessions, membership, threadAt, dropped>>

IdleThread == [op |-> "idle", instance |-> 0, player |-> CHOOSE p \in Players : TRUE]

WorldInit ==
  /\ instances = [i \in InstanceIds |-> [state |-> "None", count |-> 0]]
  /\ nextInstance = 1 /\ mapped = {}
  /\ playerSessions = [p \in Players |-> 0] /\ membership = [p \in Players |-> 0]
  /\ threadAt = [t \in Threads |-> IdleThread]
  /\ dropped = {}

InstanceExists(i) == instances[i].state # "None"
ThreadIdle(t) == threadAt[t].op = "idle"
ThreadGoto(t, op, i, p) == threadAt' = [threadAt EXCEPT ![t] = [op |-> op, instance |-> i,
                                                                 player |-> p]]
ThreadLeave(t) == threadAt' = [threadAt EXCEPT ![t] = IdleThread]

\* playerMutex is held by a thread inside one of the player operations.
PlayerOps == {"add", "spawn", "remove", "slot", "release", "move"}
PlayerLockFree == \A t \in Threads : threadAt[t].op \notin PlayerOps

(***************************************************************************)
(* The instance manager, one access under its mutex each.                  *)
(***************************************************************************)

\* addPlayer(): the instance is there, active and not full.
HasRoom(i) == instances[i].state = "Active" /\ instances[i].count < MaxPlayers
TakeSlot(i) == instances' = [instances EXCEPT ![i].count = @ + 1]

\* removePlayer().
GiveSlot(i) == instances' = [instances EXCEPT ![i].count =
                              IF InstanceExists(i) /\ @ > 0 THEN @ - 1 ELSE @]

\* setInstanceState(): from Active to Draining to ShuttingDown.
SetInstanceState(i) ==
  /\ instances[i].state \in {"Active", "Draining"}
  /\ instances' = [instances EXCEPT ![i].state =
                    IF @ = "Active" THEN "Draining" ELSE "ShuttingDown"]
  /\ UNCHANGED <<nextInstance, mapped, playerSessions, membership, threadAt, dropped>>

(***************************************************************************)
(* createInstance() and destroyInstance().                                 *)
(***************************************************************************)

CreateInstance(t) ==
  /\ ThreadIdle(t) /\ nextInstance \in InstanceIds
  /\ Cardinality({i \in InstanceIds : InstanceExists(i)}) < MaxInstances
  /\ instances' = [instances EXCEPT ![nextInstance] = [state |-> "Active", count |-> 0]]
  /\ nextInstance' = nextInstance + 1
  /\ ThreadGoto(t, "map", nextInstance, IdleThread.player)
  /\ UNCHANGED <<mapped, playerSessions, membership, dropped>>

\* The map entity, and the entry that leads to it.
MapInstance(t) ==
  /\ threadAt[t].op = "map"
  /\ mapped' = mapped \cup {threadAt[t].instance}
  /\ ThreadLeave(t)
  /\ UNCHANGED <<instances, nextInstance, playerSessions, membership, dropped>>

\* The manager forgets an instance without players ...
DestroyInstance(t, i) ==
  /\ ThreadIdle(t) /\ InstanceExists(i) /\ instances[i].count = 0
  /\ instances' = [instances EXCEPT ![i] = [state |-> "None", count |-> 0]]
  /\ dropped' = IF i \in mapped THEN dropped ELSE dropped \cup {i}
  /\ ThreadGoto(t, "unmap", i, IdleThread.player)
  /\ UNCHANGED <<nextInstance, mapped, playerSessions, membership>>

\* ... and then its map entity goes.
UnmapInstance(t) ==
  /\ threadAt[t].op = "unmap"
  /\ mapped' = mapped \ {threadAt[t].instance}
  /\ ThreadLeave(t)
  /\ UNCHANGED <<instances, nextInstance, playerSessions, membership, dropped>>

(***************************************************************************)
(* Players.                                                                *)
(***************************************************************************)

\* addPlayer(): a slot in the instance first ...
AddPlayer(t, p, i) ==
  /\ ThreadIdle(t) /\ PlayerLockFree
  /\ playerSessions[p] = 0 /\ HasRoom(i)
  /\ TakeSlot(i) /\ ThreadGoto(t, "add", i, p)
  /\ UNCHANGED <<nextInstance, mapped, playerSessions, membership, dropped>>

\* ... then its map entity, or the slot back ...
AddFind(t) ==
  LET i == threadAt[t].instance IN
  /\ threadAt[t].op = "add"
  /\ IF i \in mapped THEN ThreadGoto(t, "spawn", i, threadAt[t].player) /\ UNCHANGED instances
     ELSE GiveSlot(i) /\ ThreadLeave(t)
  /\ UNCHANGED <<nextInstance, mapped, playerSessions, membership, dropped>>

\* ... and the player's entity, a member of the map found before.  The session that
\* follows is seen only under playerMutex, which this thread holds until it has returned.
AddSpawn(t) ==
  LET i == threadAt[t].instance p == threadAt[t].player IN
  /\ threadAt[t].op = "spawn"
  /\ membership' = [membership EXCEPT ![p] = i]
  /\ playerSessions' = [playerSessions EXCEPT ![p] = i]
  /\ ThreadLeave(t)
  /\ UNCHANGED <<instances, nextInstance, mapped, dropped>>

\* removePlayer(): session and slot, then the entity.
RemovePlayer(t, p) ==
  /\ ThreadIdle(t) /\ PlayerLockFree /\ playerSessions[p] # 0
  /\ playerSessions' = [playerSessions EXCEPT ![p] = 0]
  /\ GiveSlot(playerSessions[p])
  /\ ThreadGoto(t, "remove", 0, p)
  /\ UNCHANGED <<nextInstance, mapped, membership, dropped>>

FinishRemove(t) ==
  /\ threadAt[t].op = "remove"
  /\ membership' = [membership EXCEPT ![threadAt[t].player] = 0]
  /\ ThreadLeave(t)
  /\ UNCHANGED <<instances, nextInstance, mapped, playerSessions, dropped>>

\* transferPlayer(): a slot in the target ...
TransferPlayer(t, p, i) ==
  /\ ThreadIdle(t) /\ PlayerLockFree
  /\ playerSessions[p] \notin {0, i} /\ HasRoom(i)
  /\ TakeSlot(i) /\ ThreadGoto(t, "slot", i, p)
  /\ UNCHANGED <<nextInstance, mapped, playerSessions, membership, dropped>>

\* Mutant of the error path: the target's slot is kept.
TransferFindKeeps(t) ==
  LET i == threadAt[t].instance IN
  /\ threadAt[t].op = "slot"
  /\ IF i \in mapped THEN ThreadGoto(t, "release", i, threadAt[t].player)
     ELSE ThreadLeave(t)
  /\ UNCHANGED <<instances, nextInstance, mapped, playerSessions, membership, dropped>>

\* ... its map entity, or the slot back ...
TransferFind(t) ==
  LET i == threadAt[t].instance IN
  /\ threadAt[t].op = "slot"
  /\ IF i \in mapped THEN ThreadGoto(t, "release", i, threadAt[t].player) /\ UNCHANGED instances
     ELSE GiveSlot(i) /\ ThreadLeave(t)
  /\ UNCHANGED <<nextInstance, mapped, playerSessions, membership, dropped>>

\* ... the old slot back ...
TransferRelease(t) ==
  /\ threadAt[t].op = "release"
  /\ GiveSlot(playerSessions[threadAt[t].player])
  /\ threadAt' = [threadAt EXCEPT ![t].op = "move"]
  /\ UNCHANGED <<nextInstance, mapped, playerSessions, membership, dropped>>

\* ... and the player moves.
TransferMove(t) ==
  LET i == threadAt[t].instance p == threadAt[t].player IN
  /\ threadAt[t].op = "move"
  /\ membership' = [membership EXCEPT ![p] = i]
  /\ playerSessions' = [playerSessions EXCEPT ![p] = i]
  /\ ThreadLeave(t)
  /\ UNCHANGED <<instances, nextInstance, mapped, dropped>>

\* The bound: every instance id has been used.
IdsUsed == nextInstance \notin InstanceIds /\ UNCHANGED worldVars

WorldNext ==
  \/ IdsUsed
  \/ \E i \in InstanceIds : SetInstanceState(i)
  \/ \E t \in Threads :
       \/ CreateInstance(t) \/ MapInstance(t) \/ UnmapInstance(t)
       \/ AddFind(t) \/ AddSpawn(t) \/ FinishRemove(t)
       \/ TransferFind(t) \/ TransferRelease(t) \/ TransferMove(t)
       \/ \E i \in InstanceIds : DestroyInstance(t, i)
       \/ \E p \in Players : RemovePlayer(t, p)
       \/ \E p \in Players, i \in InstanceIds : AddPlayer(t, p, i) \/ TransferPlayer(t, p, i)

WorldSpec == WorldInit /\ [][WorldNext]_worldVars

(***************************************************************************)
(* Properties.                                                             *)
(***************************************************************************)

MapInstanceRecord == [state : {"None", "Active", "Draining", "ShuttingDown"}, count : Nat]

\* A thread in an operation has the instance and, under playerMutex, the player it is for.
ThreadOK(th) ==
  /\ DOMAIN th = {"op", "instance", "player"}
  /\ th.op \in {"idle", "map", "unmap"} \cup PlayerOps
  /\ th.op \notin {"idle", "remove"} => th.instance \in InstanceIds
  /\ th.op \in PlayerOps => th.player \in Players

WorldTypeOK ==
  /\ instances \in [InstanceIds -> MapInstanceRecord] /\ nextInstance \in Nat \ {0}
  /\ mapped \subseteq InstanceIds /\ dropped \subseteq InstanceIds
  /\ playerSessions \in [Players -> InstanceIds \cup {0}]
  /\ membership \in [Players -> InstanceIds \cup {0}]
  /\ DOMAIN threadAt = Threads /\ \A t \in Threads : ThreadOK(threadAt[t])

In(i) == Cardinality({p \in Players : playerSessions[p] = i})
\* Slots taken for a player who is not there yet, and given back for one who still is.
Ahead(i) == Cardinality({t \in Threads : threadAt[t].op \in {"add", "spawn", "slot", "release", "move"}
                                         /\ threadAt[t].instance = i})
Behind(i) == Cardinality({t \in Threads : threadAt[t].op = "move"
                                          /\ playerSessions[threadAt[t].player] = i})

\* The count of an instance is the number of its players: no path of an operation, the
\* failing ones included, loses a slot or gives one back twice.
SlotsAccounted ==
  \A i \in InstanceIds :
    InstanceExists(i) => instances[i].count + Behind(i) = In(i) + Ahead(i)

\* A player's instance is there for as long as the player is, and the player's entity
\* is a member of its map; only a transfer about to finish has let the old one go.
PlayerHasWorld ==
  \A p \in Players :
    LET i == playerSessions[p] IN
    i # 0 /\ (\A t \in Threads : ~(threadAt[t].op = "move" /\ threadAt[t].player = p)) =>
      InstanceExists(i) /\ i \in mapped /\ membership[p] = i

\* Outside the operations on it an instance has a map entity exactly when it exists,
\* unless it was destroyed before its creation was done: then the entity stays behind.
MapEntityFollows ==
  \A i \in InstanceIds :
    i \notin dropped /\ (\A t \in Threads : ~(threadAt[t].op \in {"map", "unmap"}
                                              /\ threadAt[t].instance = i)) =>
      (i \in mapped <=> InstanceExists(i))

\* Sessions, instance slots and entities agree, whatever addPlayer(), removePlayer(),
\* transferPlayer(), createInstance() and destroyInstance() do between each other's steps:
\* no slot is lost, every player has a world to be in, and map entities follow instances.
WorldConsistent == SlotsAccounted /\ PlayerHasWorld /\ MapEntityFollows
=============================================================================
