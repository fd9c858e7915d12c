-------------------------------- MODULE MCWorld --------------------------------
(***************************************************************************)
(* The game world for TLC: entities and their components, the scheduler of *)
(* systems, the players of a game server, and the systems of the game;     *)
(* beside them the plugins of the server and their event bus.              *)
(* Each works on state of its own and is explored on its own: part says    *)
(* which one moves.                                                        *)
(***************************************************************************)
EXTENDS EntityManager, SystemScheduler, GameServer, Inventory, QuestLog, Combat, WorldSystem,
        HotReload, EventBus

VARIABLE part

ecs == <<ecsVars, schedVars, worldVars>>
game == <<bagVars, questVars, combatVars, spatialVars>>
host == <<pluginVars, reloadVars, busVars>>
vars == <<ecs, game, host, part>>

\* Fewer entities while components come and go.
StoreBound == Created' <= 3 /\ Len(pending') <= 1

Init ==
  /\ EcsInit /\ SchedInit /\ WorldInit
  /\ InventoryInit /\ QuestInit /\ CombatInit /\ SpatialInit
  /\ PluginInit /\ HotReloadInit /\ BusInit
  /\ part \in {"slots", "stores", "systems", "players", "bag", "quests", "auras", "damage", "space", "plugins", "reload", "bus"}
  /\ part # "bag" => \A item \in Stackables : stackSize[item] = Max(StackSizes)

\* A cycle of dependencies, or a sync point beside one of them.
PlanBound == Cardinality(deps') + Cardinality(syncPoints') <= 2

EcsNext ==
  \/ part = "slots" /\ SlotNext /\ UNCHANGED <<schedVars, worldVars>>
  \/ part = "stores" /\ (SlotNext \/ StoreNext) /\ StoreBound /\ UNCHANGED <<schedVars, worldVars>>
  \/ part = "systems" /\ SchedNext /\ PlanBound /\ UNCHANGED <<ecsVars, worldVars>>
  \/ part = "players" /\ WorldNext /\ UNCHANGED <<ecsVars, schedVars>>

\* What does no damage does none as a critical hit either.
DamageBound == \A k \in DOMAIN damageEvents' : damageEvents'[k].base = 0 => ~damageEvents'[k].critical

GameNext ==
  \/ part = "bag" /\ InventoryNext /\ UNCHANGED <<questVars, combatVars, spatialVars>>
  \/ part = "quests" /\ QuestNext /\ UNCHANGED <<bagVars, combatVars, spatialVars>>
  \/ part = "auras" /\ AuraNext /\ UNCHANGED <<bagVars, questVars, spatialVars>>
  \/ part = "damage" /\ DamageNext /\ DamageBound /\ UNCHANGED <<bagVars, questVars, spatialVars>>
  \/ part = "space" /\ SpatialNext /\ UNCHANGED <<bagVars, questVars, combatVars>>

\* All plugins without watched libraries; two of them with watched libraries, each of which
\* is built anew once, without UpdateAll() and UnloadAll().
HostNext ==
  \/ part = "plugins" /\ ManagerNext /\ file'["core"] = 1 /\ missing' = {} /\ UNCHANGED busVars
  \/ /\ part = "reload" /\ (ManagerNext \/ ReloadNext)
     /\ file'["net"] <= 2 /\ missing' \subseteq {"net"} /\ Loaded' \subseteq {"core", "net"} /\ manager'.op \notin {"update", "unload"}
     /\ UNCHANGED busVars
  \/ part = "bus" /\ BusNext /\ UNCHANGED <<pluginVars, reloadVars>>

Next ==
  \/ EcsNext /\ UNCHANGED <<game, host, part>>
  \/ GameNext /\ UNCHANGED <<ecs, host, part>>
  \/ HostNext /\ UNCHANGED <<ecs, game, part>>

Reads == [reads |-> {"x"}, writes |-> {}]
Writes == [reads |-> {}, writes |-> {"x"}]
Declared == {Reads, Writes}
UpdateAndFixed == <<"Update", "FixedUpdate">>

\* A timed quest, a quest that needs it, and a repeatable one with the same target.
Templates ==
  "first" :> [prerequisites |-> {}, repeatable |-> FALSE, timeLimit |-> 2,
              objectives |-> <<[kind |-> "Kill", target |-> 1, required |-> 2]>>] @@
  "second" :> [prerequisites |-> {"first"}, repeatable |-> FALSE, timeLimit |-> 0,
               objectives |-> <<[kind |-> "Kill", target |-> 1, required |-> 1],
                                [kind |-> "Collect", target |-> 1, required |-> 1]>>] @@
  "daily" :> [prerequisites |-> {}, repeatable |-> TRUE, timeLimit |-> 0,
              objectives |-> <<[kind |-> "Collect", target |-> 1, required |-> 2]>>]
Events == {[kind |-> "Kill", target |-> 1, count |-> 1], [kind |-> "Kill", target |-> 1, count |-> 3],
           [kind |-> "Collect", target |-> 1, count |-> 1], [kind |-> "Kill", target |-> 2, count |-> 1]}

\* A bleed that hurts at once and whose duration is not a multiple of its interval.
Kinds == "bleed" :> [duration |-> 3, remaining |-> 2, interval |-> 2, first |-> 0, damage |-> 1, stacks |-> 3]
Resisted == "magic" :> 4

Spots == {<<-1, 1>>, <<1, 0>>}

Dep(n, c) == [name |-> n, parses |-> TRUE, constraints |-> c]
From(v) == [op |-> ">=", version |-> v]
Below(v) == [op |-> "<", version |-> v]
Compatible(v) == [op |-> "~=", version |-> v]
Library(v, d) == [version |-> v, deps |-> d]

\* The second net library makes a cycle of dependencies; the third is too new for game
\* and names core in a string that does not parse.
LibraryFiles ==
  "core" :> <<Library(<<1, 0>>, {}), Library(<<1, 1>>, {})>> @@
  "net" :> <<Library(<<1, 1>>, {Dep("core", {})}),
             Library(<<1, 2>>, {Dep("core", {}), Dep("game", {})}),
             Library(<<2, 0>>, {[name |-> "core", parses |-> FALSE, constraints |-> {}]})>> @@
  "game" :> <<Library(<<1, 0>>, {Dep("net", {From(<<1, 1>>), Below(<<2, 0>>)}),
                                 Dep("core", {Compatible(<<1, 0>>)})})>>
CoreOnly == <<"core">>

Spec == Init /\ [][Next]_vars
=============================================================================
