# Verification of common_game_server

TLA+ models of the parts of the game server whose correctness depends on crashes,
concurrent callers or long sequences of calls, the TLC runs that check them on small
instances, and TLAPS proofs of the most important results for every instance. Paths are
relative to the repository root. `PROJECT.json` maps every definition to the lines it
models and lists the hazards of the code at their lines.

## The system

A framework for game servers in C++: five services (authentication, gateway, game, lobby,
database proxy) on top of a foundation (network, database, logging, jobs), an entity
component system, game logic systems and plugins. Services are objects with a mutex per
sub-component; they are called from network threads, timers and each other. Every
operation returns a `GameResult`. The only persistent state is the write-ahead log and
the snapshot directory of the service runner.

| Component | State | Operations | Hard behaviour | What makes it correct |
|---|---|---|---|---|
| Persistence (`src/services/runner`: write_ahead_log, snapshot_manager, persistence_manager) | log file and index, snapshot files, sequence numbers | start with recovery, recordChange, doSnapshot from timer, caller and stop, stop | crashes at every step, changes during a snapshot, in-place truncation, refused writes | recovery restores every acknowledged change; numbers are unique; stop ends |
| Circuit breaker (`runner/circuit_breaker`) | state, two counters, time of the last failure | allowRequest, recordSuccess, recordFailure, forceState, reset | results recorded in another state than the one the call began in | shields for a whole timeout, closes on fresh successes, recovers |
| Matchmaking queue (`lobby/matchmaking_queue`) | vector of tickets, index by player | enqueue, dequeue, tryMatch | removal by swapping, positions that shift, widening tolerance | index and vector agree, groups have legal sizes, compatible players do not leave the queue stuck |
| Parties and lobby (`lobby/party_manager`, `lobby/lobby_server`) | parties, index by player | party life cycle, enqueueParty, dequeueParty, processMatchmaking | party operations lock the two parts in turn and roll back | index agrees, a failed party enqueue leaves nothing behind |
| Database proxy (`dbproxy`) | query cache, replicas, connected pools | query, execute, prepared statements, start, stop | a read overtaken by a write's invalidation, lagging replicas | the cache is consistent, and stale only where a race or a write that invalidates nothing explains it |
| Game database (`foundation/database`) | pool of connections, waiters, transactions | connect, disconnect, checkout, checkin, beginTransaction | disconnect while connections are out, connect without the lock, waiters at their deadline | no connection shared or lost |
| Network manager (`foundation/network`) | servers, sessions, reverse map | listen, stop, callbacks of the library, parsing of chunks | callbacks against stop, ids shared by two protocols | sessions mirror connections; frames are handed on once, in order, up to one that is cut |
| Authentication (`auth`) | users, refresh tokens, blacklist, rate limits | register, login, refresh, logout, revoke, sweeps | check-then-act over several stores | duplicates only by a race; spent and revoked tokens stay refused |
| Gateway (`gateway`) | sessions, routes, token buckets | connect, message, authenticate, migrate, sweeps | handlers on copies, sweeps that do not look again, shared buckets | sessions follow their life cycle |
| Game service (`game`) | player sessions, map instances, entities, loop thread | add, remove, transfer, create and destroy instance, start, stop, tick | two locks, three structures; a thread to join | slots, sessions and entities agree; stop returns |
| ECS core (`src/ecs`) | entity versions, free list, component arrays, query caches, system order | create, destroy, add, remove, query, Build, Execute | slot reuse, deferred destruction, parallel batches | stale handles are dead, storages dense, conflicts kept apart |
| Game logic (`src/game`) | inventories, quests, auras, threat, spatial indices, behaviour trees | per-tick updates, item, quest and map operations | long sequences at limits | no item doubled, none lost unnoticed, one reward, ticks on time, exact queries |
| Plugins (`src/plugins`, `event_bus.hpp`) | plugins, load order, watched files, subscriptions, deferred events | load, init, activate, update, shutdown, unload, poll, publish | dependencies, failing callbacks, reload half way, libraries missing while they are built, handlers that use the bus | dependencies up before and down after dependents; no change missed; events once |
| Job scheduler (`foundation/thread`) | futures, cancel flags, ticks | schedule, scheduleAfter, scheduleTick, cancel, wait | dependents block workers, jobs that run before they are entered | every job is finished |

Interactions: the lobby composes parties and queue; the gateway asks the authentication
service to validate tokens; the database proxy goes to game databases through its pool
manager; the game server changes entities as players come and go; hot reload drives the
plugin manager; the persistence manager owns log and snapshots and calls back into its
host to collect and to restore players; services use the circuit breaker around remote
calls.

## Modules

The modules of the components have MC modules for TLC: `MCPersistence`; `MCServices`
(network, gateway, authentication, connection pool, lobby); `MCBackend` (database proxy,
matchmaking queue); `MCWorld`; `MCRuntime`; and, for single violations, `MCDBProxy`,
`MCTrees` and `MCSync`. Where several components that share no state are explored in one
run it is one at a time: a variable `part`, chosen in `Init`, says which of them moves, and
the others keep their initial state. Nothing is lost by that, since no action of one reads
what another writes, and no product of unrelated state spaces is built.

### Persistence

`PlayerData` (the data), `WriteAheadLog`, `SnapshotManager` and their composition
`PersistenceManager`.

* A change is a number per player: the code treats the data as bytes. A log frame is
  [seq, player, value]. Since `append()` numbers and writes under one mutex, file and
  index are in the order of the numbers, and both are sets. `rebuildIndex()` stops at the
  first bad frame and nobody removes it, so `walFile` is the part in front of it and
  `walTorn` says it is there. `buffered` is what `syncOnWrite = false` leaves in the
  stream; both settings are initial states.
* `doSnapshot()` is split where others can come in between: `Collect` (collector called),
  `Stamp` (`currentSequence()`), `CreateFile` and `WriteFile` (`save()`), `CutLog` and
  `RewriteLog` (`truncateBefore()`); `phase` is the position of the holder of
  `snapshotMutex`. `SaveFails` and `TruncateLogFails` are the error paths. `recordChange()`
  takes only the log's mutex, so it may come between any two of these except inside the
  rewrite. `stop()` does not wait for the snapshot of another caller before it closes the
  stores: `CloseLog` and `CloseSnapshots` may come at any point of it, and what is still to
  be done then fails on a closed store.
* `Crash` forgets memory and keeps the files; `Start` opens both stores and recovers.
  `history` holds the acknowledged changes, and `lost` those a recovery did not restore.
* `Hazards` names what the environment may do, because the code does not keep its promise
  under all of it. Without hazards a process may still crash between any two steps other
  than those in the middle of writing a snapshot or of rewriting the log.

### Matchmaking and lobby

`TicketPool` is the abstract specification: a set of queued players, at most
`maxQueueSize`, from which a match takes a group of a legal size at once.
`MatchmakingQueue` is the code: vector, index, the candidates an anchor collects, and the
removal loop, one action per round (`pending` holds the positions still to remove; the
mutex is held as long as it is not empty). It is shown to implement the pool, with the
tickets already chosen for removal counted as gone. Match quality and average rating are
floating-point values handed to the caller and are left out.

`PartyManager` has one action per operation; the counters of parties made and disbanded,
which only statistics read, are left out. `LobbyServer` composes it with `TicketPool`
and the threads inside `enqueueParty()` and `dequeueParty()`, which work on a copy of the
party and take one lock per member. `placedBy` is a ghost: the call a ticket belongs to
until that call returns successfully. Members are dealt with in any order, which includes
the order of the vector.

### Database proxy

`QueryCache` is the LRU list with its index, one action per operation since each holds the
mutex; time is what an entry has left. `DBProxyServer` composes it with the pool manager
and the threads inside `query()` and `execute()`, split where the code holds no lock:
look-up, read of a replica or the primary, put; write, invalidation. `stop()` is its three
steps, the flag, the pools and the cache, with the threads going on in between. A table is
the number of writes to it, a replica may lag. `WriteForms` are the ways a write takes: with
a table `extractTableName()` recognises, with one in a form it does not, and as a statement
that is no SELECT through `query()` (`QueryWrite`), which invalidates nothing.
`GameDatabase` is the connection pool below, with waiters, deadlines, transactions, a
`disconnect()` while connections are out, and a `connect()` that opens and pushes one
connection at a time without the lock (`BeginConnect`, `OpenOne`, `EndConnect`,
`ConnectFails`).

### Edge: network, authentication, gateway

`NetworkManager` has the three tables and the library's callbacks; the library is external
and reports what happens to one connection in order. A server runs before `listen()` has
entered it (`StartServer`, `AddServer`), and a chunk for an id that is not in the reverse
map is dropped. Chunks are cut anywhere; payload misread as a header means anything.
`AuthServer` splits every operation into its accesses
to the four stores, and the validation of an access token into the check of its expiry and
the look at the blacklist; tokens are numbers in the order of their issue. `GatewayServer` has
threads inside `handleMessage()` with the copy of the session they got, and both sweeps
with the lists they collected. The authentication service behind the gateway is an answer:
an error, a user, or a subject that is no number and becomes user 0.

### World: ECS, game server, game logic, plugins

`ComponentStorage` is the sparse set as operators on a record; `EntityManager` composes
storages, entity slots and a cached query, with the ghost `generation` telling handles apart
when versions wrap. `SystemScheduler` has the rounds of Kahn's algorithm and of the batching
in `Build()`, and in `Execute()` the tasks of a batch as concurrent steps. `GameServer`
interleaves its operations at every access others can see. `Inventory`, `QuestLog`, `Combat`
and `WorldSystem` each have one player's, victim's or map's state and one action per
operation (`WorldSystem` with the membership `GameServer::transferPlayer()` changes without
telling the index); an operation with a loop (`AddItem()` over the slots, `Execute()` over
events and auras) has one action per round, and no other operation of the same state begins
before it has ended. `BehaviorTree` has a tree as a table of nodes, each with its parent and
its owners, which are the calls of `Tick()` in progress above it; a call, a return and a
round of a node's loop are one step each. Cursors are in the nodes, so that all brains that
hold the tree use the same ones; the ghosts `answers` and `askedBy` are what each node last
returned and to which brain, and are compared with the logic of the tree. It is explored in
`MCRuntime`. `PluginManager` breaks operations on all plugins into their callbacks;
`OnInit()` may fail. `HotReload` adds watched files that are written and removed at any
time: a poll passes over a file that is missing, and the callback that looks for a plugin
with `std::filesystem::equivalent()` may throw out of `Poll()` while a watched one is
(`CallbackThrows`). `EventBus` has threads inside `Publish()` and `ProcessDeferred()` with
the copies they call handlers from.

### Runtime: circuit breaker, game loop, job scheduler

`CircuitBreaker` has the breaker and the threads that use it as the header shows:
`allowRequest()`, the remote call, then `recordSuccess()` or `recordFailure()`, in whatever
state the circuit is by then. Time is kept relative to the last failure and saturates at
`recoveryTimeout`. `openFor` and `probes` are ghosts: how long the circuit has been open,
and how many successes this half-open state has seen. `GameLoop` has the loop thread and the
callers of `start()`, `stop()` and `tick()`; `start()` is two steps, the flag (`StartLoop`)
and the assignment of the thread (`AssignThread`), `stop()` three, and the ghost
`overlapped` tells whether one of these calls began during another; `crashed` stands for the
program being terminated by a `std::thread` that is replaced or joined wrongly.
`JobScheduler` has the workers of the thread pool, an external library that takes the oldest
job or the oldest of the highest priority, and the jobs' dependencies and flags.

## Runs

| Run | Shows | Bounds |
|---|---|---|
| `persistence` | type invariant; `ZeroLossOnCrash`; `PrefixRecovery` (a buffered log loses only the latest changes) | 2 players, 4 changes, 2 snapshots besides the final one, 3 lifetimes: a change before, during and after a snapshot, a recovery of a recovery, pruning (2 files kept) |
| `persistence_faults` | with every hazard on: `SequencesUnique`, and `StopCompletes` | 2 changes, 1 snapshot, 2 lifetimes; faults multiply the states |
| `loss_record_in_window`, `loss_crash_behind` | violations of `ZeroLossOnCrash`, see below | 3 changes, 2 snapshots, 3 lifetimes |
| `backend` | `CacheConsistent`, `StaleOnlyByRace`, `StaleDoesNotLast`; `IndexAgrees`, `ImplementsPool`, `MatchesForm` | 2 queries over 2 tables, a cache of 1 entry and a time to live of 2 (eviction and expiry both happen), 2 clients, 1 lagging replica, a write of each form, a restart; 3 players, 2 modes, 3 regions, ratings 2 apart: a swap with the last ticket, of the last and across a pending removal |
| `dbproxy_stale` | violation of `NeverServesStale`, see below | the proxy alone |
| `matchmaking_starves` | violation of `EveryoneMatched`, see below | 5 players of one mode |
| `services` | `DuplicateOnlyByRace`, `SpentTokenRefused`, `RevokedStaysRejected`; `SessionLifecycle`; `NetSound`; `ConnectionsAccounted`; `PartyConsistent`, `FailedEnqueueLeavesNothing` | 2 callers, 2 names and addresses, 2 users, 2 tokens, time up to 1, so that a token is valid, expired and swept; 2 handlers and 2 sessions one after the other (each session is handled by itself; they share only buckets), bucket of 1; 2 protocols whose 2 ids may collide, 3 frames of lengths 1, 2 and 1 in any chunks; 3 users of 1 to 2 connections, 4 opened: a waiter, a notified waiter, a second pool; 2 players, 2 threads, 2 parties of 2: a member who is queued already makes the party's enqueue fail half way |
| `world` | `EcsSound`, `PlanRespectsDependencies`, `ExecutionSound`, `WorldConsistent`, `ItemsConserved`, `QuestsSound`, `CombatSound`, `VisibleExact`, `PluginsSound`, `EventsSound` | 2 entity slots with 2 versions and 5 creations (a version goes round), 2 storages; 3 systems in 2 stages with 2 dependencies (cycles included); 3 threads, 2 players, 3 instance ids; a bag of 2 slots, stacks of 1 or 2, 3 items; 2 rewards; frames that end within an aura, shortly after its end and long after it; 2 maps with negative positions, a radius of 0; 3 plugins, with a cycle, a too new or an unparsable dependency, 2 of them watched; 2 threads, 2 subscriptions and 2 deferred events on the bus |
| `world_sync` | violation of `SyncPointSeparates`, see below | 4 systems of one stage |
| `trees_shared` | violation of `TreesShareable`, see below | a sequence of two leaves, 2 brains |
| `runtime` | `ThresholdsActed`, `OpenShields`, `ClosedByProbes`, `RecoversWhenHealthy`, `LoopSafe`, `StopReturns`, `JobsAdvance`, `JobsComplete`, `TreeResumes` | 3 callers, thresholds 2, timeout 2, 2 overrides: a late result for every state, two relapses; 2 controllers of a loop; 3 jobs on 2 workers: a chain as long as the pool is wide and longer; 4 trees that 2 brains share, with every kind of node, sequences within parallels, repeaters and inverters, and every situation a leaf can meet |

The properties of one component that speak of the same structure are one conjunction with
named parts: `EcsSound` (allocator's books, stale handles, owned components, fresh query
cache), `ExecutionSound` (no conflict at run, fixed time kept), `WorldConsistent` (slots,
sessions and map entities), `PluginsSound` (load order, dependencies up, no change missed).

Deadlock is checked except in the persistence runs, where changes and starts are bounded
and a stopped process may stay down; elsewhere a step without effect stands for a bound
that has been reached (`IdsUsed`, `BusExhausted`). Symmetry is used only in runs without liveness.

Fairness. The threads inside `doSnapshot()` and `stop()` are runnable and make progress:
weak fairness of `SnapshotStep` and `StopStep`. For the breaker, time passes, calls return
and are recorded, and callers keep asking: without requests an open circuit never becomes
half-open, as the code only looks at the clock in `allowRequest()`. For the queue,
`processMatchmaking()` is called periodically and time passes. For the proxy, time passes,
replicas catch up and calls return (`ProxyFairness`). For the game loop, the thread and the
callers inside `stop()` and `tick()` are runnable, and a thread waiting for
`callbackMutex_`, which is free again and again, gets it: strong fairness of `LoopTick`
(`LoopFairness`). For the jobs, each worker is a running thread (`JobFairness`); nobody has
to schedule anything. For the gateway nothing is assumed: `src/services/gateway/main.cpp`
calls neither sweep, so that a client may stay unauthenticated for ever, and no liveness is
claimed. Where a fair action belongs to one part of a run, only that part's behaviours
matter to the liveness property.

### What the violations show

* `loss_record_in_window`: `doSnapshot()` collects the players and then asks for
  `currentSequence()`. A change recorded in between is not in the snapshot, has a number
  the snapshot claims to cover, and is cut from the log.
* `loss_crash_behind`: numbering is rebuilt from the log alone. After a truncation and a
  restart it begins at 1 again, below the snapshot's `walSequence`, and replay skips what
  is recorded until the next snapshot.
* `dbproxy_stale`: `query()` reads the database and puts the result into the cache without
  looking again. A write that executes and invalidates in between leaves the old result in
  the cache, although a comment in `query_cache.cpp` (175-176) "guarantees we never serve
  stale data". `StaleOnlyByRace` says that this is the only way besides a lagging replica, a
  table name the proxy does not recognise and a write sent through `query()`, and
  `StaleDoesNotLast` that the time to live ends it.
* `matchmaking_starves`: a matched ticket is removed by moving the last one into its place, so
  a ticket that came later becomes the anchor before one that waits. With five players who
  queue again after their matches the same one is passed over for ever, although
  `tryMatch()` is called for ever and there is always somebody to pair it with;
  `matchmaking_queue.hpp` (8-9) says that everyone eventually finds a match. What does hold
  is `MatchesForm`: two players who can be paired never leave the queue stuck.
* `trees_shared`: `BTSequence` keeps the child it is at in the node
  (`behavior_tree.hpp:146`). Two brains on one tree, as `docs/tutorial_ai_behavior.dox`
  (155-159) and `ai_components.hpp` (25-27) say they may be, share it: the second goes on
  behind a condition that only the first has met.
* `world_sync`: `computeParallelBatches()` keeps later systems behind the batch of the sync
  point's own system, but a system sorted earlier may have been put into a later batch by
  a conflict, and runs after or beside what the sync point should hold back
  (`system_scheduler.hpp`, 286-290).

The other names in `Hazards` violate `ZeroLossOnCrash` as well when put into a
configuration alone: `crash_in_save` (only the newest snapshot file is tried, and it may be
half written), `crash_in_truncate` (the log is emptied in place before it is written back),
`disk_fault` (a failed `flush()` is acknowledged). With `crash_in_truncate` alone
`PrefixRecovery` still holds, as is proved below: what the interrupted rewrite loses is
newer than what it keeps. Each of the other four violates `PrefixRecovery` as well.

### Observations

What modelling brought up besides the violations. The properties name these cases where
they touch them.

* Breaker and queue: a success may reach an open circuit, where a comment says it should
  not happen; `failureCount()` still reports the closed state's failures afterwards.
  Two players further apart than `maxRatingTolerance` are never matched, so that
  `MatchesForm` needs a tolerance that covers their ratings.
* Lobby: `enqueueParty()` works on a copy of the party, so members who left are enqueued;
  its rollback dequeues by player id and may remove a newer solo ticket;
  `processMatchmaking()` leaves `Party::inQueue` set; members of a party are matched one by one,
  where `party_manager.hpp` (7-8) has them queue as a unit. When its leader leaves, a party is
  disbanded, as `party_manager.hpp:59` says, but the service's counter of disbanded parties
  (`lobby_server.cpp:123`) does not count that.
* Database: a put after `stop()` cleared the cache survives the restart; `maxEntries = 0`
  still holds one entry; `query()` of a statement that is no SELECT goes to a replica and
  invalidates nothing; `connect()` pushes onto the pool's vector without its lock, which is
  undefined behaviour beside a thread that is still in `checkout()`; the pool may exceed
  `maxConnections` when `disconnect()` and `connect()` race with a checkout; waiters are not
  woken by `connect()`, nor by a notification that another one consumes at its deadline.
* Network: a frame split over two receive callbacks is lost and the rest misread, since
  nothing reassembles chunks; connection ids two protocols share collide in the reverse map;
  a chunk that comes between them is dropped; `docs/tutorial_networking.dox:73` says a
  frame's length does not count itself, while the code's does
  (`game_network_manager.cpp:27-28`); `stop()` emits no `onDisconnected`; the `servers` map
  has no lock.
* Authentication: two refreshes of one token at the same time both succeed; a refresh in
  flight survives a logout; refreshing does not look at the account's status; racing
  registrations make duplicate names; a revoked access token is accepted at exactly the
  instant of its expiry. Nothing in the repository calls the user repository's `update()`.
* Gateway: nothing but the tests calls `cleanupExpiredAuth()` and `cleanupIdleSessions()`; a
  token whose subject is no number authenticates user 0; the sweeps do not look again, so a
  session that authenticated meanwhile is disconnected; a migrating session is never swept;
  disconnecting one session drops the bucket its address shares; `stop()` only clears a
  flag, where `gateway_server.hpp:111` says it disconnects all sessions.
* ECS: components of an entity destroyed before their storage was registered stay behind,
  and the recycled id then violates the precondition of `Add()`; a version is a byte and
  goes round after 256 recyclings; handles from `Query` have version 0.
* Game service: an instance destroyed before `createInstance()` made its map entity leaves
  that entity behind; entity tables have no lock. A `stop()` of the loop between the two
  steps of a `start()` joins nothing and the thread goes on; the next `start()` assigns over
  a thread that was never joined, which terminates the program (`game_loop.cpp:28-32`).
* Game logic: the spatial index is keyed by handle, `synchronizePositions()` uses version 0
  and `TransferEntity()` the caller's, so a recycled id may stay in the old map's index;
  destroyed ids are never removed although `world_system.cpp:186-188` says so, and
  `GameServer::transferPlayer()` (`game_server.cpp:436-440`) moves a live one without telling
  the index. `MoveItem()` never merges; `SplitStack()` drops enchantments; `Equip()` of a
  stack keeps one and drops the rest, and of a slot that does not exist drops the item
  (`inventory_components.hpp:341-351`). A quest without objectives can never be turned in.
  When a frame ends an interval or more behind an aura's end, the ticks of that frame that
  were due in its lifetime are dropped; when it ends sooner behind it, one tick that was due
  after the end may still be delivered (`combat_system.cpp:114`). A selector that moves on
  does not call `Reset()` on the branch it leaves (`behavior_tree.hpp:157-171`), where the
  tutorial (259-260) says it does: a sequence inside of a parallel that failed keeps its
  place. `TreeResumes` names that case.
* Plugins: a plugin loaded or reloaded after `InitializeAll()` is not in `loadOrder_`, so
  `UpdateAll()` and `ShutdownAll()` skip it and `UnloadAll()` drops it without `OnUnload()`;
  a reload that fails to load leaves the plugin out for good, where ADR-003 (55-59) has the
  old version restored; while a watched library is missing the callback of `Poll()` may
  throw, and the other changes it was to report are not reported again before the next
  write; when `OnLoad()` fails or the API version differs, the library is closed before the
  plugin object is destroyed (`plugin_manager.cpp:395`); a dependency that does not parse is
  not checked; watching a plugin again takes a new baseline and misses a change already
  made.
* Event bus: a handler may be called after `Unsubscribe()` returned; two threads in
  `ProcessDeferred()` may publish out of order; a handler that throws, which is not modelled,
  takes the rest of the deferred queue with it.
* Jobs: with priority order all workers may wait for a queued job of low priority;
  `cancel()` of a dependent that already waits succeeds and the job still runs; dependents
  of cancelled or failed jobs run anyway.

## Proofs

All theorems hold for every value of the constants that satisfies the `ASSUME`s of the
modules. A component of a run with `part` has a specification of its own, its initial
predicate and its steps (`AuthSpec`, `GatewaySpec`, `NetSpec`, `DbSpec`, `ProxySpec`,
`WorldSpec`, `HotReloadSpec`, `QuestSpec`, `CombatSpec`, `InventorySpec`, `SpatialSpec`,
`BusSpec`, `LoopSpec`, `JobSpec`, `BrainSpec`, `SchedSpec`, `EcsSpec`); the run's behaviours
are those of its parts. Each invariant of a run is proved from an inductive one, named below
by its parts, which the proof shows for the initial states and for every action by itself.

* `PersistenceProofs`: `TypeCorrect` and `SequencesStayUnique` with all hazards on and
  either setting of `syncOnWrite`; `ZeroLoss` under `Hazards = {}`; and `LosesOnlyTheLatest`
  (`PrefixRecovery`) under no hazard but `crash_in_truncate`: a crash within the rewriting
  of the log loses changes, but none that is older than one it keeps. Uniqueness follows
  from `FramesOrdered`: over all frames, indexed, written or buffered, higher numbers mean
  later values; every operation drops or moves frames or adds the newest. The two recovery
  theorems share one invariant: the newest snapshot with the log replayed on top, buffered
  frames included, gives back every acknowledged change whenever a crash may come
  (`DiskHolds`), the snapshot in hand with the rest of the log does as well (`SnapHolds`),
  the file is the front part of the index and the buffer the rest of it, unless a torn frame
  hides what is written behind it (`LogShape`), and the world misses nothing (`WorldHolds`).
  It must say more than "covered by a later frame": a change still to be replayed has a
  frame of its own, and each frame is newer than everything in the snapshot, whoever it is
  about. Then a crash, which leaves a prefix of the buffer (`DownKeepsPrefix`), leaves of
  the changes those that are still held and others newer than all of them (`HoldsPrefix`),
  and `start()` splits the history there (`StartSplits`). With `syncOnWrite` and no
  interrupted rewrite nothing is buffered and nothing is cut off.
* `MatchmakingProofs`: `TypeCorrect` and `IndexAlwaysAgrees`, by one lemma about removal by
  swapping, used by `dequeue()` and by each round of the removal loop; and
  `QueueImplementsPool`, the refinement of `TicketPool`: a match is one step of the pool at
  the moment the group is chosen, and the rounds of the removal loop stutter. That the group
  has a legal size rests on an injection between positions and players.
* `LobbyProofs`: `TypeCorrect`, `PartiesAlwaysConsistent`, `FailedEnqueueRollsBack`.
  The last needs `TicketsKnown`: in the middle of a call, the tickets
  that belong to it are among those it remembers.
* `DatabaseProofs`: `PoolTypeCorrect` and `PoolAccounted`, from `Held`: a
  thread has a connection exactly while it works or has a transaction, and as long as the
  pool knows that connection it is marked as in use.
  `ProxyTypeCorrect`, `CacheStaysConsistent` and `StaleNeedsRace`: lemmas about the LRU list
  (moving to the front, dropping the last, removing the entries of a table keep it without
  repetition and in step with the index), and `PutsMarked`: a thread that is about to put an
  outdated result is marked as having raced.
* `EdgeProofs`: for the authentication service `AuthTypeCorrect`, `DuplicatesNeedRace`,
  `SpentStaysRefused` and `RevokedRejected`, from `SeenDiffer` (the users a registration
  has seen differ from the one it makes), `SpentDead` (a spent refresh token is revoked or no
  longer stored) and `RevokedKept` (a revoked access token is on the blacklist until it
  expires). For the gateway
  `GatewayTypeCorrect` and the action property `SessionsLive`, from `SessionKnown` (a session
  without authentication has no user). For the network `NetworkSound`, from `IdsFresh` and
  `Framed`: up to the first message that is cut or dropped, what has been parsed are the
  messages in front of where the parser is.
* `WorldProofs`: `WorldTypeCorrect` and `WorldStaysConsistent`. `OneInPlayerOps` is what
  `playerMutex` gives; `OperationHolds` says what a player operation relies on between its
  steps; `IdsFresh` and `MappingOnce` concern instances between creation and map entity. The
  player count of an instance is compared with the sessions by lemmas about counting with
  one element more or less. For the plugins `PluginsTypeCorrect` and `PluginsStaySound`:
  while the load order is built, the in-degree of a plugin is the number of its dependencies
  that are not placed yet (`PlacingInv`), and what cannot be placed contains a cycle;
  `ProgressInv` says how far `InitializeAll()` and `ShutdownAll()` have come, so that
  dependencies are up in front of and behind the plugin they have reached (`UpInv`), and how
  far `UnloadAll()` has, which ends dependents before what they depend on; `ReloadInv` says
  that nothing newer than the file has been seen and that a reload in the middle has its
  plugin unloaded. For the quests `QuestsTypeCorrect` and `QuestsStaySound`, from
  `OpenAgain`: an entry that can be turned in although its quest was rewarded before belongs
  to a repeatable one. For the combat `CombatTypeCorrect` and `CombatStaysSound`, from
  `ThreatListed` (the attackers are listed once each, in the order of the damage they dealt;
  sorting only permutes the list) and `InPhase`, which says of each aura what holds before,
  in and after its turn in `updateAuras()`: a tick that came late was the last one, since
  the loop stops behind the end of the aura (`AuraFine`). For the items
  `InventoryTypeCorrect` and `ItemsStayConserved`: the totals are cardinalities, and one
  lemma says what a changed slot does to them (`OneSlotChanged`); what `Equip()` and a full
  bag drop is moved from the total to the ghost `lost`, and no other step changes it.
* `RuntimeProofs`: for the spatial indices `SpatialTypeCorrect` and `QueriesExact`, from
  `Aged` (an entry's version is not newer than its id's) and `AtHome` (an entry is on its
  id's map, or the id left that map behind the index's back: `strays`) and `Seen` (after
  `Execute()` everybody is in the cell of its place). For the event bus `BusTypeCorrect` and
  `EventsDeliveredOnce`, from `FreshIds`, `QueuesInOrder`, `CalledInOrder` and `Settled` (an
  event is in one queue, in one thread's hands or dispatched). For the circuit breaker
  `TypeCorrect`, `ThresholdsAlwaysActed` and the action properties `OpenAlwaysShields` and
  `ClosingIsEarned`, from `ClockBehind` (in the open state the time since the last failure
  is at most the time the circuit has been open) and `ProbesCounted` (in the half-open state
  the counter is the number of successes of that state). For the behaviour trees
  `TreesResume`, for trees of any size and shape and any number of brains that share them. A
  composite that is resumed sees only the rest of its children, so `TreeInv` keeps what the
  passed ones have said: those in front of a cursor let it pass (`CursorOK`), none but the
  one at the cursor is in the middle (`RunningOK`), a parallel's tally is what its children
  said (`GotOK`), and a cursor that is not at the start belongs to a node that last answered
  `Running` (`MarkOK`), as then did everything above it up to the first parallel
  (`BranchOK`). `PathOK` and `ReturnOK` say where the calls in progress stand, and
  `FollowOK` is the result. For the game loop `LoopStaysSafe`, from `CallbackHeld` (who
  ticks holds the mutex) and `LoopIdle` (as long as calls do not overlap one `start()` or
  `stop()` is under way, and between a `stop()` and the next `start()` there is no thread).
  For the jobs `JobsAlwaysAdvance`: a job depends on an earlier one (`DependsBack`), which
  is not queued any more if nothing was overtaken (`NotOvertaken`) and is therefore done or
  executed by a worker of its own (`Held`), so that the worker with the earliest job does
  not wait.
* `EcsProofs`: for the scheduler `SchedTypeCorrect`, `PlanSorted` and `TicksSound`. During
  Kahn's algorithm the in-degree of a system is the number of its predecessors that are not
  sorted yet; when the queue runs dry, what is left contains a cycle; the groups of a batch
  are free of conflicts and in order. For the entities `EcsTypeCorrect` and `EntitiesSound`:
  the version in a slot is its generation modulo `VersionCount`, so that two generations with
  one version are a whole round apart; adding, replacing, removing and clearing keep a
  storage dense and well formed; and a query's fingerprint, a sum of versions that never go
  back, differs as soon as one of them does. The sum is over natural numbers: the wrap of the
  32-bit `globalVersion_` after four billion changes is not modelled.

Assumptions. Besides typing (`\in Nat`, thresholds not zero) the constants are assumed to be
finite where something is counted (clients, threads, players, instances, entity ids,
storages), ids to be numbered from 1 as the code numbers them, `"none"` to be no table and
no map, `Stages` to be a nonempty sequence, frame boundaries to rise from 0, plugins to be
finitely many with at least one version of their file, and quests to have an objective, each
with something to do: a quest without one stays accepted for ever, as `UpdateObjective()`
looks at completion only after it has made progress. There is at least one worker, and a
behaviour tree is a tree (`IsTree`), since a node owns its children. TLC evaluates all of
them for the values of the runs.

The attempts to prove changed two statements. `SessionsMatch` of the game server
and `WellFormed` of a storage did not say enough to be kept by every action and are now
stronger. Loops that the models folded into one step, such as `FlushDeferred()`, the sort of
the plugins, `processEvents()`, `updateAuras()`, `processDamageEvents()`, `AddItem()` and
`processDurabilityEvents()`, are now actions with one step per round, as in the code.
`Selection` has the lists of which some elements stay, as a relation the provers can use
(`KeptAt`: the positions that stay, in rising order) where a filter would be recursive.

Model-checked only: liveness (`StopCompletes`, `RecoversWhenHealthy`, `MatchesForm`,
`StaleDoesNotLast`, `StopReturns`, `JobsComplete`), which is out of the
prover's reach, as is `ENABLED`. `LoopSafe` and `JobsAdvance` are what `StopReturns` and
`JobsComplete` need to hold in every state, that the thread to be joined has been told to end
and that not everybody waits for somebody else; they are proved.

## Not modelled

* Token signing, password hashing, string validation: functions of bytes, taken as given.
* The MMORPG plugin: a sample that calls the systems modelled here.
* The service runner's signal flag and shutdown hooks, and the health server: I/O. One
  remark on it: hooks behind one that overruns the deadline are skipped
  (`service_runner.cpp:91`).
* Logging, metrics, configuration, the serializer: thin layers over libraries that are not
  in the repository. The thread pool, network and database libraries themselves are
  external and modelled by how the code uses them.
* `GameResult`, error and signal types; command-line entry points.

Within the modelled parts: log frame encoding and checksums are "readable or not", snapshot
time stamps the order of the files; `updateRatings()`, member names and ready flags,
statistics, hit counters, tick times, stat bonuses, the third dimension and floating-point
rounding are left out, as are SQL text and parameter binding, sending and TLS set-up.

## Plan

Every invariant, action property and refinement of the runs has its theorem. What is left
is liveness: `StopCompletes` needs of the states no more than `TypeCorrect` says, that the
holder of `snapshotMutex` is at one of the steps of `doSnapshot()`; for `MatchesForm`
and `StaleDoesNotLast` an invariant of their own would be worth proving. Beyond that, the
components listed as partly or not modelled.
