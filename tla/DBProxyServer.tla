----------------------------- MODULE DBProxyServer -----------------------------
(***************************************************************************)
(* DBProxyServer of src/services/dbproxy/dbproxy_server.cpp with its pool  *)
(* manager (connection_pool_manager.cpp) and QueryCache.  Clients are the  *)
(* threads inside query() and execute(); the asynchronous and the prepared *)
(* forms run the same code.  A query looks into the cache, reads a replica *)
(* or the primary and puts the result: nothing holds a lock over two of    *)
(* these.  The databases are external: a table is the number of writes to  *)
(* it, a replica follows the primary and refuses to be written to.         *)
(***************************************************************************)
EXTENDS QueryCache

CONSTANTS Clients,       \* threads calling the proxy
          Replicas,      \* 1..n: the read replicas
          Lag,           \* whether a replica may be behind the primary
          WriteForms,    \* how writes are made, see Execute and QueryWrite
          CacheEnabled,  \* CacheConfig::enabled
          MaxWrites,     \* bound: writes per table
          MaxRestarts    \* bound: calls of start()

ASSUME ProxyAssumption ==
  /\ Lag \in BOOLEAN /\ CacheEnabled \in BOOLEAN
  /\ WriteForms \subseteq {"plain", "foreign", "query"}
  /\ MaxWrites \in Nat /\ MaxRestarts \in Nat /\ Replicas \subseteq Nat
  /\ "none" \notin Tables

VARIABLES proxyRunning,  \* DBProxyServer::Impl::running
          poolStarted,   \* ConnectionPoolManager::Impl::started
          stopping,      \* what stop() does next: nothing, "pools" or "cache"
          connected,     \* the replicas whose GameDatabase::isConnected()
          roundRobin,    \* replicaRoundRobin, modulo the number of replicas
          primary,       \* external: the contents of the primary
          replica,       \* external: the contents of each replica
          client,        \* where each client is
          restarts,      \* calls of start() so far
          served         \* ghost: a query that began after a write had returned
                         \* has been answered from before that write

proxyVars == <<lruList, index, proxyRunning, poolStarted, stopping, connected, roundRobin,
               primary, replica, client, restarts, served>>

databases == <<primary, replica>>
pools == <<proxyRunning, poolStarted, stopping, connected, restarts>>

Contents == [Tables -> 0..MaxWrites]

\* What statement q returns from a database.
Select(q, db) == [t \in Mentions[q] |-> db[t]]
NoResult == [t \in {} |-> 0]

Idle == [op |-> "idle", key |-> "none", result |-> NoResult, raced |-> FALSE, since |-> NoResult]
Outdated(q, r) == \E t \in Mentions[q] : r[t] < primary[t]

ProxyInit ==
  /\ CacheInit
  /\ proxyRunning = FALSE /\ poolStarted = FALSE /\ stopping = "no"
  /\ connected = {} /\ roundRobin = 0
  /\ primary = [t \in Tables |-> 0]
  /\ replica = [r \in Replicas |-> [t \in Tables |-> 0]]
  /\ client = [c \in Clients |-> Idle]
  /\ restarts = 0 /\ served = FALSE

\* DBProxyServer::start() and ConnectionPoolManager::start(): without the primary
\* nothing starts, a replica that fails is left out.
Start ==
  /\ ~proxyRunning /\ ~poolStarted /\ restarts < MaxRestarts
  /\ restarts' = restarts + 1
  /\ proxyRunning' = TRUE /\ poolStarted' = TRUE
  /\ connected' \in SUBSET Replicas
  /\ UNCHANGED <<cacheVars, stopping, roundRobin, databases, client, served>>

\* stop(): the flag, ...  (Of a proxy that does not run it only clears the cache, see
\* ManageCache.)
StopFlag ==
  /\ proxyRunning /\ proxyRunning' = FALSE
  /\ stopping = "no" /\ stopping' = "pools"
  /\ UNCHANGED <<cacheVars, poolStarted, connected, restarts, roundRobin, databases, client,
                 served>>

\* ... the pool manager ...
StopPools ==
  /\ stopping = "pools" /\ stopping' = "cache"
  /\ poolStarted' = FALSE /\ connected' = {}
  /\ UNCHANGED <<cacheVars, proxyRunning, restarts, roundRobin, databases, client, served>>

\* ... and the cache, although a thread that has its result already may yet put it.
StopCache ==
  /\ stopping = "cache" /\ stopping' = "no"
  /\ CacheClear
  /\ UNCHANGED <<proxyRunning, poolStarted, connected, restarts, roundRobin, databases, client,
                 served>>

\* What the writes that have returned have made of the tables: those still
\* invalidating are not counted.
Returned(t) == primary[t] - Cardinality({c \in Clients : client[c].op = "invalidate"
                                                         /\ client[c].key = t})

\* query() of a SELECT: refused when not running; a hit is the answer, a miss goes on to the
\* pool manager.
BeginQuery(c, q) ==
  /\ client[c].op = "idle" /\ proxyRunning
  /\ \/ /\ CacheEnabled /\ Get(q)
        /\ IF CacheHit(q)
           THEN /\ served' = (served \/ \E t \in Mentions[q] :
                                           EntryOf(q).result[t] < Returned(t))
                /\ UNCHANGED client
           ELSE /\ client' = [client EXCEPT ![c] =
                               [Idle EXCEPT !.op = "read", !.key = q,
                                            !.since = [t \in Mentions[q] |-> Returned(t)]]]
                /\ UNCHANGED served
     \/ /\ ~CacheEnabled
        /\ client' = [client EXCEPT ![c] =
                       [Idle EXCEPT !.op = "read", !.key = q,
                                    !.since = [t \in Mentions[q] |-> Returned(t)]]]
        /\ UNCHANGED <<cacheVars, served>>
  /\ UNCHANGED <<pools, roundRobin, databases>>

\* selectReplica(): the first connected one from the round robin position on.
NextReplica == IF Replicas = {} THEN roundRobin ELSE (roundRobin + 1) % Cardinality(Replicas)
Order(r) == (r - 1 + Cardinality(Replicas) - roundRobin) % Cardinality(Replicas)
Selected(r) == r \in connected /\ \A s \in connected : Order(r) <= Order(s)

\* The result of a read arrives; the client puts it into the cache next.
Answer(c, q, r) ==
  /\ client' = [client EXCEPT ![c] =
                 IF CacheEnabled
                 THEN [@ EXCEPT !.op = "put", !.result = r, !.raced = Outdated(q, r)]
                 ELSE Idle]
  /\ served' = (served \/ \E t \in Mentions[q] : r[t] < client[c].since[t])

\* ConnectionPoolManager::query(): a replica, the primary when there is none or it
\* fails, or an error.
PoolQuery(c) ==
  LET q == client[c].key IN
  /\ client[c].op = "read"
  /\ \/ ~poolStarted /\ client' = [client EXCEPT ![c] = Idle] /\ UNCHANGED <<roundRobin, served>>
     \/ /\ poolStarted
        /\ roundRobin' = NextReplica
        /\ \/ \E r \in connected : Selected(r) /\ Answer(c, q, Select(q, replica[r]))
           \/ Answer(c, q, Select(q, primary))
           \/ client' = [client EXCEPT ![c] = Idle] /\ UNCHANGED served
  /\ UNCHANGED <<cacheVars, pools, databases>>

\* The result goes into the cache, whatever has happened since it was read.
PutResult(c) ==
  /\ client[c].op = "put"
  /\ Put(client[c].key, client[c].result, client[c].raced)
  /\ client' = [client EXCEPT ![c] = Idle]
  /\ UNCHANGED <<pools, roundRobin, databases, served>>

\* The writes after which no cached statement goes: see ExtractTableName and QueryWrite.
Unnoticed(form) == form \in {"foreign", "query"}

\* A write to t reaches the primary and, unless they lag, the replicas.  Clients
\* with a result from before it will put something out of date.
Apply(c, t, form, next) ==
  /\ primary' = [primary EXCEPT ![t] = @ + 1]
  /\ replica' = IF Lag THEN replica ELSE [r \in Replicas |-> primary']
  /\ client' = [d \in Clients |->
                 IF d = c THEN next
                 ELSE IF client[d].op = "put" /\ t \in Mentions[client[d].key]
                 THEN [client[d] EXCEPT !.raced = TRUE] ELSE client[d]]
  /\ lruList' = [i \in DOMAIN lruList |->
                  IF Unnoticed(form) /\ t \in Mentions[lruList[i].sql]
                  THEN [lruList[i] EXCEPT !.missed = TRUE] ELSE lruList[i]]

\* Mutant of execute(): the cache is invalidated before the write.
ExecuteInvalidatesFirst(c, t, form) ==
  /\ proxyRunning /\ poolStarted /\ primary[t] < MaxWrites
  /\ \/ /\ client[c].op = "idle"
        /\ InvalidateByTable(t)
        /\ client' = [client EXCEPT ![c] = [Idle EXCEPT !.op = "write", !.key = t]]
        /\ UNCHANGED databases
     \/ /\ client[c].op = "write" /\ client[c].key = t
        /\ Apply(c, t, form, Idle) /\ UNCHANGED index
  /\ UNCHANGED <<pools, roundRobin, served>>

\* extractTableName(): the table's name ("plain"), or one that no cached statement
\* mentions or none at all ("foreign": a schema prefix, quotes, a statement it does
\* not recognise).
ExtractTableName(t, form) == IF form = "plain" THEN t ELSE "none"

\* execute(): the write, on the primary.
Execute(c, t, form) ==
  /\ client[c].op = "idle" /\ proxyRunning /\ poolStarted
  /\ primary[t] < MaxWrites
  /\ Apply(c, t, form, IF ExtractTableName(t, form) # "none" /\ CacheEnabled
                       THEN [Idle EXCEPT !.op = "invalidate", !.key = t] ELSE Idle)
  /\ UNCHANGED <<index, pools, roundRobin, served>>

\* query() of a statement that is no SELECT: isReadQuery() keeps it from the cache, and
\* the pool manager tries a replica, which refuses, before the primary.  What it has
\* written is invalidated by nobody.
QueryWrite(c, t) ==
  /\ client[c].op = "idle" /\ proxyRunning /\ poolStarted
  /\ primary[t] < MaxWrites
  /\ roundRobin' = NextReplica
  /\ Apply(c, t, "query", Idle)
  /\ UNCHANGED <<index, pools, served>>

\* The rest of execute(): the cache.
InvalidateWritten(c) ==
  /\ client[c].op = "invalidate"
  /\ InvalidateByTable(client[c].key)
  /\ client' = [client EXCEPT ![c] = Idle]
  /\ UNCHANGED <<pools, roundRobin, databases, served>>

\* invalidateCache(), clearCache() and QueryCache::invalidate() from outside.
ManageCache ==
  /\ \/ \E t \in Tables : InvalidateByTable(t)
     \/ \E q \in Queries : Invalidate(q)
     \/ CacheClear
  /\ UNCHANGED <<pools, roundRobin, databases, client, served>>

\* A replica catches up.
Replicate(r) ==
  /\ replica[r] # primary
  /\ replica' = [replica EXCEPT ![r] = primary]
  /\ UNCHANGED <<cacheVars, pools, roundRobin, primary, client, served>>

ProxyTick == CacheTick /\ UNCHANGED <<pools, roundRobin, databases, client, served>>

ClientStep(c) == PoolQuery(c) \/ PutResult(c) \/ InvalidateWritten(c)

\* A thread in query() or execute(), the prepared and the asynchronous forms included.
ClientCall(c) ==
  \/ ClientStep(c)
  \/ \E q \in Queries : BeginQuery(c, q)
  \/ \E t \in Tables, form \in WriteForms \ {"query"} : Execute(c, t, form)
  \/ \E t \in Tables : "query" \in WriteForms /\ QueryWrite(c, t)

ProxyNext ==
  \/ Start \/ StopFlag \/ StopPools \/ StopCache \/ ManageCache \/ ProxyTick
  \/ \E r \in Replicas : Replicate(r)
  \/ \E c \in Clients : ClientCall(c)

ProxySpec == ProxyInit /\ [][ProxyNext]_proxyVars

\* Threads inside a call go on, time passes and replicas catch up.
ProxyFairness ==
  /\ WF_proxyVars(ProxyTick)
  /\ \A r \in Replicas : WF_proxyVars(Replicate(r))
  /\ \A c \in Clients : WF_proxyVars(ClientStep(c))

\* A thread in query() has its statement and, once it has read, a result for it; one in
\* execute() the table it has written to.
ClientOK(c) ==
  /\ DOMAIN c = {"op", "key", "result", "raced", "since"}
  /\ c.op \in {"idle", "read", "put", "invalidate"} /\ c.raced \in BOOLEAN
  /\ c.op \in {"read", "put"} => c.key \in Queries
  /\ c.op = "put" => c.result \in [Mentions[c.key] -> Nat]
  /\ c.op = "invalidate" => c.key \in Tables

ProxyTypeOK ==
  /\ lruList \in Seq(CacheRecord) /\ index \subseteq Queries
  /\ \A i \in DOMAIN lruList : lruList[i].result \in [Mentions[lruList[i].sql] -> Nat]
  /\ connected \subseteq Replicas
  /\ primary \in Contents /\ replica \in [Replicas -> Contents]
  /\ DOMAIN client = Clients /\ \A c \in Clients : ClientOK(client[c])
  /\ ~CacheEnabled => lruList = <<>> /\ \A c \in Clients : client[c].op \notin {"put", "invalidate"}

\* Why a cached result may be out of date for good: its read, or a later write.
Explained(e) == e.raced \/ e.missed

\* Writing first and invalidating afterwards is the right order: whatever readers and
\* writers do, a cached result is out of date only if its own read was overtaken by the
\* write or came from a replica that was behind, if the write went through query() or
\* named its table in a way extractTableName() does not see, or while the writer in
\* execute() is still on its way to invalidate it.
StaleOnlyByRace ==
  \A i \in DOMAIN lruList :
    LET e == lruList[i] IN
    Outdated(e.sql, e.result) =>
      \/ Explained(e)
      \/ \E c \in Clients : client[c].op = "invalidate" /\ client[c].key \in Mentions[e.sql]

\* What the comment in invalidateByTable() promises: "guarantees we never serve
\* stale data", here: a query that begins after a write has returned never gets
\* what the write has replaced.
NeverServesStale == ~served

\* An out-of-date entry does not stay valid: hits do not prolong its life, so the
\* time to live bounds how long it can be served.
StaleDoesNotLast ==
  \A q \in Queries :
    (CacheHit(q) /\ Outdated(q, EntryOf(q).result)) ~>
      ~(CacheHit(q) /\ Outdated(q, EntryOf(q).result))
=============================================================================
