----------------------------- MODULE GatewayServer -----------------------------
(***************************************************************************)
(* GatewayServer of src/services/gateway/gateway_server.cpp with its       *)
(* session manager, route table and token buckets, each behind a mutex of  *)
(* its own.  Handlers are the threads inside handleMessage() and           *)
(* handleDisconnect(): a message is handled on the copy of the session     *)
(* that getSession() made, while other threads change the session.  The    *)
(* two clean-up sweeps collect sessions and disconnect them one by one.    *)
(*                                                                         *)
(* The authentication service answers validateToken() with the user of a   *)
(* token or with an error.  Session ids come from the network and are not  *)
(* used twice.  A bucket that is missing is the same as a full one.        *)
(***************************************************************************)
EXTENDS Naturals, Sequences, FiniteSets

CONSTANTS Handlers,          \* threads handling network events
          SessionIds, Addresses, UserIds, Services, Opcodes,
          MaxConnections,    \* GatewayConfig
          AuthTimeout, IdleTimeout,
          RateLimitCapacity, RateLimitRefillRate,
          MaxRoutes          \* bound: entries of the route table

ASSUME GatewayAssumption ==
  /\ MaxConnections \in Nat /\ AuthTimeout \in Nat /\ IdleTimeout \in Nat
  /\ RateLimitCapacity \in Nat /\ RateLimitRefillRate \in Nat /\ MaxRoutes \in Nat
  /\ Addresses # {} /\ Services # {}

VARIABLES gwRunning,         \* Impl::running
          sessions,          \* GatewaySessionManager::sessions_
          used,              \* session ids that have been connected
          buckets,           \* TokenBucket::buckets_
          routes,            \* RouteTable::routes_
          handler,           \* where each handler is
          idleList, authList \* what the two sweeps still have to disconnect

gatewayVars == <<gwRunning, sessions, used, buckets, routes, handler, idleList, authList>>
sweeps == <<idleList, authList>>

\* enum class ClientState; "None" is a session that is not there.  Nothing ever
\* sets Disconnecting.
ClientState == {"None", "Unauthenticated", "Authenticated", "Migrating"}

\* struct ClientSession: user 0 before authentication; idle and age are the times
\* since lastActivity and connectedAt, as far as the timeouts ask.
ClientSession ==
  [state : ClientState, user : UserIds \cup {0}, address : Addresses, service : Services,
   idle : 0..(IdleTimeout + 1), age : 0..(AuthTimeout + 1)]

AnyService == CHOOSE s \in Services : TRUE
NoSession == [state |-> "None", user |-> 0, address |-> CHOOSE a \in Addresses : TRUE,
              service |-> AnyService, idle |-> 0, age |-> 0]

\* A handler: its step, its session, what it uses of the copy, the token's user.
IdleHandler == [op |-> "idle", session |-> 0, state |-> "None", address |-> NoSession.address,
                user |-> 0]

Exists(s) == sessions[s].state # "None"
Connected == {s \in SessionIds : Exists(s)}

\* The gateway with the routes the service configured.
GatewayInit(table) ==
  /\ gwRunning = FALSE /\ used = {}
  /\ sessions = [s \in SessionIds |-> NoSession]
  /\ buckets = [a \in Addresses |-> RateLimitCapacity]
  /\ routes = table
  /\ handler = [h \in Handlers |-> IdleHandler]
  /\ idleList = {} /\ authList = {}

\* start() and stop(): sessions stay.
SwitchGateway ==
  /\ gwRunning' = ~gwRunning
  /\ UNCHANGED <<sessions, used, buckets, routes, handler, sweeps>>

\* addRoute(), removeRoutesForService() and clear().
ManageRoutes ==
  /\ \/ /\ Len(routes) < MaxRoutes
        /\ \E ops \in SUBSET Opcodes \ {{}}, service \in Services, auth \in BOOLEAN :
             routes' = Append(routes, [opcodes |-> ops, service |-> service,
                                       requiresAuth |-> auth])
     \/ \E service \in Services :
          routes' = SelectSeq(routes, LAMBDA r : r.service # service)
     \/ routes' = <<>>
  /\ UNCHANGED <<gwRunning, sessions, used, buckets, handler, sweeps>>

\* resolve(): the first entry whose range has the opcode.
Matches(op) == {i \in DOMAIN routes : op \in routes[i].opcodes}
Resolve(op) == routes[CHOOSE i \in Matches(op) : \A j \in Matches(op) : i <= j]

(***************************************************************************)
(* The session manager: one access under its mutex each.                   *)
(***************************************************************************)

\* createSession().
HandleConnect(s, a) ==
  /\ gwRunning /\ s \notin used
  /\ Cardinality(Connected) < MaxConnections /\ ~Exists(s)
  /\ sessions' = [sessions EXCEPT ![s] =
                   [NoSession EXCEPT !.state = "Unauthenticated", !.address = a]]
  /\ used' = used \cup {s}
  /\ UNCHANGED <<gwRunning, buckets, routes, handler, sweeps>>

\* Mutant of authenticateSession(): the state is not looked at again.
AuthenticateAnyway(s, user) ==
  sessions' = IF Exists(s)
              THEN [sessions EXCEPT ![s] = [@ EXCEPT !.state = "Authenticated", !.user = user,
                                                     !.idle = 0]]
              ELSE sessions

\* authenticateSession(): only a session that is still unauthenticated.
AuthenticateSession(s, user) ==
  sessions' = IF sessions[s].state = "Unauthenticated"
              THEN [sessions EXCEPT ![s] = [@ EXCEPT !.state = "Authenticated", !.user = user,
                                                     !.idle = 0]]
              ELSE sessions

\* completeMigration().
CompleteMigration(s) ==
  sessions' = IF sessions[s].state = "Migrating"
              THEN [sessions EXCEPT ![s] = [@ EXCEPT !.state = "Authenticated", !.idle = 0]]
              ELSE sessions

\* initiateServerTransfer() and beginMigration().
InitiateServerTransfer(s, service) ==
  /\ gwRunning /\ sessions[s].state = "Authenticated"
  /\ sessions' = [sessions EXCEPT ![s] = [@ EXCEPT !.state = "Migrating", !.service = service,
                                                     !.idle = 0]]
  /\ UNCHANGED <<gwRunning, used, buckets, routes, handler, sweeps>>

\* setCurrentService().
SetCurrentService(s, service) ==
  /\ Exists(s)
  /\ sessions' = [sessions EXCEPT ![s].service = service]
  /\ UNCHANGED <<gwRunning, used, buckets, routes, handler, sweeps>>

\* removeSession().
RemoveSession(s) == sessions' = [sessions EXCEPT ![s] = NoSession]

(***************************************************************************)
(* handleMessage(), on a copy of the session.                              *)
(***************************************************************************)

HandlerGoto(h, next) == handler' = [handler EXCEPT ![h] = next]

\* getSession().
HandleMessage(h, s) ==
  /\ handler[h].op = "idle" /\ gwRunning /\ Exists(s)
  /\ HandlerGoto(h, [IdleHandler EXCEPT !.op = "limit", !.session = s,
                                 !.state = sessions[s].state,
                                 !.address = sessions[s].address])
  /\ UNCHANGED <<gwRunning, sessions, used, buckets, routes, sweeps>>

\* consume() of the address's bucket: one token, or the message is dropped; then
\* touchSession(), if the session is still there.
Admit(h) ==
  LET a == handler[h].address s == handler[h].session IN
  /\ handler[h].op = "limit"
  /\ IF buckets[a] = 0 THEN HandlerGoto(h, IdleHandler) /\ UNCHANGED <<buckets, sessions>>
     ELSE /\ buckets' = [buckets EXCEPT ![a] = @ - 1]
          /\ sessions' = IF Exists(s) THEN [sessions EXCEPT ![s].idle = 0] ELSE sessions
          /\ HandlerGoto(h, [handler[h] EXCEPT !.op = "dispatch"])
  /\ UNCHANGED <<gwRunning, used, routes, sweeps>>

\* Authenticate: the copy's state, and the authentication service; the user is 0 if the
\* token's subject is no number.
ValidateToken(h) ==
  /\ handler[h].op = "dispatch" /\ handler[h].state = "Unauthenticated"
  /\ \/ HandlerGoto(h, IdleHandler)
     \/ \E user \in UserIds \cup {0} : HandlerGoto(h, [handler[h] EXCEPT !.op = "auth", !.user = user])
  /\ UNCHANGED <<gwRunning, sessions, used, buckets, routes, sweeps>>

Authenticate(h) ==
  /\ handler[h].op = "auth"
  /\ AuthenticateSession(handler[h].session, handler[h].user)
  /\ HandlerGoto(h, IdleHandler)
  /\ UNCHANGED <<gwRunning, used, buckets, routes, sweeps>>

\* MigrationAck: the copy's state again.
MigrationAck(h) ==
  /\ handler[h].op = "dispatch" /\ handler[h].state = "Migrating"
  /\ CompleteMigration(handler[h].session)
  /\ HandlerGoto(h, IdleHandler)
  /\ UNCHANGED <<gwRunning, used, buckets, routes, sweeps>>

\* Pong, an unknown opcode, an opcode without a route or one the copy is not
\* authenticated for: dropped.
DropMessage(h) ==
  /\ handler[h].op = "dispatch" /\ HandlerGoto(h, IdleHandler)
  /\ UNCHANGED <<gwRunning, sessions, used, buckets, routes, sweeps>>

\* Another opcode goes to the service of its route.
Forward(h, op) ==
  /\ handler[h].op = "dispatch"
  /\ Matches(op) # {}
  /\ Resolve(op).requiresAuth => handler[h].state = "Authenticated"
  /\ HandlerGoto(h, IdleHandler)
  /\ UNCHANGED <<gwRunning, sessions, used, buckets, routes, sweeps>>

(***************************************************************************)
(* handleDisconnect() and the sweeps.                                      *)
(***************************************************************************)

\* The bucket of the session's address goes, which others may be using.
DropBucket(s) ==
  buckets' = IF Exists(s) THEN [buckets EXCEPT ![sessions[s].address] = RateLimitCapacity]
             ELSE buckets

HandleDisconnect(h, s) ==
  /\ handler[h].op = "idle" /\ Exists(s)
  /\ DropBucket(s)
  /\ HandlerGoto(h, [IdleHandler EXCEPT !.op = "remove", !.session = s])
  /\ UNCHANGED <<gwRunning, sessions, used, routes, sweeps>>

FinishDisconnect(h) ==
  /\ handler[h].op = "remove" /\ RemoveSession(handler[h].session)
  /\ HandlerGoto(h, IdleHandler)
  /\ UNCHANGED <<gwRunning, used, buckets, routes, sweeps>>

\* findIdleSessions().
CleanupIdle ==
  /\ idleList = {}
  /\ idleList' = {s \in SessionIds : sessions[s].state = "Authenticated"
                                     /\ sessions[s].idle > IdleTimeout}
  /\ idleList' # {}
  /\ UNCHANGED <<gwRunning, sessions, used, buckets, routes, handler, authList>>

\* findExpiredAuthSessions(): the time since the connection counts.
ExpiredAuth ==
  {s \in SessionIds : sessions[s].state = "Unauthenticated" /\ sessions[s].age > AuthTimeout}

CleanupExpiredAuth ==
  /\ authList = {} /\ ExpiredAuth # {}
  /\ authList' = ExpiredAuth
  /\ UNCHANGED <<gwRunning, sessions, used, buckets, routes, handler, idleList>>

\* One round of a sweep's loop: handleDisconnect(), without looking again.
SweepOne(s) ==
  /\ \/ s \in idleList /\ idleList' = idleList \ {s} /\ UNCHANGED authList
     \/ s \in authList /\ authList' = authList \ {s} /\ UNCHANGED idleList
  /\ DropBucket(s) /\ RemoveSession(s)
  /\ UNCHANGED <<gwRunning, used, routes, handler>>

\* Time passes, and the buckets fill.
Later(t, limit) == IF t > limit THEN t ELSE t + 1
GatewayTick ==
  /\ sessions' = [s \in SessionIds |->
       IF Exists(s) THEN [sessions[s] EXCEPT !.idle = Later(@, IdleTimeout),
                                             !.age = Later(@, AuthTimeout)]
       ELSE sessions[s]]
  /\ buckets' = [a \in Addresses |->
       IF buckets[a] + RateLimitRefillRate > RateLimitCapacity THEN RateLimitCapacity
       ELSE buckets[a] + RateLimitRefillRate]
  /\ <<sessions, buckets>>' # <<sessions, buckets>>
  /\ UNCHANGED <<gwRunning, used, routes, handler, sweeps>>

HandlerStep(h) ==
  \/ Admit(h) \/ ValidateToken(h) \/ Authenticate(h) \/ MigrationAck(h)
  \/ DropMessage(h) \/ FinishDisconnect(h)
  \/ \E op \in Opcodes : Forward(h, op)

SweepStep == CleanupIdle \/ CleanupExpiredAuth \/ \E s \in SessionIds : SweepOne(s)

GatewayNext ==
  \/ SwitchGateway \/ GatewayTick \/ SweepStep
  \/ \E s \in SessionIds, a \in Addresses : HandleConnect(s, a)
  \/ \E s \in SessionIds, service \in Services :
       InitiateServerTransfer(s, service) \/ SetCurrentService(s, service)
  \/ \E h \in Handlers :
       \/ HandlerStep(h)
       \/ \E s \in SessionIds : HandleMessage(h, s) \/ HandleDisconnect(h, s)

\* The gateway as a whole, beginning without routes.
GatewayStep == GatewayNext \/ ManageRoutes
GatewaySpec == GatewayInit(<<>>) /\ [][GatewayStep]_gatewayVars

GatewayHandler ==
  [op : {"idle", "limit", "dispatch", "auth", "remove"}, session : SessionIds \cup {0},
   state : ClientState, address : Addresses, user : UserIds \cup {0}]

GatewayTypeOK ==
  /\ gwRunning \in BOOLEAN /\ used \subseteq SessionIds
  /\ sessions \in [SessionIds -> ClientSession]
  /\ buckets \in [Addresses -> 0..RateLimitCapacity]
  /\ idleList \subseteq SessionIds /\ authList \subseteq SessionIds
  /\ handler \in [Handlers -> GatewayHandler]
  /\ \A h \in Handlers : handler[h].op # "idle" => handler[h].session \in SessionIds

\* What one step may do to the sessions.
SessionStep ==
  \A s \in SessionIds :
    LET from == sessions[s] to == sessions'[s] IN
    /\ from.state # to.state =>
         <<from.state, to.state>> \in
           {<<"None", "Unauthenticated">>, <<"Unauthenticated", "Authenticated">>,
            <<"Authenticated", "Migrating">>, <<"Migrating", "Authenticated">>}
         \/ to.state = "None"
    /\ from.state \in {"Authenticated", "Migrating"} => to.user = from.user \/ to.state = "None"
    /\ s \in used /\ from.state = "None" => to.state = "None"

\* Whatever handlers with old copies do, a session goes from Unauthenticated to
\* Authenticated and between that and Migrating, belongs to one user from its
\* authentication until it is removed, and does not come back.
SessionLifecycle == [][SessionStep]_gatewayVars
=============================================================================
