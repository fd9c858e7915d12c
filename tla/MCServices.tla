------------------------------ MODULE MCServices ------------------------------
(***************************************************************************)
(* The services for TLC: the network manager, the gateway, the             *)
(* authentication service, the lobby and the connection pool of one        *)
(* database.  They meet only in calls whose answers are taken as they      *)
(* come, so each is explored on its own: part says which one moves.        *)
(***************************************************************************)
EXTENDS AuthServer, GatewayServer, NetworkManager, GameDatabase, LobbyServer

VARIABLE part

vars == <<authVars, gatewayVars, netVars, dbVars, lobbyVars, part>>

\* Users are only ever added, and tokens only ask whether a user is there and active: the
\* tokens are explored for a user who has registered and may be suspended.
Ann == [name |-> "ann", email |-> "e1", active |-> TRUE, seen |-> {}, checked |-> TRUE]
Suspend == UpdateUser(1, Ann.name, Ann.email, ~users[1].active)

\* Messages only read the routes, and change nothing by being forwarded: the route
\* table is explored alone, the sessions with one route.
GameRoute == [opcodes |-> Opcodes, service |-> "game", requiresAuth |-> TRUE]

\* A message of a header alone, one with a payload, and another.
MessageBoundaries == <<0, 1, 3, 4>>

Init ==
  /\ part \in {"register", "tokens", "routes", "gateway", "network", "pool", "lobby"}
  /\ NetInit
  /\ GatewayInit(IF part = "gateway" THEN <<GameRoute>> ELSE <<>>)
  /\ AuthInit(IF part = "tokens" THEN <<Ann>> ELSE <<>>)
  /\ DbInit /\ LobbyInit

Next ==
  /\ UNCHANGED part
  /\ \/ part = "register" /\ RegisterNext /\ UNCHANGED <<gatewayVars, netVars, dbVars, lobbyVars>>
     \/ part = "tokens" /\ (TokenNext \/ Suspend) /\ UNCHANGED <<gatewayVars, netVars, dbVars, lobbyVars>>
     \/ part = "routes" /\ ManageRoutes /\ UNCHANGED <<authVars, netVars, dbVars, lobbyVars>>
     \/ part = "gateway" /\ GatewayNext /\ UNCHANGED <<authVars, netVars, dbVars, lobbyVars>>
     \/ part = "network" /\ NetNext /\ UNCHANGED <<authVars, gatewayVars, dbVars, lobbyVars>>
     \/ part = "pool" /\ DbNext /\ UNCHANGED <<authVars, gatewayVars, netVars, lobbyVars>>
     \/ part = "lobby" /\ LobbyNext /\ UNCHANGED <<authVars, gatewayVars, netVars, dbVars>>

Spec == Init /\ [][Next]_vars
=============================================================================
