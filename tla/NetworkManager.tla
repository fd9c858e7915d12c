----------------------------- MODULE NetworkManager -----------------------------
(***************************************************************************)
(* GameNetworkManager of src/foundation/network/game_network_manager.cpp:  *)
(* servers by protocol, sessions and the map from the library's connection *)
(* ids back to them, and the callbacks by which the network library        *)
(* reports connections, data and disconnections on threads of its own.     *)
(*                                                                         *)
(* The library is external: it reports what happens to one connection in   *)
(* order, and nothing of a protocol once its server has stopped.  Ids are  *)
(* its own; connections of two protocols may bear the same one.            *)
(*                                                                         *)
(* Data arrives in chunks of units.  The frame of message m is what a      *)
(* client sends between Boundaries[m] and Boundaries[m + 1], a header and  *)
(* payload.  Payload read as a header means anything.                      *)
(*                                                                         *)
(* servers is not guarded: one thread listens and stops.                   *)
(***************************************************************************)
EXTENDS Naturals, Sequences, FiniteSets, SequencesExt

CONSTANTS Protocols, ConnectionIds,
          MaxSessions,       \* bound: connections reported
          Boundaries         \* of the messages a client sends over a connection

ASSUME NetAssumption ==
  /\ MaxSessions \in Nat
  /\ Boundaries \in Seq(Nat) /\ Boundaries # <<>> /\ Boundaries[1] = 0
  /\ \A m, n \in DOMAIN Boundaries : m < n => Boundaries[m] < Boundaries[n]

VARIABLES servers,           \* servers
          starting,          \* the server that runs and is not among them yet
          netSessions,       \* sessions: [protocol, id] by session id
          reverseMap,        \* reverseMap
          nextSessionId,     \* nextSessionId
          connection,        \* the library's connections, by protocol and id:
                             \* [at, session, sent, left, parsed, cut, ignored], left
                             \* of the chunk that is being parsed; cut is the first
                             \* message that a chunk brought a part of or that was
                             \* ignored, 0 if there is none (ghosts)
          collided           \* ghost: an id was in use when a connection came with it

netVars == <<servers, starting, netSessions, reverseMap, nextSessionId, connection, collided>>

Connections == Protocols \X ConnectionIds
NoConnection == [at |-> "none", session |-> 0, sent |-> 0, left |-> 0, parsed |-> <<>>,
                 cut |-> 0, ignored |-> FALSE]
At(k) == connection[k].at
SessionsOf(P) == {s \in DOMAIN netSessions : netSessions[s].protocol \in P}
Drop(f, S) == [x \in DOMAIN f \ S |-> f[x]]

\* serialize(): the length in front of a message is that of its frame.
FrameSize(m) == Boundaries[m + 1] - Boundaries[m]
Messages == 1..(Len(Boundaries) - 1)
StreamEnd == Boundaries[Len(Boundaries)]

NetInit ==
  /\ servers = {} /\ starting = {} /\ netSessions = <<>> /\ reverseMap = <<>> /\ nextSessionId = 1
  /\ connection = [k \in Connections |-> NoConnection]
  /\ collided = FALSE

\* listen(): the server is created and started, and clients may come ...
StartServer(p) ==
  /\ starting = {} /\ p \notin servers /\ starting' = {p}
  /\ UNCHANGED <<servers, netSessions, reverseMap, nextSessionId, connection, collided>>

\* ... before it is one of servers.
AddServer ==
  /\ starting # {} /\ servers' = servers \cup starting /\ starting' = {}
  /\ UNCHANGED <<netSessions, reverseMap, nextSessionId, connection, collided>>

\* A mutant of stop(): the ids are not removed from reverseMap.
StopKeepsIds(P) ==
  /\ starting = {} /\ P \subseteq servers /\ P # {} /\ servers' = servers \ P
  /\ netSessions' = Drop(netSessions, SessionsOf(P))
  /\ connection' = [k \in Connections |-> IF k[1] \in P THEN NoConnection ELSE connection[k]]
  /\ UNCHANGED <<starting, reverseMap, nextSessionId, collided>>

\* stop(), stopAll(): the server ends all connections, then the sessions are removed.
\* Nobody is told.
StopServers(P) ==
  /\ starting = {} /\ P \subseteq servers /\ P # {} /\ servers' = servers \ P
  /\ netSessions' = Drop(netSessions, SessionsOf(P))
  /\ reverseMap' = Drop(reverseMap, {netSessions[s].id : s \in SessionsOf(P)})
  /\ connection' = [k \in Connections |-> IF k[1] \in P THEN NoConnection ELSE connection[k]]
  /\ UNCHANGED <<starting, nextSessionId, collided>>

(***************************************************************************)
(* Callbacks for connection k = <<protocol, id>>.                          *)
(***************************************************************************)
sessionsSame == UNCHANGED <<servers, starting, netSessions, reverseMap, nextSessionId, collided>>
SetConnection(k, c) == connection' = [connection EXCEPT ![k] = c]

\* emplace() keeps the entry that is there.
Emplace(f, key, value) ==
  [x \in DOMAIN f \cup {key} |-> IF x \in DOMAIN f THEN f[x] ELSE value]

ClientConnected(k) ==
  /\ k[1] \in servers \cup starting /\ At(k) = "none" /\ nextSessionId <= MaxSessions
  /\ netSessions' = Emplace(netSessions, nextSessionId, [protocol |-> k[1], id |-> k[2]])
  /\ reverseMap' = Emplace(reverseMap, k[2], nextSessionId)
  /\ collided' = (collided \/ k[2] \in DOMAIN reverseMap)
  /\ nextSessionId' = nextSessionId + 1
  /\ SetConnection(k, [NoConnection EXCEPT !.at = "inserted", !.session = nextSessionId])
  /\ UNCHANGED <<servers, starting>>

\* onConnected.
TellConnected(k) ==
  /\ At(k) = "inserted" /\ SetConnection(k, [connection[k] EXCEPT !.at = "open"])
  /\ sessionsSame

\* m is the first message that is cut once unit x is missed or parted from the one before.
CutAt(c, x, m) ==
  IF c.cut # 0 THEN m = c.cut ELSE Boundaries[m] <= x /\ x < Boundaries[m + 1]

\* The next n units arrive in one chunk; it is ignored if nothing is known of its id.
Receive(k, n) ==
  LET c == connection[k]
      end == c.sent + n
  IN  /\ At(k) = "open" /\ c.left = 0 /\ end <= StreamEnd
      /\ \/ /\ k[2] \in DOMAIN reverseMap /\ end \in ToSet(Boundaries)
            /\ SetConnection(k, [c EXCEPT !.sent = end, !.left = n])
         \/ /\ k[2] \in DOMAIN reverseMap /\ end \notin ToSet(Boundaries)
            /\ \E m \in Messages : CutAt(c, end, m)
                 /\ SetConnection(k, [c EXCEPT !.sent = end, !.left = n, !.cut = m])
         \/ /\ k[2] \notin DOMAIN reverseMap
            /\ \E m \in Messages : CutAt(c, c.sent, m)
                 /\ SetConnection(k, [c EXCEPT !.sent = end, !.cut = m, !.ignored = TRUE])
      /\ sessionsSame

\* One round of the parse loop, with NetworkMessage::deserialize(): a frame that is all
\* there is handed on, one that is not ends the loop with an error; what is left of the
\* chunk is gone.
Parse(k) ==
  LET c == connection[k]
      from == c.sent - c.left
      Take(n, m) == SetConnection(k, [c EXCEPT !.left = @ - n, !.parsed = Append(@, m)])
      DropChunk == SetConnection(k, [c EXCEPT !.left = 0])
  IN  /\ c.left > 0
      /\ \/ \E m \in Messages :
              /\ from = Boundaries[m]
              /\ \/ FrameSize(m) <= c.left /\ Take(FrameSize(m), m)
                 \/ FrameSize(m) > c.left /\ DropChunk
         \/ from \notin ToSet(Boundaries) /\ (DropChunk \/ \E n \in 1..c.left : Take(n, 0))
      /\ sessionsSame

\* The client or close() ends the connection.  The session the id leads to is removed ...
Disconnected(k) ==
  /\ At(k) = "open" /\ connection[k].left = 0
  /\ IF k[2] \in DOMAIN reverseMap
     THEN /\ netSessions' = Drop(netSessions, {reverseMap[k[2]]})
          /\ reverseMap' = Drop(reverseMap, {k[2]})
          /\ SetConnection(k, [connection[k] EXCEPT !.at = "erased", !.session = reverseMap[k[2]]])
     ELSE SetConnection(k, NoConnection) /\ UNCHANGED <<netSessions, reverseMap>>
  /\ UNCHANGED <<servers, starting, nextSessionId, collided>>

\* ... and onDisconnected.
TellDisconnected(k) ==
  /\ At(k) = "erased" /\ SetConnection(k, NoConnection)
  /\ sessionsSame

NetNext ==
  \/ \E p \in Protocols : StartServer(p)
  \/ AddServer
  \/ \E P \in SUBSET Protocols : StopServers(P)
  \/ \E k \in Connections :
       \/ ClientConnected(k) \/ TellConnected(k) \/ Parse(k) \/ Disconnected(k) \/ TellDisconnected(k)
       \/ \E n \in 1..StreamEnd : Receive(k, n)

NetSpec == NetInit /\ [][NetNext]_netVars

(***************************************************************************)
(* Properties.                                                             *)
(***************************************************************************)

\* As long as the library's ids do not collide, sessions and reverseMap are each other's
\* inverse, and there is a session exactly for every connection that is up.
SessionsMatch ==
  ~collided =>
    /\ \A id \in DOMAIN reverseMap :
         reverseMap[id] \in DOMAIN netSessions /\ netSessions[reverseMap[id]].id = id
    /\ \A s \in DOMAIN netSessions :
         /\ netSessions[s].protocol \in servers \cup starting
         /\ netSessions[s].id \in DOMAIN reverseMap /\ reverseMap[netSessions[s].id] = s
    /\ \A k \in Connections : At(k) \in {"inserted", "open"} =>
         /\ connection[k].session \in DOMAIN netSessions
         /\ netSessions[connection[k].session] = [protocol |-> k[1], id |-> k[2]]

\* What a client sends is handed on once and in order, up to the first message of which a
\* chunk brings a part only or that comes when nothing is known of the connection: nothing
\* before it is lost, repeated or made up.  A client whose chunks end with frames loses
\* nothing at all, unless ids have collided; a cut frame is not put together again.
FramesInOrder ==
  \A k \in Connections :
    LET c == connection[k] IN
    /\ \A i \in DOMAIN c.parsed : c.cut = 0 \/ i < c.cut => c.parsed[i] = i
    /\ c.left = 0 /\ c.cut = 0 => Boundaries[Len(c.parsed) + 1] = c.sent
    /\ c.left = 0 /\ c.cut # 0 => c.cut - 1 <= Len(c.parsed)
    /\ c.ignored => collided

\* The two together: the book-keeping of sessions and the parsing of what they send.
NetSound == SessionsMatch /\ FramesInOrder
=============================================================================
