------------------------------ MODULE TicketPool ------------------------------
(***************************************************************************)
(* What MatchmakingQueue promises its users, without saying how it keeps   *)
(* its tickets: a set of queued players, each at most once and never more  *)
(* than MaxQueueSize of them; a match takes a whole group out at once.     *)
(***************************************************************************)
EXTENDS Naturals, FiniteSets

CONSTANTS Players,
          MaxQueueSize, MinPlayersPerMatch, MaxPlayersPerMatch  \* QueueConfig

VARIABLE queued         \* the players with a ticket

PoolInit == queued = {}

\* enqueue() that succeeds: neither QueueFull nor AlreadyInQueue.
CanEnqueue(p) == Cardinality(queued) < MaxQueueSize /\ p \notin queued

PoolEnqueue(p) == CanEnqueue(p) /\ queued' = queued \cup {p}

\* dequeue(): false, and no change, for a player who is not queued.
PoolDequeue(p) == queued' = queued \ {p}

\* tryMatch() that finds a match.
PoolMatch(group) ==
  /\ group \subseteq queued
  /\ Cardinality(group) \in MinPlayersPerMatch..MaxPlayersPerMatch
  /\ queued' = queued \ group

PoolNext == \/ \E p \in Players : PoolEnqueue(p) \/ PoolDequeue(p)
            \/ \E group \in SUBSET queued : PoolMatch(group)

PoolSpec == PoolInit /\ [][PoolNext]_queued
=============================================================================
