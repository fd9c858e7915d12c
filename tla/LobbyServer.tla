----------------------------- MODULE LobbyServer -----------------------------
(***************************************************************************)
(* LobbyServer of src/services/lobby/lobby_server.cpp: the party manager   *)
(* and the matchmaking queue, each behind a mutex of its own, and the      *)
(* operations that touch both.  Clients are the threads that call it.      *)
(* enqueueParty() and dequeueParty() work on a copy of the party and take  *)
(* one lock after the other: every lock is an action here.  The queue is   *)
(* the abstract ticket pool that MatchmakingQueue implements; ratings are  *)
(* left to that module.                                                    *)
(*                                                                         *)
(* createParty() and enqueuePlayer() look at running and then take a lock; *)
(* the two are one action, as a stop() in between only comes too late.     *)
(* The counters of matches and of parties made and disbanded are read by   *)
(* statistics only and left out.                                           *)
(***************************************************************************)
EXTENDS PartyManager

CONSTANTS Clients,       \* threads calling the server
          Solo,          \* the owner of a ticket that no call answers for
          MaxQueueSize, MinPlayersPerMatch, MaxPlayersPerMatch  \* QueueConfig

ASSUME ClientAssumption == Solo \notin Clients

VARIABLES running,       \* Impl::running
          queued,        \* the players with a ticket
          placedBy,      \* ghost: the enqueueParty() call a ticket belongs to
          call           \* what each client is doing

lobbyVars == <<partyVars, running, queued, placedBy, call>>

Queue == INSTANCE TicketPool

Ops == {"idle", "rating", "enqueuing", "rollback", "marking", "dequeuing", "unmarking"}

\* A call: where it is, its party, the members it still has to deal with and
\* those it has enqueued.
Call == [op : Ops, party : 0..MaxParties, todo : SUBSET Players, placed : SUBSET Players]

Idle == [op |-> "idle", party |-> 0, todo |-> {}, placed |-> {}]

LobbyInit ==
  /\ PartyInit
  /\ running = FALSE /\ Queue!PoolInit
  /\ placedBy = [p \in Players |-> Solo]
  /\ call = [c \in Clients |-> Idle]

Goto(c, op, id, todo, placed) ==
  call' = [call EXCEPT ![c] = [op |-> op, party |-> id, todo |-> todo, placed |-> placed]]

\* start() and stop().
Switch ==
  /\ running' = ~running
  /\ UNCHANGED <<partyVars, queued, placedBy, call>>

(***************************************************************************)
(* One player.                                                             *)
(***************************************************************************)

\* A ticket for p, placed by the call owner or by p alone.
Place(p, owner) ==
  /\ Queue!PoolEnqueue(p)
  /\ placedBy' = [placedBy EXCEPT ![p] = owner]

\* p's ticket is gone, if there was one.
Take(p) ==
  /\ Queue!PoolDequeue(p)
  /\ placedBy' = [placedBy EXCEPT ![p] = Solo]

EnqueuePlayer(p) ==
  /\ running
  /\ Place(p, Solo)
  /\ UNCHANGED <<partyVars, running, call>>

DequeuePlayer(p) ==
  /\ p \in queued
  /\ Take(p)
  /\ UNCHANGED <<partyVars, running, call>>

\* One match of the loop of processMatchmaking().
ProcessMatch ==
  /\ \E group \in SUBSET queued :
       /\ Queue!PoolMatch(group)
       /\ placedBy' = [p \in Players |-> IF p \in group THEN Solo ELSE placedBy[p]]
  /\ UNCHANGED <<partyVars, running, call>>

(***************************************************************************)
(* Parties.                                                                *)
(***************************************************************************)

partyOnly == UNCHANGED <<running, queued, placedBy>>

CreatePartyOf(p) ==
  /\ running
  /\ CreateParty(p)
  /\ partyOnly /\ UNCHANGED call

\* disbandParty(), addPartyMember(), removePartyMember() and promotePartyLeader(),
\* which do not ask whether the server runs.
ChangeParty(id) ==
  /\ \/ \E p \in Players : \/ DisbandParty(id, p) \/ AddMember(id, p)
                           \/ RemoveOther(id, p) \/ RemoveLeader(id, p)
     \/ \E p, q \in Players : PromoteLeader(id, p, q)
  /\ partyOnly /\ UNCHANGED call

(***************************************************************************)
(* enqueueParty().                                                         *)
(***************************************************************************)

\* getParty(): a copy of the party.
EnqueueParty(c, id) ==
  /\ running /\ call[c].op = "idle"
  /\ PartyExists(id)
  /\ Goto(c, "rating", id, members[id], {})
  /\ partyOnly /\ UNCHANGED partyVars

\* averagePartyRating(), or the error when the party is gone by now.
RateParty(c) ==
  /\ call[c].op = "rating"
  /\ \/ /\ PartyExists(call[c].party)
        /\ Goto(c, "enqueuing", call[c].party, call[c].todo, {})
     \/ /\ ~PartyExists(call[c].party)
        /\ Goto(c, "idle", 0, {}, {})
  /\ partyOnly /\ UNCHANGED partyVars

\* One round of the loop: a ticket for the next member.
EnqueueMember(c, p) ==
  /\ call[c].op = "enqueuing" /\ p \in call[c].todo
  /\ Place(p, c)
  /\ Goto(c, IF call[c].todo = {p} THEN "marking" ELSE "enqueuing",
          call[c].party, call[c].todo \ {p}, call[c].placed \cup {p})
  /\ UNCHANGED <<partyVars, running>>

\* The queue refuses a member: those before it are taken out again.
MemberRefused(c, p) ==
  /\ call[c].op = "enqueuing" /\ p \in call[c].todo
  /\ ~Queue!CanEnqueue(p)
  /\ Goto(c, "rollback", call[c].party, call[c].placed, {})
  /\ partyOnly /\ UNCHANGED partyVars

\* A mutant of the rollback: it stops one member early.
RollbackStopsEarly(c) ==
  /\ call[c].op = "rollback"
  /\ \/ \E p \in call[c].todo :
          /\ Cardinality(call[c].todo) > 1
          /\ Take(p)
          /\ Goto(c, "rollback", call[c].party, call[c].todo \ {p}, {})
     \/ /\ Cardinality(call[c].todo) <= 1
        /\ Goto(c, "idle", 0, {}, {})
        /\ UNCHANGED <<queued, placedBy>>
  /\ UNCHANGED <<partyVars, running>>

\* One round of the rollback, or its end: the error is returned.
Rollback(c) ==
  /\ call[c].op = "rollback"
  /\ \/ \E p \in call[c].todo :
          /\ Take(p)
          /\ Goto(c, "rollback", call[c].party, call[c].todo \ {p}, {})
     \/ /\ call[c].todo = {}
        /\ Goto(c, "idle", 0, {}, {})
        /\ UNCHANGED <<queued, placedBy>>
  /\ UNCHANGED <<partyVars, running>>

\* setInQueue(true), and the call returns: its tickets are the players' own.
MarkParty(c) ==
  /\ call[c].op = "marking"
  /\ SetInQueue(call[c].party, TRUE)
  /\ Goto(c, "idle", 0, {}, {})
  /\ placedBy' = [p \in Players |-> IF placedBy[p] = c THEN Solo ELSE placedBy[p]]
  /\ UNCHANGED <<running, queued>>

(***************************************************************************)
(* dequeueParty().                                                         *)
(***************************************************************************)

DequeueParty(c, id) ==
  /\ call[c].op = "idle"
  /\ PartyExists(id)
  /\ Goto(c, "dequeuing", id, members[id], {})
  /\ partyOnly /\ UNCHANGED partyVars

DequeueMember(c, p) ==
  /\ call[c].op = "dequeuing" /\ p \in call[c].todo
  /\ Take(p)
  /\ Goto(c, IF call[c].todo = {p} THEN "unmarking" ELSE "dequeuing",
          call[c].party, call[c].todo \ {p}, {})
  /\ UNCHANGED <<partyVars, running>>

UnmarkParty(c) ==
  /\ call[c].op = "unmarking"
  /\ SetInQueue(call[c].party, FALSE)
  /\ Goto(c, "idle", 0, {}, {})
  /\ partyOnly

\* A call that has begun, going on.
CallStep(c) ==
  \/ RateParty(c) \/ Rollback(c) \/ MarkParty(c) \/ UnmarkParty(c)
  \/ \E p \in Players : EnqueueMember(c, p) \/ MemberRefused(c, p) \/ DequeueMember(c, p)

LobbyNext ==
  \/ Switch \/ ProcessMatch
  \/ \E p \in Players : EnqueuePlayer(p) \/ DequeuePlayer(p) \/ CreatePartyOf(p)
  \/ \E id \in PartyIds : ChangeParty(id)
  \/ \E c \in Clients :
       \/ CallStep(c)
       \/ \E id \in PartyIds : EnqueueParty(c, id) \/ DequeueParty(c, id)

LobbySpec == LobbyInit /\ [][LobbyNext]_lobbyVars

(***************************************************************************)
(* Properties.                                                             *)
(***************************************************************************)

\* Parties, queue and calls are well formed.
LobbyTypeOK ==
  /\ PartyTypeOK
  /\ running \in BOOLEAN /\ queued \subseteq Players
  /\ placedBy \in [Players -> Clients \cup {Solo}]
  /\ call \in [Clients -> Call]

\* parties_ and playerParty_ tell the same story: a player is a member of
\* exactly the party the index names, every party has its leader among its
\* members and no more than maxSize of them, and no id is handed out twice,
\* whatever order parties are made, joined, left, led and ended in.
PartyConsistent ==
  /\ \A p \in Players, id \in PartyIds : p \in members[id] <=> playerParty[p] = id
  /\ \A id \in PartyIds : PartyExists(id) =>
       leader[id] \in members[id] /\ Cardinality(members[id]) <= MaxPartySize
  /\ \A id \in PartyIds : id >= nextPartyId => ~PartyExists(id)
  /\ \A p \in Players : playerParty[p] < nextPartyId

\* enqueueParty() is all or nothing for its caller: once a call has returned,
\* no ticket of it is left behind that it did not report, whoever dequeued,
\* matched or enqueued its members in between.
FailedEnqueueLeavesNothing ==
  \A c \in Clients : call[c].op \in {"idle", "rating"} =>
    \A p \in queued : placedBy[p] # c
=============================================================================
