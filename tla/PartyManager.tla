----------------------------- MODULE PartyManager -----------------------------
(***************************************************************************)
(* PartyManager of src/services/lobby/party_manager.cpp.  Every operation  *)
(* holds mutex_; one that returns an error changes nothing, so only the    *)
(* successful ones are actions.  A party that exists has its leader among  *)
(* its members, so the empty member set stands for "no such party".        *)
(***************************************************************************)
EXTENDS Naturals, FiniteSets

CONSTANTS Players,
          NoPlayer,      \* the leader of a party that does not exist
          MaxPartySize,  \* LobbyConfig::maxPartySize
          MaxParties     \* bound: party ids handed out

ASSUME PartyAssumption ==
  /\ NoPlayer \notin Players
  /\ MaxPartySize \in Nat \ {0} /\ MaxParties \in Nat
  /\ IsFiniteSet(Players)

VARIABLES nextPartyId,  \* nextPartyId_
          members,      \* parties_[id].members
          leader,       \* parties_[id].leaderId
          inQueue,      \* parties_[id].inQueue
          playerParty   \* playerParty_: a player's party, 0 for none

partyVars == <<nextPartyId, members, leader, inQueue, playerParty>>

PartyIds == 1..MaxParties

PartyInit ==
  /\ nextPartyId = 1
  /\ members = [id \in PartyIds |-> {}]
  /\ leader = [id \in PartyIds |-> NoPlayer]
  /\ inQueue = [id \in PartyIds |-> FALSE]
  /\ playerParty = [p \in Players |-> 0]

PartyExists(id) == members[id] # {}

\* createParty().
CreateParty(p) ==
  /\ playerParty[p] = 0 /\ nextPartyId \in PartyIds
  /\ nextPartyId' = nextPartyId + 1
  /\ members' = [members EXCEPT ![nextPartyId] = {p}]
  /\ leader' = [leader EXCEPT ![nextPartyId] = p]
  /\ playerParty' = [playerParty EXCEPT ![p] = nextPartyId]
  /\ UNCHANGED inQueue

\* A mutant of removePartyInternal(): only the leader is released.
RemovePartyOfLeader(id) ==
  /\ members' = [members EXCEPT ![id] = {}]
  /\ leader' = [leader EXCEPT ![id] = NoPlayer]
  /\ inQueue' = [inQueue EXCEPT ![id] = FALSE]
  /\ playerParty' = [p \in Players |-> IF p = leader[id] THEN 0 ELSE playerParty[p]]
  /\ UNCHANGED nextPartyId

\* removePartyInternal().
RemovePartyInternal(id) ==
  /\ members' = [members EXCEPT ![id] = {}]
  /\ leader' = [leader EXCEPT ![id] = NoPlayer]
  /\ inQueue' = [inQueue EXCEPT ![id] = FALSE]
  /\ playerParty' = [p \in Players |-> IF p \in members[id] THEN 0 ELSE playerParty[p]]
  /\ UNCHANGED nextPartyId

\* disbandParty(), for its leader only.
DisbandParty(id, requester) ==
  /\ PartyExists(id) /\ leader[id] = requester
  /\ RemovePartyInternal(id)

\* addMember().
AddMember(id, p) ==
  /\ playerParty[p] = 0
  /\ PartyExists(id) /\ Cardinality(members[id]) < MaxPartySize
  /\ members' = [members EXCEPT ![id] = members[id] \cup {p}]
  /\ playerParty' = [playerParty EXCEPT ![p] = id]
  /\ UNCHANGED <<nextPartyId, leader, inQueue>>

\* removeMember() of the leader: the party ends.
RemoveLeader(id, p) ==
  /\ p \in members[id] /\ p = leader[id]
  /\ RemovePartyInternal(id)

\* removeMember() of anybody else.
RemoveOther(id, p) ==
  /\ p \in members[id] /\ p # leader[id]
  /\ members' = [members EXCEPT ![id] = members[id] \ {p}]
  /\ playerParty' = [playerParty EXCEPT ![p] = 0]
  /\ UNCHANGED <<nextPartyId, leader, inQueue>>

\* promoteLeader().
PromoteLeader(id, requester, newLeader) ==
  /\ PartyExists(id) /\ leader[id] = requester
  /\ newLeader \in members[id]
  /\ leader' = [leader EXCEPT ![id] = newLeader]
  /\ UNCHANGED <<nextPartyId, members, inQueue, playerParty>>

\* setInQueue(); for a party that is gone its error is ignored.
SetInQueue(id, b) ==
  /\ inQueue' = [inQueue EXCEPT ![id] = IF PartyExists(id) THEN b ELSE inQueue[id]]
  /\ UNCHANGED <<nextPartyId, members, leader, playerParty>>

\* The maps of the party manager have the shape the code gives them.
PartyTypeOK ==
  /\ nextPartyId \in Nat
  /\ members \in [PartyIds -> SUBSET Players]
  /\ leader \in [PartyIds -> Players \cup {NoPlayer}]
  /\ inQueue \in [PartyIds -> BOOLEAN]
  /\ playerParty \in [Players -> Nat]
=============================================================================
