----------------------------- MODULE LobbyProofs -----------------------------
(***************************************************************************)
(* The lobby for every number of players, parties and clients.             *)
(* PartyConsistent is inductive once types are known.                      *)
(* FailedEnqueueLeavesNothing is not: it needs to know, in the middle of a *)
(* call, that the tickets still owned by it are among those it remembers   *)
(* having placed (TicketsKnown).                                           *)
(***************************************************************************)
EXTENDS LobbyServer, FiniteSetTheorems, TLAPS

\* Any step on parties other than the steps that change them.
LEMMA PartyUnchanged ==
  ASSUME PartyTypeOK, PartyConsistent, UNCHANGED partyVars PROVE PartyTypeOK' /\ PartyConsistent'
BY DEF PartyTypeOK, PartyConsistent, partyVars, PartyExists

\* Member sets are finite, and their size moves by one.
LEMMA MemberSets ==
  ASSUME NEW S \in SUBSET Players, NEW p \in Players
  PROVE  /\ IsFiniteSet(S) /\ Cardinality(S) \in Nat
         /\ p \notin S => Cardinality(S \cup {p}) = Cardinality(S) + 1
         /\ p \in S => Cardinality(S \ {p}) = Cardinality(S) - 1
         /\ Cardinality({p}) = 1
<1>1. IsFiniteSet(S)
  BY PartyAssumption, FS_Subset
<1>. QED BY <1>1, FS_CardinalityType, FS_AddElement, FS_RemoveElement, FS_Singleton

\* createParty() keeps parties_ and playerParty_ in agreement.
LEMMA CreateInv ==
  ASSUME PartyTypeOK, PartyConsistent, NEW p \in Players, CreateParty(p)
  PROVE  PartyTypeOK' /\ PartyConsistent'
<1> USE DEF PartyTypeOK, PartyIds
<1>1. PartyTypeOK'
  BY DEF CreateParty
<1>2. members[nextPartyId] = {} /\ \A q \in Players : playerParty[q] # nextPartyId
  BY PartyAssumption DEF CreateParty, PartyConsistent, PartyExists
<1>3. \A q \in Players, id \in PartyIds : q \in members'[id] <=> playerParty'[q] = id
  <2> TAKE q \in Players, id \in PartyIds
  <2>1. nextPartyId \in PartyIds /\ id \in Nat
    BY PartyAssumption DEF CreateParty
  <2>2. members'[id] = (IF id = nextPartyId THEN {p} ELSE members[id])
        /\ playerParty'[q] = (IF q = p THEN nextPartyId ELSE playerParty[q])
    BY <2>1 DEF CreateParty
  <2>3. playerParty[p] = 0 /\ id # 0 /\ (q \in members[id] <=> playerParty[q] = id)
    BY DEF CreateParty, PartyConsistent
  <2>. QED BY <1>2, <2>1, <2>2, <2>3
<1>4. \A id \in PartyIds : PartyExists(id)' =>
        leader'[id] \in members'[id] /\ Cardinality(members'[id]) <= MaxPartySize
  <2>1. Cardinality({p}) = 1
    BY MemberSets
  <2>2. 1 <= MaxPartySize
    BY PartyAssumption
  <2>. QED BY <2>1, <2>2 DEF CreateParty, PartyConsistent, PartyExists
<1>5. /\ \A id \in PartyIds : id >= nextPartyId' => ~PartyExists(id)'
      /\ \A q \in Players : playerParty'[q] < nextPartyId'
  BY PartyAssumption DEF CreateParty, PartyConsistent, PartyExists
<1>. QED BY <1>1, <1>3, <1>4, <1>5 DEF PartyConsistent

\* removePartyInternal() releases exactly the members of the party.
LEMMA RemovePartyInv ==
  ASSUME PartyTypeOK, PartyConsistent, NEW id \in PartyIds, RemovePartyInternal(id)
  PROVE  PartyTypeOK' /\ PartyConsistent'
<1> USE DEF PartyTypeOK
<1>1. PartyTypeOK'
  BY DEF RemovePartyInternal
<1>2. \A q \in Players, i \in PartyIds : q \in members'[i] <=> playerParty'[q] = i
  BY DEF RemovePartyInternal, PartyConsistent, PartyIds
<1>3. \A i \in PartyIds : PartyExists(i)' =>
        leader'[i] \in members'[i] /\ Cardinality(members'[i]) <= MaxPartySize
  BY DEF RemovePartyInternal, PartyConsistent, PartyExists
<1>4. /\ \A i \in PartyIds : i >= nextPartyId' => ~PartyExists(i)'
      /\ \A q \in Players : playerParty'[q] < nextPartyId'
  BY DEF RemovePartyInternal, PartyConsistent, PartyExists
<1>. QED BY <1>1, <1>2, <1>3, <1>4 DEF PartyConsistent

\* addMember(), removeMember() of another member and promoteLeader() keep the
\* agreement and the size limit.
LEMMA MembersInv ==
  ASSUME PartyTypeOK, PartyConsistent, NEW id \in PartyIds, NEW p \in Players,
         AddMember(id, p) \/ RemoveOther(id, p) \/ (\E q \in Players : PromoteLeader(id, p, q))
  PROVE  PartyTypeOK' /\ PartyConsistent'
<1> USE DEF PartyTypeOK
<1>1. CASE AddMember(id, p)
  <2>1. PartyTypeOK'
    BY <1>1 DEF AddMember, PartyIds
  <2>2. \A q \in Players, i \in PartyIds : q \in members'[i] <=> playerParty'[q] = i
    <3> TAKE q \in Players, i \in PartyIds
    <3>1. members'[i] = (IF i = id THEN members[id] \cup {p} ELSE members[i])
          /\ playerParty'[q] = (IF q = p THEN id ELSE playerParty[q])
          /\ playerParty[p] = 0
      BY <1>1 DEF AddMember
    <3>2. i # 0 /\ \A r \in Players : r \in members[i] <=> playerParty[r] = i
      BY PartyAssumption DEF PartyConsistent, PartyIds
    <3>. QED BY <3>1, <3>2
  <2>3. p \notin members[id] /\ id < nextPartyId
    BY <1>1 DEF AddMember, PartyConsistent, PartyIds, PartyExists
  <2>4. Cardinality(members'[id]) <= MaxPartySize
    <3>1. members[id] \in SUBSET Players
      OBVIOUS
    <3>2. Cardinality(members[id]) \in Nat
          /\ Cardinality(members[id] \cup {p}) = Cardinality(members[id]) + 1
      BY <2>3, <3>1, MemberSets
    <3>. QED BY <1>1, <3>2, PartyAssumption DEF AddMember
  <2>5. \A i \in PartyIds : PartyExists(i)' =>
          leader'[i] \in members'[i] /\ Cardinality(members'[i]) <= MaxPartySize
    BY <1>1, <2>4 DEF AddMember, PartyConsistent, PartyExists
  <2>6. /\ \A i \in PartyIds : i >= nextPartyId' => ~PartyExists(i)'
        /\ \A q \in Players : playerParty'[q] < nextPartyId'
    BY <1>1, <2>3 DEF AddMember, PartyConsistent, PartyExists, PartyIds
  <2>. QED BY <2>1, <2>2, <2>5, <2>6 DEF PartyConsistent
<1>2. CASE RemoveOther(id, p)
  <2>1. PartyTypeOK'
    BY <1>2 DEF RemoveOther
  <2>2. \A q \in Players, i \in PartyIds : q \in members'[i] <=> playerParty'[q] = i
    BY <1>2 DEF RemoveOther, PartyConsistent, PartyIds
  <2>3. Cardinality(members'[id]) <= MaxPartySize /\ leader[id] \in members'[id] /\ PartyExists(id)
    <3>1. members'[id] = members[id] \ {p} /\ p \in members[id] /\ p # leader[id]
      BY <1>2 DEF RemoveOther
    <3>2. leader[id] \in members[id] /\ Cardinality(members[id]) <= MaxPartySize /\ PartyExists(id)
      BY <3>1 DEF PartyConsistent, PartyExists
    <3>3. members[id] \in SUBSET Players
      OBVIOUS
    <3>4. Cardinality(members[id]) \in Nat
          /\ Cardinality(members[id] \ {p}) = Cardinality(members[id]) - 1
      BY <3>1, <3>3, MemberSets
    <3>. QED BY <3>1, <3>2, <3>4, PartyAssumption
  <2>4. \A i \in PartyIds : PartyExists(i)' =>
          leader'[i] \in members'[i] /\ Cardinality(members'[i]) <= MaxPartySize
    BY <1>2, <2>3 DEF RemoveOther, PartyConsistent, PartyExists
  <2>5. /\ \A i \in PartyIds : i >= nextPartyId' => ~PartyExists(i)'
        /\ \A q \in Players : playerParty'[q] < nextPartyId'
    BY <1>2, <2>3 DEF RemoveOther, PartyConsistent, PartyExists, PartyIds
  <2>. QED BY <2>1, <2>2, <2>4, <2>5 DEF PartyConsistent
<1>3. CASE \E q \in Players : PromoteLeader(id, p, q)
  BY <1>3 DEF PromoteLeader, PartyConsistent, PartyExists
<1>. QED BY <1>1, <1>2, <1>3

\* setInQueue() touches nothing but the flag.
LEMMA QueueFlagInv ==
  ASSUME PartyTypeOK, PartyConsistent, NEW id \in PartyIds, NEW b \in BOOLEAN, SetInQueue(id, b)
  PROVE  PartyTypeOK' /\ PartyConsistent'
<1>1. inQueue' \in [PartyIds -> BOOLEAN]
  BY Zenon DEF PartyTypeOK, SetInQueue
<1>. QED BY <1>1 DEF PartyTypeOK, PartyConsistent, SetInQueue, PartyExists

-----------------------------------------------------------------------------

\* Only calls that have looked up a party go on with one.
CallsHaveParty ==
  \A c \in Clients : call[c].op # "idle" => call[c].party \in PartyIds

\* A call knows the tickets it is answerable for.
TicketsKnown ==
  \A c \in Clients, p \in queued : placedBy[p] = c =>
    \/ call[c].op = "enqueuing" /\ p \in call[c].placed
    \/ call[c].op = "rollback" /\ p \in call[c].todo
    \/ call[c].op = "marking"

CallInv == call \in [Clients -> Call] /\ CallsHaveParty
QueueInv == queued \subseteq Players /\ placedBy \in [Players -> Clients \cup {Solo}]

IInv == LobbyTypeOK /\ PartyConsistent /\ CallsHaveParty /\ TicketsKnown

\* A call that moves on stays a call, and leaves the others where they are.
LEMMA GotoInv ==
  ASSUME CallInv, NEW c \in Clients, NEW op \in Ops, NEW id \in 0..MaxParties,
         NEW todo \in SUBSET Players, NEW placed \in SUBSET Players,
         op = "idle" \/ id \in PartyIds,
         Goto(c, op, id, todo, placed)
  PROVE  /\ CallInv'
         /\ call'[c] = [op |-> op, party |-> id, todo |-> todo, placed |-> placed]
         /\ \A d \in Clients : d # c => call'[d] = call[d]
<1>1. [op |-> op, party |-> id, todo |-> todo, placed |-> placed] \in Call
  BY DEF Call
<1>2. call' \in [Clients -> Call]
  BY <1>1 DEF Goto, CallInv
<1>3. call'[c] = [op |-> op, party |-> id, todo |-> todo, placed |-> placed]
      /\ \A d \in Clients : d # c => call'[d] = call[d]
  BY DEF Goto, CallInv
<1>. QED BY <1>2, <1>3 DEF CallInv, CallsHaveParty

\* The same for a call that rolls back.
LEMMA RollbackGoto ==
  ASSUME CallInv, NEW c \in Clients, NEW id \in PartyIds, NEW todo \in SUBSET Players,
         Goto(c, "rollback", id, todo, {})
  PROVE  /\ CallInv' /\ call'[c].op = "rollback" /\ call'[c].todo = todo
         /\ \A d \in Clients : d # c => call'[d] = call[d]
<1> DEFINE r == [op |-> "rollback", party |-> id, todo |-> todo, placed |-> {}]
<1>1. r \in Call /\ r.op = "rollback" /\ r.todo = todo /\ r.party = id
  BY PartyAssumption DEF Call, Ops, PartyIds
<1>2. call' = [call EXCEPT ![c] = r]
  BY DEF Goto
<1> HIDE DEF r
<1>3. call' \in [Clients -> Call] /\ call'[c] = r
      /\ \A d \in Clients : d # c => call'[d] = call[d]
  BY <1>1, <1>2 DEF CallInv
<1>. QED BY <1>1, <1>3 DEF CallInv, CallsHaveParty

\* A step that moves one call without tickets and leaves the queue alone.
LEMMA QuietMove ==
  ASSUME CallInv, QueueInv, TicketsKnown, NEW c \in Clients, UNCHANGED <<queued, placedBy>>,
         \A d \in Clients : d # c => call'[d] = call[d],
         call[c].op \notin {"enqueuing", "rollback", "marking"}
  PROVE  TicketsKnown' /\ QueueInv'
BY DEF TicketsKnown, QueueInv

\* A ticket of nobody's call, or none any more.
LEMMA PlaceInv ==
  ASSUME QueueInv, NEW p \in Players, NEW owner \in Clients \cup {Solo}, Place(p, owner)
  PROVE  /\ QueueInv' /\ queued' = queued \cup {p} /\ placedBy'[p] = owner
         /\ \A q \in Players : q # p => placedBy'[q] = placedBy[q]
BY DEF QueueInv, Place, Queue!PoolEnqueue

\* dequeue() takes out one ticket at most.
LEMMA TakeInv ==
  ASSUME QueueInv, NEW p \in Players, Take(p)
  PROVE  /\ QueueInv' /\ queued' = queued \ {p}
         /\ \A q \in Players : q # p => placedBy'[q] = placedBy[q]
BY DEF QueueInv, Take, Queue!PoolDequeue

\* Operations outside calls: on single players, on matches, on parties.
LEMMA OutsideInv ==
  ASSUME IInv,
         \/ Switch \/ ProcessMatch
         \/ \E p \in Players : EnqueuePlayer(p) \/ DequeuePlayer(p) \/ CreatePartyOf(p)
         \/ \E id \in PartyIds : ChangeParty(id)
  PROVE  IInv'
<1> USE DEF IInv, LobbyTypeOK
<1>0. QueueInv /\ CallInv
  BY DEF QueueInv, CallInv
<1>1. CASE Switch
  <2>1. running' \in BOOLEAN
    BY <1>1, Zenon DEF Switch
  <2>2. UNCHANGED <<queued, placedBy, call>> /\ PartyTypeOK' /\ PartyConsistent'
    BY <1>1, PartyUnchanged DEF Switch
  <2>. QED BY <2>1, <2>2 DEF CallsHaveParty, TicketsKnown
<1>2. CASE ProcessMatch
  <2>1. UNCHANGED <<running, call>> /\ PartyTypeOK' /\ PartyConsistent'
    BY <1>2, PartyUnchanged DEF ProcessMatch
  <2>2. PICK group \in SUBSET queued :
          /\ queued' = queued \ group
          /\ placedBy' = [p \in Players |-> IF p \in group THEN Solo ELSE placedBy[p]]
    BY <1>2 DEF ProcessMatch, Queue!PoolMatch
  <2>3. QueueInv' /\ TicketsKnown'
    BY <1>0, <2>1, <2>2 DEF QueueInv, TicketsKnown
  <2>. QED BY <2>1, <2>3 DEF QueueInv, CallsHaveParty
<1>3. ASSUME NEW p \in Players, EnqueuePlayer(p) PROVE IInv'
  <2>1. UNCHANGED <<running, call>> /\ PartyTypeOK' /\ PartyConsistent'
    BY <1>3, PartyUnchanged DEF EnqueuePlayer
  <2>2. /\ QueueInv' /\ queued' = queued \cup {p} /\ placedBy'[p] = Solo
        /\ \A q \in Players : q # p => placedBy'[q] = placedBy[q]
    BY <1>0, <1>3, PlaceInv DEF EnqueuePlayer
  <2>3. TicketsKnown'
    BY <1>0, <2>1, <2>2, ClientAssumption DEF TicketsKnown, QueueInv
  <2>. QED BY <2>1, <2>2, <2>3 DEF QueueInv, CallsHaveParty
<1>4. ASSUME NEW p \in Players, DequeuePlayer(p) PROVE IInv'
  <2>1. UNCHANGED <<running, call>> /\ PartyTypeOK' /\ PartyConsistent'
    BY <1>4, PartyUnchanged DEF DequeuePlayer
  <2>2. /\ QueueInv' /\ queued' = queued \ {p}
        /\ \A q \in Players : q # p => placedBy'[q] = placedBy[q]
    BY <1>0, <1>4, TakeInv DEF DequeuePlayer
  <2>3. TicketsKnown'
    BY <1>0, <2>1, <2>2 DEF TicketsKnown, QueueInv
  <2>. QED BY <2>1, <2>2, <2>3 DEF QueueInv, CallsHaveParty
<1>5. ASSUME UNCHANGED <<running, queued, placedBy, call>>, PartyTypeOK', PartyConsistent' PROVE IInv'
  BY <1>5 DEF CallsHaveParty, TicketsKnown
<1>6. ASSUME NEW p \in Players, CreatePartyOf(p) PROVE IInv'
  BY <1>5, <1>6, CreateInv DEF CreatePartyOf, partyOnly
<1>7. ASSUME NEW id \in PartyIds, ChangeParty(id) PROVE IInv'
  <2>1. PartyTypeOK' /\ PartyConsistent'
    BY <1>7, MembersInv, RemovePartyInv DEF ChangeParty, DisbandParty, RemoveLeader
  <2>. QED BY <1>5, <1>7, <2>1 DEF ChangeParty, partyOnly
<1>. QED BY <1>1, <1>2, <1>3, <1>4, <1>6, <1>7

\* Calls that begin.
LEMMA BeginInv ==
  ASSUME IInv, NEW c \in Clients,
         \E id \in PartyIds : EnqueueParty(c, id) \/ DequeueParty(c, id)
  PROVE  IInv'
<1> USE DEF IInv, LobbyTypeOK
<1>0. QueueInv /\ CallInv
  BY DEF QueueInv, CallInv
<1>1. call[c].op = "idle" /\ UNCHANGED <<running, queued, placedBy>>
  BY DEF EnqueueParty, DequeueParty, partyOnly
<1>2. PartyTypeOK' /\ PartyConsistent'
  BY PartyUnchanged DEF EnqueueParty, DequeueParty
<1>3. \E op \in Ops, id \in 0..MaxParties, todo \in SUBSET Players :
        /\ op = "idle" \/ id \in PartyIds
        /\ Goto(c, op, id, todo, {})
  <2>1. \A id \in PartyIds : members[id] \in SUBSET Players /\ id \in 0..MaxParties
    BY PartyAssumption DEF PartyTypeOK, PartyIds
  <2>2. 0 \in 0..MaxParties /\ {} \in SUBSET Players
    BY PartyAssumption
  <2>. QED BY <2>1, <2>2 DEF EnqueueParty, DequeueParty, Ops
<1>4. CallInv' /\ \A d \in Clients : d # c => call'[d] = call[d]
  <2>1. PICK op \in Ops, id \in 0..MaxParties, todo \in SUBSET Players :
          /\ op = "idle" \/ id \in PartyIds
          /\ Goto(c, op, id, todo, {})
    BY <1>3
  <2>2. {} \in SUBSET Players
    OBVIOUS
  <2>. QED BY <1>0, <2>1, <2>2, GotoInv, Zenon
<1>5. TicketsKnown'
  BY <1>0, <1>1, <1>4, QuietMove
<1>. QED BY <1>1, <1>2, <1>4, <1>5 DEF CallInv

\* Calls that go on.
LEMMA CallStepInv ==
  ASSUME IInv, NEW c \in Clients, CallStep(c) PROVE IInv'
<1> USE DEF IInv, LobbyTypeOK
<1>0. QueueInv /\ CallInv
  BY DEF QueueInv, CallInv
<1> DEFINE me == call[c]
<1>a. /\ me.op \in Ops /\ me.party \in 0..MaxParties
      /\ me.todo \in SUBSET Players /\ me.placed \in SUBSET Players
  BY DEF Call
<1>b. me.op # "idle" => me.party \in PartyIds
  BY DEF CallsHaveParty
<1>c. 0 \in 0..MaxParties /\ {} \in SUBSET Players /\ "idle" \in Ops
  BY PartyAssumption DEF Ops
<1>2. CASE RateParty(c)
  <2>1. UNCHANGED <<running, queued, placedBy>> /\ PartyTypeOK' /\ PartyConsistent'
    BY <1>2, PartyUnchanged DEF RateParty, partyOnly
  <2>2. CallInv' /\ \A d \in Clients : d # c => call'[d] = call[d]
    <3>1. CASE Goto(c, "idle", 0, {}, {})
      BY <1>0, <1>c, <3>1, GotoInv
    <3>2. CASE Goto(c, "enqueuing", me.party, me.todo, {})
      <4>1. "enqueuing" \in Ops /\ me.party \in PartyIds
        BY <1>2, <1>b DEF Ops, RateParty
      <4>. QED BY <1>0, <1>a, <1>c, <3>2, <4>1, GotoInv
    <3>. QED BY <1>2, <3>1, <3>2 DEF RateParty
  <2>3. TicketsKnown'
    BY <1>0, <1>2, <2>1, <2>2, QuietMove DEF RateParty
  <2>. QED BY <2>1, <2>2, <2>3 DEF CallInv
<1>3. CASE Rollback(c)
  <2>1. UNCHANGED running /\ PartyTypeOK' /\ PartyConsistent' /\ me.op = "rollback"
    BY <1>3, PartyUnchanged DEF Rollback
  <2>2. ASSUME NEW p \in me.todo, Take(p), Goto(c, "rollback", me.party, me.todo \ {p}, {})
        PROVE  CallInv' /\ QueueInv' /\ TicketsKnown'
    <3>1. p \in Players /\ me.todo \ {p} \in SUBSET Players /\ me.party \in PartyIds
      BY <1>a, <1>b, <2>1
    <3>2. /\ CallInv' /\ \A d \in Clients : d # c => call'[d] = call[d]
          /\ call'[c].op = "rollback" /\ call'[c].todo = me.todo \ {p}
      BY <1>0, <2>2, <3>1, RollbackGoto
    <3>3. /\ QueueInv' /\ queued' = queued \ {p}
          /\ \A q \in Players : q # p => placedBy'[q] = placedBy[q]
      BY <1>0, <2>2, <3>1, TakeInv
    <3>5. TicketsKnown'
      <4> SUFFICES ASSUME NEW d \in Clients, NEW q \in queued', placedBy'[q] = d
                   PROVE  \/ call'[d].op = "enqueuing" /\ q \in call'[d].placed
                          \/ call'[d].op = "rollback" /\ q \in call'[d].todo
                          \/ call'[d].op = "marking"
        BY DEF TicketsKnown
      <4>1. q \in queued /\ q # p /\ placedBy[q] = d
        BY <1>0, <3>3 DEF QueueInv
      <4>. QED BY <2>1, <3>2, <4>1 DEF TicketsKnown
    <3>. QED BY <3>2, <3>3, <3>5
  <2>3. CASE me.todo = {} /\ Goto(c, "idle", 0, {}, {}) /\ UNCHANGED <<queued, placedBy>>
    <3>1. CallInv' /\ \A d \in Clients : d # c => call'[d] = call[d]
      BY <1>0, <1>c, <2>3, GotoInv
    <3>2. \A p \in queued : placedBy[p] # c
      BY <2>1, <2>3 DEF TicketsKnown
    <3>3. QueueInv' /\ TicketsKnown'
      BY <1>0, <2>3, <3>1, <3>2 DEF TicketsKnown, QueueInv
    <3>. QED BY <2>1, <3>1, <3>3 DEF CallInv, QueueInv
  <2>. QED BY <1>3, <2>1, <2>2, <2>3 DEF Rollback, CallInv, QueueInv
<1>4. CASE MarkParty(c)
  <2>1. UNCHANGED <<running, queued>> /\ me.op = "marking" /\ me.party \in PartyIds
    BY <1>4, <1>b DEF MarkParty
  <2>2. PartyTypeOK' /\ PartyConsistent'
    BY <1>4, <2>1, QueueFlagInv DEF MarkParty
  <2>3. CallInv' /\ \A d \in Clients : d # c => call'[d] = call[d]
    BY <1>0, <1>4, <1>c, GotoInv DEF MarkParty
  <2>4. QueueInv' /\ TicketsKnown'
    BY <1>0, <1>4, <2>1, <2>3, ClientAssumption DEF MarkParty, QueueInv, TicketsKnown
  <2>. QED BY <2>1, <2>2, <2>3, <2>4 DEF CallInv, QueueInv
<1>5. CASE UnmarkParty(c)
  <2>1. UNCHANGED <<running, queued, placedBy>> /\ me.op = "unmarking" /\ me.party \in PartyIds
    BY <1>5, <1>b DEF UnmarkParty, partyOnly
  <2>2. PartyTypeOK' /\ PartyConsistent'
    BY <1>5, <2>1, QueueFlagInv DEF UnmarkParty
  <2>3. CallInv' /\ \A d \in Clients : d # c => call'[d] = call[d]
    BY <1>0, <1>5, <1>c, GotoInv DEF UnmarkParty
  <2>4. TicketsKnown'
    BY <1>0, <2>1, <2>3, QuietMove
  <2>. QED BY <2>1, <2>2, <2>3, <2>4 DEF CallInv
<1>6. ASSUME NEW p \in Players, EnqueueMember(c, p) PROVE IInv'
  <2> DEFINE op == IF me.todo = {p} THEN "marking" ELSE "enqueuing"
             placed == me.placed \cup {p}
             todo == me.todo \ {p}
  <2>1. UNCHANGED running /\ PartyTypeOK' /\ PartyConsistent'
        /\ me.op = "enqueuing" /\ me.party \in PartyIds
    BY <1>6, <1>b, PartyUnchanged DEF EnqueueMember
  <2>2. op \in Ops /\ placed \in SUBSET Players /\ todo \in SUBSET Players
        /\ Goto(c, op, me.party, todo, placed)
    BY <1>6, <1>a DEF Ops, EnqueueMember
  <2>3. op = "marking" \/ op = "enqueuing"
    OBVIOUS
  <2>4. p \in placed /\ me.placed \subseteq placed
    OBVIOUS
  <2> HIDE DEF op, placed, todo
  <2>5. /\ CallInv' /\ \A d \in Clients : d # c => call'[d] = call[d]
        /\ call'[c] = [op |-> op, party |-> me.party, todo |-> todo, placed |-> placed]
    BY <1>0, <1>a, <2>1, <2>2, GotoInv
  <2>6. call'[c].op = op /\ call'[c].placed = placed
    BY <2>5
  <2>7. /\ QueueInv' /\ queued' = queued \cup {p} /\ placedBy'[p] = c
        /\ \A q \in Players : q # p => placedBy'[q] = placedBy[q]
    BY <1>0, <1>6, PlaceInv DEF EnqueueMember
  <2>8. TicketsKnown'
    <3> SUFFICES ASSUME NEW d \in Clients, NEW q \in queued', placedBy'[q] = d
                 PROVE  \/ call'[d].op = "enqueuing" /\ q \in call'[d].placed
                        \/ call'[d].op = "rollback" /\ q \in call'[d].todo
                        \/ call'[d].op = "marking"
      BY DEF TicketsKnown
    <3>1. CASE d # c
      <4>1. q # p /\ q \in queued /\ placedBy[q] = d
        BY <1>0, <2>7, <3>1 DEF QueueInv
      <4>. QED BY <2>5, <3>1, <4>1 DEF TicketsKnown
    <3>2. CASE d = c /\ q = p
      BY <2>3, <2>4, <2>6, <3>2
    <3>3. CASE d = c /\ q # p
      <4>1. q \in queued /\ placedBy[q] = c
        BY <1>0, <2>7, <3>3 DEF QueueInv
      <4>2. q \in me.placed
        BY <2>1, <4>1 DEF TicketsKnown
      <4>. QED BY <2>3, <2>4, <2>6, <3>3, <4>2
    <3>. QED BY <3>1, <3>2, <3>3
  <2>. QED BY <2>1, <2>5, <2>7, <2>8 DEF CallInv, QueueInv
<1>7. ASSUME NEW p \in Players, MemberRefused(c, p) PROVE IInv'
  <2>1. UNCHANGED <<running, queued, placedBy>> /\ PartyTypeOK' /\ PartyConsistent'
        /\ me.op = "enqueuing" /\ me.party \in PartyIds
    BY <1>7, <1>b, PartyUnchanged DEF MemberRefused, partyOnly
  <2>2. Goto(c, "rollback", me.party, me.placed, {})
    BY <1>7 DEF MemberRefused
  <2>3. /\ CallInv' /\ \A d \in Clients : d # c => call'[d] = call[d]
        /\ call'[c].op = "rollback" /\ call'[c].todo = me.placed
    BY <1>0, <1>a, <2>1, <2>2, RollbackGoto
  <2>4. TicketsKnown'
    BY <2>1, <2>3 DEF TicketsKnown
  <2>. QED BY <2>1, <2>3, <2>4 DEF CallInv
<1>8. ASSUME NEW p \in Players, DequeueMember(c, p) PROVE IInv'
  <2> DEFINE op == IF me.todo = {p} THEN "unmarking" ELSE "dequeuing"
             todo == me.todo \ {p}
  <2>1. UNCHANGED running /\ PartyTypeOK' /\ PartyConsistent'
        /\ me.op = "dequeuing" /\ me.party \in PartyIds
    BY <1>8, <1>b, PartyUnchanged DEF DequeueMember
  <2>2. op \in Ops /\ todo \in SUBSET Players /\ Goto(c, op, me.party, todo, {})
    BY <1>8, <1>a DEF Ops, DequeueMember
  <2> HIDE DEF op, todo
  <2>3. CallInv' /\ \A d \in Clients : d # c => call'[d] = call[d]
    BY <1>0, <1>a, <1>c, <2>1, <2>2, GotoInv
  <2>4. /\ QueueInv' /\ queued' = queued \ {p}
        /\ \A q \in Players : q # p => placedBy'[q] = placedBy[q]
    BY <1>0, <1>8, TakeInv DEF DequeueMember
  <2>5. TicketsKnown'
    <3> SUFFICES ASSUME NEW d \in Clients, NEW q \in queued', placedBy'[q] = d
                 PROVE  \/ call'[d].op = "enqueuing" /\ q \in call'[d].placed
                        \/ call'[d].op = "rollback" /\ q \in call'[d].todo
                        \/ call'[d].op = "marking"
      BY DEF TicketsKnown
    <3>1. q \in queued /\ placedBy[q] = d
      BY <1>0, <2>4 DEF QueueInv
    <3>2. d # c
      BY <2>1, <3>1 DEF TicketsKnown
    <3>. QED BY <2>3, <3>1, <3>2 DEF TicketsKnown
  <2>. QED BY <2>1, <2>3, <2>4, <2>5 DEF CallInv, QueueInv
<1>. QED BY <1>2, <1>3, <1>4, <1>5, <1>6, <1>7, <1>8 DEF CallStep

\* A new object satisfies the invariant.
LEMMA InvInit == LobbyInit => IInv
<1> SUFFICES ASSUME LobbyInit PROVE IInv
  OBVIOUS
<1>1. PartyTypeOK /\ PartyConsistent
  BY DEF LobbyInit, PartyInit, PartyTypeOK, PartyConsistent, PartyIds, PartyExists
<1>2. running \in BOOLEAN
  BY Zenon DEF LobbyInit
<1>3. call \in [Clients -> Call] /\ CallsHaveParty
  <2>1. Idle \in Call
    BY PartyAssumption DEF Idle, Call, Ops
  <2>2. Idle.op = "idle"
    BY DEF Idle
  <2>. QED BY <2>1, <2>2 DEF LobbyInit, CallsHaveParty
<1>4. queued = {}
  BY DEF LobbyInit, Queue!PoolInit
<1>. QED BY <1>1, <1>2, <1>3, <1>4 DEF LobbyInit, IInv, LobbyTypeOK, TicketsKnown

\* Every operation preserves it.
LEMMA InvNext == IInv /\ [LobbyNext]_lobbyVars => IInv'
<1> SUFFICES ASSUME IInv, [LobbyNext]_lobbyVars PROVE IInv'
  OBVIOUS
<1>1. CASE UNCHANGED lobbyVars
  <2>1. PartyTypeOK' /\ PartyConsistent'
    BY <1>1, PartyUnchanged DEF lobbyVars, IInv, LobbyTypeOK
  <2>. QED BY <1>1, <2>1 DEF lobbyVars, IInv, LobbyTypeOK, CallsHaveParty, TicketsKnown
<1>2. CASE LobbyNext
  BY <1>2, OutsideInv, BeginInv, CallStepInv DEF LobbyNext
<1>. QED BY <1>1, <1>2

\* Type correctness of parties, queue and calls.
THEOREM TypeCorrect == LobbySpec => []LobbyTypeOK
<1>1. IInv => LobbyTypeOK
  BY DEF IInv
<1>. QED BY <1>1, InvInit, InvNext, PTL DEF LobbySpec

\* parties_ and playerParty_ agree in every reachable state, for any number
\* of players, parties and concurrent clients.
THEOREM PartiesAlwaysConsistent == LobbySpec => []PartyConsistent
<1>1. IInv => PartyConsistent
  BY DEF IInv
<1>. QED BY <1>1, InvInit, InvNext, PTL DEF LobbySpec

\* An enqueueParty() call that has returned an error has left no ticket,
\* whatever other clients did to the queue and the party meanwhile.
THEOREM FailedEnqueueRollsBack == LobbySpec => []FailedEnqueueLeavesNothing
<1>1. IInv => FailedEnqueueLeavesNothing
  BY DEF IInv, TicketsKnown, FailedEnqueueLeavesNothing
<1>. QED BY <1>1, InvInit, InvNext, PTL DEF LobbySpec
=============================================================================
