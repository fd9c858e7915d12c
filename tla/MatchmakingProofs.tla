--------------------------- MODULE MatchmakingProofs ---------------------------
(***************************************************************************)
(* The ticket index of MatchmakingQueue, for every queue configuration.    *)
(* QueueTypeOK is part of the induction: the removal loop keeps the remaining   *)
(* positions inside the shrinking vector only because it goes from the     *)
(* highest position down.                                                  *)
(***************************************************************************)
EXTENDS MatchmakingQueue, SequenceTheorems, FiniteSetTheorems, TLAPS

IInv == QueueTypeOK /\ IndexAgrees

\* Removal by swapping keeps vector and index in agreement, and leaves every
\* position below the removed one in range.
LEMMA RemoveAtInv ==
  ASSUME IInv, NEW i \in Positions, RemoveTicketAt(i)
  PROVE  /\ tickets' \in Seq(Ticket) /\ Len(tickets') = Len(tickets) - 1
         /\ playerIndex' \in [Players -> Nat]
         /\ IndexAgrees'
<1> USE DEF IInv, QueueTypeOK, Positions
<1> DEFINE last == Len(tickets)
           moved == [tickets EXCEPT ![i] = tickets[last]]
<1>1. last \in Nat /\ last >= 1 /\ i \in 1..last /\ tickets[last] \in Ticket /\ tickets[i] \in Ticket
  OBVIOUS
<1>2. moved \in Seq(Ticket) /\ Len(moved) = last
  BY <1>1
<1>3. \A j \in 1..last : moved[j] = IF j = i THEN tickets[last] ELSE tickets[j]
  BY <1>1
<1>4. tickets' = SubSeq(moved, 1, last - 1)
  BY DEF RemoveTicketAt
<1> HIDE DEF moved
<1>5. tickets' \in Seq(Ticket) /\ Len(tickets') = last - 1
  BY <1>1, <1>2, <1>4
<1>6. \A j \in 1..(last - 1) : tickets'[j] = moved[j]
  BY <1>1, <1>2, <1>4
<1>7. \A p \in Players : playerIndex'[p] = IF p = tickets[i].player THEN 0
                                          ELSE IF p = tickets[last].player THEN i
                                          ELSE playerIndex[p]
  BY DEF RemoveTicketAt
<1>8. playerIndex' \in [Players -> Nat]
  BY <1>1 DEF RemoveTicketAt
<1>9. \A j \in 1..last : tickets[j].player \in Players /\ playerIndex[tickets[j].player] = j
  <2> TAKE j \in 1..last
  <2>1. tickets[j] \in Ticket
    OBVIOUS
  <2>. QED BY <2>1 DEF IndexAgrees, Ticket
<1>10. ASSUME NEW j \in 1..(last - 1) PROVE playerIndex'[tickets'[j].player] = j
  <2>1. CASE j = i
    BY <1>1, <1>3, <1>6, <1>7, <1>9, <2>1
  <2>2. CASE j # i
    BY <1>1, <1>3, <1>6, <1>7, <1>9, <2>2
  <2>. QED BY <2>1, <2>2
<1>11. ASSUME NEW p \in Players, playerIndex'[p] # 0
       PROVE  playerIndex'[p] \in 1..(last - 1) /\ tickets'[playerIndex'[p]].player = p
  <2>1. p # tickets[i].player
    BY <1>7, <1>11
  <2>2. CASE p = tickets[last].player
    <3>1. i # last /\ playerIndex'[p] = i
      BY <1>7, <2>1, <2>2
    <3>. QED BY <1>1, <1>3, <1>6, <2>2, <3>1
  <2>3. CASE p # tickets[last].player
    <3>1. playerIndex'[p] = playerIndex[p]
      BY <1>7, <2>1, <2>3
    <3>2. playerIndex[p] \in 1..last /\ tickets[playerIndex[p]].player = p
      BY <1>11, <3>1 DEF IndexAgrees
    <3>3. playerIndex[p] # last /\ playerIndex[p] # i
      BY <2>1, <2>3, <3>2
    <3>. QED BY <1>1, <1>3, <1>6, <3>1, <3>2, <3>3
  <2>. QED BY <2>2, <2>3
<1>12. IndexAgrees'
  BY <1>1, <1>5, <1>10, <1>11 DEF IndexAgrees
<1>. QED BY <1>5, <1>8, <1>12

\* A new object satisfies the invariant.
LEMMA InvInit == QueueInit => IInv
BY DEF QueueInit, IInv, QueueTypeOK, IndexAgrees, Positions

\* Every operation preserves it.
LEMMA InvNext == IInv /\ [QueueNext]_queueVars => IInv'
<1> SUFFICES ASSUME IInv, [QueueNext]_queueVars PROVE IInv'
  OBVIOUS
<1> USE DEF IInv, QueueTypeOK, Positions
<1>1. ASSUME NEW p \in Players, Dequeue(p) PROVE IInv'
  <2>1. playerIndex[p] \in Positions
    BY <1>1 DEF Dequeue, IndexAgrees
  <2>2. pending' = {}
    BY <1>1 DEF Dequeue
  <2>. QED BY <1>1, <2>1, <2>2, RemoveAtInv DEF Dequeue
<1>2. ASSUME NEW p \in Players, NEW m \in Modes, NEW r \in Regions, NEW mmr \in Ratings,
             Enqueue(p, m, r, mmr)
      PROVE  IInv'
  <2> DEFINE t == [player |-> p, mode |-> m, region |-> r, mmr |-> mmr, age |-> 0]
             n == Len(tickets)
  <2>1. t \in Ticket /\ t.player = p
    BY QueueAssumption DEF Ticket
  <2>2. tickets' = Append(tickets, t) /\ pending' = {} /\ playerIndex[p] = 0
        /\ playerIndex' = [playerIndex EXCEPT ![p] = n + 1]
    BY <1>2 DEF Enqueue
  <2> HIDE DEF t
  <2>3. /\ tickets' \in Seq(Ticket) /\ Len(tickets') = n + 1 /\ tickets'[n + 1] = t
        /\ \A i \in 1..n : tickets'[i] = tickets[i]
    BY <2>1, <2>2
  <2>4. \A i \in 1..n : tickets[i].player \in Players /\ tickets[i].player # p
    <3> TAKE i \in 1..n
    <3>1. tickets[i] \in Ticket /\ n \in Nat
      OBVIOUS
    <3>. QED BY <2>2, <3>1 DEF IndexAgrees, Ticket
  <2>5. n \in Nat /\ playerIndex'[p] = n + 1
        /\ \A q \in Players : q # p => playerIndex'[q] = playerIndex[q]
    BY <2>2
  <2>6. \A i \in 1..(n + 1) : playerIndex'[tickets'[i].player] = i
    <3> TAKE i \in 1..(n + 1)
    <3>1. CASE i = n + 1
      BY <2>1, <2>3, <2>5, <3>1
    <3>2. CASE i \in 1..n
      BY <2>3, <2>4, <2>5, <3>2 DEF IndexAgrees
    <3>. QED BY <2>5, <3>1, <3>2
  <2>7. \A q \in Players : playerIndex'[q] # 0 =>
          playerIndex'[q] \in 1..(n + 1) /\ tickets'[playerIndex'[q]].player = q
    <3> TAKE q \in Players
    <3>1. CASE q = p
      BY <2>1, <2>3, <2>5, <3>1
    <3>2. CASE q # p
      BY <2>3, <2>5, <3>2 DEF IndexAgrees
    <3>. QED BY <3>1, <3>2
  <2>8. IndexAgrees'
    BY <2>3, <2>6, <2>7 DEF IndexAgrees
  <2>. QED BY <2>2, <2>3, <2>8
<1>3. CASE TryMatch
  <2>1. pending' \subseteq Positions /\ UNCHANGED <<tickets, playerIndex>>
    BY <1>3 DEF TryMatch, Candidates
  <2>. QED BY <2>1 DEF IndexAgrees
<1>4. CASE RemoveMatched
  <2> PICK i \in pending : (\A j \in pending : j <= i) /\ RemoveTicketAt(i) /\ pending' = pending \ {i}
    BY <1>4 DEF RemoveMatched
  <2>1. \A j \in pending' : j \in 1..(Len(tickets) - 1)
    OBVIOUS
  <2>. QED BY <2>1, RemoveAtInv
<1>5. CASE Age
  <2> DEFINE n == Len(tickets)
             older(i) == [player |-> tickets[i].player, mode |-> tickets[i].mode,
                          region |-> tickets[i].region, mmr |-> tickets[i].mmr,
                          age |-> IF tickets[i].age < AgeCap THEN tickets[i].age + 1 ELSE AgeCap]
  <2>1. n \in Nat /\ tickets' = [i \in 1..n |-> older(i)] /\ pending' = {}
        /\ playerIndex' = playerIndex
    BY <1>5 DEF Age
  <2>2. \A i \in 1..n : older(i) \in Ticket /\ older(i).player = tickets[i].player
    <3> TAKE i \in 1..n
    <3>1. tickets[i] \in Ticket
      OBVIOUS
    <3>. QED BY <3>1, QueueAssumption DEF Ticket
  <2> HIDE DEF older
  <2>3. tickets' \in Seq(Ticket) /\ Len(tickets') = n
    BY <2>1, <2>2, IsASeq
  <2>4. \A i \in 1..n : tickets'[i].player = tickets[i].player
    BY <2>1, <2>2
  <2>. QED BY <2>1, <2>3, <2>4 DEF IndexAgrees
<1>6. CASE UNCHANGED queueVars
  BY <1>6 DEF queueVars, IndexAgrees
<1>. QED BY <1>1, <1>2, <1>3, <1>4, <1>5, <1>6 DEF QueueNext

\* Type correctness of the queue: in particular the removal loop never
\* reaches for a position outside the vector.
THEOREM TypeCorrect == QueueSpec => []QueueTypeOK
<1>1. IInv => QueueTypeOK
  BY DEF IInv
<1>. QED BY <1>1, InvInit, InvNext, PTL DEF QueueSpec

\* The index of every player is the position of that player's ticket, for
\* all queues, match sizes and sequences of operations.
THEOREM IndexAlwaysAgrees == QueueSpec => []IndexAgrees
<1>1. IInv => IndexAgrees
  BY DEF IInv
<1>. QED BY <1>1, InvInit, InvNext, PTL DEF QueueSpec

(***************************************************************************)
(* The refinement of TicketPool.                                           *)
(***************************************************************************)

\* The first members of a set of positions, those with fewer than k members
\* below them, are at most k: the number of members below is different for
\* each of them.
LEMMA FirstAreFew ==
  ASSUME NEW fits \in SUBSET Int, IsFiniteSet(fits), NEW k \in Nat
  PROVE  LET first == {i \in fits : Cardinality({j \in fits : j < i}) < k}
         IN  IsFiniteSet(first) /\ Cardinality(first) <= k
<1> DEFINE below(i) == {j \in fits : j < i}
           first == {i \in fits : Cardinality(below(i)) < k}
           rank == [i \in first |-> Cardinality(below(i))]
<1>1. ASSUME NEW i \in fits PROVE IsFiniteSet(below(i)) /\ Cardinality(below(i)) \in Nat
  <2>1. below(i) \in SUBSET fits
    OBVIOUS
  <2>2. IsFiniteSet(below(i))
    BY <2>1, FS_Subset
  <2>. QED BY <2>2, FS_CardinalityType
<1>2. ASSUME NEW i \in fits, NEW j \in fits, i < j
      PROVE  Cardinality(below(i)) < Cardinality(below(j))
  <2>0. i \in Int /\ j \in Int /\ fits \subseteq Int
    OBVIOUS
  <2>1. below(i) \cup {i} \in SUBSET below(j) /\ i \notin below(i)
    <3>1. \A x \in below(i) : x \in below(j)
      BY <1>2, <2>0
    <3>2. i \in below(j) /\ i \notin below(i)
      BY <1>2, <2>0
    <3> HIDE DEF below
    <3>. QED BY <3>1, <3>2
  <2>2. Cardinality(below(i) \cup {i}) <= Cardinality(below(j))
    BY <1>1, <2>1, FS_Subset, Zenon
  <2>3. Cardinality(below(i) \cup {i}) = Cardinality(below(i)) + 1
    BY <1>1, <2>1, FS_AddElement, Zenon
  <2> HIDE DEF below
  <2>. QED BY <1>1, <2>2, <2>3
<1> HIDE DEF below
<1>3. rank \in [first -> 0..(k - 1)]
  <2>1. ASSUME NEW i \in first PROVE Cardinality(below(i)) \in 0..(k - 1)
    <3>1. Cardinality(below(i)) \in Nat /\ Cardinality(below(i)) < k
      BY <1>1
    <3>. QED BY <3>1
  <2> HIDE DEF first
  <2>. QED BY <2>1
<1>4. ASSUME NEW i \in first, NEW j \in first, rank[i] = rank[j] PROVE i = j
  <2>1. i \in fits /\ j \in fits /\ i \in Int /\ j \in Int
        /\ Cardinality(below(i)) = Cardinality(below(j))
    BY <1>4
  <2>. QED BY <1>1, <1>2, <2>1
<1>5. rank \in Injection(first, 0..(k - 1))
  <2> HIDE DEF rank, first
  <2>1. DOMAIN rank = first
    BY <1>3
  <2>. QED BY <1>3, <1>4, <2>1 DEF Injection, IsInjective
<1>6. IsFiniteSet(0..(k - 1)) /\ Cardinality(0..(k - 1)) = k
  BY FS_Interval
<1>7. IsFiniteSet(first) /\ Cardinality(first) <= Cardinality(0..(k - 1))
  <2> HIDE DEF rank, first
  <2>. QED BY <1>5, <1>6, FS_Injection, Zenon
<1>. QED BY <1>6, <1>7 DEF below

\* A group that tryMatch() collects for an anchor lies inside the vector and
\* has at most maxPlayersPerMatch members, the anchor included.
LEMMA GroupSize ==
  ASSUME IInv, NEW a \in Positions
  PROVE  /\ Candidates(a) \subseteq Positions /\ IsFiniteSet(Candidates(a))
         /\ Cardinality(Candidates(a)) \in Nat
         /\ Cardinality(Candidates(a)) <= MaxPlayersPerMatch
<1> DEFINE fits == {i \in Positions \ {a} : Compatible(tickets[a], tickets[i])}
           k == MaxPlayersPerMatch - 1
           first == {i \in fits : Cardinality({j \in fits : j < i}) < k}
<1>1. k \in Nat /\ Len(tickets) \in Nat /\ MaxPlayersPerMatch = k + 1
  BY QueueAssumption DEF IInv, QueueTypeOK
<1>2. IsFiniteSet(Positions)
  BY <1>1, FS_Interval DEF Positions
<1>3. fits \in SUBSET Positions /\ fits \in SUBSET Int
  BY <1>1 DEF Positions
<1>4. IsFiniteSet(fits)
  <2> HIDE DEF fits
  <2>. QED BY <1>2, <1>3, FS_Subset
<1>5. Candidates(a) = first \cup {a}
  BY DEF Candidates
<1> HIDE DEF fits, k
<1>6. IsFiniteSet(first) /\ Cardinality(first) <= k
  BY <1>1, <1>3, <1>4, FirstAreFew, Zenon
<1>7. first \subseteq Positions
  BY <1>3
<1> HIDE DEF first
<1>8. Cardinality(first) \in Nat
  BY <1>6, FS_CardinalityType
<1>9. IsFiniteSet(first \cup {a})
      /\ Cardinality(first \cup {a}) = IF a \in first THEN Cardinality(first) ELSE Cardinality(first) + 1
  BY <1>6, FS_AddElement, Zenon
<1>. QED BY <1>1, <1>5, <1>6, <1>7, <1>8, <1>9

\* No player has two tickets, so a set of positions holds as many players.
LEMMA PlayersCounted ==
  ASSUME IInv, NEW S \in SUBSET Positions
  PROVE  LET held == {tickets[i].player : i \in S}
         IN  IsFiniteSet(S) /\ Cardinality(held) = Cardinality(S)
<1> DEFINE held == {tickets[i].player : i \in S}
           holder == [i \in S |-> tickets[i].player]
<1>1. IsFiniteSet(S)
  <2>1. Len(tickets) \in Nat
    BY DEF IInv, QueueTypeOK
  <2>2. IsFiniteSet(Positions)
    BY <2>1, FS_Interval DEF Positions
  <2>. QED BY <2>2, FS_Subset
<1>2. holder \in [S -> held] /\ DOMAIN holder = S
  OBVIOUS
<1>3. ASSUME NEW i \in S, NEW j \in S, holder[i] = holder[j] PROVE i = j
  BY <1>3 DEF IInv, IndexAgrees
<1>4. \A t \in held : \E i \in S : holder[i] = t
  OBVIOUS
<1> HIDE DEF holder, held
<1>5. holder \in Bijection(S, held)
  BY <1>2, <1>3, <1>4 DEF Bijection, Injection, Surjection, IsInjective
<1>6. ExistsBijection(S, held)
  BY <1>5 DEF ExistsBijection
<1>. QED BY <1>1, <1>6, FS_Bijection, Zenon DEF held

\* The waiting players, told by their index.
LEMMA WaitingByIndex ==
  IInv => WaitingPlayers = {p \in Players : playerIndex[p] # 0 /\ playerIndex[p] \notin pending}
<1> SUFFICES ASSUME IInv
    PROVE  WaitingPlayers = {p \in Players : playerIndex[p] # 0 /\ playerIndex[p] \notin pending}
  OBVIOUS
<1>1. \A i \in Positions : i # 0 /\ tickets[i].player \in Players
                           /\ playerIndex[tickets[i].player] = i
  <2> TAKE i \in Positions
  <2>1. tickets[i] \in Ticket /\ i # 0
    BY DEF IInv, QueueTypeOK, Positions
  <2>. QED BY <2>1 DEF IInv, IndexAgrees, Ticket
<1>2. \A p \in Players : playerIndex[p] # 0 =>
        playerIndex[p] \in Positions /\ tickets[playerIndex[p]].player = p
  BY DEF IInv, IndexAgrees
<1>3. ASSUME NEW p \in WaitingPlayers
      PROVE  p \in Players /\ playerIndex[p] # 0 /\ playerIndex[p] \notin pending
  <2> PICK i \in Positions \ pending : p = tickets[i].player
    BY DEF WaitingPlayers
  <2>. QED BY <1>1
<1>4. ASSUME NEW p \in Players, playerIndex[p] # 0, playerIndex[p] \notin pending
      PROVE  p \in WaitingPlayers
  BY <1>2, <1>4 DEF WaitingPlayers
<1>. QED BY <1>3, <1>4

\* TicketPool counts with the same operator.
LEMMA SameCardinality == \A S : Pool!Cardinality(S) = Cardinality(S)
BY Zenon DEF Pool!Cardinality, Cardinality

\* Every step of the queue is a step of the pool, or changes nothing there:
\* the match is made when the group is chosen, and the removal loop, which
\* moves other players' tickets about, is invisible.
LEMMA PoolStep == IInv /\ IInv' /\ [QueueNext]_queueVars => [Pool!PoolNext]_WaitingPlayers
<1> SUFFICES ASSUME IInv, IInv', [QueueNext]_queueVars PROVE Pool!PoolNext \/ WaitingPlayers' = WaitingPlayers
  OBVIOUS
<1>1. WaitingPlayers = {p \in Players : playerIndex[p] # 0 /\ playerIndex[p] \notin pending}
  BY WaitingByIndex
<1>2. WaitingPlayers' = {p \in Players : playerIndex'[p] # 0 /\ playerIndex'[p] \notin pending'}
  <2>1. (WaitingPlayers = {p \in Players : playerIndex[p] # 0 /\ playerIndex[p] \notin pending})'
    BY WaitingByIndex, PTL
  <2>. QED BY <2>1
<1>3. Len(tickets) \in Nat /\ playerIndex \in [Players -> Nat] /\ pending \subseteq Positions
  BY DEF IInv, QueueTypeOK
<1>4. \A p \in Players : playerIndex[p] # 0 =>
        playerIndex[p] \in Positions /\ tickets[playerIndex[p]].player = p
  BY DEF IInv, IndexAgrees
<1>5. \A i \in Positions : i # 0 /\ tickets[i].player \in Players
                           /\ playerIndex[tickets[i].player] = i
  <2> TAKE i \in Positions
  <2>1. tickets[i] \in Ticket /\ i # 0
    BY DEF IInv, QueueTypeOK, Positions
  <2>. QED BY <2>1 DEF IInv, IndexAgrees, Ticket
<1>6. ASSUME NEW p \in Players, NEW m \in Modes, NEW r \in Regions, NEW mmr \in Ratings,
             Enqueue(p, m, r, mmr)
      PROVE  Pool!PoolNext
  <2>1. pending = {} /\ pending' = {} /\ Len(tickets) < MaxQueueSize /\ playerIndex[p] = 0
        /\ playerIndex' = [playerIndex EXCEPT ![p] = Len(tickets) + 1]
    BY <1>6 DEF Enqueue
  <2>2. WaitingPlayers' = WaitingPlayers \cup {p} /\ p \notin WaitingPlayers
    BY <1>1, <1>2, <1>3, <2>1
  <2>3. WaitingPlayers = {tickets[i].player : i \in Positions}
    BY <2>1 DEF WaitingPlayers
  <2>4. Cardinality(WaitingPlayers) = Cardinality(Positions)
    BY <2>3, PlayersCounted, Zenon
  <2>5. Cardinality(1..Len(tickets)) = Len(tickets)
    <3> PICK n \in Nat : n = Len(tickets)
      BY <1>3
    <3>1. 1 \in Int /\ n \in Int
      OBVIOUS
    <3>2. Cardinality(1..n) = IF 1 > n THEN 0 ELSE n - 1 + 1
      BY <3>1, FS_Interval, Zenon
    <3>. QED BY <3>2
  <2>6. Pool!Cardinality(WaitingPlayers) < MaxQueueSize
    BY <2>1, <2>4, <2>5, SameCardinality DEF Positions
  <2>. QED BY <2>2, <2>6 DEF Pool!PoolNext, Pool!PoolEnqueue, Pool!CanEnqueue
<1>7. ASSUME NEW p \in Players, Dequeue(p) PROVE Pool!PoolNext
  <2> DEFINE i == playerIndex[p]
             last == Len(tickets)
  <2>1. pending = {} /\ pending' = {} /\ i # 0 /\ RemoveTicketAt(i)
    BY <1>7 DEF Dequeue
  <2>2. i \in Positions /\ tickets[i].player = p /\ last \in Positions
    BY <1>3, <1>4, <2>1 DEF Positions
  <2>3. \A q \in Players : playerIndex'[q] = IF q = p THEN 0
                                            ELSE IF q = tickets[last].player THEN i
                                            ELSE playerIndex[q]
    BY <2>1, <2>2 DEF RemoveTicketAt
  <2>4. playerIndex[tickets[last].player] = last /\ last # 0
    BY <1>5, <2>2
  <2>5. WaitingPlayers' = WaitingPlayers \ {p}
    BY <1>1, <1>2, <2>1, <2>3, <2>4
  <2>. QED BY <2>5 DEF Pool!PoolNext, Pool!PoolDequeue
<1>8. CASE TryMatch
  <2> PICK a \in Positions : EnoughFor(a) /\ pending' = Candidates(a)
    BY <1>8 DEF TryMatch
  <2> DEFINE group == {tickets[i].player : i \in Candidates(a)}
  <2>1. pending = {} /\ playerIndex' = playerIndex
    BY <1>8 DEF TryMatch
  <2>2. Candidates(a) \in SUBSET Positions /\ Cardinality(Candidates(a)) \in Nat
        /\ Cardinality(Candidates(a)) <= MaxPlayersPerMatch
    BY GroupSize
  <2>3. Cardinality(group) = Cardinality(Candidates(a))
    BY <2>2, PlayersCounted, Zenon
  <2>4. Pool!Cardinality(group) \in MinPlayersPerMatch..MaxPlayersPerMatch
    BY <2>2, <2>3, SameCardinality, QueueAssumption DEF EnoughFor
  <2>5. group \subseteq WaitingPlayers
    BY <2>1, <2>2 DEF WaitingPlayers
  <2>6. \A p \in Players : playerIndex[p] # 0 => (playerIndex[p] \in Candidates(a) <=> p \in group)
    BY <1>4, <1>5, <2>2
  <2> HIDE DEF group
  <2>7. WaitingPlayers' = WaitingPlayers \ group
    BY <1>1, <1>2, <2>1, <2>6
  <2>. QED BY <2>4, <2>5, <2>7 DEF Pool!PoolNext, Pool!PoolMatch
<1>9. CASE RemoveMatched
  <2> PICK i \in pending : (\A j \in pending : j <= i) /\ RemoveTicketAt(i) /\ pending' = pending \ {i}
    BY <1>9 DEF RemoveMatched
  <2> DEFINE last == Len(tickets)
  <2>1. i \in Positions /\ last \in Positions /\ i <= last /\ i # 0
    BY <1>3 DEF Positions
  <2>2. \A q \in Players : playerIndex'[q] = IF q = tickets[i].player THEN 0
                                            ELSE IF q = tickets[last].player THEN i
                                            ELSE playerIndex[q]
    BY DEF RemoveTicketAt
  <2>3. playerIndex[tickets[last].player] = last /\ playerIndex[tickets[i].player] = i /\ last # 0
    BY <1>5, <2>1
  <2>4. last # i => last \notin pending
    BY <1>3, <2>1 DEF Positions
  <2>5. ASSUME NEW q \in Players PROVE q \in WaitingPlayers' <=> q \in WaitingPlayers
    <3>1. CASE q = tickets[i].player
      BY <1>1, <1>2, <2>2, <2>3, <3>1
    <3>2. CASE q # tickets[i].player /\ q = tickets[last].player
      <4>1. last # i /\ playerIndex'[q] = i /\ playerIndex[q] = last
        BY <2>2, <2>3, <3>2
      <4>. QED BY <1>1, <1>2, <2>1, <2>3, <2>4, <4>1
    <3>3. CASE q # tickets[i].player /\ q # tickets[last].player
      <4>1. playerIndex'[q] = playerIndex[q]
        BY <2>2, <3>3
      <4>2. playerIndex[q] # 0 => playerIndex[q] # i
        BY <1>4, <3>3
      <4>. QED BY <1>1, <1>2, <4>1, <4>2
    <3>. QED BY <3>1, <3>2, <3>3
  <2>. QED BY <1>1, <1>2, <2>5
<1>10. CASE Age
  BY <1>1, <1>2, <1>10 DEF Age
<1>11. CASE UNCHANGED queueVars
  BY <1>1, <1>2, <1>11 DEF queueVars
<1>. QED BY <1>6, <1>7, <1>8, <1>9, <1>10, <1>11 DEF QueueNext

\* matchmaking_queue.cpp implements the ticket pool, for every configuration:
\* a player is queued once and within maxQueueSize, dequeue() takes out that
\* player alone, and a match takes out a whole group of an allowed size and
\* nobody else, although its removal loop swaps tickets of others about.
THEOREM QueueImplementsPool == QueueSpec => ImplementsPool
<1>1. QueueInit => Pool!PoolInit
  BY DEF QueueInit, Pool!PoolInit, WaitingPlayers, Positions
<1>2. QueueSpec => []IInv
  BY InvInit, InvNext, PTL DEF QueueSpec
<1>. QED BY <1>1, <1>2, PoolStep, PTL DEF QueueSpec, ImplementsPool, Pool!PoolSpec
=============================================================================
