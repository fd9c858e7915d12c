--------------------------- MODULE MatchmakingQueue ---------------------------
(***************************************************************************)
(* MatchmakingQueue of src/services/lobby/matchmaking_queue.cpp: a vector  *)
(* of tickets, an index from player to position, removal by swapping with  *)
(* the last ticket.  Every operation holds mutex_.  tryMatch() is split at *)
(* its removal loop, one action per round, so that the state between two   *)
(* rounds can be reasoned about; pending # {} is the mutex held by it.     *)
(*                                                                         *)
(* A ticket's age counts the expansion intervals it has waited, up to      *)
(* AgeCap, where the tolerance has long reached its maximum.               *)
(***************************************************************************)
EXTENDS Integers, Sequences, FiniteSets

CONSTANTS Players, Modes, Ratings,
          Regions, AnyRegion,             \* Region, and Region::Any in it
          MaxQueueSize, MinPlayersPerMatch, MaxPlayersPerMatch,
          InitialTolerance, MaxTolerance, ExpansionStep,  \* QueueConfig
          Expanding,                 \* whether expansionInterval is positive
          AgeCap                     \* bound: where a ticket's age saturates

ASSUME QueueAssumption ==
  /\ AnyRegion \in Regions /\ Ratings \subseteq Nat
  /\ MaxQueueSize \in Nat /\ MinPlayersPerMatch \in Nat \ {0}
  /\ MaxPlayersPerMatch \in Nat /\ MaxPlayersPerMatch >= 2
  /\ MinPlayersPerMatch <= MaxPlayersPerMatch
  /\ InitialTolerance \in Nat /\ MaxTolerance \in Nat /\ ExpansionStep \in Nat
  /\ AgeCap \in Nat /\ Expanding \in BOOLEAN

VARIABLES tickets,      \* tickets_
          playerIndex,  \* playerIndex_: position in tickets, 0 for none
          pending       \* positions tryMatch() still has to remove

queueVars == <<tickets, playerIndex, pending>>

Ticket == [player : Players, mode : Modes, region : Regions, mmr : Ratings, age : 0..AgeCap]

Positions == 1..Len(tickets)

QueueInit ==
  /\ tickets = <<>>
  /\ playerIndex = [p \in Players |-> 0]
  /\ pending = {}

\* enqueue(); when the queue is full or the player queued it changes nothing.
Enqueue(p, m, r, mmr) ==
  /\ pending = {}
  /\ Len(tickets) < MaxQueueSize /\ playerIndex[p] = 0
  /\ playerIndex' = [playerIndex EXCEPT ![p] = Len(tickets) + 1]
  /\ tickets' = Append(tickets, [player |-> p, mode |-> m, region |-> r, mmr |-> mmr, age |-> 0])
  /\ UNCHANGED pending

\* A mutant of the removal below: the ticket moved into the hole keeps its
\* old index.
RemoveWithoutReindex(i) ==
  LET last == Len(tickets)
  IN  /\ tickets' = SubSeq([tickets EXCEPT ![i] = tickets[last]], 1, last - 1)
      /\ playerIndex' = [playerIndex EXCEPT ![tickets[i].player] = 0]

\* Removal of the ticket at position i: the last one takes its place.
RemoveTicketAt(i) ==
  LET last == Len(tickets)
  IN  /\ tickets' = SubSeq([tickets EXCEPT ![i] = tickets[last]], 1, last - 1)
      /\ playerIndex' = [p \in Players |->
                           IF p = tickets[i].player THEN 0
                           ELSE IF p = tickets[last].player THEN i
                           ELSE playerIndex[p]]

\* dequeue() of a queued player.
Dequeue(p) ==
  /\ pending = {}
  /\ playerIndex[p] # 0
  /\ RemoveTicketAt(playerIndex[p])
  /\ UNCHANGED pending

\* A mutant of effectiveTolerance(): the time waited is not counted.
FixedTolerance(t) == InitialTolerance

\* effectiveTolerance().
EffectiveTolerance(t) ==
  LET expanded == InitialTolerance + t.age * ExpansionStep
  IN  IF ~Expanding THEN InitialTolerance
      ELSE IF expanded <= MaxTolerance THEN expanded ELSE MaxTolerance

\* EloCalculator::isWithinTolerance().
IsWithinTolerance(a, b, tolerance) == a - b <= tolerance /\ b - a <= tolerance

\* The tests tryMatch() makes of a candidate: mode, region, the wider of the
\* two tolerances.
Compatible(anchor, candidate) ==
  /\ candidate.mode = anchor.mode
  /\ anchor.region = AnyRegion \/ candidate.region = AnyRegion \/ anchor.region = candidate.region
  /\ \/ IsWithinTolerance(anchor.mmr, candidate.mmr, EffectiveTolerance(anchor))
     \/ IsWithinTolerance(anchor.mmr, candidate.mmr, EffectiveTolerance(candidate))

\* A mutant of the group below: the anchor is not counted among maxPlayersPerMatch.
CandidatesBesideAnchor(a) ==
  LET fits == {i \in Positions \ {a} : Compatible(tickets[a], tickets[i])}
  IN  {a} \cup {i \in fits : Cardinality({j \in fits : j < i}) < MaxPlayersPerMatch}

\* The group tryMatch() collects for an anchor: itself and the first
\* compatible tickets of the vector, up to maxPlayersPerMatch.
Candidates(a) ==
  LET fits == {i \in Positions \ {a} : Compatible(tickets[a], tickets[i])}
  IN  {a} \cup {i \in fits : Cardinality({j \in fits : j < i}) < MaxPlayersPerMatch - 1}

EnoughFor(a) == Cardinality(Candidates(a)) >= MinPlayersPerMatch

\* tryMatch() up to its removal loop: the first anchor with a large enough
\* group.  Without one it returns nullopt and changes nothing.
TryMatch ==
  /\ pending = {}
  /\ Len(tickets) >= MinPlayersPerMatch
  /\ \E a \in Positions :
       /\ EnoughFor(a) /\ \A b \in 1..(a - 1) : ~EnoughFor(b)
       /\ pending' = Candidates(a)
  /\ UNCHANGED <<tickets, playerIndex>>

\* One round of the removal loop: positions in descending order.
RemoveMatched ==
  \E i \in pending :
    /\ \A j \in pending : j <= i
    /\ RemoveTicketAt(i)
    /\ pending' = pending \ {i}

\* An expansion interval passes.
Age ==
  /\ pending = {}
  /\ \E i \in Positions : tickets[i].age < AgeCap
  /\ tickets' = [i \in Positions |->
                   [player |-> tickets[i].player, mode |-> tickets[i].mode,
                    region |-> tickets[i].region, mmr |-> tickets[i].mmr,
                    age |-> IF tickets[i].age < AgeCap THEN tickets[i].age + 1 ELSE AgeCap]]
  /\ UNCHANGED <<playerIndex, pending>>

QueueNext ==
  \/ \E p \in Players : \/ Dequeue(p)
                        \/ \E m \in Modes, r \in Regions, mmr \in Ratings : Enqueue(p, m, r, mmr)
  \/ TryMatch \/ RemoveMatched \/ Age

QueueSpec == QueueInit /\ [][QueueNext]_queueVars

\* tryMatch() is "called periodically", as the header asks, and time passes.
QueueFairness == WF_queueVars(TryMatch) /\ WF_queueVars(RemoveMatched) /\ WF_queueVars(Age)

FairQueueSpec == QueueSpec /\ QueueFairness

(***************************************************************************)
(* Properties.                                                             *)
(***************************************************************************)

\* Tickets, index and pending removals are well formed.
QueueTypeOK ==
  /\ tickets \in Seq(Ticket)
  /\ playerIndex \in [Players -> Nat]
  /\ pending \subseteq Positions

\* The index and the vector agree: a player's index is the position of that
\* player's only ticket, after every swap of dequeue() and of the removal loop
\* of tryMatch(), and between two rounds of it.
IndexAgrees ==
  /\ \A i \in Positions : playerIndex[tickets[i].player] = i
  /\ \A p \in Players : playerIndex[p] # 0 =>
       playerIndex[p] \in Positions /\ tickets[playerIndex[p]].player = p

\* The players who are queued and not part of the match being removed.
WaitingPlayers == {tickets[i].player : i \in Positions \ pending}

Pool == INSTANCE TicketPool WITH queued <- WaitingPlayers

\* The queue implements the ticket pool: what the removal loop takes out is
\* the matched group, nobody else, and groups have an allowed size.
ImplementsPool == Pool!PoolSpec

\* p and q wait for the same kind of match.
Pairable(p, q) ==
  \E i, j \in Positions :
    /\ tickets[i].player = p /\ tickets[j].player = q
    /\ tickets[i].mode = tickets[j].mode
    /\ \/ AnyRegion \in {tickets[i].region, tickets[j].region}
       \/ tickets[i].region = tickets[j].region

\* While two players wait who ask for the same mode in compatible regions, a match is
\* formed, whatever their ratings, as long as maxRatingTolerance reaches between them: the
\* widening tolerance and the search of tryMatch() never leave the queue stuck.
MatchesForm ==
  \A pair \in {S \in SUBSET Players : Cardinality(S) = 2} :
    LET bothWait == \A p, q \in pair : p # q => Pairable(p, q)
    IN  bothWait ~> (pending # {} \/ ~bothWait)

\* "Players who wait longer get progressively wider rating tolerance, ensuring everyone
\* eventually finds a match" (matchmaking_queue.hpp): nobody waits forever who always has
\* another player to be paired with.
EveryoneMatched ==
  \A p \in Players : ~<>[](\E q \in Players \ {p} : Pairable(p, q))
=============================================================================
