----------------------------- MODULE BehaviorTree -----------------------------
(***************************************************************************)
(* The nodes of include/cgs/game/behavior_tree.hpp, the tasks AISystem     *)
(* makes for their leaves, and AISystem::Execute() for the brains that     *)
(* hold one tree.  A tree is a table of nodes; node 1 is the root.  A node *)
(* belongs to one parent, so that the calls in progress are those of the   *)
(* node that is being executed and of its owners, up to the root.          *)
(*                                                                         *)
(* What a task sees (the blackboard, positions, health, the threat list)   *)
(* is the situation, chosen when it is called; a target that is gone, dead *)
(* or out of range is missing.                                             *)
(***************************************************************************)
EXTENDS Naturals, Sequences

CONSTANTS Trees,            \* trees the brains may be given
          NumBrains,        \* how many brains hold the tree
          TickInterval,
          BrainTimes        \* values of deltaTime

Composites == {"sequence", "selector"}
Decorators == {"inverter", "repeater"}
Tasks == {"MoveTo", "Attack", "Patrol", "Flee", "Idle", "Condition"}
Statuses == {"Success", "Failure", "Running"}

\* Children are owned (unique_ptr): the owners of a node are its parent and that one's owners.
IsTree(t) ==
  /\ DOMAIN t \subseteq Nat \ {0} /\ 1 \in DOMAIN t /\ t[1].parent = 0 /\ t[1].owners = {}
  /\ \A n \in DOMAIN t :
       /\ t[n].kind \in Composites \cup Decorators \cup {"leaf", "parallel"}
       /\ t[n].kind = "leaf" => t[n].leaf \in Tasks /\ t[n].children = <<>>
       /\ t[n].max \in Nat
       /\ t[n].children \in Seq(DOMAIN t)
       /\ t[n].kind \in Decorators => Len(t[n].children) = 1
       /\ n # 1 => /\ t[n].parent \in DOMAIN t
                   /\ \E k \in DOMAIN t[t[n].parent].children : t[t[n].parent].children[k] = n
       /\ \A k \in DOMAIN t[n].children :
            /\ t[t[n].children[k]].parent = n
            /\ t[t[n].children[k]].owners = t[n].owners \cup {n}
            /\ \A j \in DOMAIN t[n].children : t[n].children[j] = t[n].children[k] => j = k
       /\ t[n].owners \subseteq DOMAIN t \ {n}
       /\ \A a \in t[n].owners :
            /\ t[a].owners \subseteq t[n].owners
            /\ \E k \in DOMAIN t[a].children : t[a].children[k] \in t[n].owners \cup {n}

ASSUME BrainAssumption ==
  /\ TickInterval \in Nat /\ BrainTimes \subseteq Nat \ {0} /\ NumBrains \in Nat \ {0}
  /\ \A t \in Trees : IsTree(t)

VARIABLES brains,           \* state and timeSinceLastTick of every AIBrain
          tree,             \* behaviorTree, held by all of them
          mark,             \* currentChild_ of a composite, currentCount_ of a repeater
          turn,             \* the brain Execute() has come to, 0 outside of it
          delta,            \* its deltaTime
          atNode,           \* the node that executes, 0 for none
          returned,         \* what the child it called has returned, "none" if it called none
          statuses,         \* what the children of a parallel have returned in this call
          movement,         \* Movement::state of every entity
          patrolIndex,      \* "patrol_index" on its blackboard
          answers,          \* ghost: what each node last returned, to whichever brain ...
          askedBy           \* ghost: ... and to which one

bodyVars == <<movement, patrolIndex>>
toldVars == <<answers, askedBy>>
frameVars == <<brains, turn, delta>>
brainVars == <<frameVars, tree, mark, atNode, returned, statuses, bodyVars, toldVars>>

Brains == 1..NumBrains

\* What the task of a leaf finds.
Situations ==
  [MoveTo |-> {"none", "far", "near"}, Attack |-> {"missing", "near"},
   Patrol |-> [waypoints : 0..2, arrived : BOOLEAN], Flee |-> {"none", "close", "away"},
   Idle |-> {"anything"}, Condition |-> {"holds", "fails"}]

BrainInit ==
  /\ brains = [b \in Brains |-> [state |-> "Idle", time |-> 0]]
  /\ tree \in Trees
  /\ mark = [n \in DOMAIN tree |-> 0] /\ statuses = [n \in DOMAIN tree |-> <<>>]
  /\ turn = 0 /\ delta = 0 /\ atNode = 0 /\ returned = "none"
  /\ movement = [b \in Brains |-> "Idle"] /\ patrolIndex = [b \in Brains |-> 0]
  /\ answers = [n \in DOMAIN tree |-> "none"] /\ askedBy = [n \in DOMAIN tree |-> 0]

\* The status a leaf's function returns.
LeafStatus(leaf, s) ==
  CASE leaf = "MoveTo" -> IF s = "none" THEN "Failure"
                          ELSE IF s = "near" THEN "Success" ELSE "Running"
    [] leaf = "Attack" -> IF s = "near" THEN "Success" ELSE "Failure"
    [] leaf = "Patrol" -> IF s.waypoints = 0 THEN "Failure" ELSE "Running"
    [] leaf = "Flee" -> IF s = "none" THEN "Failure"
                        ELSE IF s = "away" THEN "Success" ELSE "Running"
    [] leaf = "Idle" -> "Success"
    [] leaf = "Condition" -> IF s = "holds" THEN "Success" ELSE "Failure"

\* What a leaf does to the entity's movement.
LeafMovement(leaf, s, old) ==
  CASE leaf = "MoveTo" /\ s = "far" -> "Running"
    [] leaf = "MoveTo" /\ s = "near" -> "Idle"
    [] leaf = "Patrol" /\ s.waypoints > 0 /\ ~s.arrived -> "Walking"
    [] leaf = "Flee" /\ s = "close" -> "Running"
    [] leaf = "Flee" /\ s = "away" -> "Idle"
    [] leaf = "Idle" -> "Idle"
    [] OTHER -> old

\* "patrol_index" after the patrol task: taken as 0 when the list has become shorter.
NextWaypoint(leaf, s, old) ==
  IF leaf = "Patrol" /\ s.waypoints > 0 /\ s.arrived
  THEN ((IF old >= s.waypoints THEN 0 ELSE old) + 1) % s.waypoints
  ELSE old

(***************************************************************************)
(* Calls and returns.                                                      *)
(***************************************************************************)

Here == tree[atNode]

\* children_[k - 1]->Tick(context)
CallChild(k) ==
  /\ atNode' = Here.children[k] /\ returned' = "none"
  /\ UNCHANGED <<frameVars, mark, statuses, bodyVars, toldVars>>

\* Execute() goes on to the next brain, or returns.
NextBrain == IF turn = NumBrains THEN 0 ELSE turn + 1

\* Tick() of the node returns to its parent, and that of the root to Execute(), which starts
\* to count the time again.  known is what counts of the other nodes' answers.
ReturnTelling(status, known) ==
  /\ answers' = [known EXCEPT ![atNode] = status]
  /\ askedBy' = [n \in DOMAIN tree |-> IF n = atNode THEN turn
                                       ELSE IF known[n] = "none" THEN 0 ELSE askedBy[n]]
  /\ atNode' = Here.parent
  /\ IF Here.parent = 0
     THEN /\ returned' = "none" /\ turn' = NextBrain
          /\ brains' = [brains EXCEPT ![turn].time = 0]
     ELSE returned' = status /\ UNCHANGED <<brains, turn>>
  /\ UNCHANGED delta

ReturnStatus(status) == ReturnTelling(status, answers)

(***************************************************************************)
(* Tick(), one action per kind of node; a loop has one step per round.     *)
(***************************************************************************)

TickLeaf ==
  /\ Here.kind = "leaf"
  /\ \E s \in Situations[Here.leaf] :
       /\ ReturnStatus(LeafStatus(Here.leaf, s))
       /\ movement' = [movement EXCEPT ![turn] = LeafMovement(Here.leaf, s, @)]
       /\ patrolIndex' = [patrolIndex EXCEPT ![turn] = NextWaypoint(Here.leaf, s, @)]
  /\ UNCHANGED <<mark, statuses>>

\* A composite's cursor moves on while its children answer go; another answer ends it.
Goes(kind) == IF kind = "sequence" THEN "Success" ELSE "Failure"

\* Mutant of a composite's end: the next tick does not begin with the first child.
RestartedNever(n) == mark

\* currentChild_ = 0: how a sequence or selector that is through starts over.
Restarted(n) == [mark EXCEPT ![n] = 0]

TickComposite ==
  /\ Here.kind \in Composites
  /\ \/ /\ returned = "none" /\ mark[atNode] < Len(Here.children)
        /\ CallChild(mark[atNode] + 1)
     \/ /\ returned = "none" /\ mark[atNode] >= Len(Here.children)
        /\ mark' = Restarted(atNode)
        /\ ReturnStatus(Goes(Here.kind)) /\ UNCHANGED <<statuses, bodyVars>>
     \/ /\ returned = "Running"
        /\ ReturnStatus("Running") /\ UNCHANGED <<mark, statuses, bodyVars>>
     \/ /\ returned \notin {"none", "Running", Goes(Here.kind)}
        /\ mark' = Restarted(atNode)
        /\ ReturnStatus(returned) /\ UNCHANGED <<statuses, bodyVars>>
     \/ /\ returned = Goes(Here.kind)
        /\ mark' = [mark EXCEPT ![atNode] = @ + 1] /\ returned' = "none"
        /\ UNCHANGED <<frameVars, atNode, statuses, bodyVars, toldVars>>

\* The policy of a parallel, applied to what all its children returned.
ParallelStatus(policy, got) ==
  LET Some(x) == \E k \in DOMAIN got : got[k] = x
      All(x) == \A k \in DOMAIN got : got[k] = x
  IN  IF policy = "RequireAll"
      THEN IF All("Success") THEN "Success" ELSE IF Some("Failure") THEN "Failure" ELSE "Running"
      ELSE IF Some("Success") THEN "Success" ELSE IF All("Failure") THEN "Failure" ELSE "Running"

TickParallel ==
  /\ Here.kind = "parallel"
  /\ LET got == statuses[atNode]
     IN  \/ /\ returned = "none" /\ Len(got) < Len(Here.children)
            /\ CallChild(Len(got) + 1)
         \/ /\ returned # "none"
            /\ statuses' = [statuses EXCEPT ![atNode] = Append(got, returned)]
            /\ returned' = "none"
            /\ UNCHANGED <<frameVars, mark, atNode, bodyVars, toldVars>>
         \/ /\ returned = "none" /\ Len(got) >= Len(Here.children)
            /\ statuses' = [statuses EXCEPT ![atNode] = <<>>]
            /\ ReturnStatus(ParallelStatus(Here.policy, got)) /\ UNCHANGED <<mark, bodyVars>>

Inverted(status) ==
  CASE status = "Success" -> "Failure" [] status = "Failure" -> "Success" [] OTHER -> status

TickInverter ==
  /\ Here.kind = "inverter"
  /\ \/ returned = "none" /\ CallChild(1)
     \/ returned # "none" /\ ReturnStatus(Inverted(returned)) /\ UNCHANGED <<mark, statuses, bodyVars>>

\* Reset() of everything below a node; what it answered is of no consequence any more.
ResetBelow(n, value, f) == [m \in DOMAIN tree |-> IF n \in tree[m].owners THEN value ELSE f[m]]

\* currentCount_ of a repeater that repeats for ever is never read and stays 0 here.
TickRepeater ==
  /\ Here.kind = "repeater"
  /\ LET count == mark[atNode] + 1
         through == Here.max > 0 /\ count >= Here.max
     IN  \/ returned = "none" /\ CallChild(1)
         \/ returned = "Running" /\ ReturnStatus("Running") /\ UNCHANGED <<mark, statuses, bodyVars>>
         \/ /\ returned \notin {"none", "Running"}
            /\ mark' = [ResetBelow(atNode, 0, mark) EXCEPT
                          ![atNode] = IF through \/ Here.max = 0 THEN 0 ELSE count]
            /\ ReturnTelling(IF through THEN "Success" ELSE "Running",
                             ResetBelow(atNode, "none", answers))
            /\ UNCHANGED <<statuses, bodyVars>>

TickNode ==
  /\ atNode # 0
  /\ TickLeaf \/ TickComposite \/ TickParallel \/ TickInverter \/ TickRepeater

(***************************************************************************)
(* AISystem::Execute().                                                    *)
(***************************************************************************)

treeUnchanged == UNCHANGED <<mark, returned, statuses, bodyVars, toldVars>>

BeginFrame(dt) ==
  /\ turn = 0 /\ turn' = 1 /\ delta' = dt
  /\ UNCHANGED <<brains, atNode>> /\ treeUnchanged

\* A dead brain is passed over ...
BrainSkipped ==
  /\ turn # 0 /\ atNode = 0 /\ brains[turn].state = "Dead"
  /\ turn' = NextBrain
  /\ UNCHANGED <<brains, delta, atNode>> /\ treeUnchanged

\* ... the others add up time until the interval has passed ...
BrainWaits ==
  /\ turn # 0 /\ atNode = 0 /\ brains[turn].state # "Dead"
  /\ brains[turn].time + delta < TickInterval
  /\ brains' = [brains EXCEPT ![turn].time = @ + delta]
  /\ turn' = NextBrain
  /\ UNCHANGED <<delta, atNode>> /\ treeUnchanged

\* ... and then tick the tree.
BrainTicks ==
  /\ turn # 0 /\ atNode = 0 /\ brains[turn].state # "Dead"
  /\ brains[turn].time + delta >= TickInterval
  /\ brains' = [brains EXCEPT ![turn].time = @ + delta]
  /\ atNode' = 1
  /\ UNCHANGED <<turn, delta>> /\ treeUnchanged

\* The entity dies, or is made alive again; its tree stays as it was.
SetBrainState(b, state) ==
  /\ turn = 0
  /\ brains' = [brains EXCEPT ![b].state = state]
  /\ UNCHANGED <<turn, delta, atNode>> /\ treeUnchanged

BrainStep ==
  \/ TickNode
  \/ BrainSkipped \/ BrainWaits \/ BrainTicks
  \/ \E dt \in BrainTimes : BeginFrame(dt)
  \/ \E b \in Brains, state \in {"Dead", "Idle"} : SetBrainState(b, state)

BrainNext == BrainStep /\ UNCHANGED tree

BrainSpec == BrainInit /\ [][BrainNext]_brainVars
-----------------------------------------------------------------------------
\* Tick() of this node is in progress.
Ticking(n) == atNode # 0 /\ n \in tree[atNode].owners \cup {atNode}

\* What a node's answer means, given those of its children: the first child that is not
\* good decides a sequence, and so on.
Follows(n, a) ==
  LET Child(k) == a[tree[n].children[k]]
      Children == DOMAIN tree[n].children
      go == Goes(tree[n].kind)
  IN  CASE tree[n].kind = "leaf" -> TRUE
        [] tree[n].kind \in Composites ->
             IF a[n] = go THEN \A k \in Children : Child(k) = go
             ELSE \E k \in Children : Child(k) = a[n] /\ \A j \in 1..k - 1 : Child(j) = go
        [] tree[n].kind = "parallel" ->
             a[n] = ParallelStatus(tree[n].policy, [k \in Children |-> Child(k)])
        [] tree[n].kind = "inverter" -> a[n] = Inverted(Child(1))
        [] tree[n].kind = "repeater" ->
             IF Child(1) = "none"
             THEN a[n] = IF tree[n].max > 0 /\ mark[n] = 0 THEN "Success" ELSE "Running"
             ELSE a[n] = "Running" /\ Child(1) = "Running"

\* The node and all below it.
Branch(n) == {m \in DOMAIN tree : m = n \/ n \in tree[m].owners}

\* A parallel below n, or n itself, has finished while its child on the way to m had not.
FinishedAround(n, m) ==
  \E p \in Branch(n) \cap tree[m].owners :
    /\ tree[p].kind = "parallel" /\ answers[p] \in {"Success", "Failure"}
    /\ \E k \in DOMAIN tree[p].children :
         /\ tree[p].children[k] \in tree[m].owners \cup {m}
         /\ answers[tree[p].children[k]] = "Running"

\* A tree that was left in the middle resumes where it was, and still gives the answer its
\* logic has: what a node returned is what the last answers of its children, some of them
\* from earlier ticks, make of it.  A branch that has finished starts over from its first
\* leaf; a cursor below it stands elsewhere only if a parallel finished around it, since
\* nothing resets the children a parallel leaves running (BTSequence, BTSelector,
\* BTParallel, BTInverter, BTRepeater).
TreeResumes ==
  \A n \in DOMAIN tree :
    ~Ticking(n) /\ answers[n] # "none" =>
      /\ Follows(n, answers)
      /\ answers[n] # "Running" =>
           \A m \in Branch(n) : mark[m] = 0 \/ FinishedAround(n, m)

\* Entities that share a tree do not disturb each other (AIBrain::behaviorTree, shared and
\* "immutable"): what a sequence or selector returned to a brain rests on what the children
\* before the one that decided, and that one, returned to the same brain.
TreesShareable ==
  \A n \in DOMAIN tree :
    tree[n].kind \in Composites /\ ~Ticking(n) /\ answers[n] # "none" =>
      \A k \in DOMAIN tree[n].children :
        (\A j \in 1..k - 1 : answers[tree[n].children[j]] = Goes(tree[n].kind))
          => askedBy[tree[n].children[k]] = askedBy[n]
=============================================================================
