-------------------------------- MODULE MCTrees --------------------------------
(***************************************************************************)
(* Behavior trees for TLC, and the brains of two entities on one of them.  *)
(***************************************************************************)
EXTENDS BehaviorTree
\* A tree from rows of the form <<kind, children, parameter>>, parents before their children.
Tree(rows) ==
  LET Parent(n) == IF n = 1 THEN 0
                   ELSE CHOOSE p \in DOMAIN rows : \E k \in DOMAIN rows[p][2] : rows[p][2][k] = n
      owners[n \in DOMAIN rows] == IF n = 1 THEN {} ELSE owners[Parent(n)] \cup {Parent(n)}
  IN  [n \in DOMAIN rows |->
         [kind |-> rows[n][1], children |-> rows[n][2], parent |-> Parent(n), owners |-> owners[n],
          leaf |-> IF rows[n][1] = "leaf" THEN rows[n][3] ELSE "none",
          policy |-> IF rows[n][1] = "parallel" THEN rows[n][3] ELSE "none",
          max |-> IF rows[n][1] = "repeater" THEN rows[n][3] ELSE 0]]
Leaf(l) == <<"leaf", <<>>, l>>
Node(kind, children) == <<kind, children, "none">>

\* Attack or else patrol; approach at once and stop, while a condition does not hold; approach
\* or run away or else attack; an approach, repeated, that goes on by running away.
BrainTrees ==
  {Tree(<<Node("selector", <<2, 3>>), Leaf("Attack"), Leaf("Patrol")>>),
   Tree(<<<<"parallel", <<2, 3>>, "RequireAll">>, Node("sequence", <<4, 5>>), Node("inverter", <<6>>),
          Leaf("Idle"), Leaf("MoveTo"), Leaf("Condition")>>),
   Tree(<<Node("selector", <<2, 3>>), <<"parallel", <<4, 5>>, "RequireOne">>, Leaf("Attack"),
          Leaf("MoveTo"), Leaf("Flee")>>),
   Tree(<<<<"repeater", <<2>>, 2>>, Node("sequence", <<3, 4>>), Leaf("MoveTo"),
          <<"repeater", <<5>>, 0>>, Leaf("Flee")>>)}

\* Approach while a condition holds.
SharedTree == {Tree(<<Node("sequence", <<2, 3>>), Leaf("Condition"), Leaf("MoveTo")>>)}
=============================================================================
