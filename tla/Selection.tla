------------------------------- MODULE Selection -------------------------------
(***************************************************************************)
(* Lists some elements of which stay and maps one entry of which is set,   *)
(* as std::erase_if, the erase-remove idiom and operator[] leave them.     *)
(***************************************************************************)
EXTENDS Naturals, Sequences, FiniteSets

\* A function on numbers that rises.
Rising(f) == \A i, j \in DOMAIN f : i < j => f[i] < f[j]

\* The elements of a list at some positions, in their order: the only member of a set.
KeptAt(s, positions) ==
  {[i \in DOMAIN f |-> s[f[i]]] :
     f \in {g \in [1..Cardinality(positions) -> positions] : Rising(g)}}

\* A map with an entry set, and without one.
With(f, n, value) == [m \in DOMAIN f \cup {n} |-> IF m = n THEN value ELSE f[m]]
Without(f, n) == [m \in DOMAIN f \ {n} |-> f[m]]
=============================================================================
