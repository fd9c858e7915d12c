------------------------------ MODULE PlayerData ------------------------------
(***************************************************************************)
(* The data the persistence layer keeps: per player one value, the number  *)
(* of the change that produced it.  The code treats it as opaque bytes     *)
(* (WalEntry::data, PlayerSnapshot); 0 is a player nothing was recorded of. *)
(***************************************************************************)
EXTENDS Naturals

CONSTANT Players        \* the players whose state is persisted

PlayerState == [Players -> Nat]

EmptyWorld == [p \in Players |-> 0]
=============================================================================
