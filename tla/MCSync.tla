-------------------------------- MODULE MCSync --------------------------------
(***************************************************************************)
(* The scheduler alone, with one stage and a sync point in it.             *)
(***************************************************************************)
EXTENDS SystemScheduler

Reads == [reads |-> {"x"}, writes |-> {}]
Writes == [reads |-> {}, writes |-> {"x"}]
Other == [reads |-> {}, writes |-> {"y"}]
Declared == {Reads, Writes, Other}
UpdateOnly == <<"Update">>
=============================================================================
