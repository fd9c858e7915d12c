------------------------------ MODULE MCBackend ------------------------------
(***************************************************************************)
(* The database proxy and the matchmaking queue for TLC, each on its own:  *)
(* part says which one moves.                                              *)
(***************************************************************************)
EXTENDS MCDBProxy, MatchmakingQueue

VARIABLE part

vars == <<proxyVars, queueVars, part>>

Init == part \in {"proxy", "queue"} /\ ProxyInit /\ QueueInit

Next ==
  \/ part = "proxy" /\ ProxyNext /\ UNCHANGED <<queueVars, part>>
  \/ part = "queue" /\ QueueNext /\ UNCHANGED <<proxyVars, part>>

Spec == Init /\ [][Next]_vars /\ ProxyFairness /\ QueueFairness
=============================================================================
