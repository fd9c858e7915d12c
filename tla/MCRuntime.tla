------------------------------- MODULE MCRuntime -------------------------------
(***************************************************************************)
(* The parts of the runtime for TLC: the circuit breaker, the game loop,   *)
(* the job scheduler and behavior trees two brains share.  Each works on   *)
(* state of its own and is explored on its own: part says which one moves. *)
(***************************************************************************)
EXTENDS CircuitBreaker, GameLoop, JobScheduler, MCTrees

VARIABLE part

rtVars == <<vars, loopVars, jobVars, brainVars, part>>

\* The tree matters only to the brain.
RtInit ==
  /\ Init /\ LoopInit /\ JobInit /\ BrainInit
  /\ part \in {"breaker", "loop", "jobs", "brain"}
  /\ part # "brain" => Len(tree) = 3

RtNext ==
  \/ part = "breaker" /\ Next /\ UNCHANGED <<loopVars, jobVars, brainVars, part>>
  \/ part = "loop" /\ LoopNext /\ UNCHANGED <<vars, jobVars, brainVars, part>>
  \/ part = "jobs" /\ JobNext /\ UNCHANGED <<vars, loopVars, brainVars, part>>
  \/ part = "brain" /\ BrainNext /\ UNCHANGED <<vars, loopVars, jobVars, part>>

\* Time passes, calls return and are recorded, and callers keep asking, in the part
\* that is about them.
BreakerFairness ==
  /\ WF_vars(part = "breaker" /\ Tick)
  /\ \A c \in Callers :
       /\ WF_vars(part = "breaker" /\ AllowRequest(c))
       /\ WF_vars(part = "breaker" /\ CallStep(c))

RtSpec ==
  /\ RtInit /\ [][RtNext]_rtVars
  /\ BreakerFairness /\ LoopFairness /\ JobFairness
=============================================================================
