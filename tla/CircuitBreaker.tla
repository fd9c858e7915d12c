---------------------------- MODULE CircuitBreaker ----------------------------
(***************************************************************************)
(* ServiceCircuitBreaker of src/services/runner/circuit_breaker.cpp and    *)
(* the threads that use it the way circuit_breaker.hpp shows: ask          *)
(* allowRequest(), call the downstream service, record how it went.  The   *)
(* breaker's operations are atomic (mutex_), the calls in between are not: *)
(* a result is recorded in whatever state the circuit has reached by then. *)
(*                                                                         *)
(* Time is kept as sinceFailure, the time since lastFailureTime_, up to    *)
(* RecoveryTimeout: the code never asks for more.  A default               *)
(* lastFailureTime_ lies before every timeout.                             *)
(***************************************************************************)
EXTENDS Naturals, FiniteSets

CONSTANTS Callers,           \* threads calling the downstream service
          FailureThreshold,  \* CircuitBreakerConfig
          SuccessThreshold,
          RecoveryTimeout,
          MaxForced,         \* bound: calls of forceState() and reset()
          RejectedCap        \* bound: where the rejection statistic saturates

ASSUME ThresholdsAssumption ==
  /\ FailureThreshold \in Nat \ {0} /\ SuccessThreshold \in Nat \ {0}
  /\ RecoveryTimeout \in Nat \ {0} /\ MaxForced \in Nat /\ RejectedCap \in Nat

VARIABLES state,               \* state_
          consecutiveFailures, \* consecutiveFailures_
          halfOpenSuccesses,   \* halfOpenSuccesses_
          totalRejected,       \* totalRejected_
          sinceFailure,        \* now - lastFailureTime_, up to RecoveryTimeout
          call,                \* what each caller is doing
          healthy,             \* the downstream service answers
          forced,              \* manual overrides so far
          openFor,             \* ghost: time since the circuit last opened, up
                               \* to RecoveryTimeout
          probes               \* ghost: successes recorded in this half-open state

breakerVars == <<state, consecutiveFailures, halfOpenSuccesses, totalRejected, sinceFailure>>
ghosts == <<openFor, probes>>
vars == <<breakerVars, call, healthy, forced, ghosts>>

States == {"Closed", "Open", "HalfOpen"}
CallStates == {"idle", "calling", "succeeded", "failed"}

Init ==
  /\ state = "Closed"
  /\ consecutiveFailures = 0 /\ halfOpenSuccesses = 0 /\ totalRejected = 0
  /\ sinceFailure = RecoveryTimeout
  /\ call = [c \in Callers |-> "idle"]
  /\ healthy = TRUE /\ forced = 0 /\ openFor = 0 /\ probes = 0

\* Mutants of transitionTo() below: one of its resets is missing.
TransitionKeepsFailures(newState, failures, successes, since) ==
  /\ state' = newState
  /\ consecutiveFailures' = failures
  /\ halfOpenSuccesses' = IF newState \in {"Closed", "HalfOpen"} THEN 0 ELSE successes
  /\ sinceFailure' = IF newState = "Open" THEN 0 ELSE since
  /\ openFor' = 0 /\ probes' = 0

TransitionKeepsSuccesses(newState, failures, successes, since) ==
  /\ state' = newState
  /\ consecutiveFailures' = IF newState = "Closed" THEN 0 ELSE failures
  /\ halfOpenSuccesses' = IF newState = "Closed" THEN 0 ELSE successes
  /\ sinceFailure' = IF newState = "Open" THEN 0 ELSE since
  /\ openFor' = 0 /\ probes' = 0

TransitionKeepsClock(newState, failures, successes, since) ==
  /\ state' = newState
  /\ consecutiveFailures' = IF newState = "Closed" THEN 0 ELSE failures
  /\ halfOpenSuccesses' = IF newState \in {"Closed", "HalfOpen"} THEN 0 ELSE successes
  /\ sinceFailure' = since
  /\ openFor' = 0 /\ probes' = 0

\* transitionTo(newState), with the counters the caller has computed.
TransitionTo(newState, failures, successes, since) ==
  /\ state' = newState
  /\ consecutiveFailures' = IF newState = "Closed" THEN 0 ELSE failures
  /\ halfOpenSuccesses' = IF newState \in {"Closed", "HalfOpen"} THEN 0 ELSE successes
  /\ sinceFailure' = IF newState = "Open" THEN 0 ELSE since
  /\ openFor' = 0 /\ probes' = 0

\* A mutant of allowRequest(): an open circuit stays open.
AllowOnlyClosed(c) ==
  /\ call[c] = "idle"
  /\ state \in {"Closed", "HalfOpen"}
  /\ call' = [call EXCEPT ![c] = "calling"]
  /\ UNCHANGED <<breakerVars, ghosts, healthy, forced>>

\* allowRequest() that lets the call through; an open circuit whose timeout
\* has elapsed becomes half-open.
AllowRequest(c) ==
  /\ call[c] = "idle"
  /\ \/ /\ state \in {"Closed", "HalfOpen"}
        /\ UNCHANGED <<breakerVars, ghosts>>
     \/ /\ state = "Open" /\ sinceFailure >= RecoveryTimeout
        /\ TransitionTo("HalfOpen", consecutiveFailures, halfOpenSuccesses, sinceFailure)
        /\ UNCHANGED totalRejected
  /\ call' = [call EXCEPT ![c] = "calling"]
  /\ UNCHANGED <<healthy, forced>>

\* allowRequest() that rejects: the caller fails fast.
RejectRequest(c) ==
  /\ call[c] = "idle"
  /\ state = "Open" /\ sinceFailure < RecoveryTimeout
  /\ totalRejected' = IF totalRejected < RejectedCap THEN totalRejected + 1 ELSE RejectedCap
  /\ UNCHANGED <<state, consecutiveFailures, halfOpenSuccesses, sinceFailure, call, healthy,
                 forced, ghosts>>

\* The downstream call returns (external: a healthy service answers).
Return(c) ==
  /\ call[c] = "calling"
  /\ call' = [call EXCEPT ![c] = IF healthy THEN "succeeded" ELSE "failed"]
  /\ UNCHANGED <<breakerVars, healthy, forced, ghosts>>

\* recordSuccess().
RecordSuccess(c) ==
  /\ call[c] = "succeeded"
  /\ \/ /\ state = "Closed"
        /\ consecutiveFailures' = 0
        /\ UNCHANGED <<state, halfOpenSuccesses, sinceFailure, ghosts>>
     \/ /\ state = "HalfOpen" /\ halfOpenSuccesses + 1 >= SuccessThreshold
        /\ TransitionTo("Closed", consecutiveFailures, halfOpenSuccesses + 1, sinceFailure)
     \/ /\ state = "HalfOpen" /\ halfOpenSuccesses + 1 < SuccessThreshold
        /\ halfOpenSuccesses' = halfOpenSuccesses + 1
        /\ probes' = probes + 1
        /\ UNCHANGED <<state, consecutiveFailures, sinceFailure, openFor>>
     \/ /\ state = "Open"
        /\ UNCHANGED <<state, consecutiveFailures, halfOpenSuccesses, sinceFailure, ghosts>>
  /\ call' = [call EXCEPT ![c] = "idle"]
  /\ UNCHANGED <<totalRejected, healthy, forced>>

\* recordFailure(): the clock restarts in every state, the open one included.
RecordFailure(c) ==
  /\ call[c] = "failed"
  /\ \/ /\ state = "Closed" /\ consecutiveFailures + 1 >= FailureThreshold
        /\ TransitionTo("Open", consecutiveFailures + 1, halfOpenSuccesses, 0)
     \/ /\ state = "Closed" /\ consecutiveFailures + 1 < FailureThreshold
        /\ consecutiveFailures' = consecutiveFailures + 1
        /\ sinceFailure' = 0
        /\ UNCHANGED <<state, halfOpenSuccesses, ghosts>>
     \/ /\ state = "HalfOpen"
        /\ TransitionTo("Open", consecutiveFailures, halfOpenSuccesses, 0)
     \/ /\ state = "Open"
        /\ sinceFailure' = 0
        /\ UNCHANGED <<state, consecutiveFailures, halfOpenSuccesses, ghosts>>
  /\ call' = [call EXCEPT ![c] = "idle"]
  /\ UNCHANGED <<totalRejected, healthy, forced>>

\* forceState(newState), the manual override.
ForceState(newState) ==
  /\ forced < MaxForced /\ forced' = forced + 1
  /\ TransitionTo(newState, consecutiveFailures, halfOpenSuccesses, sinceFailure)
  /\ UNCHANGED <<totalRejected, call, healthy>>

\* reset().
Reset ==
  /\ forced < MaxForced /\ forced' = forced + 1
  /\ state' = "Closed"
  /\ consecutiveFailures' = 0 /\ halfOpenSuccesses' = 0 /\ totalRejected' = 0
  /\ sinceFailure' = RecoveryTimeout /\ openFor' = 0 /\ probes' = 0
  /\ UNCHANGED <<call, healthy>>

\* Time passes; the downstream service fails or comes back.
Tick ==
  /\ sinceFailure < RecoveryTimeout
  /\ sinceFailure' = sinceFailure + 1
  /\ openFor' = IF state = "Open" /\ openFor < RecoveryTimeout THEN openFor + 1 ELSE openFor
  /\ UNCHANGED <<state, consecutiveFailures, halfOpenSuccesses, totalRejected, call, healthy,
                 forced, probes>>

HealthChange ==
  /\ healthy' = ~healthy
  /\ UNCHANGED <<breakerVars, call, forced, ghosts>>

CallStep(c) == Return(c) \/ RecordSuccess(c) \/ RecordFailure(c)

Next ==
  \/ \E c \in Callers : AllowRequest(c) \/ RejectRequest(c) \/ CallStep(c)
  \/ \E s \in States : ForceState(s)
  \/ Reset \/ Tick \/ HealthChange

Spec == Init /\ [][Next]_vars

(***************************************************************************)
(* Properties.                                                             *)
(***************************************************************************)

\* The counters, the clock and the callers' positions are in range.
TypeOK ==
  /\ state \in States
  /\ consecutiveFailures \in 0..FailureThreshold
  /\ halfOpenSuccesses \in 0..SuccessThreshold
  /\ totalRejected \in 0..RejectedCap
  /\ sinceFailure \in 0..RecoveryTimeout
  /\ call \in [Callers -> CallStates]
  /\ healthy \in BOOLEAN /\ forced \in 0..MaxForced /\ openFor \in 0..RecoveryTimeout
  /\ probes \in Nat

\* A circuit that has met its threshold has changed state: whatever late
\* results, overrides and resets come in between, a closed circuit is short of
\* failureThreshold failures and a half-open one of successThreshold successes.
ThresholdsActed ==
  /\ state = "Closed" => consecutiveFailures < FailureThreshold
  /\ state = "HalfOpen" => halfOpenSuccesses < SuccessThreshold

\* "Open: calls are rejected": whoever is let through an open circuit, it has
\* been open for a whole recoveryTimeout by then, however it was opened and
\* whatever results came in late.
OpenShields ==
  [][state = "Open" /\ forced' = forced /\ (\E c \in Callers : call[c] = "idle" /\ call'[c] # "idle")
       => openFor >= RecoveryTimeout]_vars

\* Closing is earned: a half-open circuit closes only after successThreshold
\* successes of this half-open state; what was counted before a relapse into
\* the open state does not count again.
ClosedByProbes ==
  [][state = "HalfOpen" /\ state' = "Closed" /\ forced' = forced
       => probes + 1 >= SuccessThreshold]_vars

\* A downstream service that stays healthy is used again: late failures,
\* prolonged timeouts and half-open probing never leave the circuit stuck.
RecoversWhenHealthy == <>[]healthy => <>[](state = "Closed")
=============================================================================
