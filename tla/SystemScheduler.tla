---------------------------- MODULE SystemScheduler ----------------------------
(***************************************************************************)
(* SystemScheduler of src/ecs/system_scheduler/system_scheduler.cpp:       *)
(* systems are registered in stages, sorted by their dependencies (Kahn),  *)
(* packed into batches that may run in parallel, and executed once per     *)
(* tick.  The scheduler itself is used from one thread; Build() and        *)
(* Execute() are broken into the rounds of their loops, and the tasks of a *)
(* batch run at the same time.                                             *)
(*                                                                         *)
(* Successors and predecessors lie in unordered sets: they are visited in  *)
(* any order.  Time is counted in units of the deltaTime.                  *)
(***************************************************************************)
EXTENDS Naturals, Sequences, FiniteSets, SequencesExt

CONSTANTS MaxSystems,        \* bound: systems registered
          Stages,            \* the stages in use, in execution order; the last one
                             \* is FixedUpdate if FixedStage says so
          FixedStage,
          AccessPatterns,    \* SystemAccessInfo: [reads, writes]
          MaxDependencies, MaxSyncPoints, MaxTicks,    \* bounds
          DeltaTimes, TimeSteps

ASSUME SchedulerAssumption ==
  /\ MaxSystems \in Nat /\ MaxDependencies \in Nat /\ MaxTicks \in Nat
  /\ MaxSyncPoints \in Nat /\ FixedStage \in BOOLEAN
  /\ Len(Stages) \in Nat \ {0} /\ DOMAIN Stages = 1..Len(Stages)
  /\ DeltaTimes \subseteq Nat \ {0} /\ TimeSteps \subseteq Nat \ {0}

VARIABLES systems,           \* systems_ in the order of registration
          deps,              \* dependencies_ (and reverseDeps_): pairs before, after
          syncPoints,        \* syncPoints_
          built,             \* built_
          order,             \* executionOrder_ by stage
          batches,           \* parallelBatches_ by stage: sequences of sequences
          build,             \* a Build() in progress: stage, queue, in-degrees
          parallel,          \* parallelEnabled_, with an executor
          exec,              \* an Execute() in progress: stage, position, what runs
          fixedTime,         \* fixedTimeStep_ and fixedTimeAccumulator_
          elapsed            \* ghost: the time given to FixedUpdate, and what it has used

schedVars == <<systems, deps, syncPoints, built, order, batches, build, parallel, exec,
               fixedTime, elapsed>>

StageIds == DOMAIN Stages
Systems == DOMAIN systems
InStage(st) == {i \in Systems : systems[i].stage = st}
Before(i) == {d[1] : d \in {e \in deps : e[2] = i}}
After(i) == {d[2] : d \in {e \in deps : e[1] = i}}

NoBuild == [stage |-> 0, ready |-> <<>>, degree |-> <<>>, sorted |-> <<>>, placing |-> 0]
NoExec == [stage |-> 0, at |-> 0, running |-> {}, done |-> {}, rounds |-> 0]
NoPlan == [st \in StageIds |-> <<>>]

SchedInit ==
  /\ systems = <<>> /\ deps = {} /\ syncPoints = {} /\ built = FALSE
  /\ order = NoPlan /\ batches = NoPlan /\ build = NoBuild
  /\ parallel = FALSE /\ exec = NoExec
  /\ fixedTime \in [step : TimeSteps, sum : {0}]
  /\ elapsed = [given |-> 0, used |-> 0, ticks |-> 0]

IdleSched == build.stage = 0 /\ exec.stage = 0

(***************************************************************************)
(* Set-up.                                                                 *)
(***************************************************************************)

\* Register(): a type that is there already stays as it is.  The order of registration
\* counts within a stage only, so the stages come one after the other.
Register(st, access) ==
  /\ IdleSched /\ Len(systems) < MaxSystems
  /\ \A i \in Systems : systems[i].stage <= st
  /\ systems' = Append(systems, [stage |-> st, access |-> access, enabled |-> TRUE])
  /\ built' = FALSE
  /\ UNCHANGED <<deps, syncPoints, order, batches, build, parallel, exec, fixedTime, elapsed>>

\* AddDependency(): systems of different stages are refused.
AddDependency(i, j) ==
  /\ IdleSched /\ Len(systems) = MaxSystems /\ Cardinality(deps) < MaxDependencies
  /\ elapsed.ticks < MaxTicks
  /\ systems[i].stage = systems[j].stage
  /\ deps' = deps \cup {<<i, j>>}
  /\ built' = FALSE
  /\ UNCHANGED <<systems, syncPoints, order, batches, build, parallel, exec, fixedTime, elapsed>>

AddSyncPoint(i) ==
  /\ IdleSched /\ Len(systems) = MaxSystems /\ ~built
  /\ Cardinality(syncPoints) < MaxSyncPoints
  /\ syncPoints' = syncPoints \cup {i}
  /\ built' = FALSE
  /\ UNCHANGED <<systems, deps, order, batches, build, parallel, exec, fixedTime, elapsed>>

\* SetEnabled(): the plan does not depend on it, so it is enough after Build(), for
\* one system at a time.
SetEnabled(i) ==
  /\ IdleSched /\ built /\ elapsed.ticks < MaxTicks
  /\ \A j \in Systems \ {i} : systems[j].enabled
  /\ systems' = [systems EXCEPT ![i].enabled = ~@]
  /\ UNCHANGED <<deps, syncPoints, built, order, batches, build, parallel, exec, fixedTime,
                 elapsed>>

\* SetFixedTimeStep().
SetFixedTimeStep(step) ==
  /\ IdleSched /\ built /\ fixedTime' = [fixedTime EXCEPT !.step = step]
  /\ UNCHANGED <<systems, deps, syncPoints, built, order, batches, build, parallel, exec,
                 elapsed>>

(***************************************************************************)
(* Build().                                                                *)
(***************************************************************************)

\* Systems in the order of their registration (a set with one sequence).
AsRegistered(some) == {s \in SetToSeqs(some) : \A a, b \in DOMAIN s : a < b => s[a] < s[b]}

\* Mutant of the sort: a system with one predecessor counts as free.
SortingEarly(st) ==
  LET degree == [i \in Systems |-> Cardinality(Before(i))] IN
  [stage : {st}, ready : AsRegistered({i \in InStage(st) : degree[i] <= 1}),
   degree : {degree}, sorted : {<<>>}, placing : {0}]

\* topologicalSort() begins for a stage: in-degrees, and the queue of those without.
Sorting(st) ==
  LET degree == [i \in Systems |-> Cardinality(Before(i))] IN
  [stage : {st}, ready : AsRegistered({i \in InStage(st) : degree[i] = 0}),
   degree : {degree}, sorted : {<<>>}, placing : {0}]

Build ==
  /\ IdleSched /\ Len(systems) = MaxSystems /\ ~built
  /\ order' = NoPlan /\ batches' = NoPlan
  /\ build' \in Sorting(1)
  /\ UNCHANGED <<systems, deps, syncPoints, built, parallel, exec, fixedTime, elapsed>>

\* One round of Kahn's loop: the successors whose last predecessor this was join the
\* queue, in the order of an unordered set.
SortStep ==
  LET i == Head(build.ready)
      freed == {j \in After(i) : build.degree[j] = 1} IN
  /\ build.stage # 0 /\ build.placing = 0 /\ build.ready # <<>>
  /\ \E more \in SetToSeqs(freed) :
       build' = [build EXCEPT !.ready = Tail(@) \o more, !.sorted = Append(@, i),
                              !.degree = [j \in Systems |->
                                            IF j \in After(i) THEN @[j] - 1 ELSE @[j]]]
  /\ UNCHANGED <<systems, deps, syncPoints, built, order, batches, parallel, exec, fixedTime,
                 elapsed>>

\* The sort of a stage ends: a cycle ends the build as well.
SortDone ==
  /\ build.stage # 0 /\ build.placing = 0 /\ build.ready = <<>>
  /\ IF Len(build.sorted) # Cardinality(InStage(build.stage))
     THEN build' = NoBuild /\ built' = FALSE /\ UNCHANGED order
     ELSE /\ order' = [order EXCEPT ![build.stage] = build.sorted]
          /\ build' = [build EXCEPT !.placing = 1] /\ UNCHANGED built
  /\ UNCHANGED <<systems, deps, syncPoints, batches, parallel, exec, fixedTime, elapsed>>

\* ConflictsWith().
ConflictsWith(a, b) ==
  \/ a.reads \cup a.writes = {} \/ b.reads \cup b.writes = {}
  \/ a.writes \cap (b.writes \cup b.reads) # {}
  \/ a.reads \cap b.writes # {}
Conflict(i, j) == ConflictsWith(systems[i].access, systems[j].access)

\* systemBatch: where a system of the stage has been put.
BatchOf(st, i) == CHOOSE b \in DOMAIN batches[st] : i \in ToSet(batches[st][b])

\* Mutant of the first batch allowed: the one of the predecessors itself.
LateEnoughEqual(st, i, b) ==
  LET placed == ToSet(SubSeq(order[st], 1, build.placing - 1)) IN
  /\ \A p \in placed \cap Before(i) : b >= BatchOf(st, p)
  /\ \A p \in placed \cap syncPoints : b > BatchOf(st, p)

\* b >= minBatch: after the predecessors, and after the latest sync point.
LateEnough(st, i, b) ==
  LET placed == ToSet(SubSeq(order[st], 1, build.placing - 1))
      syncs == {k \in 1..(build.placing - 1) : order[st][k] \in syncPoints} IN
  /\ \A p \in placed \cap Before(i) : b > BatchOf(st, p)
  /\ \A k \in syncs : (\A l \in syncs : l <= k) => b > BatchOf(st, order[st][k])

\* The batch holds nothing that conflicts.
Fits(st, i, b) == \A j \in ToSet(batches[st][b]) : ~Conflict(i, j)

\* One round of computeParallelBatches(): the first batch that fits, or a new one.
PlaceStep ==
  LET st == build.stage
      i == order[st][build.placing]
      fitting == {b \in DOMAIN batches[st] : LateEnough(st, i, b) /\ Fits(st, i, b)} IN
  /\ st # 0 /\ build.placing \in 1..Len(order[st])
  /\ \/ \E b \in fitting : /\ \A c \in fitting : b <= c
                          /\ batches' = [batches EXCEPT ![st][b] = Append(@, i)]
     \/ fitting = {} /\ batches' = [batches EXCEPT ![st] = Append(@, <<i>>)]
  /\ build' = [build EXCEPT !.placing = @ + 1]
  /\ UNCHANGED <<systems, deps, syncPoints, built, order, parallel, exec, fixedTime, elapsed>>

\* On to the next stage, or the plan is complete.
PlaceDone ==
  LET st == build.stage IN
  /\ st # 0 /\ build.placing > Len(order[st])
  /\ IF st < Len(Stages) THEN build' \in Sorting(st + 1) /\ UNCHANGED built
     ELSE build' = NoBuild /\ built' = TRUE
  /\ UNCHANGED <<systems, deps, syncPoints, order, batches, parallel, exec, fixedTime, elapsed>>

(***************************************************************************)
(* Execute().                                                              *)
(***************************************************************************)

LastStage == Len(Stages)
Fixed(st) == FixedStage /\ st = LastStage
\* What runs at the same time: a batch, or one system of the order.
Groups(st) == IF parallel THEN batches[st] ELSE [k \in DOMAIN order[st] |-> <<order[st][k]>>]
Enabled(group) == {i \in ToSet(group) : systems[i].enabled}

\* FixedUpdate has systems, and the time for a round of them.
RoundDue(st) == Fixed(st) /\ order[st] # <<>> /\ fixedTime.sum >= fixedTime.step

\* Execute(), in the mode EnableParallelExecution() has set.
Execute(dt) ==
  /\ IdleSched /\ built /\ elapsed.ticks < MaxTicks
  /\ parallel' \in BOOLEAN
  /\ exec' = [NoExec EXCEPT !.stage = 1, !.at = 1, !.rounds = IF Fixed(1) THEN 0 ELSE 1]
  /\ LET more == IF FixedStage /\ order[LastStage] # <<>> THEN dt ELSE 0 IN
     /\ fixedTime' = [fixedTime EXCEPT !.sum = @ + more]
     /\ elapsed' = [elapsed EXCEPT !.given = @ + more, !.ticks = @ + 1]
  /\ UNCHANGED <<systems, deps, syncPoints, built, order, batches, build>>

\* executeBatch(): every enabled system of the group starts.
BeginGroup ==
  LET st == exec.stage IN
  /\ st # 0 /\ exec.rounds > 0 /\ exec.running = {} /\ exec.at <= Len(Groups(st))
  /\ exec' = [exec EXCEPT !.at = @ + 1, !.running = Enabled(Groups(st)[exec.at])]
  /\ UNCHANGED <<systems, deps, syncPoints, built, order, batches, build, parallel, fixedTime,
                 elapsed>>

\* A system is done; the executor waits for all of them.
FinishSystem(i) ==
  /\ i \in exec.running
  /\ exec' = [exec EXCEPT !.running = @ \ {i}, !.done = @ \cup {i}]
  /\ UNCHANGED <<systems, deps, syncPoints, built, order, batches, build, parallel, fixedTime,
                 elapsed>>

\* A round of FixedUpdate takes its step from the accumulator.
UseFixed == [fixedTime EXCEPT !.sum = @ - fixedTime.step]

\* The end of a stage; FixedUpdate goes round while there is time for it.
EndStage ==
  LET st == exec.stage IN
  /\ st # 0 /\ exec.running = {}
  /\ exec.at > Len(Groups(st)) \/ exec.rounds = 0
  /\ \/ /\ RoundDue(st)
        /\ fixedTime' = UseFixed
        /\ elapsed' = [elapsed EXCEPT !.used = @ + fixedTime.step]
        /\ exec' = [NoExec EXCEPT !.stage = st, !.at = 1, !.rounds = 1]
     \/ /\ ~RoundDue(st)
        /\ exec' = IF st = LastStage THEN NoExec
                   ELSE [NoExec EXCEPT !.stage = st + 1, !.at = 1,
                                       !.rounds = IF Fixed(st + 1) THEN 0 ELSE 1]
        /\ UNCHANGED <<fixedTime, elapsed>>
  /\ UNCHANGED <<systems, deps, syncPoints, built, order, batches, build, parallel>>

BuildNext == Build \/ SortStep \/ SortDone \/ PlaceStep \/ PlaceDone
ExecNext ==
  \/ BeginGroup \/ EndStage
  \/ \E dt \in DeltaTimes : Execute(dt)
  \/ \E i \in Systems : FinishSystem(i)

SchedNext ==
  \/ BuildNext \/ ExecNext
  \/ \E st \in StageIds, access \in AccessPatterns : Register(st, access)
  \/ \E i, j \in Systems : AddDependency(i, j)
  \/ \E i \in Systems : AddSyncPoint(i) \/ SetEnabled(i)
  \/ \E step \in TimeSteps : SetFixedTimeStep(step)

SchedSpec == SchedInit /\ [][SchedNext]_schedVars

(***************************************************************************)
(* Properties.                                                             *)
(***************************************************************************)

SystemRecord == [stage : StageIds, access : AccessPatterns, enabled : BOOLEAN]

\* The scheduler's tables name registered systems.
SchedTypeOK ==
  /\ systems \in Seq(SystemRecord) /\ deps \subseteq Systems \X Systems /\ syncPoints \subseteq Systems
  /\ built \in BOOLEAN /\ parallel \in BOOLEAN
  /\ order \in [StageIds -> Seq(Systems)] /\ batches \in [StageIds -> Seq(Seq(Systems))]
  /\ build \in [stage : StageIds \cup {0}, ready : Seq(Systems), sorted : Seq(Systems),
                degree : [Systems -> Nat] \cup {<<>>}, placing : Nat]
  /\ exec \in [stage : StageIds \cup {0}, at : Nat, running : SUBSET Systems,
               done : SUBSET Systems, rounds : {0, 1}]
  /\ fixedTime \in [step : TimeSteps, sum : Nat]
  /\ elapsed \in [given : Nat, used : Nat, ticks : Nat]

\* The dependencies have a cycle: systems each of which waits for another of them.
Cyclic(some) == \E c \in SUBSET some : c # {} /\ \A i \in c : Before(i) \cap c # {}

\* Build() finds a plan exactly when the dependencies have no cycle, and the plan has
\* every system of a stage once, each behind those it depends on.
PlanRespectsDependencies ==
  /\ built =>
       \A st \in StageIds :
         /\ IsInjective(order[st]) /\ ToSet(order[st]) = InStage(st)
         /\ \A a, b \in DOMAIN order[st] : <<order[st][a], order[st][b]>> \in deps => a < b
  /\ build.stage # 0 /\ build.placing = 0 /\ build.ready = <<>> =>
       (Len(build.sorted) = Cardinality(InStage(build.stage)) <=> ~Cyclic(InStage(build.stage)))

\* What runs at the same time does not touch the same data, and what it depends on is
\* done: no system starts before one it was declared to come after.
NoConflictAtRun ==
  /\ \A i, j \in exec.running : i # j => ~Conflict(i, j)
  /\ \A i \in exec.running : \A p \in Before(i) : systems[p].enabled => p \in exec.done

\* FixedUpdate loses no time and invents none: what it was given is what it has used
\* and what the accumulator still holds, whatever steps were set in between.
FixedTimeKept == elapsed.given = elapsed.used + fixedTime.sum

\* In every tick that Execute() makes, systems that run together touch no data in common and
\* start after what they depend on, and FixedUpdate uses exactly the time it was given.
ExecutionSound == NoConflictAtRun /\ FixedTimeKept

\* "all systems up to and including afterSystem must complete before any later system
\* in the same stage may start" (AddSyncPoint() in system_scheduler.hpp).
SyncPointSeparates ==
  \A st \in StageIds : built =>
    \A a, s, b \in DOMAIN order[st] :
      a <= s /\ s < b /\ order[st][s] \in syncPoints =>
        BatchOf(st, order[st][a]) < BatchOf(st, order[st][b])
=============================================================================
