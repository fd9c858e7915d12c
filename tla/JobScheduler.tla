------------------------------ MODULE JobScheduler ------------------------------
(***************************************************************************)
(* GameJobScheduler of src/foundation/thread/job_scheduler.cpp: jobs with  *)
(* priorities and dependencies on the workers of a thread pool, cancel()   *)
(* and recurring tick jobs.  wait() blocks its caller until the job's      *)
(* promise is kept and changes nothing.                                    *)
(*                                                                         *)
(* schedule() enqueues a job before it enters its future, so the job may   *)
(* have run by then.  A dependent job occupies its worker while it waits   *)
(* for the other job.  The pool is a library: an idle worker takes the     *)
(* oldest job, or the oldest of the highest priority.                      *)
(***************************************************************************)
EXTENDS Naturals, Sequences, FiniteSets

CONSTANTS Workers, Clients,
          MaxJobs,           \* bound: jobs scheduled, tick runs included
          TickEvery          \* interval of the tick job, in processTick() calls

ASSUME JobAssumption ==
  Workers # {} /\ MaxJobs \in Nat /\ TickEvery \in Nat \ {0}

VARIABLES jobs,              \* every job so far, by id: [dep, prio, stage]
          futures,           \* futures and cancelFlags: the ids entered
          cancelled,         \* the flags that are set
          worker,            \* the job each worker is at, or 0
          client,            \* the job each client is about to enter, or 0
          tickJob,           \* tickJobs: no entry, or its elapsed time and whether it is enabled
          overtaken          \* ghost: a job was taken while the one it waits for was queued

jobVars == <<jobs, futures, cancelled, worker, client, tickJob, overtaken>>

JobIds == DOMAIN jobs
Priorities == 1..2           \* JobPriority: Normal, Low
Normal == 1
Stage(j) == jobs[j].stage
SetStage(j, s) == jobs' = [jobs EXCEPT ![j].stage = s]

JobInit ==
  /\ jobs = <<>> /\ futures = {} /\ cancelled = {}
  /\ worker = [w \in Workers |-> 0] /\ client = [c \in Clients |-> 0]
  /\ tickJob = <<>> /\ overtaken = FALSE

(***************************************************************************)
(* Clients.                                                                *)
(***************************************************************************)
Enqueue(dep, prio) ==
  /\ Len(jobs) < MaxJobs
  /\ jobs' = Append(jobs, [dep |-> dep, prio |-> prio, stage |-> "queued"])

\* schedule(): into the pool ...
Schedule(c, prio) ==
  /\ client[c] = 0
  /\ Enqueue(0, prio)
  /\ client' = [client EXCEPT ![c] = Len(jobs) + 1]
  /\ UNCHANGED <<futures, cancelled, worker, tickJob, overtaken>>

\* ... then into futures and cancelFlags.
EnterFuture(c) ==
  /\ client[c] # 0
  /\ futures' = futures \cup {client[c]}
  /\ client' = [client EXCEPT ![c] = 0]
  /\ UNCHANGED <<jobs, cancelled, worker, tickJob, overtaken>>

\* scheduleAfter(): the dependency must be entered.
ScheduleAfter(c, dep) ==
  /\ client[c] = 0 /\ dep \in futures
  /\ Enqueue(dep, Normal)
  /\ client' = [client EXCEPT ![c] = Len(jobs) + 1]
  /\ UNCHANGED <<futures, cancelled, worker, tickJob, overtaken>>

\* cancel() of a job that is not done.
Cancel(c, j) ==
  /\ client[c] = 0 /\ j \in futures /\ Stage(j) # "done"
  /\ cancelled' = cancelled \cup {j}
  /\ UNCHANGED <<jobs, futures, worker, client, tickJob, overtaken>>

\* scheduleTick(), processTick() and the cancel() of a tick job.
ScheduleTick ==
  /\ tickJob = <<>> /\ tickJob' = [elapsed |-> 0, enabled |-> TRUE]
  /\ UNCHANGED <<jobs, futures, cancelled, worker, client, overtaken>>

ProcessTick ==
  /\ tickJob # <<>> /\ tickJob.enabled
  /\ \/ /\ tickJob.elapsed + 1 >= TickEvery
        /\ Enqueue(0, Normal) /\ tickJob' = [tickJob EXCEPT !.elapsed = 0]
     \/ /\ tickJob.elapsed + 1 < TickEvery
        /\ tickJob' = [tickJob EXCEPT !.elapsed = @ + 1] /\ UNCHANGED jobs
  /\ UNCHANGED <<futures, cancelled, worker, client, overtaken>>

CancelTick ==
  /\ tickJob # <<>> /\ tickJob.enabled /\ tickJob' = [tickJob EXCEPT !.enabled = FALSE]
  /\ UNCHANGED <<jobs, futures, cancelled, worker, client, overtaken>>

(***************************************************************************)
(* Workers.                                                                *)
(***************************************************************************)
Queued == {j \in JobIds : Stage(j) = "queued"}
First(S) == CHOOSE j \in S : \A k \in S : j <= k
Highest == {j \in Queued : \A k \in Queued : jobs[j].prio <= jobs[k].prio}

\* A mutant of the job's wrapper: a cancelled job returns before it keeps its promise.
BeginLeavesPromise(w, j) ==
  IF j \in cancelled THEN SetStage(j, "left") /\ UNCHANGED worker
  ELSE SetStage(j, "started") /\ worker' = [worker EXCEPT ![w] = j]

\* The wrapper looks at the flag once; a cancelled job only keeps its promise.
BeginJob(w, j) ==
  IF j \in cancelled THEN SetStage(j, "done") /\ UNCHANGED worker
  ELSE SetStage(j, "started") /\ worker' = [worker EXCEPT ![w] = j]

Take(w) ==
  /\ worker[w] = 0 /\ Queued # {}
  /\ \E j \in {First(Queued), First(Highest)} :
       BeginJob(w, j) /\ overtaken' = (overtaken \/ jobs[j].dep \in Queued)
  /\ UNCHANGED <<futures, cancelled, client, tickJob>>

\* Mutant of scheduleAfter()'s wrapper: it goes on once the other job has been started.
FinishEarly(w) ==
  /\ worker[w] # 0
  /\ jobs[worker[w]].dep # 0 => Stage(jobs[worker[w]].dep) # "queued"
  /\ SetStage(worker[w], "done") /\ worker' = [worker EXCEPT ![w] = 0]
  /\ UNCHANGED <<futures, cancelled, client, tickJob, overtaken>>

\* A dependent job waits for the other's promise, kept or broken by an exception; the
\* function returns or throws.
Finish(w) ==
  /\ worker[w] # 0
  /\ jobs[worker[w]].dep # 0 => Stage(jobs[worker[w]].dep) = "done"
  /\ SetStage(worker[w], "done") /\ worker' = [worker EXCEPT ![w] = 0]
  /\ UNCHANGED <<futures, cancelled, client, tickJob, overtaken>>

WorkerStep(w) == Take(w) \/ Finish(w)

\* Nothing is left to do within the bound.
JobsExhausted == Len(jobs) = MaxJobs /\ UNCHANGED jobVars

JobNext ==
  \/ ScheduleTick \/ ProcessTick \/ CancelTick \/ JobsExhausted
  \/ \E w \in Workers : WorkerStep(w)
  \/ \E c \in Clients :
       \/ EnterFuture(c) \/ \E p \in Priorities : Schedule(c, p)
       \/ \E j \in JobIds : ScheduleAfter(c, j) \/ Cancel(c, j)

JobSpec == JobInit /\ [][JobNext]_jobVars

\* Every thread of the pool runs.
JobFairness == \A w \in Workers : WF_jobVars(WorkerStep(w))

(***************************************************************************)
(* Properties.                                                             *)
(***************************************************************************)

\* The job a worker is at waits for another one.
Waits(w) == worker[w] # 0 /\ jobs[worker[w]].dep # 0 /\ Stage(jobs[worker[w]].dep) # "done"

\* A job that was not cancelled is done only after the job it depends on; and as long as a
\* job is left, not all workers wait for one another: some worker can go on with its job or
\* take one, unless the pool has let a job overtake the one it waits for (schedule(),
\* scheduleAfter(), cancel()).
JobsAdvance ==
  /\ \A j \in JobIds :
       Stage(j) = "done" /\ j \notin cancelled /\ jobs[j].dep # 0 => Stage(jobs[j].dep) = "done"
  /\ ~overtaken /\ (\E j \in JobIds : Stage(j) # "done") =>
       \E w \in Workers : IF worker[w] = 0 THEN Queued # {} ELSE ~Waits(w)

\* Every job is finished, cancelled or not, however long the chains of jobs that wait for
\* one another and however few the workers, unless the pool lets a job overtake the one
\* it waits for: then all workers may wait for jobs that none of them can take.
JobsComplete ==
  \A j \in 1..MaxJobs :
    j \in JobIds ~> overtaken \/ (j \in JobIds /\ Stage(j) = "done")
=============================================================================
