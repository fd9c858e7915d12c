-------------------------- MODULE PersistenceManager --------------------------
(***************************************************************************)
(* The composition of src/services/runner/persistence_manager.cpp: player  *)
(* changes go to the write-ahead log, doSnapshot() saves the whole world   *)
(* and cuts the log, start() recovers from both after a crash or a stop.   *)
(*                                                                         *)
(* doSnapshot() runs under snapshotMutex, on the timer thread, in a call   *)
(* of takeSnapshot() or in stop(); it is split where other threads can     *)
(* come in between.  recordChange() takes only the log's mutex.  The host  *)
(* applies a change to its world and records it without letting the        *)
(* collector in between.  A stopped manager belongs to a process that      *)
(* exits: no code of the repository starts the same object twice.          *)
(*                                                                         *)
(* Hazards names what the environment may do in a run:                     *)
(*   record_in_window   a change is recorded between collector() and       *)
(*                      currentSequence() of doSnapshot()                  *)
(*   crash_in_save      the process dies while a snapshot is being written *)
(*   crash_in_truncate  ... while the log is being rewritten               *)
(*   crash_behind       ... in a lifetime whose numbering started at or    *)
(*                      below the snapshot's, before its next snapshot     *)
(*   disk_fault         the file system refuses a write                    *)
(***************************************************************************)
EXTENDS WriteAheadLog, SnapshotManager

CONSTANTS Hazards,      \* what the environment may do
          MaxChanges,   \* bound: calls of recordChange
          MaxSnapshots, \* bound: calls of doSnapshot by timer and callers
          MaxStarts     \* bound: starts of the process

ASSUME BoundsAssumption == MaxChanges \in Nat /\ MaxSnapshots \in Nat /\ MaxStarts \in Nat

VARIABLES pm,           \* "down", "running", or how far stop() has come
          phase,        \* where the holder of snapshotMutex is in doSnapshot
          snap,         \* its local variable: the Snapshot being taken
          lastSnapshotSequence,
          world,        \* the host's player state
          changes,      \* calls of recordChange so far: the next value
          snapshots,    \* snapshots begun by timer and callers
          starts,       \* starts so far
          behind,       \* ghost: numbering not above the loaded snapshot's
          history,      \* ghost: acknowledged changes, as [player, value]
          lost          \* ghost: those of them a recovery did not restore

hostVars == <<world, changes, history>>
ghostVars == <<starts, behind, lost>>
vars == <<syncOnWrite, walVars, snapFiles, pm, phase, snap, lastSnapshotSequence,
          hostVars, snapshots, ghostVars>>

\* stop() has cleared running, takes its own snapshot, has taken it, has
\* closed the log, has closed the snapshot directory too.
Stages == {"down", "running", "stopping", "final", "closing", "logClosed", "closed"}
LogOpen == pm \notin {"down", "logClosed", "closed"}

Phases == {"idle", "collected", "stamped", "created", "saved", "cut"}

Change == [player : Players, value : Nat]

Init ==
  /\ WalInit /\ SnapInit
  /\ pm = "down" /\ phase = "idle" /\ snap = NoSnapshot
  /\ lastSnapshotSequence = 0
  /\ world = EmptyWorld /\ changes = 0 /\ history = {}
  /\ snapshots = 0 /\ starts = 0 /\ behind = FALSE /\ lost = {}

(***************************************************************************)
(* Recovery.                                                               *)
(***************************************************************************)

\* Restoring base and then applying frames in the order of their numbers
\* leaves player p with value v.
Rebuilds(base, frames, p, v) ==
  \/ \E f \in frames : /\ f.player = p /\ f.value = v
                       /\ \A g \in frames : g.player = p => g.seq <= f.seq
  \/ (\A f \in frames : f.player # p) /\ v = base[p]

\* recover(): the values that come out of the newest snapshot and the log.
Recovers(p, v) ==
  Rebuilds(LoadLatest.players, Replayed(walFile, LoadLatest.seq), p, v)

\* The values a player can have: some change, or none.
Values(p) == {0} \cup {f.value : f \in {g \in walFile : g.player = p}}
                 \cup {LoadLatest.players[p]}

\* The world recover() leaves behind.
Recovered(w) ==
  /\ DOMAIN w = Players
  /\ \A p \in Players : Recovers(p, w[p])

\* start(): open both stores, recover, run.  A start that fails to open a
\* store closes the other again and leaves everything as it was.
Start ==
  /\ pm = "down" /\ starts < MaxStarts
  /\ starts' = starts + 1
  /\ WalOpen
  /\ lastSnapshotSequence' = LoadLatest.seq
  /\ world' \in [Players -> UNION {Values(p) : p \in Players}]
  /\ Recovered(world')
  /\ lost' = lost \cup {c \in history : c.value > world'[c.player]}
  /\ history' = {c \in history : c.value <= world'[c.player]}
  /\ behind' = (nextSequence' <= lastSnapshotSequence')
  /\ pm' = "running"
  /\ UNCHANGED <<snapFiles, phase, snap, changes, snapshots>>

(***************************************************************************)
(* recordChange().  It needs the log open, not the manager running (once   *)
(* stop() has closed the log it is refused and nothing changes), and waits *)
(* while truncateBefore() holds the log's mutex.                           *)
(***************************************************************************)

CanRecord ==
  /\ LogOpen /\ phase # "cut" /\ changes < MaxChanges
  /\ phase = "collected" => "record_in_window" \in Hazards

Acknowledge(p) ==
  /\ world' = [world EXCEPT ![p] = changes + 1]
  /\ history' = history \cup {[player |-> p, value |-> changes + 1]}

managerUnchanged == UNCHANGED <<snapFiles, pm, phase, snap, lastSnapshotSequence,
                                snapshots, ghostVars>>

RecordChange(p) ==
  /\ CanRecord
  /\ WalAppend(NewFrame(p, changes + 1))
  /\ Acknowledge(p)
  /\ changes' = changes + 1
  /\ managerUnchanged

\* recordChange() on a log whose stream has failed: the host keeps the old
\* state and tells nobody.
RecordRejected ==
  /\ CanRecord
  /\ WalAppendRejected
  /\ changes' = changes + 1
  /\ UNCHANGED <<world, history>> /\ managerUnchanged

\* recordChange() that meets a disk fault: acknowledged or refused.
RecordFaults(p) ==
  /\ CanRecord /\ "disk_fault" \in Hazards
  /\ \/ WalAppendFaults(NewFrame(p, changes + 1), TRUE) /\ Acknowledge(p)
     \/ WalAppendFaults(NewFrame(p, changes + 1), FALSE) /\ UNCHANGED <<world, history>>
  /\ changes' = changes + 1
  /\ managerUnchanged

(***************************************************************************)
(* doSnapshot(), one action per step.                                      *)
(***************************************************************************)

\* The timer (timerLoop) or a caller of takeSnapshot() enters doSnapshot()
\* and calls the collector.  Both looked at running before they waited for
\* the mutex: stop() may have come in between, and stop() waits only for the
\* timer, so that a caller can find the stores closed under it.
Collect ==
  /\ pm # "down" /\ phase = "idle" /\ snapshots < MaxSnapshots
  /\ snapshots' = snapshots + 1
  /\ phase' = "collected"
  /\ snap' = [seq |-> 0, players |-> world, complete |-> TRUE]
  /\ UNCHANGED <<walVars, snapFiles, pm, lastSnapshotSequence, hostVars, ghostVars>>

\* snap.walSequence = wal.currentSequence().
Stamp ==
  /\ phase = "collected" /\ phase' = "stamped"
  /\ snap' = [seq |-> nextSequence - 1, players |-> snap.players, complete |-> TRUE]
  /\ UNCHANGED <<walVars, snapFiles, pm, lastSnapshotSequence, hostVars, snapshots, ghostVars>>

\* doSnapshot() returns, to stop() or to whoever else called it.
SnapshotReturns ==
  /\ phase' = "idle"
  /\ pm' = IF pm = "final" THEN "closing" ELSE pm

\* snapshots.save(snap), first the empty file, then its contents.
CreateFile ==
  /\ phase = "stamped" /\ phase' = "created" /\ pm # "closed"
  /\ SaveCreate(snap.seq, snap.players)
  /\ UNCHANGED <<walVars, pm, snap, lastSnapshotSequence, hostVars, snapshots, ghostVars>>

WriteFile ==
  /\ phase = "created" /\ phase' = "saved"
  /\ SaveWrite
  /\ UNCHANGED <<walVars, pm, snap, lastSnapshotSequence, hostVars, snapshots, ghostVars>>

\* A mutant of the failed save below: the early return keeps the mutex.
SaveFailsHoldingMutex ==
  /\ phase \in {"stamped", "created"} /\ "disk_fault" \in Hazards
  /\ phase' = "leaked"
  /\ UNCHANGED <<walVars, snapFiles, pm, snap, lastSnapshotSequence, hostVars, snapshots, ghostVars>>

\* save() cannot open or write the file: doSnapshot() returns the error, a
\* partial file stays and nothing is pruned.
SaveFails ==
  /\ phase \in {"stamped", "created"} /\ "disk_fault" \in Hazards
  /\ SnapshotReturns
  /\ UNCHANGED <<walVars, snapFiles, snap, lastSnapshotSequence, hostVars, snapshots, ghostVars>>

\* save() after stop() has closed the directory: "snapshot manager is not
\* open", and doSnapshot() returns that error.
SaveRefused ==
  /\ phase = "stamped" /\ pm = "closed"
  /\ SnapshotReturns
  /\ UNCHANGED <<walVars, snapFiles, snap, lastSnapshotSequence, hostVars, snapshots, ghostVars>>

\* wal.truncateBefore(snap.walSequence), up to the emptied file.
CutLog ==
  /\ phase = "saved" /\ phase' = "cut" /\ LogOpen
  /\ TruncateCut(snap.seq)
  /\ UNCHANGED <<snapFiles, pm, snap, lastSnapshotSequence, hostVars, snapshots, ghostVars>>

\* The end of doSnapshot().
SnapshotDone ==
  /\ SnapshotReturns
  /\ lastSnapshotSequence' = snap.seq
  /\ behind' = FALSE
  /\ UNCHANGED <<snapFiles, snap, hostVars, snapshots, starts, lost>>

RewriteLog ==
  /\ phase = "cut"
  /\ TruncateRewrite
  /\ SnapshotDone

\* The same steps when the file system refuses them: doSnapshot() ignores
\* the answer of truncateBefore(), and that one ignores failed rewrites.
TruncateLogFails ==
  /\ "disk_fault" \in Hazards
  /\ \/ phase = "saved" /\ LogOpen /\ TruncateFails(snap.seq)
     \/ phase = "cut" /\ RewriteFaults
  /\ SnapshotDone

\* truncateBefore() after stop() has closed the log: an error that
\* doSnapshot() ignores as well.  The snapshot stands, the log stays.
TruncateRefused ==
  /\ phase = "saved" /\ ~LogOpen
  /\ SnapshotDone
  /\ UNCHANGED walVars

(***************************************************************************)
(* stop() and crashes.                                                     *)
(***************************************************************************)

\* stop(): running = false.
Stop ==
  /\ pm = "running" /\ pm' = "stopping"
  /\ UNCHANGED <<walVars, snapFiles, phase, snap, lastSnapshotSequence, hostVars,
                 snapshots, ghostVars>>

\* stop() gets the mutex for the final snapshot.
FinalCollect ==
  /\ pm = "stopping" /\ phase = "idle"
  /\ pm' = "final" /\ phase' = "collected"
  /\ snap' = [seq |-> 0, players |-> world, complete |-> TRUE]
  /\ UNCHANGED <<walVars, snapFiles, lastSnapshotSequence, hostVars, snapshots, ghostVars>>

\* The memory of the process is gone.
Forget ==
  /\ pm' = "down" /\ phase' = "idle" /\ snap' = NoSnapshot
  /\ lastSnapshotSequence' = 0 /\ world' = EmptyWorld /\ behind' = FALSE
  /\ UNCHANGED <<snapFiles, changes, history, snapshots, starts, lost>>

\* stop() flushes and closes the log.  It waits for whoever holds the log's
\* mutex and for nobody else: a takeSnapshot() goes on over the closed log.
CloseLog ==
  /\ pm = "closing" /\ phase # "cut" /\ pm' = "logClosed"
  /\ WalClose
  /\ UNCHANGED <<snapFiles, phase, snap, lastSnapshotSequence, hostVars, snapshots, ghostVars>>

\* stop() closes the snapshot directory, once save() has left its mutex.
CloseSnapshots ==
  /\ pm = "logClosed" /\ phase # "created" /\ pm' = "closed"
  /\ UNCHANGED <<walVars, snapFiles, phase, snap, lastSnapshotSequence, hostVars,
                 snapshots, ghostVars>>

\* The process exits, after the threads that still were in takeSnapshot()
\* have left it.
Exit ==
  /\ pm = "closed" /\ phase = "idle"
  /\ WalForget /\ UNCHANGED <<walFile, walTorn>>
  /\ Forget

Crash ==
  /\ pm # "down"
  /\ phase = "created" => "crash_in_save" \in Hazards
  /\ phase = "cut" => "crash_in_truncate" \in Hazards
  /\ behind => "crash_behind" \in Hazards
  /\ WalCrash(phase = "cut")
  /\ Forget

SnapshotStep == \/ Stamp \/ CreateFile \/ WriteFile \/ SaveFails \/ SaveRefused
                \/ CutLog \/ RewriteLog \/ TruncateLogFails \/ TruncateRefused

StopStep == FinalCollect \/ CloseLog \/ CloseSnapshots \/ Exit

Step ==
  \/ Start \/ Collect \/ SnapshotStep \/ Stop \/ StopStep \/ Crash
  \/ RecordRejected
  \/ \E p \in Players : RecordChange(p) \/ RecordFaults(p)

Next == Step /\ UNCHANGED syncOnWrite

Spec == Init /\ [][Next]_vars

\* The threads inside doSnapshot() and stop() are runnable and keep running.
FairSpec ==
  /\ Spec
  /\ WF_vars(SnapshotStep /\ UNCHANGED syncOnWrite)
  /\ WF_vars(StopStep /\ UNCHANGED syncOnWrite)

(***************************************************************************)
(* Properties.                                                             *)
(***************************************************************************)

\* Every variable keeps the shape the code gives it.
TypeOK ==
  /\ WalTypeOK /\ SnapTypeOK
  /\ pm \in Stages
  /\ phase \in Phases /\ snap \in Snapshot
  /\ lastSnapshotSequence \in Nat /\ world \in PlayerState
  /\ changes \in Nat /\ snapshots \in Nat /\ starts \in Nat
  /\ behind \in BOOLEAN /\ history \subseteq Change /\ lost \subseteq Change

\* WalEntry::sequence is "monotonically increasing": while the process lives,
\* no two frames of the log carry one number, later numbers carry later
\* changes, and the next number is above all of them, whatever append(),
\* rebuildIndex(), truncateBefore(), crashes and disk faults did to the file.
SequencesUnique ==
  pm # "down" =>
    \A f \in entries \cup walFile \cup buffered :
      /\ f.seq < nextSequence
      /\ \A g \in entries \cup walFile \cup buffered : f.seq <= g.seq => f.value <= g.value

\* "Zero data loss on crash" (write_ahead_log.hpp, SRS-NFR-013): recover()
\* restores every change recordChange() had acknowledged, given the default
\* syncOnWrite.
ZeroLossOnCrash == syncOnWrite => lost = {}

\* With syncOnWrite off a crash may lose changes, but only the latest ones:
\* recover() never restores a change and misses an earlier one.
PrefixRecovery ==
  [][pm = "down" /\ pm' # "down" =>
       \A c \in lost' \ lost, d \in history' : d.value < c.value]_vars

\* stop() comes to an end and the process with it: neither is starved by the
\* callers of takeSnapshot(), and no error path of doSnapshot() keeps a mutex.
StopCompletes == (pm = "stopping") ~> (pm = "down")
=============================================================================
