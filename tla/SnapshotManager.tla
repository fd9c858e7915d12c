--------------------------- MODULE SnapshotManager ---------------------------
(***************************************************************************)
(* The snapshot directory of src/services/runner/snapshot_manager.cpp.     *)
(*                                                                         *)
(* File names hold the microsecond of the snapshot, and listSnapshots()    *)
(* sorts them: the directory is the sequence of its files, oldest first.   *)
(* A file is complete, or the process or the disk gave up while it was     *)
(* being written; deserializeSnapshot() then refuses it.                   *)
(***************************************************************************)
EXTENDS PlayerData, Sequences

CONSTANT MaxRetained    \* SnapshotConfig::maxRetained

ASSUME RetainedAssumption == MaxRetained \in Nat \ {0}

VARIABLE snapFiles      \* the files of the snapshot directory

Snapshot == [seq : Nat, players : PlayerState, complete : BOOLEAN]

\* The snapshot recovery falls back on: nothing known, replay everything.
NoSnapshot == [seq |-> 0, players |-> EmptyWorld, complete |-> TRUE]

SnapInit == snapFiles = <<>>

\* A mutant of pruneOldSnapshots(): the newest files are the ones removed.
PruneNewSnapshots(files) ==
  IF Len(files) > MaxRetained THEN SubSeq(files, 1, MaxRetained) ELSE files

\* pruneOldSnapshots(): the oldest files beyond maxRetained are removed.
PruneOldSnapshots(files) ==
  IF Len(files) > MaxRetained
  THEN SubSeq(files, Len(files) - MaxRetained + 1, Len(files))
  ELSE files

\* save() up to the point where the new file exists and is still empty.
SaveCreate(seq, players) ==
  snapFiles' = Append(snapFiles, [seq |-> seq, players |-> players, complete |-> FALSE])

\* ... and the rest of it: the data is written, old snapshots are pruned.
SaveWrite ==
  LET last == Len(snapFiles)
      done == [seq |-> snapFiles[last].seq, players |-> snapFiles[last].players,
               complete |-> TRUE]
  IN  snapFiles' = PruneOldSnapshots([snapFiles EXCEPT ![last] = done])

\* loadLatest() and what recover() makes of its answer: only the newest file
\* is tried, and any error (no file, an incomplete one) is "no snapshot".
LoadLatest ==
  IF snapFiles # <<>> /\ snapFiles[Len(snapFiles)].complete
  THEN snapFiles[Len(snapFiles)] ELSE NoSnapshot

\* Files are snapshots.
SnapTypeOK == snapFiles \in Seq(Snapshot)
=============================================================================
