--------------------------- MODULE PersistenceProofs ---------------------------
(***************************************************************************)
(* What the log and recovery guarantee, for every set of players and all   *)
(* bounds.                                                                 *)
(*                                                                         *)
(* Numbers order the changes whatever happens (FramesOrdered).  Recovery   *)
(* needs more than ZeroLossOnCrash and PrefixRecovery say.  Whenever a     *)
(* crash may happen, the newest snapshot and the log, written or still     *)
(* buffered, must together hold every acknowledged change, and after one   *)
(* all but the latest of them (DiskHolds).  To keep that through           *)
(* doSnapshot(), the snapshot in hand and the part of the log it will      *)
(* leave must hold them too (SnapHolds), and numbers must be above the     *)
(* snapshot's unless the lifetime is marked behind.  Frames are newer than *)
(* the snapshot for all players at once: only then is what a crash cuts    *)
(* off the log newer than all that is left.                                *)
(***************************************************************************)
EXTENDS PersistenceManager, TLAPS

\* Nothing can be pending or torn when a crash comes.
Lossless == syncOnWrite /\ "crash_in_truncate" \notin Hazards

LosesNothing == Lossless => lost = {}

\* The file is the front part of the index; unless a torn frame hides what
\* was written behind it, the buffer is the rest.
LogShape ==
  /\ writerOk = TRUE
  /\ syncOnWrite => buffered = {}
  /\ Lossless => walTorn = FALSE
  /\ phase = "cut" => walFile = {} /\ buffered = {} /\ walTorn = FALSE
  /\ pm # "down" /\ phase # "cut" =>
       /\ walFile \cup buffered \subseteq entries
       /\ walTorn = FALSE => entries = walFile \cup buffered
       /\ \A f \in walFile, g \in entries \ walFile : f.seq < g.seq

\* A change that base, or base with frames on top, gives back.
Kept(c, base, frames) ==
  \/ c.value <= base[c.player]
  \/ \E f \in frames : f.player = c.player /\ f.value = c.value

\* A change newer than anything base and frames know of anybody.
Newest(c, base, frames) ==
  /\ \A p \in Players : base[p] < c.value
  /\ \A f \in frames : f.value < c.value

\* Every frame is newer than anything base knows of anybody.
Above(base, frames) == \A f \in frames : \A p \in Players : base[p] < f.value

\* base with frames on top misses no change of h.
Holds(h, base, frames) == Above(base, frames) /\ \A c \in h : Kept(c, base, frames)

\* No value is newer than the last change; the world misses none.
WorldHolds ==
  /\ \A c \in history : c.value <= changes
  /\ \A p \in Players : world[p] <= changes
  /\ pm # "down" => \A c \in history : c.value <= world[c.player]

\* What a crash in this state would be recovered from, and what is left after
\* one: everything if nothing can be pending, all but the latest otherwise.
DiskHolds ==
  /\ \A p \in Players : LoadLatest.players[p] <= changes
  /\ pm # "down" /\ ~behind /\ phase \notin {"created", "cut"}
       => Holds(history, LoadLatest.players, Replayed(entries, LoadLatest.seq))
  /\ pm # "down" /\ ~behind /\ phase # "created" => LoadLatest.seq < nextSequence
  /\ pm = "down" =>
       LET base == LoadLatest.players
           frames == Replayed(walFile, LoadLatest.seq)
       IN  /\ Above(base, frames)
           /\ \A c \in history : \/ Kept(c, base, frames)
                                 \/ ~Lossless /\ Newest(c, base, frames)

\* The snapshot being taken, and where it is on its way to the disk.
SnapHolds ==
  /\ \A p \in Players : snap.players[p] <= changes
  /\ phase = "collected" => snap.players = world
  /\ phase \in {"stamped", "created", "saved", "cut"} =>
       /\ snap.seq < nextSequence
       /\ Holds(history, snap.players, Replayed(entries, snap.seq))
  /\ phase = "created" =>
       /\ snapFiles # <<>>
       /\ snapFiles[Len(snapFiles)] = [seq |-> snap.seq, players |-> snap.players,
                                       complete |-> FALSE]
  /\ phase \in {"saved", "cut"} =>
       LoadLatest.seq = snap.seq /\ LoadLatest.players = snap.players
  /\ phase = "cut" => \A f \in entries : f.seq > snap.seq

\* doSnapshot() runs only in a live process, and the final one has always
\* run when stop() goes on to close the stores.
ManagerOK ==
  /\ pm = "down" => phase = "idle" /\ entries = {} /\ buffered = {}
  /\ pm \in {"closing", "logClosed", "closed"} => ~behind

IInv == /\ LogShape /\ WorldHolds /\ DiskHolds /\ SnapHolds /\ ManagerOK
        /\ LosesNothing

-----------------------------------------------------------------------------

\* The empty world is a world, and the missing snapshot a snapshot of it.
LEMMA NoSnapshotType == EmptyWorld \in PlayerState /\ NoSnapshot \in Snapshot
<1>1. EmptyWorld \in PlayerState
  BY DEF EmptyWorld, PlayerState
<1>. QED BY <1>1 DEF NoSnapshot, Snapshot

\* What loadLatest() returns is a snapshot, or the missing one.
LEMMA LoadLatestType ==
  ASSUME SnapTypeOK PROVE LoadLatest \in Snapshot
<1>1. CASE snapFiles # <<>> /\ snapFiles[Len(snapFiles)].complete
  BY <1>1 DEF SnapTypeOK, LoadLatest
<1>2. CASE ~(snapFiles # <<>> /\ snapFiles[Len(snapFiles)].complete)
  BY <1>2, NoSnapshotType DEF LoadLatest
<1>. QED BY <1>1, <1>2

\* The steps of save() leave a sequence of snapshots.
LEMMA SaveType ==
  ASSUME SnapTypeOK
  PROVE  /\ \A q \in Nat, w \in PlayerState : SaveCreate(q, w) => SnapTypeOK'
         /\ snapFiles # <<>> /\ SaveWrite => SnapTypeOK'
<1>1. ASSUME NEW q \in Nat, NEW w \in PlayerState, SaveCreate(q, w) PROVE SnapTypeOK'
  BY <1>1 DEF SnapTypeOK, SaveCreate, Snapshot
<1>2. ASSUME snapFiles # <<>>, SaveWrite PROVE SnapTypeOK'
  <2> DEFINE last == Len(snapFiles)
             done == [seq |-> snapFiles[last].seq, players |-> snapFiles[last].players,
                      complete |-> TRUE]
             files == [snapFiles EXCEPT ![last] = done]
  <2>1. last \in 1..Len(snapFiles) /\ snapFiles[last] \in Snapshot
    BY <1>2 DEF SnapTypeOK
  <2>2. done \in Snapshot
    BY <2>1 DEF Snapshot
  <2>3. snapFiles' = PruneOldSnapshots(files)
    BY <1>2 DEF SaveWrite
  <2> HIDE DEF done
  <2>4. files \in Seq(Snapshot) /\ Len(files) = Len(snapFiles)
    BY <2>1, <2>2 DEF SnapTypeOK
  <2> HIDE DEF files
  <2>5. PruneOldSnapshots(files) \in Seq(Snapshot)
    BY <2>4, RetainedAssumption DEF PruneOldSnapshots
  <2>. QED BY <2>3, <2>5 DEF SnapTypeOK
<1>. QED BY <1>1, <1>2

\* Type correctness, whatever the environment does: every variable of the
\* log, of the directory and of the manager keeps its shape.
TypeInv == TypeOK /\ (phase = "created" => snapFiles # <<>>)

\* A new object is well formed.
LEMMA TypeInit == Init => TypeInv
<1> SUFFICES ASSUME Init PROVE TypeInv
  OBVIOUS
<1>1. WalTypeOK
  <2>1. walTorn \in BOOLEAN /\ writerOk \in BOOLEAN
    BY Zenon DEF Init, WalInit
  <2>. QED BY <2>1 DEF Init, WalInit, WalTypeOK
<1>2. SnapTypeOK
  BY DEF Init, SnapInit, SnapTypeOK
<1>. QED BY <1>1, <1>2, NoSnapshotType DEF Init, TypeInv, TypeOK, Phases, Stages

\* Every step keeps it well formed.
LEMMA TypeNext == TypeInv /\ [Next]_vars => TypeInv'
<1> SUFFICES ASSUME TypeInv, [Next]_vars PROVE TypeInv'
  OBVIOUS
<1> USE DEF TypeInv, TypeOK, Phases, Stages
<1>0. LoadLatest \in Snapshot
  BY LoadLatestType
<1>1. CASE Start
  <2>1. WalTypeOK'
    BY <1>1 DEF Start, WalOpen, RebuildIndex, WalTypeOK, Frame
  <2>2. world' \in PlayerState
    <3>1. \A p \in Players : Values(p) \subseteq Nat
      BY <1>0 DEF Values, Snapshot, PlayerState, WalTypeOK, Frame
    <3>2. world' \in [Players -> UNION {Values(p) : p \in Players}]
      BY <1>1 DEF Start
    <3>. QED BY <3>1, <3>2 DEF PlayerState
  <2>. QED BY <1>0, <1>1, <2>1, <2>2 DEF Start, SnapTypeOK, Snapshot
<1>2. CASE Collect
  BY <1>2 DEF Collect, walVars, hostVars, ghostVars, WalTypeOK, SnapTypeOK, Snapshot, PlayerState
<1>3. CASE Stamp
  BY <1>3 DEF Stamp, walVars, hostVars, ghostVars, WalTypeOK, SnapTypeOK, Snapshot
<1>4. CASE CreateFile
  <2>1. SnapTypeOK' /\ snapFiles' # <<>>
    BY <1>4, SaveType DEF CreateFile, SaveCreate, Snapshot, SnapTypeOK
  <2>. QED BY <1>4, <2>1 DEF CreateFile, walVars, hostVars, ghostVars, WalTypeOK
<1>5. CASE WriteFile
  <2>1. SnapTypeOK'
    BY <1>5, SaveType DEF WriteFile
  <2>. QED BY <1>5, <2>1 DEF WriteFile, walVars, hostVars, ghostVars, WalTypeOK
<1>6. CASE SaveFails \/ SaveRefused
  BY <1>6 DEF SaveFails, SaveRefused, SnapshotReturns, walVars, hostVars, ghostVars, WalTypeOK, SnapTypeOK
<1>7. CASE CutLog
  BY <1>7 DEF CutLog, TruncateCut, hostVars, ghostVars, WalTypeOK, SnapTypeOK
<1>8. CASE RewriteLog
  BY <1>8 DEF RewriteLog, TruncateRewrite, SnapshotDone, SnapshotReturns, hostVars,
              WalTypeOK, SnapTypeOK, Snapshot
<1>9. CASE TruncateLogFails \/ TruncateRefused
  BY <1>9 DEF TruncateLogFails, TruncateFails, RewriteFaults, Reached, UpTo, TruncateRefused,
              SnapshotDone, SnapshotReturns, walVars, hostVars, WalTypeOK, SnapTypeOK, Snapshot
<1>10. CASE Stop
  BY <1>10 DEF Stop, walVars, hostVars, ghostVars, WalTypeOK, SnapTypeOK
<1>11. CASE FinalCollect
  BY <1>11 DEF FinalCollect, walVars, hostVars, ghostVars, WalTypeOK, SnapTypeOK, Snapshot, PlayerState
<1>12. CASE Exit
  <2>1. WalTypeOK'
    BY <1>12 DEF Exit, WalForget, WalTypeOK
  <2>. QED BY <1>12, <2>1, NoSnapshotType DEF Exit, Forget, SnapTypeOK
<1>13. CASE Crash
  <2>1. WalTypeOK'
    <3>1. walTorn' \in BOOLEAN
      BY <1>13, Zenon DEF Crash, WalCrash, WalTypeOK
    <3>2. walFile' \subseteq Frame
      BY <1>13 DEF Crash, WalCrash, Reached, UpTo, WalTypeOK
    <3>. QED BY <1>13, <3>1, <3>2 DEF Crash, WalCrash, WalForget, WalTypeOK
  <2>. QED BY <1>13, <2>1, NoSnapshotType DEF Crash, Forget, SnapTypeOK
<1>14. CASE RecordRejected
  BY <1>14 DEF RecordRejected, WalAppendRejected, managerUnchanged, ghostVars, WalTypeOK, SnapTypeOK
<1>15. ASSUME NEW p \in Players, RecordChange(p) PROVE TypeInv'
  BY <1>15 DEF RecordChange, WalAppend, NewFrame, Reached, Acknowledge, managerUnchanged, ghostVars,
               WalTypeOK, SnapTypeOK, Frame, PlayerState, Change
<1>16. ASSUME NEW p \in Players, RecordFaults(p) PROVE TypeInv'
  <2> DEFINE f == NewFrame(p, changes + 1)
  <2>1. f \in Frame
    BY DEF NewFrame, Frame, WalTypeOK
  <2>2. walTorn' \in BOOLEAN /\ writerOk' \in BOOLEAN
    BY <1>16, Zenon DEF RecordFaults, WalAppendFaults, WalTypeOK
  <2>3. WalTypeOK'
    <3>1. entries' \in {entries, entries \cup {f}}
      BY <1>16, Zenon DEF RecordFaults, WalAppendFaults
    <3>2. walFile' = walFile /\ buffered' = buffered /\ nextSequence' = nextSequence + 1
      BY <1>16, Zenon DEF RecordFaults, WalAppendFaults
    <3>. QED BY <2>1, <2>2, <3>1, <3>2 DEF WalTypeOK
  <2>4. world' \in PlayerState /\ history' \subseteq Change
    <3>1. Acknowledge(p) \/ UNCHANGED <<world, history>>
      BY <1>16, Zenon DEF RecordFaults
    <3>. QED BY <3>1 DEF Acknowledge, PlayerState, Change
  <2>. QED BY <1>16, <2>3, <2>4 DEF RecordFaults, managerUnchanged, ghostVars, SnapTypeOK
<1>17. CASE CloseLog
  BY <1>17 DEF CloseLog, WalClose, Reached, hostVars, ghostVars, WalTypeOK, SnapTypeOK
<1>18. CASE CloseSnapshots \/ UNCHANGED vars
  BY <1>18 DEF CloseSnapshots, vars, walVars, hostVars, ghostVars, WalTypeOK, SnapTypeOK
<1>. QED BY <1>1, <1>2, <1>3, <1>4, <1>5, <1>6, <1>7, <1>8, <1>9, <1>10, <1>11, <1>12, <1>13,
            <1>14, <1>15, <1>16, <1>17, <1>18 DEF Next, Step, SnapshotStep, StopStep

\* Every reachable state of the persistence layer is well typed, with any
\* hazards and any bounds.
THEOREM TypeCorrect == Spec => []TypeOK
<1>1. TypeInv => TypeOK
  BY DEF TypeInv
<1>. QED BY <1>1, TypeInit, TypeNext, PTL DEF Spec

-----------------------------------------------------------------------------

\* All the frames the log has anywhere.
Frames == entries \cup walFile \cup buffered

\* Later numbers carry later changes, and the next number is above all of
\* them in a live process; a dead one has no next number.
FramesOrdered ==
  /\ \A f, g \in Frames : f.seq <= g.seq => f.value <= g.value
  /\ \A f, g \in Frames : f.seq < g.seq => f.value < g.value
  /\ \A f \in Frames : f.value <= changes
  /\ pm # "down" => \A f \in Frames : f.seq < nextSequence

\* An operation that only drops or moves frames keeps their order.
LEMMA OrderKept ==
  ASSUME TypeInv, TypeInv', FramesOrdered, Frames' \subseteq Frames,
         changes <= changes', nextSequence <= nextSequence', pm' # "down" => pm # "down"
  PROVE  FramesOrdered'
<1>1. \A f \in Frames : f.seq \in Nat /\ f.value \in Nat
  BY DEF TypeInv, TypeOK, WalTypeOK, Frames, Frame
<1>2. changes \in Nat /\ changes' \in Nat /\ nextSequence \in Nat /\ nextSequence' \in Nat
  BY DEF TypeInv, TypeOK, WalTypeOK
<1> HIDE DEF Frames
<1>3. \A f \in Frames' : f.value <= changes'
  BY <1>1, <1>2 DEF FramesOrdered
<1>4. pm' # "down" => \A f \in Frames' : f.seq < nextSequence'
  BY <1>1, <1>2 DEF FramesOrdered
<1>. QED BY <1>3, <1>4 DEF FramesOrdered

\* The end of a process keeps it too: there is no next number to compare.
LEMMA OrderDown ==
  ASSUME TypeInv, FramesOrdered, Frames' \subseteq Frames, changes' = changes, pm' = "down"
  PROVE  FramesOrdered'
BY DEF FramesOrdered

\* append() adds the newest value under the highest number.
LEMMA OrderGrown ==
  ASSUME TypeInv, FramesOrdered, pm # "down", pm' = pm,
         NEW p \in Players, Frames' \subseteq Frames \cup {NewFrame(p, changes + 1)},
         nextSequence' = nextSequence + 1, changes' = changes + 1
  PROVE  FramesOrdered'
<1> DEFINE n == NewFrame(p, changes + 1)
<1>1. n.seq = nextSequence /\ n.value = changes + 1
  BY DEF NewFrame
<1>2. \A f \in Frames : f.seq \in Nat /\ f.value \in Nat
  BY DEF TypeInv, TypeOK, WalTypeOK, Frames, Frame
<1>3. changes \in Nat /\ nextSequence \in Nat
  BY DEF TypeInv, TypeOK, WalTypeOK
<1> HIDE DEF n
<1>4. \A f \in Frames' : f \in Frames \/ f = n
  BY DEF n
<1>5. \A f \in Frames : f.seq < n.seq /\ f.value <= changes
  BY <1>1 DEF FramesOrdered
<1>6. /\ \A f, g \in Frames' : f.seq <= g.seq => f.value <= g.value
      /\ \A f, g \in Frames' : f.seq < g.seq => f.value < g.value
  <2> SUFFICES ASSUME NEW f \in Frames', NEW g \in Frames'
               PROVE  /\ f.seq <= g.seq => f.value <= g.value
                      /\ f.seq < g.seq => f.value < g.value
    OBVIOUS
  <2>1. CASE f \in Frames /\ g \in Frames
    BY <2>1 DEF FramesOrdered
  <2>2. CASE f \in Frames /\ g = n
    BY <1>1, <1>2, <1>3, <1>5, <2>2
  <2>3. CASE f = n /\ g \in Frames
    BY <1>1, <1>2, <1>3, <1>5, <2>3
  <2>4. CASE f = n /\ g = n
    BY <1>1, <1>3, <2>4
  <2>. QED BY <1>4, <2>1, <2>2, <2>3, <2>4
<1>7. \A f \in Frames' : f.value <= changes' /\ f.seq < nextSequence'
  BY <1>1, <1>2, <1>3, <1>4, <1>5
<1>. QED BY <1>6, <1>7 DEF FramesOrdered

\* An empty log is ordered.
LEMMA OrderInit == Init => FramesOrdered
BY DEF Init, WalInit, FramesOrdered, Frames

\* Every operation keeps the order, whatever the disk and the crashes do.
LEMMA OrderNext ==
  ASSUME TypeInv, TypeInv', FramesOrdered, [Next]_vars PROVE FramesOrdered'
<1>0. changes \in Nat /\ nextSequence \in Nat /\ \A f \in Frames : f.seq \in Nat
  BY DEF TypeInv, TypeOK, WalTypeOK, Frames, Frame
<1>1. CASE Start
  <2>1. Frames' = walFile /\ walFile \subseteq Frames /\ changes' = changes
    BY <1>1 DEF Start, WalOpen, RebuildIndex, Frames
  <2>2. \A f \in walFile : f.seq < nextSequence'
    <3> PICK maxSeq \in {0} \cup {f.seq : f \in walFile} :
               /\ \A f \in walFile : f.seq <= maxSeq
               /\ nextSequence' = maxSeq + 1
      BY <1>1 DEF Start, WalOpen, RebuildIndex
    <3>1. maxSeq \in Nat
      BY <1>0, <2>1
    <3>. QED BY <1>0, <2>1, <3>1
  <2>. QED BY <2>1, <2>2 DEF FramesOrdered
<1>2. ASSUME NEW p \in Players, RecordChange(p) \/ RecordFaults(p) PROVE FramesOrdered'
  <2>1. pm # "down" /\ pm' = pm /\ changes' = changes + 1
    BY <1>2 DEF RecordChange, RecordFaults, CanRecord, LogOpen, managerUnchanged
  <2>2. Frames' \subseteq Frames \cup {NewFrame(p, changes + 1)}
        /\ nextSequence' = nextSequence + 1
    <3>1. CASE RecordChange(p)
      BY <3>1 DEF RecordChange, WalAppend, Reached, Frames
    <3>2. CASE RecordFaults(p)
      BY <3>2 DEF RecordFaults, WalAppendFaults, Frames
    <3>. QED BY <1>2, <3>1, <3>2
  <2>. QED BY <2>1, <2>2, OrderGrown
<1>3. CASE RecordRejected
  <2>1. Frames' = Frames /\ pm' = pm /\ changes' = changes + 1 /\ nextSequence' = nextSequence + 1
    BY <1>3 DEF RecordRejected, WalAppendRejected, managerUnchanged, Frames
  <2>. QED BY <1>0, <2>1, OrderKept
<1>4. CASE Exit \/ Crash
  <2>1. pm' = "down" /\ changes' = changes
    BY <1>4 DEF Exit, Crash, Forget
  <2>2. entries' = {} /\ buffered' = {} /\ walFile' \subseteq Frames
    BY <1>4 DEF Exit, WalForget, Crash, WalCrash, Reached, UpTo, Frames
  <2>3. Frames' \subseteq Frames
    BY <2>2 DEF Frames
  <2>. QED BY <2>1, <2>3, OrderDown
<1>5. CASE CutLog \/ RewriteLog \/ TruncateLogFails \/ TruncateRefused \/ CloseLog
  <2>1. /\ pm' # "down" => pm # "down"
        /\ changes' = changes /\ nextSequence' = nextSequence
    BY <1>5 DEF CutLog, TruncateCut, RewriteLog, TruncateRewrite, TruncateLogFails, TruncateFails,
                RewriteFaults, TruncateRefused, SnapshotDone, SnapshotReturns, CloseLog, WalClose,
                walVars, hostVars
  <2>2. entries' \subseteq Frames /\ buffered' \subseteq Frames /\ walFile' \subseteq Frames
    BY <1>5 DEF CutLog, TruncateCut, RewriteLog, TruncateRewrite, TruncateLogFails, TruncateFails,
                RewriteFaults, TruncateRefused, CloseLog, WalClose, Reached, UpTo, walVars, Frames
  <2>3. Frames' \subseteq Frames
    BY <2>2 DEF Frames
  <2>. QED BY <1>0, <2>1, <2>3, OrderKept
<1>6. CASE Collect \/ Stamp \/ CreateFile \/ WriteFile \/ SaveFails \/ SaveRefused
           \/ Stop \/ FinalCollect \/ CloseSnapshots \/ UNCHANGED vars
  <2>1. UNCHANGED <<walVars, hostVars>> /\ (pm' # "down" => pm # "down")
    BY <1>6 DEF Collect, Stamp, CreateFile, WriteFile, SaveFails, SaveRefused, SnapshotReturns,
                Stop, FinalCollect, CloseSnapshots, vars
  <2>. QED BY <1>0, <2>1, OrderKept DEF walVars, hostVars, Frames
<1>. QED BY <1>1, <1>2, <1>3, <1>4, <1>5, <1>6 DEF Next, Step, SnapshotStep, StopStep

\* "Monotonically increasing" (WalEntry::sequence) holds of the code without
\* any condition: with either setting of syncOnWrite, under every hazard, the
\* numbers of a live log are unique, ordered as the changes and below the
\* next one, across every rebuild, truncation, crash and disk fault.
THEOREM SequencesStayUnique == Spec => []SequencesUnique
<1>1. FramesOrdered => SequencesUnique
  BY DEF FramesOrdered, Frames, SequencesUnique
<1>2. TypeInv /\ TypeInv' /\ FramesOrdered /\ [Next]_vars => FramesOrdered'
  BY OrderNext
<1>. QED BY <1>1, <1>2, OrderInit, TypeInit, TypeNext, PTL DEF Spec

-----------------------------------------------------------------------------

\* The environment of the recovery theorems has at most one hazard, a crash
\* while the log is rewritten.  What every step of it starts from, and what is
\* known of its end.
StepContext ==
  /\ Hazards \subseteq {"crash_in_truncate"} /\ syncOnWrite' = syncOnWrite
  /\ TypeInv /\ TypeInv' /\ FramesOrdered /\ FramesOrdered' /\ IInv

\* Recovery gives back a change that is kept: the frame of a player with the
\* highest number has the highest value too.
LEMMA KeptRecovery ==
  ASSUME NEW base \in PlayerState, NEW frames \in SUBSET Frame, Above(base, frames),
         \A f, g \in frames : f.seq <= g.seq => f.value <= g.value,
         NEW c \in Change, NEW v \in Nat, Rebuilds(base, frames, c.player, v),
         Kept(c, base, frames)
  PROVE  c.value <= v
<1>1. CASE \E f \in frames : /\ f.player = c.player /\ f.value = v
                             /\ \A g \in frames : g.player = c.player => g.seq <= f.seq
  <2> PICK f \in frames : /\ f.player = c.player /\ f.value = v
                         /\ \A g \in frames : g.player = c.player => g.seq <= f.seq
    BY <1>1
  <2>1. CASE c.value <= base[c.player]
    BY <2>1 DEF Above, Change, PlayerState, Frame
  <2>2. CASE \E g \in frames : g.player = c.player /\ g.value = c.value
    BY <2>2
  <2>. QED BY <2>1, <2>2 DEF Kept
<1>2. CASE (\A f \in frames : f.player # c.player) /\ v = base[c.player]
  BY <1>2 DEF Kept
<1>. QED BY <1>1, <1>2 DEF Rebuilds

\* Recovery invents nothing: it is below every change newer than its sources.
LEMMA NewestIsLost ==
  ASSUME NEW base, NEW frames, NEW c, Newest(c, base, frames),
         NEW p \in Players, NEW v, Rebuilds(base, frames, p, v)
  PROVE  v < c.value
BY DEF Newest, Rebuilds

\* A change that is logged as a frame of its own, newer than base, is held.
LEMMA HoldsAppend ==
  ASSUME NEW h, NEW base, NEW frames, Holds(h, base, frames),
         NEW c, NEW n, n.player = c.player, n.value = c.value,
         \A p \in Players : base[p] < n.value
  PROVE  Holds(h \cup {c}, base, frames \cup {n})
BY DEF Holds, Above, Kept

\* A world that has every change needs no frames, whatever comes later.
LEMMA WorldSuffices ==
  ASSUME NEW h, NEW w, NEW frames, frames = {}, \A c \in h : c.value <= w[c.player]
  PROVE  Holds(h, w, frames)
BY DEF Holds, Above, Kept

\* When only the latest frames go missing, a change that was held is still
\* kept or is newer than all that is left.
LEMMA HoldsPrefix ==
  ASSUME NEW h \in SUBSET Change, NEW base, NEW frames, NEW left, Holds(h, base, frames),
         left \subseteq frames,
         \A f \in frames \ left, g \in left : g.value < f.value
  PROVE  /\ Above(base, left)
         /\ \A c \in h : Kept(c, base, left) \/ (Newest(c, base, left) /\ frames # left)
<1>1. Above(base, left)
  BY DEF Holds, Above
<1>2. ASSUME NEW c \in h, ~Kept(c, base, left)
      PROVE  Newest(c, base, left) /\ frames # left
  <2> PICK f \in frames : f.player = c.player /\ f.value = c.value
    BY <1>2 DEF Holds, Kept
  <2>1. f \notin left
    BY <1>2 DEF Kept
  <2>. QED BY <2>1 DEF Holds, Above, Newest
<1>. QED BY <1>1, <1>2

\* After the data of save() is written, its file is what loadLatest() finds,
\* pruning or not.
LEMMA SavedIsLatest ==
  ASSUME SnapTypeOK, snapFiles # <<>>, SaveWrite
  PROVE  /\ LoadLatest'.seq = snapFiles[Len(snapFiles)].seq
         /\ LoadLatest'.players = snapFiles[Len(snapFiles)].players
<1> DEFINE last == Len(snapFiles)
           done == [seq |-> snapFiles[last].seq, players |-> snapFiles[last].players,
                    complete |-> TRUE]
           files == [snapFiles EXCEPT ![last] = done]
<1>1. last \in 1..Len(snapFiles) /\ snapFiles[last] \in Snapshot
  BY DEF SnapTypeOK
<1>2. done \in Snapshot
  BY <1>1 DEF Snapshot
<1>3. snapFiles' = PruneOldSnapshots(files)
  BY DEF SaveWrite
<1>4. done.complete = TRUE /\ done.seq = snapFiles[last].seq
      /\ done.players = snapFiles[last].players
  OBVIOUS
<1> HIDE DEF done
<1>5. files \in Seq(Snapshot) /\ Len(files) = last /\ files[last] = done
  BY <1>1, <1>2 DEF SnapTypeOK
<1> HIDE DEF files
<1>6. /\ PruneOldSnapshots(files) # <<>>
      /\ PruneOldSnapshots(files)[Len(PruneOldSnapshots(files))] = done
  <2>1. CASE last > MaxRetained
    <3> DEFINE m == last - MaxRetained + 1
    <3>1. m \in 1..last /\ last - m + 1 = MaxRetained
      BY <1>1, <2>1, RetainedAssumption
    <3>2. PruneOldSnapshots(files) = SubSeq(files, m, last)
      BY <1>5, <2>1 DEF PruneOldSnapshots
    <3>3. Len(SubSeq(files, m, last)) = MaxRetained
      BY <1>1, <1>5, <3>1, RetainedAssumption
    <3>4. SubSeq(files, m, last)[MaxRetained] = files[m + MaxRetained - 1]
      BY <1>1, <1>5, <3>1, RetainedAssumption
    <3>5. m + MaxRetained - 1 = last
      BY <1>1, RetainedAssumption
    <3> HIDE DEF m
    <3>6. SubSeq(files, m, last) # <<>>
      BY <3>3, RetainedAssumption
    <3>. QED BY <1>5, <3>2, <3>3, <3>4, <3>5, <3>6
  <2>2. CASE ~(last > MaxRetained)
    BY <1>1, <1>5, <2>2 DEF PruneOldSnapshots
  <2>. QED BY <2>1, <2>2
<1>7. LoadLatest' = done
  BY <1>3, <1>4, <1>6 DEF LoadLatest
<1>. QED BY <1>4, <1>7

\* A new object satisfies the invariant.
LEMMA InvInit == Init => IInv
<1> SUFFICES ASSUME Init PROVE IInv
  OBVIOUS
<1>1. LoadLatest = NoSnapshot
  BY DEF Init, SnapInit, LoadLatest
<1>2. \A p \in Players : NoSnapshot.players[p] = 0 /\ world[p] = 0 /\ snap.players[p] = 0
  BY DEF Init, NoSnapshot, EmptyWorld
<1>3. LogShape
  <2>1. writerOk = TRUE /\ walTorn = FALSE
    BY Zenon DEF Init, WalInit
  <2>. QED BY <2>1 DEF Init, WalInit, LogShape
<1>5. WorldHolds
  BY <1>2 DEF Init, WorldHolds
<1>6. DiskHolds
  BY <1>1, <1>2 DEF Init, WalInit, DiskHolds, Above, Replayed
<1>7. SnapHolds
  BY <1>2 DEF Init, SnapHolds
<1>8. ManagerOK
  BY DEF Init, WalInit, ManagerOK
<1>. QED BY <1>3, <1>5, <1>6, <1>7, <1>8 DEF Init, IInv, LosesNothing

\* start() splits the acknowledged changes: what recovery gives back was kept
\* on disk, what it does not is newer than everything it gives back.
LEMMA StartSplits ==
  ASSUME StepContext, Start
  PROVE  /\ \A c \in history' : Kept(c, LoadLatest.players, Replayed(walFile, LoadLatest.seq))
         /\ \A c \in history \ history' : /\ ~Lossless
                                          /\ \A p \in Players : world'[p] < c.value
<1> USE DEF StepContext, TypeInv, TypeOK, IInv
<1> DEFINE base == LoadLatest.players
           frames == Replayed(walFile, LoadLatest.seq)
<1>1. base \in PlayerState
  BY LoadLatestType DEF Snapshot
<1>2. frames \in SUBSET Frame /\ frames \subseteq Frames
  BY DEF Replayed, WalTypeOK, Frames
<1>3. /\ Above(base, frames)
      /\ \A c \in history : Kept(c, base, frames) \/ (~Lossless /\ Newest(c, base, frames))
  BY DEF Start, DiskHolds
<1>4. \A f, g \in frames : f.seq <= g.seq => f.value <= g.value
  BY <1>2 DEF FramesOrdered
<1>5. \A p \in Players : Rebuilds(base, frames, p, world'[p]) /\ world'[p] \in Nat
  BY DEF Start, Recovered, Recovers, PlayerState
<1>6. history' = {c \in history : c.value <= world'[c.player]}
  BY DEF Start
<1> HIDE DEF base, frames
<1>7. \A c \in history : c \in Change /\ c.player \in Players /\ c.value \in Nat
  BY DEF Change
<1>8. ASSUME NEW c \in history, Kept(c, base, frames) PROVE c \in history'
  <2>1. c.value <= world'[c.player]
    BY <1>1, <1>2, <1>3, <1>4, <1>5, <1>7, <1>8, KeptRecovery
  <2>. QED BY <1>6, <2>1
<1>9. ASSUME NEW c \in history, Newest(c, base, frames)
      PROVE  c \notin history' /\ \A p \in Players : world'[p] < c.value
  <2>1. \A p \in Players : world'[p] < c.value
    BY <1>5, <1>9, NewestIsLost
  <2>. QED BY <1>5, <1>6, <1>7, <2>1
<1>10. history' \subseteq history
  BY <1>6
<1>11. \A c \in history' : Kept(c, base, frames)
  BY <1>3, <1>9, <1>10
<1>12. \A c \in history \ history' : ~Lossless /\ Newest(c, base, frames)
  BY <1>3, <1>8
<1>. QED BY <1>9, <1>11, <1>12 DEF base, frames

\* start(): the lifetime is marked behind exactly when the rebuilt numbering
\* is not above the loaded snapshot's.
LEMMA InvStart == ASSUME StepContext, Start PROVE IInv'
<1> USE DEF StepContext, TypeInv, TypeOK, IInv
<1>0. LoadLatest \in Snapshot /\ LoadLatest' = LoadLatest
  BY LoadLatestType DEF Start, LoadLatest
<1>1. /\ pm = "down" /\ phase = "idle" /\ phase' = "idle" /\ pm' = "running" /\ changes' = changes
      /\ history' = {c \in history : c.value <= world'[c.player]}
      /\ lost' = lost \cup {c \in history : c.value > world'[c.player]}
  BY DEF Start, ManagerOK
<1>2. \A c \in history : c.player \in Players /\ c.value \in Nat /\ world'[c.player] \in Nat
  BY DEF Change, PlayerState
<1>3. LosesNothing'
  <2>1. lost' = lost \cup (history \ history')
    BY <1>1, <1>2
  <2>2. Lossless => history \ history' = {}
    BY StartSplits
  <2>. QED BY <2>1, <2>2 DEF LosesNothing, Lossless
<1>4. entries' = walFile /\ walFile' = walFile /\ buffered' = {}
  BY DEF Start, WalOpen, RebuildIndex
<1>5. LogShape'
  <2>1. writerOk' = TRUE /\ walTorn' = walTorn
    BY Zenon DEF Start, WalOpen
  <2>. QED BY <1>1, <1>4, <2>1 DEF LogShape, Lossless
<1>6. WorldHolds'
  <2>1. \A p \in Players : world'[p] <= changes
    <3> SUFFICES ASSUME NEW p \in Players PROVE world'[p] <= changes
      OBVIOUS
    <3>1. Rebuilds(LoadLatest.players, Replayed(walFile, LoadLatest.seq), p, world'[p])
      BY DEF Start, Recovered, Recovers
    <3>. QED BY <3>1 DEF Rebuilds, Replayed, FramesOrdered, Frames, DiskHolds
  <2>. QED BY <1>1, <2>1 DEF WorldHolds
<1>7. DiskHolds'
  <2>1. ~behind' => LoadLatest.seq < nextSequence'
    <3>1. ~behind' => ~(nextSequence' <= LoadLatest.seq)
      BY Zenon DEF Start
    <3>. QED BY <1>0, <3>1 DEF WalTypeOK, Snapshot
  <2>2. Holds(history', LoadLatest.players, Replayed(walFile, LoadLatest.seq))
    BY <1>1, StartSplits DEF DiskHolds, Holds
  <2>. QED BY <1>0, <1>1, <1>4, <2>1, <2>2 DEF DiskHolds
<1>8. SnapHolds'
  BY <1>1 DEF SnapHolds, Start
<1>9. ManagerOK'
  BY <1>1 DEF ManagerOK
<1>. QED BY <1>3, <1>5, <1>6, <1>7, <1>8, <1>9

\* recordChange(): the new frame is above the snapshot on disk and above the
\* one being taken, so that recovery will replay it once it is on disk.
LEMMA InvRecord == ASSUME StepContext, NEW p \in Players, RecordChange(p) PROVE IInv'
<1> USE DEF StepContext, TypeInv, TypeOK, IInv
<1> DEFINE n == NewFrame(p, changes + 1)
           c == [player |-> p, value |-> changes + 1]
<1>0. LoadLatest \in Snapshot /\ LoadLatest' = LoadLatest
  BY LoadLatestType DEF RecordChange, managerUnchanged, LoadLatest
<1>1. /\ pm # "down" /\ pm' = pm /\ phase \notin {"cut", "collected"} /\ phase' = phase
      /\ snap' = snap /\ snapFiles' = snapFiles /\ behind' = behind /\ lost' = lost
      /\ changes' = changes + 1 /\ history' = history \cup {c}
      /\ world' = [world EXCEPT ![p] = changes + 1]
  BY DEF RecordChange, CanRecord, LogOpen, managerUnchanged, ghostVars, Acknowledge
<1>2. /\ n \in Frame /\ n.seq = nextSequence /\ n.player = p /\ n.value = changes + 1
      /\ c \in Change /\ c.player = p /\ c.value = changes + 1
  BY DEF NewFrame, Frame, WalTypeOK, Change
<1>3. /\ nextSequence' = nextSequence + 1 /\ entries' = entries \cup {n}
      /\ walTorn' = walTorn /\ writerOk' = writerOk
  BY DEF RecordChange, WalAppend
<1>4. /\ walFile' \in {walFile, walFile \cup {n}} /\ buffered' \in {buffered, buffered \cup {n}}
      /\ walTorn = FALSE => walFile' \cup buffered' = walFile \cup buffered \cup {n}
      /\ walTorn # FALSE => walFile' = walFile
      /\ syncOnWrite => buffered' = buffered
      /\ walFile' # walFile => syncOnWrite /\ walTorn = FALSE
  <2>1. CASE syncOnWrite
    BY <2>1 DEF RecordChange, WalAppend, Reached, WalTypeOK
  <2>2. CASE ~syncOnWrite
    BY <2>2 DEF RecordChange, WalAppend
  <2>. QED BY <2>1, <2>2
<1> HIDE DEF n, c
<1>5. LogShape'
  <2>1. \A f \in entries : f.seq < n.seq
    BY <1>1, <1>2 DEF FramesOrdered, Frames
  <2>2. walFile' \cup buffered' \subseteq entries' /\ walFile \subseteq entries
    BY <1>1, <1>3, <1>4 DEF LogShape
  <2>3. walTorn = FALSE => entries' = walFile' \cup buffered'
    BY <1>1, <1>3, <1>4 DEF LogShape
  <2>4. \A f \in walFile', g \in entries' \ walFile' : f.seq < g.seq
    <3>1. CASE walFile' = walFile
      BY <1>1, <1>3, <2>1, <2>2, <3>1 DEF LogShape
    <3>2. CASE walFile' # walFile
      BY <1>1, <1>3, <1>4, <2>2, <2>3, <3>2 DEF LogShape
    <3>. QED BY <3>1, <3>2
  <2>. QED BY <1>1, <1>3, <1>4, <2>2, <2>3, <2>4 DEF LogShape, Lossless
<1>7. WorldHolds'
  BY <1>1, <1>2 DEF WorldHolds, PlayerState, Change
<1>8. ASSUME NEW base \in PlayerState, NEW q \in Nat, q < nextSequence,
             \A r \in Players : base[r] <= changes,
             Holds(history, base, Replayed(entries, q))
      PROVE  Holds(history', base, Replayed(entries', q))
  <2>1. Replayed(entries', q) = Replayed(entries, q) \cup {n}
    BY <1>2, <1>3, <1>8 DEF Replayed
  <2>2. \A r \in Players : base[r] < n.value
    BY <1>2, <1>8 DEF PlayerState
  <2>3. n.player = c.player /\ n.value = c.value
    BY <1>2
  <2>4. Holds(history \cup {c}, base, Replayed(entries, q) \cup {n})
    BY <1>8, <2>2, <2>3, HoldsAppend
  <2>. QED BY <1>1, <2>1, <2>4
<1>9. DiskHolds'
  <2>1. LoadLatest.players \in PlayerState /\ LoadLatest.seq \in Nat
    BY <1>0 DEF Snapshot
  <2>2. ~behind /\ phase # "created" => Holds(history', LoadLatest.players,
                                              Replayed(entries', LoadLatest.seq))
    BY <1>1, <1>8, <2>1 DEF DiskHolds
  <2>. QED BY <1>0, <1>1, <1>3, <2>1, <2>2 DEF DiskHolds, PlayerState, WalTypeOK
<1>10. SnapHolds'
  <2>1. snap.players \in PlayerState /\ snap.seq \in Nat
    BY DEF Snapshot
  <2>2. phase \in {"stamped", "created", "saved", "cut"} =>
          Holds(history', snap.players, Replayed(entries', snap.seq))
    BY <1>8, <2>1 DEF SnapHolds
  <2>. QED BY <1>0, <1>1, <1>3, <2>1, <2>2 DEF SnapHolds, PlayerState, WalTypeOK
<1>11. ManagerOK'
  BY <1>1 DEF ManagerOK
<1>. QED BY <1>1, <1>5, <1>7, <1>9, <1>10, <1>11 DEF LosesNothing, Lossless

\* The steps of doSnapshot(), from the collector to the saved file.
LEMMA InvSave ==
  ASSUME StepContext, Collect \/ FinalCollect \/ Stamp \/ CreateFile \/ WriteFile
  PROVE  IInv'
<1> USE DEF StepContext, TypeInv, TypeOK, IInv
<1>0. LoadLatest \in Snapshot
  BY LoadLatestType
<1>1. UNCHANGED <<nextSequence, entries, walFile, walTorn, buffered, writerOk, world, changes,
                  history, behind, lost>>
  BY DEF Collect, FinalCollect, Stamp, CreateFile, WriteFile, walVars, hostVars, ghostVars
<1>2. /\ pm # "down" /\ pm' # "down" /\ phase # "cut" /\ phase' \notin {"cut", "idle"}
      /\ pm' = pm \/ pm' = "final"
  BY DEF Collect, FinalCollect, Stamp, CreateFile, WriteFile, ManagerOK
<1>3. LogShape'
  BY <1>1, <1>2 DEF LogShape, Lossless
<1>4. WorldHolds' /\ ManagerOK' /\ LosesNothing'
  BY <1>1, <1>2 DEF WorldHolds, ManagerOK, LosesNothing, Lossless
<1>5. CASE Collect \/ FinalCollect
  <2>1. /\ phase = "idle" /\ phase' = "collected" /\ snapFiles' = snapFiles
        /\ snap'.players = world
    BY <1>5 DEF Collect, FinalCollect
  <2>2. DiskHolds'
    BY <1>1, <1>2, <2>1 DEF DiskHolds, LoadLatest
  <2>3. SnapHolds'
    BY <1>1, <2>1 DEF SnapHolds, WorldHolds
  <2>. QED BY <1>3, <1>4, <2>2, <2>3
<1>6. CASE Stamp
  <2>1. /\ phase = "collected" /\ phase' = "stamped" /\ snapFiles' = snapFiles
        /\ snap'.players = snap.players /\ snap'.seq = nextSequence - 1
    BY <1>6 DEF Stamp
  <2>2. DiskHolds'
    BY <1>1, <1>2, <2>1 DEF DiskHolds, LoadLatest
  <2>3. Replayed(entries, nextSequence - 1) = {}
    BY <1>2 DEF Replayed, FramesOrdered, Frames, WalTypeOK, Frame
  <2>4. Holds(history, snap.players, Replayed(entries, nextSequence - 1))
    BY <1>2, <2>1, <2>3, WorldSuffices DEF SnapHolds, WorldHolds
  <2>5. SnapHolds'
    BY <1>1, <2>1, <2>4 DEF SnapHolds, WalTypeOK
  <2>. QED BY <1>3, <1>4, <2>2, <2>5
<1>7. CASE CreateFile
  <2>1. phase = "stamped" /\ phase' = "created" /\ snap' = snap
    BY <1>7 DEF CreateFile
  <2>2. /\ snapFiles' # <<>>
        /\ snapFiles'[Len(snapFiles')] = [seq |-> snap.seq, players |-> snap.players,
                                          complete |-> FALSE]
    BY <1>7 DEF CreateFile, SaveCreate, SnapTypeOK
  <2>3. LoadLatest' = NoSnapshot
    BY <2>2 DEF LoadLatest
  <2>4. DiskHolds'
    BY <1>1, <1>2, <2>1, <2>3 DEF DiskHolds, NoSnapshot, EmptyWorld
  <2>5. SnapHolds'
    BY <1>1, <2>1, <2>2 DEF SnapHolds
  <2>. QED BY <1>3, <1>4, <2>4, <2>5
<1>8. CASE WriteFile
  <2>1. phase = "created" /\ phase' = "saved" /\ snap' = snap /\ SaveWrite
    BY <1>8 DEF WriteFile
  <2>2. LoadLatest'.seq = snap.seq /\ LoadLatest'.players = snap.players
    BY <2>1, SavedIsLatest DEF SnapHolds
  <2>4. DiskHolds'
    BY <1>1, <1>2, <2>1, <2>2 DEF DiskHolds, SnapHolds
  <2>5. SnapHolds'
    BY <1>1, <2>1, <2>2 DEF SnapHolds
  <2>. QED BY <1>3, <1>4, <2>4, <2>5
<1>. QED BY <1>5, <1>6, <1>7, <1>8

\* truncateBefore() drops only what the saved snapshot holds.
LEMMA InvTruncate == ASSUME StepContext, CutLog \/ RewriteLog PROVE IInv'
<1> USE DEF StepContext, TypeInv, TypeOK, IInv
<1>0. LoadLatest \in Snapshot /\ LoadLatest' = LoadLatest
  BY LoadLatestType DEF CutLog, RewriteLog, SnapshotDone, LoadLatest
<1>1. UNCHANGED <<nextSequence, snap, snapFiles, world, changes, history, lost>>
  BY DEF CutLog, TruncateCut, RewriteLog, TruncateRewrite, SnapshotDone, hostVars, ghostVars
<1>2. pm # "down" /\ pm' # "down" /\ (CutLog => pm' = pm)
  BY DEF CutLog, RewriteLog, SnapshotDone, SnapshotReturns, ManagerOK
<1>3. WorldHolds' /\ LosesNothing'
  BY <1>1, <1>2 DEF WorldHolds, LosesNothing, Lossless
<1>4. CASE CutLog
  <2>1. /\ phase = "saved" /\ phase' = "cut" /\ walFile' = {} /\ buffered' = {}
        /\ behind' = behind /\ entries' = {f \in entries : f.seq > snap.seq}
    BY <1>4 DEF CutLog, TruncateCut, ghostVars
  <2>2. LogShape'
    <3>1. writerOk' = TRUE /\ walTorn' = FALSE
      BY <1>4, Zenon DEF LogShape, CutLog, TruncateCut
    <3>. QED BY <1>2, <2>1, <3>1 DEF LogShape
  <2>3. Replayed(entries', snap.seq) = Replayed(entries, snap.seq)
    BY <2>1 DEF Replayed
  <2>4. SnapHolds'
    BY <1>0, <1>1, <2>1, <2>3 DEF SnapHolds
  <2>5. DiskHolds' /\ ManagerOK'
    BY <1>0, <1>1, <1>2, <1>4, <2>1 DEF DiskHolds, ManagerOK
  <2>. QED BY <1>3, <2>2, <2>4, <2>5
<1>5. CASE RewriteLog
  <2>1. /\ phase = "cut" /\ phase' = "idle" /\ walFile' = entries /\ entries' = entries
        /\ buffered' = {} /\ behind' = FALSE
    BY <1>5 DEF RewriteLog, TruncateRewrite, SnapshotDone, SnapshotReturns, LogShape
  <2>2. LogShape'
    <3>1. writerOk' = TRUE /\ walTorn' = FALSE
      BY <1>5, <2>1, Zenon DEF LogShape, RewriteLog, TruncateRewrite
    <3>. QED BY <2>1, <3>1 DEF LogShape
  <2>3. SnapHolds'
    BY <1>1, <2>1 DEF SnapHolds
  <2>5. DiskHolds' /\ ManagerOK'
    BY <1>0, <1>1, <1>2, <2>1 DEF DiskHolds, SnapHolds, ManagerOK
  <2>. QED BY <1>3, <2>2, <2>3, <2>5
<1>. QED BY <1>4, <1>5

\* A caller that comes too late changes no store, or leaves a snapshot that
\* holds everything and a log nobody cuts any more.
LEMMA InvRefused == ASSUME StepContext, SaveRefused \/ TruncateRefused PROVE IInv'
<1> USE DEF StepContext, TypeInv, TypeOK, IInv
<1>1. /\ UNCHANGED <<nextSequence, entries, walFile, walTorn, buffered, writerOk, snap, snapFiles,
                     world, changes, history, lost>>
      /\ phase \in {"stamped", "saved"} /\ phase' = "idle" /\ LoadLatest' = LoadLatest
      /\ behind' = behind \/ (behind' = FALSE /\ phase = "saved")
  BY DEF SaveRefused, TruncateRefused, SnapshotDone, SnapshotReturns, LoadLatest, walVars, hostVars,
         ghostVars
<1>2. pm # "down" /\ pm' # "down" /\ pm' = pm
  BY DEF SaveRefused, TruncateRefused, SnapshotDone, SnapshotReturns, LogOpen, ManagerOK
<1>3. LogShape' /\ WorldHolds' /\ ManagerOK' /\ LosesNothing'
  BY <1>1, <1>2 DEF LogShape, WorldHolds, ManagerOK, LosesNothing, Lossless
<1>4. DiskHolds'
  BY <1>1, <1>2 DEF DiskHolds, SnapHolds
<1>5. SnapHolds'
  BY <1>1 DEF SnapHolds
<1>. QED BY <1>3, <1>4, <1>5

\* Closing the stores drops nothing: what the stream had buffered is in the
\* file, or behind a frame that hides it, as it would have been there.
LEMMA InvClose == ASSUME StepContext, CloseLog \/ CloseSnapshots PROVE IInv'
<1> USE DEF StepContext, TypeInv, TypeOK, IInv
<1>1. /\ UNCHANGED <<nextSequence, entries, walTorn, writerOk, snap, snapFiles, phase,
                     world, changes, history, lost, behind>>
      /\ pm \in {"closing", "logClosed"} /\ pm' \in {"logClosed", "closed"}
      /\ LoadLatest' = LoadLatest
  BY DEF CloseLog, WalClose, CloseSnapshots, LoadLatest, walVars, hostVars, ghostVars
<1>2. LogShape'
  <2>1. CASE CloseLog
    <3>1. walFile' = Reached(buffered) /\ buffered' = {} /\ phase # "cut"
      BY <2>1 DEF CloseLog, WalClose
    <3>2. CASE walTorn = FALSE
      BY <1>1, <3>1, <3>2 DEF Reached, LogShape, Lossless
    <3>3. CASE walTorn # FALSE
      BY <1>1, <3>1, <3>3 DEF Reached, LogShape, Lossless, WalTypeOK
    <3>. QED BY <3>2, <3>3
  <2>2. CASE CloseSnapshots
    <3>1. UNCHANGED <<walFile, buffered>>
      BY <2>2 DEF CloseSnapshots, walVars
    <3>. QED BY <1>1, <3>1 DEF LogShape, Lossless
  <2>. QED BY <2>1, <2>2
<1>3. WorldHolds' /\ ManagerOK' /\ LosesNothing'
  BY <1>1 DEF WorldHolds, ManagerOK, LosesNothing, Lossless
<1>4. DiskHolds' /\ SnapHolds'
  BY <1>1 DEF DiskHolds, SnapHolds
<1>. QED BY <1>2, <1>3, <1>4

\* The end of a process, by exit or by crash, leaves on disk a front part of
\* the log: whatever is gone has a higher number.
LEMMA DownKeepsPrefix ==
  ASSUME StepContext, Exit \/ Crash
  PROVE  /\ walFile' \subseteq entries
         /\ \A f \in entries \ walFile', g \in walFile' : g.seq < f.seq
         /\ Lossless => walFile' = entries /\ walTorn' = FALSE
<1> USE DEF StepContext, TypeInv, TypeOK, IInv
<1>0. \A f \in buffered \cup entries : f.seq \in Nat
  BY DEF WalTypeOK, Frame
<1>1. CASE Exit
  <2>1. walFile' = walFile /\ walTorn' = walTorn /\ pm # "down" /\ phase # "cut"
    BY <1>1 DEF Exit
  <2>. QED BY <2>1 DEF LogShape, Lossless
<1>2. CASE Crash
  <2> DEFINE pending == IF phase = "cut" THEN entries ELSE buffered
  <2>1. WalCrash(phase = "cut") /\ pm # "down" /\ (phase = "cut" => ~Lossless)
    BY <1>2, Zenon DEF Crash, Lossless
  <2> PICK n \in {0} \cup {f.seq : f \in buffered \cup entries} :
             /\ walFile' = Reached(UpTo(pending, n))
             /\ walTorn' \in IF UpTo(pending, n) = pending THEN {walTorn} ELSE {walTorn, TRUE}
    BY <2>1, Zenon DEF WalCrash
  <2>2. n \in Nat
    BY <1>0
  <2>3. \A f \in pending \ UpTo(pending, n), g \in UpTo(pending, n) : g.seq < f.seq
    BY <1>0, <2>2 DEF UpTo
  <2>4. UpTo(pending, n) \subseteq pending
    BY DEF UpTo
  <2>5. CASE phase = "cut"
    BY <2>1, <2>3, <2>4, <2>5 DEF Reached, LogShape
  <2>6. CASE phase # "cut"
    <3>1. pending = buffered
      BY <2>6
    <3>2. walTorn = FALSE => walFile' = walFile \cup UpTo(buffered, n)
      BY <3>1 DEF Reached
    <3>3. walTorn # FALSE => walFile' = walFile
      BY DEF Reached, WalTypeOK
    <3>4. Lossless => walTorn' = FALSE /\ walFile' = entries
      <4> SUFFICES ASSUME Lossless PROVE walTorn' = FALSE /\ walFile' = entries
        OBVIOUS
      <4>1. buffered = {} /\ walTorn = FALSE /\ entries = walFile
        BY <2>1, <2>6 DEF LogShape, Lossless
      <4>2. UpTo(buffered, n) = buffered
        BY <4>1 DEF UpTo
      <4>3. walTorn' = FALSE
        BY <3>1, <4>1, <4>2, Zenon
      <4>. QED BY <3>2, <4>1, <4>2, <4>3
    <3>. QED BY <2>1, <2>3, <2>4, <2>6, <3>1, <3>2, <3>3, <3>4 DEF LogShape
  <2>. QED BY <2>5, <2>6
<1>. QED BY <1>1, <1>2

\* The disk holds all but the latest changes then, or simply all.
LEMMA InvDown == ASSUME StepContext, Exit \/ Crash PROVE IInv'
<1> USE DEF StepContext, TypeInv, TypeOK, IInv
<1>0. LoadLatest \in Snapshot /\ LoadLatest' = LoadLatest
  BY LoadLatestType DEF Exit, Crash, Forget, LoadLatest
<1>1. /\ pm # "down" /\ phase # "created" /\ ~behind
      /\ pm' = "down" /\ phase' = "idle" /\ snap' = NoSnapshot /\ world' = EmptyWorld
      /\ UNCHANGED <<snapFiles, changes, history, lost>>
  BY DEF Exit, Crash, Forget, ManagerOK
<1>2. entries' = {} /\ buffered' = {} /\ writerOk' = TRUE
  BY Zenon DEF Exit, WalForget, Crash, WalCrash
<1>3. LogShape'
  BY <1>1, <1>2, DownKeepsPrefix DEF LogShape, Lossless
<1>4. WorldHolds' /\ LosesNothing'
  BY <1>1 DEF WorldHolds, EmptyWorld, LosesNothing, Lossless
<1>5. DiskHolds'
  <2> DEFINE base == LoadLatest.players
             frames == Replayed(entries, LoadLatest.seq)
             left == Replayed(walFile', LoadLatest.seq)
  <2>1. Holds(history, base, frames)
    <3>1. CASE phase = "cut"
      BY <3>1 DEF SnapHolds
    <3>2. CASE phase # "cut"
      BY <1>1, <3>2 DEF DiskHolds
    <3>. QED BY <3>1, <3>2
  <2>2. left \subseteq frames
    BY DownKeepsPrefix DEF Replayed
  <2>3. \A f \in frames \ left, g \in left : g.value < f.value
    <3> SUFFICES ASSUME NEW f \in frames \ left, NEW g \in left PROVE g.value < f.value
      OBVIOUS
    <3>1. f \in entries \ walFile' /\ g \in walFile'
      BY DEF Replayed
    <3>2. g.seq < f.seq
      BY <3>1, DownKeepsPrefix
    <3>3. f \in Frames /\ g \in Frames
      BY <3>1, DownKeepsPrefix DEF Frames
    <3>. QED BY <3>2, <3>3 DEF FramesOrdered
  <2>4. Lossless => frames = left
    BY DownKeepsPrefix
  <2>5. history \in SUBSET Change
    OBVIOUS
  <2> HIDE DEF base, frames, left
  <2>6. /\ Above(base, left)
        /\ \A c \in history : Kept(c, base, left) \/ (Newest(c, base, left) /\ frames # left)
    BY <2>1, <2>2, <2>3, <2>5, HoldsPrefix
  <2>7. Lossless' = Lossless
    BY DEF Lossless
  <2>. QED BY <1>0, <1>1, <2>4, <2>6, <2>7 DEF DiskHolds, base, left
<1>6. SnapHolds'
  BY <1>1 DEF SnapHolds, NoSnapshot, EmptyWorld
<1>7. ManagerOK'
  BY <1>1, <1>2 DEF ManagerOK
<1>. QED BY <1>3, <1>4, <1>5, <1>6, <1>7

\* Every operation preserves it.
LEMMA InvNext == ASSUME StepContext, [Next]_vars PROVE IInv'
<1> USE DEF StepContext
<1>1. CASE Stop \/ UNCHANGED vars
  <2>1. /\ (pm' = "down") = (pm = "down") /\ (pm' = "stopping" \/ pm' = pm)
        /\ UNCHANGED <<walVars, snapFiles, phase, snap, hostVars, ghostVars, LoadLatest>>
    BY <1>1 DEF Stop, vars, LoadLatest
  <2>2. LogShape' /\ WorldHolds' /\ ManagerOK' /\ LosesNothing'
    BY <2>1 DEF IInv, LogShape, WorldHolds, ManagerOK, LosesNothing, Lossless, walVars, hostVars, ghostVars
  <2>3. DiskHolds' /\ SnapHolds'
    BY <2>1 DEF IInv, DiskHolds, SnapHolds, Lossless, walVars, hostVars, ghostVars
  <2>. QED BY <2>2, <2>3 DEF IInv
<1>2. ~SaveFails /\ ~TruncateLogFails /\ ~RecordRejected /\ \A p \in Players : ~RecordFaults(p)
  BY DEF SaveFails, TruncateLogFails, RecordFaults, RecordRejected, WalAppendRejected,
         IInv, LogShape
<1>. QED BY <1>1, <1>2, InvStart, InvRecord, InvSave, InvTruncate, InvRefused, InvClose,
            InvDown
         DEF Next, Step, SnapshotStep, StopStep

\* The invariant of recovery, with what it needs of types and order.
RecoveryInv == TypeInv /\ FramesOrdered /\ IInv

\* It holds in every reachable state that no other hazard has touched.
LEMMA RecoveryInvariant ==
  ASSUME Hazards \subseteq {"crash_in_truncate"}
  PROVE  /\ Init => RecoveryInv
         /\ RecoveryInv /\ [Next]_vars => RecoveryInv'
<1>1. Init => RecoveryInv
  BY TypeInit, OrderInit, InvInit DEF RecoveryInv
<1>2. ASSUME RecoveryInv, [Next]_vars PROVE RecoveryInv'
  <2>1. TypeInv' /\ FramesOrdered'
    BY <1>2, TypeNext, OrderNext DEF RecoveryInv
  <2>2. syncOnWrite' = syncOnWrite
    BY <1>2 DEF Next, vars
  <2>3. StepContext
    BY <1>2, <2>1, <2>2 DEF RecoveryInv, StepContext
  <2>. QED BY <1>2, <2>1, <2>3, InvNext DEF RecoveryInv
<1>. QED BY <1>1, <1>2

\* "Zero data loss on crash" (SRS-NFR-013) holds of the code exactly where
\* none of the five hazards occurs: for every set of players, retention and
\* number of changes, snapshots, stops, crashes and restarts, recover()
\* restores every change recordChange() acknowledged.
THEOREM ZeroLoss == ASSUME Hazards = {} PROVE Spec => []ZeroLossOnCrash
<1>1. RecoveryInv => ZeroLossOnCrash
  BY DEF RecoveryInv, IInv, LosesNothing, Lossless, ZeroLossOnCrash
<1>2. Hazards \subseteq {"crash_in_truncate"}
  OBVIOUS
<1>3. /\ Init => RecoveryInv
      /\ RecoveryInv /\ [Next]_vars => RecoveryInv'
  BY <1>2, RecoveryInvariant
<1>. QED BY <1>1, <1>3, PTL DEF Spec

\* With syncOnWrite off, and with either setting when a crash may interrupt
\* truncateBefore() as it rewrites the log, the latest changes may be lost and
\* nothing else: a recovery never restores a change of one player and misses
\* an earlier one of another.
THEOREM LosesOnlyTheLatest ==
  ASSUME Hazards \subseteq {"crash_in_truncate"} PROVE Spec => PrefixRecovery
<1>1. ASSUME RecoveryInv, [Next]_vars, pm = "down", pm' # "down",
             NEW c \in lost' \ lost, NEW d \in history'
      PROVE  d.value < c.value
  <2>0. RecoveryInv'
    BY <1>1, RecoveryInvariant
  <2>1. StepContext
    <3>1. syncOnWrite' = syncOnWrite
      BY <1>1 DEF Next, vars
    <3>. QED BY <1>1, <2>0, <3>1 DEF RecoveryInv, StepContext
  <2>2. Start
    BY <1>1 DEF RecoveryInv, IInv, ManagerOK, Next, Step, SnapshotStep, StopStep, Collect, Stamp,
                CreateFile, WriteFile, SaveFails, SaveRefused, CutLog, RewriteLog, TruncateLogFails,
                TruncateRefused, Stop, FinalCollect, CloseLog, CloseSnapshots, Exit, Crash,
                RecordRejected, RecordChange, RecordFaults, CanRecord, LogOpen, vars
  <2>3. /\ history \subseteq Change /\ world' \in PlayerState
        /\ d \in history /\ d.value <= world'[d.player]
        /\ c \in history /\ ~(c.value <= world'[c.player])
    <3>1. /\ history' = {x \in history : x.value <= world'[x.player]}
          /\ lost' = lost \cup {x \in history : x.value > world'[x.player]}
      BY <2>2 DEF Start
    <3>2. history \subseteq Change /\ world' \in PlayerState
      BY <1>1, <2>0 DEF RecoveryInv, TypeInv, TypeOK
    <3>3. c \in history /\ c.value > world'[c.player]
      BY <1>1, <3>1
    <3>. QED BY <3>1, <3>2, <3>3 DEF Change, PlayerState
  <2>4. c \notin history'
    BY <2>2, <2>3 DEF Start
  <2>5. world'[d.player] < c.value
    BY <2>1, <2>2, <2>3, <2>4, StartSplits DEF Change
  <2>. QED BY <2>3, <2>5 DEF Change, PlayerState
<1>2. RecoveryInv /\ [Next]_vars =>
        [pm = "down" /\ pm' # "down" => \A c \in lost' \ lost, d \in history' : d.value < c.value]_vars
  BY <1>1
<1>. QED BY <1>2, RecoveryInvariant, PTL DEF Spec, PrefixRecovery
=============================================================================
