---------------------------- MODULE WriteAheadLog ----------------------------
(***************************************************************************)
(* The write-ahead log of src/services/runner/write_ahead_log.cpp.         *)
(*                                                                         *)
(* A frame is the triple the log keeps of an entry: its sequence number,   *)
(* the player it is about and the value it sets.  append() numbers and     *)
(* writes a frame under one mutex, so the order of the frames in the index *)
(* and in the file is the order of their sequence numbers: both are sets   *)
(* of frames here.  rebuildIndex() stops at the first partial or           *)
(* mis-summed frame and nobody removes that frame, so whatever is appended *)
(* behind it is never read again: walFile holds the frames in front of it  *)
(* and walTorn says whether it is there.                                   *)
(***************************************************************************)
EXTENDS PlayerData

VARIABLES syncOnWrite,  \* WalConfig::syncOnWrite, either value, never changed
          nextSequence, \* Impl::nextSequence
          entries,      \* Impl::entries, the in-memory index
          walFile,      \* the frames of wal.bin that a reader reaches
          walTorn,      \* a partial frame follows them
          buffered,     \* frames still in the ofstream's buffer
          writerOk      \* the ofstream has no error bit set

walVars == <<nextSequence, entries, walFile, walTorn, buffered, writerOk>>

Frame == [seq : Nat \ {0}, player : Players, value : Nat]

\* A new object, before open().
WalInit ==
  /\ syncOnWrite \in BOOLEAN
  /\ nextSequence = 1
  /\ entries = {} /\ buffered = {}
  /\ walFile = {} /\ walTorn = FALSE
  /\ writerOk = TRUE

\* What a frame written now adds to the part of the file a reader reaches.
Reached(frames) == IF walTorn THEN walFile ELSE walFile \cup frames

\* Mutants of rebuildIndex(): numbering goes on at the highest number found,
\* or at that number and at least at 1.
RebuildFromZero ==
  /\ entries' = walFile
  /\ \E maxSeq \in {0} \cup {f.seq : f \in walFile} :
       /\ \A f \in walFile : f.seq <= maxSeq
       /\ nextSequence' = maxSeq

RebuildReusesNumber ==
  /\ entries' = walFile
  /\ \E maxSeq \in {1} \cup {f.seq : f \in walFile} :
       /\ \A f \in walFile : f.seq <= maxSeq
       /\ nextSequence' = maxSeq

\* rebuildIndex(): the index is the readable part of the file, numbering
\* goes on after the highest number found there (from 1 when there is none).
RebuildIndex ==
  /\ entries' = walFile
  /\ \E maxSeq \in {0} \cup {f.seq : f \in walFile} :
       /\ \A f \in walFile : f.seq <= maxSeq
       /\ nextSequence' = maxSeq + 1

\* open(): the file is opened for appending behind whatever it holds.
WalOpen ==
  /\ RebuildIndex
  /\ writerOk' = TRUE /\ buffered' = {}
  /\ UNCHANGED <<walFile, walTorn>>

\* The frame append() makes of an entry.
NewFrame(p, v) == [seq |-> nextSequence, player |-> p, value |-> v]

\* append() that succeeds: the frame reaches the file, or with syncOnWrite
\* off stays in the stream's buffer.
WalAppend(f) ==
  /\ writerOk
  /\ nextSequence' = nextSequence + 1
  /\ entries' = entries \cup {f}
  /\ IF syncOnWrite THEN walFile' = Reached({f}) /\ UNCHANGED buffered
                    ELSE buffered' = buffered \cup {f} /\ UNCHANGED walFile
  /\ UNCHANGED <<walTorn, writerOk>>

\* append() on a stream that has failed before: an error, after the number
\* has been consumed.  The error bits stay set until the file is reopened.
WalAppendRejected ==
  /\ ~writerOk
  /\ nextSequence' = nextSequence + 1
  /\ UNCHANGED <<entries, walFile, walTorn, buffered, writerOk>>

\* append() whose bytes the file system refuses, in one of two ways.  A frame
\* that fits the stream's buffer fails in flush(), which append() does not
\* check: the entry is indexed and acknowledged.  A larger one fails in
\* write() and append() returns the error.
WalAppendFaults(f, acknowledged) ==
  /\ writerOk
  /\ nextSequence' = nextSequence + 1
  /\ entries' = IF acknowledged THEN entries \cup {f} ELSE entries
  /\ walTorn' \in {walTorn, TRUE}
  /\ writerOk' = FALSE
  /\ UNCHANGED <<walFile, buffered>>

\* A mutant of truncateBefore(): what has not reached the file yet is not kept.
TruncateDropsBuffer(beforeSequence) ==
  /\ entries' = {f \in entries \ buffered : f.seq > beforeSequence}
  /\ walFile' = {} /\ walTorn' = FALSE /\ buffered' = {}
  /\ UNCHANGED <<nextSequence, writerOk>>

\* truncateBefore() up to the point where the file has been cut to nothing.
TruncateCut(beforeSequence) ==
  /\ entries' = {f \in entries : f.seq > beforeSequence}
  /\ walFile' = {} /\ walTorn' = FALSE /\ buffered' = {}
  /\ UNCHANGED <<nextSequence, writerOk>>

\* ... and the rest of it: the index is written back, the file reopened.
TruncateRewrite ==
  /\ walFile' = entries
  /\ writerOk' = TRUE
  /\ UNCHANGED <<nextSequence, entries, walTorn, buffered>>

\* truncateBefore() that cannot open the file for rewriting: the index has
\* been cut, the file has not.  Closing the old writer flushed its buffer;
\* opening it again may fail as well.
TruncateFails(beforeSequence) ==
  /\ entries' = {f \in entries : f.seq > beforeSequence}
  /\ walFile' = Reached(buffered) /\ buffered' = {}
  /\ writerOk' \in BOOLEAN
  /\ UNCHANGED <<nextSequence, walTorn>>

\* The frames of a set numbered up to n: a prefix of them in file order.
UpTo(frames, n) == {f \in frames : f.seq <= n}

\* A rewrite that the file system refuses half way: nothing checks
\* it, and opening the file again may fail too.
RewriteFaults ==
  /\ \E n \in {0} \cup {f.seq : f \in entries} : walFile' = UpTo(entries, n)
  /\ walTorn' \in BOOLEAN
  /\ writerOk' \in BOOLEAN
  /\ UNCHANGED <<nextSequence, entries, buffered>>

\* flush() and close(): the buffer reaches the file; the index stays.
WalClose ==
  /\ walFile' = Reached(buffered) /\ buffered' = {}
  /\ UNCHANGED <<nextSequence, entries, walTorn, writerOk>>

\* What the process knew of the log is gone.
WalForget == nextSequence' = 1 /\ entries' = {} /\ buffered' = {} /\ writerOk' = TRUE

\* The process dies: the index is gone, and of the buffer as much as the
\* stream had spilled before, possibly ending in a partial frame.  rewriting
\* says that it dies inside truncateBefore() with the file cut.
WalCrash(rewriting) ==
  /\ \E n \in {0} \cup {f.seq : f \in buffered \cup entries} :
       LET pending == IF rewriting THEN entries ELSE buffered
       IN  /\ walFile' = Reached(UpTo(pending, n))
           /\ walTorn' \in IF UpTo(pending, n) = pending THEN {walTorn} ELSE {walTorn, TRUE}
  /\ WalForget

\* replay(afterSequence): the indexed frames it hands to the callback.
Replayed(frames, afterSequence) == {f \in frames : f.seq > afterSequence}

\* The state of the log has the shape the code gives it.
WalTypeOK ==
  /\ nextSequence \in Nat \ {0}
  /\ entries \subseteq Frame /\ walFile \subseteq Frame /\ buffered \subseteq Frame
  /\ walTorn \in BOOLEAN /\ writerOk \in BOOLEAN
=============================================================================
