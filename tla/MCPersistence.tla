----------------------------- MODULE MCPersistence -----------------------------
(***************************************************************************)
(* Instances of PersistenceManager for TLC.                                *)
(***************************************************************************)
EXTENDS PersistenceManager, TLC

CONSTANTS p1, p2

TwoPlayers == {p1, p2}
Symmetry == Permutations(TwoPlayers)
NoHazards == {}
RecordInWindow == {"record_in_window"}
CrashBehind == {"crash_behind"}
AllHazards == {"record_in_window", "crash_in_save", "crash_in_truncate",
               "crash_behind", "disk_fault"}
=============================================================================
