SPECIFICATION Spec
CONSTANTS
  p1 = p1
  p2 = p2
  Players <- TwoPlayers
  Hazards <- CrashBehind
  MaxRetained = 2
  MaxChanges = 3
  MaxSnapshots = 2
  MaxStarts = 3
CHECK_DEADLOCK FALSE
SYMMETRY Symmetry
INVARIANT ZeroLossOnCrash
