SPECIFICATION Spec
CONSTANTS
  p1 = p1
  p2 = p2
  Players <- TwoPlayers
  Hazards <- NoHazards
  MaxRetained = 2
  MaxChanges = 4
  MaxSnapshots = 2
  MaxStarts = 3
CHECK_DEADLOCK FALSE
SYMMETRY Symmetry
INVARIANT TypeOK
INVARIANT ZeroLossOnCrash
PROPERTY PrefixRecovery
