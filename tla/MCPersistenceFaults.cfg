SPECIFICATION FairSpec
CONSTANTS
  p1 = p1
  p2 = p2
  Players <- TwoPlayers
  Hazards <- AllHazards
  MaxRetained = 2
  MaxChanges = 2
  MaxSnapshots = 1
  MaxStarts = 2
CHECK_DEADLOCK FALSE
INVARIANT SequencesUnique
PROPERTY StopCompletes
