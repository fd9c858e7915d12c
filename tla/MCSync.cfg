SPECIFICATION SchedSpec
CONSTANTS
  MaxSystems = 4
  Stages <- UpdateOnly
  FixedStage = FALSE
  AccessPatterns <- Declared
  MaxDependencies = 0
  MaxSyncPoints = 1
  MaxTicks = 1
  DeltaTimes = {1}
  TimeSteps = {1}
INVARIANT SyncPointSeparates
