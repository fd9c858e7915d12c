SPECIFICATION BrainSpec
CONSTANTS
  Trees <- SharedTree
  NumBrains = 2
  TickInterval = 1
  BrainTimes = {1}
INVARIANT TreesShareable
