SPECIFICATION FairQueueSpec
CONSTANTS
  Players = {p1, p2, p3, p4, p5}
  Modes = {duel}
  Regions = {any}
  AnyRegion = any
  Ratings = {0}
  MaxQueueSize = 5
  MinPlayersPerMatch = 2
  MaxPlayersPerMatch = 2
  InitialTolerance = 0
  MaxTolerance = 0
  ExpansionStep = 0
  Expanding = TRUE
  AgeCap = 0
PROPERTY EveryoneMatched
