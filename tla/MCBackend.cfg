SPECIFICATION Spec
CONSTANTS
  Queries <- TwoQueries
  Tables <- TwoTables
  Mentions <- TablesOf
  MaxEntries = 1
  DefaultTtl = 2
  Clients = {c1, c2}
  Replicas = {1}
  Lag = TRUE
  WriteForms = {"plain", "foreign", "query"}
  CacheEnabled = TRUE
  MaxWrites = 1
  MaxRestarts = 1
  Players = {p1, p2, p3}
  Modes = {duel, arena}
  Regions = {any, eu, asia}
  AnyRegion = any
  Ratings = {0, 2}
  MaxQueueSize = 3
  MinPlayersPerMatch = 2
  MaxPlayersPerMatch = 2
  InitialTolerance = 0
  MaxTolerance = 2
  ExpansionStep = 2
  Expanding = TRUE
  AgeCap = 1
INVARIANT CacheConsistent
INVARIANT StaleOnlyByRace
INVARIANT IndexAgrees
PROPERTY StaleDoesNotLast
PROPERTY ImplementsPool
PROPERTY MatchesForm
