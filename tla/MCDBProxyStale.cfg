SPECIFICATION ProxySpec
CONSTANTS
  Queries <- TwoQueries
  Tables <- TwoTables
  Mentions <- TablesOf
  MaxEntries = 1
  DefaultTtl = 1
  Clients = {c1, c2}
  Replicas = {1}
  Lag = FALSE
  WriteForms = {"plain"}
  CacheEnabled = TRUE
  MaxWrites = 1
  MaxRestarts = 2
INVARIANT NeverServesStale
