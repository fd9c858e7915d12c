SPECIFICATION Spec
CONSTANTS
  Callers = {c1, c2}
  Names = {"ann", "bob"}
  Emails = {"e1", "e2"}
  Ips = {"ip1"}
  AccessExpiry = 1
  RefreshExpiry = 0
  RateLimitMaxAttempts = 1
  RateLimitWindow = 0
  MaxUsers = 2
  MaxTokens = 2
  MaxTime = 1
  Handlers = {h1, h2}
  SessionIds = {1, 2}
  Addresses = {"a1"}
  UserIds = {1}
  Services = {"game", "lobby"}
  Opcodes = {256, 257}
  MaxConnections = 1
  AuthTimeout = 0
  IdleTimeout = 0
  RateLimitCapacity = 1
  RateLimitRefillRate = 1
  MaxRoutes = 2
  Protocols = {"TCP", "UDP"}
  ConnectionIds = {"k1", "k2"}
  MaxSessions = 2
  Boundaries <- MessageBoundaries
  Users = {u1, u2, u3}
  MinConnections = 1
  MaxDbConnections = 2
  MaxOpened = 4
  Players = {p1, p2}
  NoPlayer = NoPlayer
  Solo = Solo
  Clients = {l1, l2}
  MaxPartySize = 2
  MaxParties = 2
  MaxQueueSize = 2
  MinPlayersPerMatch = 2
  MaxPlayersPerMatch = 2
INVARIANT DuplicateOnlyByRace
INVARIANT SpentTokenRefused
INVARIANT RevokedStaysRejected
 
INVARIANT ConnectionsAccounted
INVARIANT PartyConsistent
INVARIANT FailedEnqueueLeavesNothing
PROPERTY SessionLifecycle
