SPECIFICATION RtSpec
CONSTANTS
  Callers = {c1, c2, c3}
  FailureThreshold = 2
  SuccessThreshold = 2
  RecoveryTimeout = 2
  MaxForced = 2
  RejectedCap = 1
  Controllers = {a, b}
  Workers = {w1, w2}
  Clients = {p}
  MaxJobs = 3
  TickEvery = 2
  Trees <- BrainTrees
  NumBrains = 2
  TickInterval = 2
  BrainTimes = {1, 2}
INVARIANT ThresholdsActed
INVARIANT LoopSafe
INVARIANT JobsAdvance
INVARIANT TreeResumes
PROPERTY OpenShields
PROPERTY ClosedByProbes
PROPERTY RecoversWhenHealthy
PROPERTY StopReturns
PROPERTY JobsComplete
