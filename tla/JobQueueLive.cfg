SPECIFICATION FairSpec
CONSTANTS
  j1 = j1
  j2 = j2
  w1 = w1
  w2 = w2
  Jobs = {j1, j2}
  Workers = {w1}
  NoWorker = NoWorker
  MaxAttempts <- MCMaxAttempts
  Priority <- MCPriority
  ClaimBatch = 2
  MaxInflight = 1
  LeaseOutlivesTask = TRUE
  ClaimBound = 3
  RetryBound = 0
  FaultBound = 1
PROPERTIES
  EveryJobSettles
