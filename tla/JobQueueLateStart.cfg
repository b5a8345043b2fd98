SPECIFICATION Spec
CONSTANTS
  j1 = j1
  j2 = j2
  w1 = w1
  w2 = w2
  Jobs <- OneJob
  Workers = {w1, w2}
  NoWorker = NoWorker
  MaxAttempts <- OneJobMaxAttempts
  Priority <- OneJobPriority
  ClaimBatch = 2
  MaxInflight = 1
  LeaseOutlivesTask = FALSE
  ClaimBound = 3
  RetryBound = 1
  FaultBound = 0
INVARIANT SettledHasNoRunningAttempt
