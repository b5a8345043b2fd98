SPECIFICATION FairSpec
CONSTANTS
  g1 = g1
  g2 = g2
  s1 = s1
  w1 = w1
  ListCount = 1
  Grokmirrors = {g1}
  Syncs = {s1}
  Workers = {w1}
  Slots = 1
  LastStage = 3
  MaxAttempts = 1
  RunBound = 2
  ErrorBound = 0
  FaultBound = 0
  CancelBound = 0
  TroubleBound = 0
CHECK_DEADLOCK FALSE
PROPERTIES
  PipelineDrains
