SPECIFICATION FairSpec
CONSTANTS
  g1 = g1
  g2 = g2
  s1 = s1
  w1 = w1
  ListCount = 1
  Grokmirrors = {g1}
  Syncs = {s1}
  Workers = {w1}
  Slots = 1
  LastStage = 3
  MaxAttempts = 2
  RunBound = 1
  ErrorBound = 1
  FaultBound = 1
  CancelBound = 1
  TroubleBound = 2
CHECK_DEADLOCK FALSE
INVARIANTS
  TypeOK
  StageFindsWindow
  SucceededRanEveryStage
  SucceededIsEmbedded
PROPERTIES
  KeepsQueueContract
  DrainsUnlessOrphaned
