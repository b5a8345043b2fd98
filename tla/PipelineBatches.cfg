SPECIFICATION FairSpec
CONSTANTS
  g1 = g1
  g2 = g2
  s1 = s1
  w1 = w1
  ListCount = 2
  Grokmirrors = {g1, g2}
  Syncs = {}
  Workers = {w1}
  Slots = 2
  LastStage = 2
  MaxAttempts = 1
  RunBound = 2
  ErrorBound = 0
  FaultBound = 0
  CancelBound = 0
  TroubleBound = 0
CHECK_DEADLOCK FALSE
INVARIANTS
  NoOrphan
PROPERTIES
  DrainsUnlessOrphaned
