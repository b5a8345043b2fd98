SPECIFICATION Spec
CONSTANTS
  Mail <- Full
  None = None
  PassBound = 3
  BreakBound = 1
CHECK_DEADLOCK FALSE
INVARIANTS
  TypeOK
  NoTwinSeries
  ViewsComplete
  LatestIsNewest
  MappedUnlessBroken
  RepeatsItself
