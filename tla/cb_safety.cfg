SPECIFICATION BreakerSpec
CONSTANTS
  Workers = {w1, w2}
  BreakerThreshold = 2
  BreakerWindow = 1
  BreakerTimeout = 1
  RstBound = 4
  RouteBound = 2
  ClockBound = 5
  NoWorker = NoWorker
CHECK_DEADLOCK FALSE
INVARIANTS OpenIsTimed HalfOpenOnOwnTime
