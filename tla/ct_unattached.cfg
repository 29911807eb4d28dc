SPECIFICATION FairSpec
CONSTANTS
  k1 = k1
  k2 = k2
  Keys = {k1, k2}
  Workers = {w1}
  Removers = {}
  NumSlots = 2
  HomeSlot <- SpreadSlots
  GcBatch = 3
  MaxIdle = 0
  FullIdle = 1
  CounterSize = 8
  GcAttached = FALSE
  WheelBound = 3
  DriftBound = 2
  NoKey = NoKey
PROPERTY StaleEventuallyEvicted
