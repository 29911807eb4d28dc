SPECIFICATION Spec
CONSTANTS
  k1 = k1
  k2 = k2
  Keys = {k1, k2}
  Workers = {w1, w2}
  Removers = {r1}
  NumSlots = 2
  HomeSlot <- SpreadSlots
  GcBatch = 2
  MaxIdle = 0
  FullIdle = 1
  CounterSize = 8
  GcAttached = TRUE
  WheelBound = 2
  DriftBound = 2
  NoKey = NoKey
INVARIANTS TypeOK NoLeakedEntry CountAgrees
