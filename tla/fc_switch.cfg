SPECIFICATION Spec
CONSTANTS
  NumEntries = 2
  Threshold = 2
  Window = 2
  MinSwitch = 2
  BackoffCap = 1
  CountBound = 4
  Connections = {c1, c2}
PROPERTIES SwitchIsEarned
