SPECIFICATION AdaptSpec
CONSTANTS
  c1 = c1
  c2 = c2
  NumEntries = 3
  Threshold = 2
  Window = 1
  MinSwitch = 1
  BackoffCap = 1
  CountBound = 2
  Connections = {c1, c2}
  Techniques <- MCTechniques
  UserProfiles <- MCUserProfiles
  TargetOf <- MCTargetOf
  RstThreshold = 2
  RstWindow = 1
  Requests <- MCRequests
  OutcomeBound = 3
  TuneBound = 1
SYMMETRY MCSymmetry
INVARIANTS QuietProfileFollowsChain EscalationIsEarned
PROPERTIES SwitchIsEarned
