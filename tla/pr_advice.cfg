SPECIFICATION FairSettings
CONSTANTS
  Candidate = site
  site = site
  d1 = d1
  d2 = d2
  Others = {d1}
  ConfigDomains <- MCNone
  Proxies <- MCNone
  Requests <- MCNone
  Networks <- MCNetworks
  Durations <- MCDurations
  Registered <- MCRegistered
  Patience = 2000
  Worded = {"unreachable"}
  LinkChanges = 0
  ProbeRounds = 1
  EditBound = 0
  ApiBound = 0
  MayMiss = FALSE
CHECK_DEADLOCK FALSE
PROPERTIES AdviceIsApplied
