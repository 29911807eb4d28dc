SPECIFICATION FairService
CONSTANTS
  Candidate = site
  site = site
  d1 = d1
  d2 = d2
  Others = {d1, d2}
  ConfigDomains = {d1}
  Proxies = {"default", "own"}
  Requests = {1}
  Networks <- MCNetworks
  Durations <- MCDurations
  Registered <- MCRegistered
  Patience = 2000
  Worded = {"unreachable"}
  LinkChanges = 1
  ProbeRounds = 1
  EditBound = 2
  ApiBound = 1
  MayMiss = TRUE
  NumPackets = 1
  MaxHandles = 3
  RecvBatch = 1
  MinDwell = 1
  MayFail = TRUE
  Startup = {"hello", "quic", "dns", "syn"}
  EnableQuic = TRUE
  Deployments <- MCDeployments
  StartMayFail = TRUE
CHECK_DEADLOCK FALSE
INVARIANTS NoBlindWindow FilterFollowsMode
PROPERTIES CensoredIsListed EditIsLoaded StopEnds
