SPECIFICATION FairSettings
CONSTANTS
  Candidate = site
  site = site
  d1 = d1
  d2 = d2
  Others = {d1, d2}
  ConfigDomains = {d1}
  Proxies = {"default", "own"}
  Requests = {1, 2}
  Networks <- MCPlainNetworks
  Durations <- MCDurations
  Registered <- MCRegistered
  Patience = 2000
  Worded = {"unreachable"}
  LinkChanges = 1
  ProbeRounds = 1
  EditBound = 1
  ApiBound = 1
  MayMiss = TRUE
CHECK_DEADLOCK FALSE
INVARIANTS ProxyIsSaved SettingsKept
PROPERTIES ListedStaysListed EveryEditIsLoaded
