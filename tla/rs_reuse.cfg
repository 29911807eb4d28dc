SPECIFICATION FairSpec
CONSTANTS
  c1 = c1
  c2 = c2
  c3 = c3
  p1 = p1
  p2 = p2
  Conns = {c1, c2, c3}
  Ports = {p1, p2}
  PortOf <- Reused
  NumProxies = 1
  MaxAge = 1
  FailLimit = 1
  FakeIpConns = {c3}
  Configs <- AnyConfig
  NoConn = NoConn
CHECK_DEADLOCK FALSE
INVARIANTS DialsOwnTarget
PROPERTIES
  NoOrphanEntry
  SessionsEnd
