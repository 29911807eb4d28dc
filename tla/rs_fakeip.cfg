SPECIFICATION FairSpec
CONSTANTS
  c1 = c1
  c2 = c2
  c3 = c3
  p1 = p1
  p2 = p2
  Conns = {c1, c2}
  Ports = {p1, p2}
  PortOf <- OneEach
  NumProxies = 1
  MaxAge = 1
  FailLimit = 1
  FakeIpConns = {c1}
  Configs <- OperaOnly
  NoConn = NoConn
CHECK_DEADLOCK FALSE
PROPERTY RedirectedIsServed
