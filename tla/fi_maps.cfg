SPECIFICATION Spec
CONSTANTS
  Clients = {c1}
  Domains = {d1, d2, d3}
  Shards = {s1}
  MaxEntries = 2
  PoolSize = 3
  RedirectBound = 1
  NoDomain = NoDomain
CHECK_DEADLOCK FALSE
INVARIANTS NoSharedIp
