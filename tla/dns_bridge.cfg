SPECIFICATION BridgeSpec
CONSTANTS
  Clients = {c1}
  d1 = d1
  d2 = d2
  plain = plain
  Domains <- McDomains
  UserDomains <- McListed
  Shards = {s1}
  MaxEntries = 1
  PoolSize = 2
  RedirectBound = 1
  NoDomain = NoDomain
  Questions <- McQuestions
  Blocked = {}
  Censored <- McListed
  DohHost = plain
  QueueCapacity = 2
  Attempts = 2
  Engine = engine
INVARIANTS NoSharedIp AnswersFollowMode
PROPERTY EveryQuestionServed
CHECK_DEADLOCK FALSE
