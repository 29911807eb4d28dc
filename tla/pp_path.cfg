SPECIFICATION FairSpec
CONSTANTS
  f1 = f1
  h1 = h1
  h2 = h2
  s1 = s1
  s2 = s2
  None = None
  Flows = {f1}
  Heads = {h1, h2}
  Shards = {s1, s2}
  NumPackets = 3
  FlowOf <- Interleaved
  HeadOf <- FirstBytes
  ShardOf <- OwnShard
  QueueDepth = 1
  RecvBatch = 2
  TxLimit = 2
  DelayDepth = 1
  Decisions <- Mixed
  MayFail = TRUE
  MayStop = TRUE
CHECK_DEADLOCK FALSE
INVARIANTS
  SentOnce
  Accounted
  DecoysLead
PROPERTIES
  ImplementsFates
  EveryPacketSettles
  WorkersStop
