SPECIFICATION FairSpec
CONSTANTS
  NumPackets = 2
  MaxHandles = 3
  RecvBatch = 2
  MinDwell = 1
  MayFail = TRUE
  Startup = {"hello", "quic", "dns", "syn"}
  EnableQuic = TRUE
CHECK_DEADLOCK FALSE
PROPERTIES EveryPacketRead
