SPECIFICATION FairSpec
CONSTANTS
  IdleTimeout = 3
  HalfCloseTimeout = 2
  MaxChunks <- Chunks
  HalfClosers = {"up", "down"}
  Workers = {w1, w2}
  QueueSize = 1
  Bodies = {"name"}
  MaxRequests = 3
  MaxResponses = 1
  Nobody = Nobody
  Networks = {"udp4"}
INVARIANTS TypeOK  LingersNoLonger DeliveredWhole OwnDeadline
PROPERTIES NotCutShort  RelayEnds KeepsPromise
CHECK_DEADLOCK FALSE
