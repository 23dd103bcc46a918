SPECIFICATION MCSpec
CONSTANTS
  Modulus = 16
  NumStreams = 2
  SSNModulus = 16
  MaxDataLength = 2
  Lengths = {2, 3, 5}
  MaxChunks = 5
  Reads = {2}
  FirstTSNs = {14}
  FirstSSNs = {15}
  PRSCTP = TRUE
INVARIANTS
  OrderKept
  DeliveredWhole
  QueuedBytesExact
  NothingReadyWaits
  ReliableArrives
