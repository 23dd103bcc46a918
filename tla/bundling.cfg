SPECIFICATION FairSpec
CONSTANTS
  NULL = NULL
  Paths = {p1, p2}
  Header = 12
  MaxPDU = 1468
  Limit = 1480
  CtrlSizes = {481, 1456}
  SackSizes = {116}
  DataSizes = {733, 1468}
  MaxChunks = 3
INVARIANTS
  PacketFits
  NothingHeldBack
  NoStaleAddress
PROPERTIES
  DatagramEnds
