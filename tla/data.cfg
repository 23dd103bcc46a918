SPECIFICATION Spec
CONSTANTS
  NumPaths = 2
  LastChunk = 2
  PeerRwnd = 4
  Windows = {0, 4}
  Mortal = {1}
  GapLimit = 2
  PRSCTP = TRUE
  Word = 16
INVARIANTS
  ListsAgree
  InFlightIsTimed
  DrainIsReported
  NothingIsForgotten
  ForwardIsHonest
\* All sent and acknowledged, no timer running: nothing is left to do.
CHECK_DEADLOCK FALSE
