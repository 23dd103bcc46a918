SPECIFICATION Spec
CONSTANTS
  NumberOfPaths = 2
  MaxPathRetransmissions = 2
  MaxAssocRetransmissions = 3
  Calls = {"enable", "disable", "request", "primary"}
  Restarts = TRUE
  MaxOrphans = 0
INVARIANTS SomePathActive ErrorsCovered 
CHECK_DEADLOCK FALSE
