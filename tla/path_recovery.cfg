SPECIFICATION FairSpec
CONSTANTS
  NumberOfPaths = 2
  MaxPathRetransmissions = 2
  MaxAssocRetransmissions = 3
  Calls = {}
  Restarts = FALSE
  MaxOrphans = 0
PROPERTIES DeadPathIsFound WorkingPathIsFound
CHECK_DEADLOCK FALSE
