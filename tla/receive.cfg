SPECIFICATION Spec
CONSTANTS
  Modulus = 32
  InitialTSN = 30
  RestartTSN = 5
  LastChunk = 5
  PeerWindow = 5
  MaxAge = 2
  MaxGivenUp = 5
  MyRwnd = 3
  MaxRead = 2
  MaxReports = 1
  Overtaking = FALSE
INVARIANTS FragmentsAreRuns DataIsAnswered WindowOpens
PROPERTIES Implements NewDataIsTaken
CHECK_DEADLOCK FALSE
