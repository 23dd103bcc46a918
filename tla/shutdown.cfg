SPECIFICATION FairSpec
CONSTANTS
  A = A
  Z = Z
  Endpoint = {A, Z}
  Initiator = {A}
  Calls = {"shutdown", "abort", "send"}
  MaxTag = 3
  MaxInitRetransmits = 0
  MaxRetransmits = 2
  MaxUnacked = 2
  MaxCrashes = 1
  PathFailures = TRUE
  Duplication = FALSE
  StaleCookies = FALSE
  SendAbortForOOTB = TRUE
INVARIANTS
  GracefulEnd
PROPERTIES
  WaitsEnd
CHECK_DEADLOCK FALSE
