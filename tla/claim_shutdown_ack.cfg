SPECIFICATION Spec
CONSTANTS
  A = A
  Z = Z
  Endpoint = {A, Z}
  Initiator = {A}
  Calls = {"shutdown", "abort", "send"}
  MaxTag = 2
  MaxInitRetransmits = 0
  MaxRetransmits = 1
  MaxUnacked = 1
  MaxCrashes = 0
  PathFailures = TRUE
  Duplication = FALSE
  StaleCookies = FALSE
  SendAbortForOOTB = TRUE
INVARIANTS ShutdownAckMoves
CHECK_DEADLOCK FALSE
