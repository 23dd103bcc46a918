SPECIFICATION MCSpec
CONSTANTS
  A = A
  Z = Z
  Endpoint = {A, Z}
  Initiator = {A, Z}
  Calls = {"shutdown", "abort", "send"}
  MaxTag = 4
  MaxInitRetransmits = 1
  MaxRetransmits = 0
  MaxUnacked = 1
  MaxCrashes = 1
  PathFailures = FALSE
  Duplication = TRUE
  StaleCookies = TRUE
  SendAbortForOOTB = TRUE
INVARIANTS
 TimerGuardsWait
 OneCommUp
 TagsMirrored
 TagAgreement
CHECK_DEADLOCK FALSE
