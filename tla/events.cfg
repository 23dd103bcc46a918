SPECIFICATION MCSpec
CONSTANTS
  d1 = d1
  d2 = d2
  k1 = k1
  k2 = k2
  Descriptors <- MCDescriptors
  Sockets <- MCSockets
  Owners <- MCOwners
  NUM_FDS = 2
  Delays = {0, 1, 2}
  SelfRestart = FALSE
INVARIANTS
  NoStaleEvent
  DueFirst
PROPERTIES
  TimersFire
  EventsReported
CHECK_DEADLOCK FALSE
