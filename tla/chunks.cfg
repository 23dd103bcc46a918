SPECIFICATION Spec
CONSTANTS
  Family <- MCFamily
  Scope <- MCScope
  HostsA <- MCHostsA
  HostsZ <- MCHostsZ
  Extras <- MCExtras
  Reconfigures = TRUE
  MaxAddresses = 4
INVARIANTS
 CookieRecalls
 CookieReadable
 PRSCTPAgreed
CHECK_DEADLOCK FALSE
