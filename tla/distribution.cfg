SPECIFICATION MCSpec
CONSTANTS
  NULL = NULL
  c1 = c1
  c2 = c2
  l4 = l4
  l6 = l6
  r1 = r1
  r2 = r2
  r3 = r3
  Cells = {c1, c2}
  MaxId = 3
  MaxName = 2
  Locals = {l4, l6}
  IPv4 = {l4}
  Ports = {1, 2}
  Hosts <- TwoHosts
  RemotePorts = {7}
  Offers <- MCOffers
  MaxDepth = 4
  Habits = {}
SYMMETRY CellsAndRemotes
CHECK_DEADLOCK FALSE
INVARIANTS
  CurrentIsRight
  LiveIsFound
  OwnIsDelivered
  ListenersServed
