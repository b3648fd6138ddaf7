SPECIFICATION LifecycleFairSpec
CONSTANTS
  p1 = p1
  p2 = p2
  c1 = c1
  c2 = c2
  Nobody = Nobody
  Processes = {p1, p2}
  Clients = {c1, c2}
  MaxHandovers = 2
  MaxCrashes = 2
  Deadlines = TRUE
INVARIANTS
  ServerIsReachable
PROPERTIES
  TakeoversAreServed
  HandoverIsKept
  IdleServiceLeaves
CHECK_DEADLOCK FALSE
