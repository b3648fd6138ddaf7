SPECIFICATION Spec
CONSTANTS
  FailureLimit = 1
  RateWindow = 3
  ProbeLimit = 2
  AttemptBound = 3
  p1 = p1
  p2 = p2
  Providers = {p1, p2}
  Requests = {r1, r2}
  Plans <- MCOnePlan
  NoPlan = NoPlan
  NoProvider = NoProvider
  NoPermit = NoPermit
INVARIANTS
  AnswerExplained
PROPERTIES
  ImplementsRouteHealth
