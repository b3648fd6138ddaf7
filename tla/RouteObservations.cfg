SPECIFICATION OFairSpec
CONSTANTS
  FailureLimit = 2
  RateWindow = 4
  ProbeLimit = 2
  AttemptBound = 4
  p1 = p1
  first = first
  second = second
  Providers = {p1}
  Attempts = {a1, a2}
  NoPermit = NoPermit
  Plans = {first, second}
  Members <- MCMembers
  None = None
  EpochBound = 1
  SequenceBound = 3
INVARIANTS
  ObservationsAreSound
PROPERTIES
  HealthNeverRegresses
  ImplementsViewStore
  EventuallyAdmissible
CHECK_DEADLOCK FALSE
