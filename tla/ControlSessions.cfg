SPECIFICATION FairSpec
CONSTANTS
  edit = edit
  disable = disable
  s1 = s1
  s2 = s2
  i1 = i1
  Sessions = {s1, s2}
  Actions = {edit, disable}
  Kinds = {"target"}
  Kind <- MCKind
  Client <- MCClient
  Disabling = {disable}
  Inspections = {i1}
  None = None
  Stop = Stop
  QueueCapacity = 1
  MaxInspections = 1
  SendBound = 2
  ServiceBound = 2
INVARIANTS
  AnswersAreTrue
  DisablesComplete
PROPERTIES
  SessionsSettle
CHECK_DEADLOCK FALSE
