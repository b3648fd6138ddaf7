SPECIFICATION Spec
CONSTANTS
  r1 = r1
  r2 = r2
  s1 = s1
  None = None
  Requests <- MCRequests
  Values <- MCValues
  Secrets <- MCSecrets
  Plain = 1
  MaxRows = 3
  MaxUniversals = 2
  MaxCommits = 5
SYMMETRY Symmetric
INVARIANTS
  ReferencesHold
  GeneratedIsSource
  NoCircularWait
PROPERTIES
  ViewsAreFresh
CHECK_DEADLOCK FALSE
