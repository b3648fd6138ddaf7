SPECIFICATION FairSpec
CONSTANTS
  Targets = {"codex", "claude"}
  MaxPreviews = 2
  MaxWrites = 1
  MaxEdits = 1
  MaxCrashes = 1
  MaxStoreFaults = 1
  MaxRequests = 1
INVARIANTS
  RestIsCommitted
PROPERTIES
  ShownIsReplaced
  GateIsReleased
CHECK_DEADLOCK FALSE
