SPECIFICATION FairSpec
CONSTANTS
  Targets = {"codex", "claude"}
  Actions <- MCActions
  MaxAttempts = 3
  MaxEdits = 1
  MaxCrashes = 1
  MaxStoreFaults = 1
  FaultySteps = {"preflight", "handoffFailed", "settle", "require", "settleStartup", "requireStartup"}
INVARIANTS
  FileIsAccountedFor
  CodexOriginalIsBound
PROPERTIES
  EditsAreKept
  IntentsSettle
CHECK_DEADLOCK FALSE
