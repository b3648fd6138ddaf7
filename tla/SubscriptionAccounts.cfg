SPECIFICATION AccountsSpec
CONSTANTS
  a1 = a1
  a2 = a2
  r1 = r1
  r2 = r2
  c1 = c1
  NoRecord = NoRecord
  Unset = Unset
  Accounts <- MCAccounts
  Requests <- MCRequests
  Actions <- MCActions
  MaxToken = 3
  MaxIntents = 2
  MaxTroubles = 3
SYMMETRY Symmetry
INVARIANTS
  RestIsCommitted
  AnswersAreTrue
PROPERTIES
  LateRefreshRecordsNothing
  StartSettles
CHECK_DEADLOCK FALSE
