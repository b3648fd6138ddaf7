SPECIFICATION HomeSpec

CONSTANTS
  Codex = Codex
  Claude = Claude
  Accounts = Accounts
  Order <- MCOrder
  Logs = {log}
  MaxLines = 2
  MaxDay = 1
  Capacity = 1
  OldSchema = 14
  MaxWork = 4
  MaxFaults = 2
INVARIANTS
  BackupIsOneMoment
  LinesAreCounted
  RecordsBelong
PROPERTIES
  AnswerTellsHome
CHECK_DEADLOCK FALSE
