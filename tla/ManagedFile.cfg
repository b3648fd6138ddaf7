SPECIFICATION Spec
CONSTANTS
  MaxSaves = 3
  Keys <- MCKeys
  Reserved = "muxvia_codex"
  NoKey = NoKey
  Values <- MCValues
  Canonical <- MCCanonical
  Normal <- MCNormal
  Restorable <- MCRestorable
  None = None
  OtherNames <- MCOtherNames
  Modes <- MCModes
  Texts <- MCTexts
  Null = Null
  NoEntry = NoEntry
  Blocking = {"v"}
  NormalUrl <- MCNormalUrl
  Rest <- MCRest
  Nothing = Nothing
INVARIANTS
  ReplacementIsHonest
CHECK_DEADLOCK FALSE
