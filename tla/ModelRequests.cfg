SPECIFICATION RequestsSpec
CONSTANTS
  r1 = r1
  r2 = r2
  Requests = {r1, r2}
  Plans <- PlansOf
  Items = {i1, i2}
  QueueCapacity = 2
  MaxEvents <- EventsOf
  MaxPrefix <- PrefixOf
  MaxBlocks = 2
INVARIANTS
  ClientReadsOneAnswer
  RecordsSurviveStop
PROPERTIES
  ImplementsDrainGate
  DrainEnds
  RecordTellsStream
