\* Growth from 5 to 8 slots; Slack is 0 so that small tables change their hash.
SPECIFICATION Spec
CONSTANTS
  Key <- MCKey
  NoKey = NoKey
  Value = {v1, v2}
  PreHash <- MCPreHash
  Family <- MCFamily
  InitialCapacity = 5
  Slack = 0
  MaxCapacity = 8
INVARIANTS
  TypeOK
  EveryEntryFound
  LengthCounts
PROPERTY ImplementsMap
