\* Three bytes and the end of file, on two ways, and one failing allocation.
SPECIFICATION Spec
CONSTANTS
  key = key
  first = first
  second = second
  upper = upper
  lower = lower
  between = between
  Null = Null
  Node = {key, first, second}
  Channel = {upper, lower, between}
  Kind <- MCKind
  Outputs <- MCOutputs
  End <- MCEnd
  Code <- MCCode
  Predicate = {}
  Preset <- MCNone
  Accepts <- MCNone
  Guard <- MCNone
  Payload = {0}
  Registered <- MCRegistered
  Options <- MCOptions
  InitialTTL = 4
  Half = 1
  MaxInputs <- MCMaxInputs
  MaxTime = 1
  MaxSkew = 0
  MaxFailures = 0
  MaxLost = 1
INVARIANT BufferListed
CHECK_DEADLOCK FALSE
