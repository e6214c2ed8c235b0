\* A jumping window of two events.
SPECIFICATION Spec
CONSTANTS
  key = key
  win = win
  out = out
  typed = typed
  passed = passed
  Null = Null
  Node = {key, win, out}
  Channel = {typed, passed}
  Kind <- MCKind
  Outputs <- MCOutputs
  End <- MCEnd
  Code <- MCCode
  Predicate = {}
  Preset <- MCNone
  Accepts <- MCNone
  Guard <- MCNone
  Payload = {0}
  Registered <- MCRegistered
  Options <- MCOptions
  InitialTTL = 4
  Half = 1
  MaxInputs <- MCMaxInputs
  MaxTime = 0
  MaxSkew = 0
  MaxFailures = 0
  MaxLost = 0
INVARIANT SentAtMostOnce
CHECK_DEADLOCK FALSE
