\* Two sources, one byte and two input events, a graph with a cycle for end of file.
SPECIFICATION FairSpec
CONSTANTS
  key = key
  dev = dev
  tee = tee
  route = route
  out = out
  typed = typed
  moved = moved
  direct = direct
  choice = choice
  rest = rest
  back = back
  nowhere = nowhere
  Null = Null
  Node = {key, dev, tee, route, out}
  Channel = {typed, moved, direct, choice, rest, back, nowhere}
  Kind <- MCKind
  Outputs <- MCOutputs
  End <- MCEnd
  Code <- MCCode
  Options <- MCOptions
  Predicate <- MCPredicate
  Preset <- MCPreset
  Accepts <- MCAccepts
  Guard <- MCGuard
  Payload <- MCPayload
  Registered <- MCRegistered
  Half = 1
  InitialTTL = 5
  MaxInputs <- MCMaxInputs
  MaxTime = 1
  MaxSkew = 1
  MaxFailures = 1
  MaxLost = 0
INVARIANTS
  TypeOK
  NeverSleepsOnWork
  Conservation
  DeliveredInOrder
PROPERTY EveryInputArrives
\* Once every source has ended the process waits in pselect for ever.
CHECK_DEADLOCK FALSE
