\* Three bytes, one failing allocation, a clock that ticks once.
SPECIFICATION FairSerialSpec
CONSTANTS
  key = key
  split = split
  plain = plain
  win = win
  toggle = toggle
  log = log
  total = total
  delta = delta
  half = half
  meter = meter
  gate = gate
  mark = mark
  out = out
  toSplit = toSplit
  toPlain = toPlain
  toWin = toWin
  toTotal = toTotal
  toToggle = toToggle
  toLog = toLog
  toDelta = toDelta
  toHalf = toHalf
  toMeter = toMeter
  toGate = toGate
  toMark = toMark
  toOut = toOut
  Null = Null
  Node = {key, split, plain, win, toggle, log, total, delta, half, meter, gate, mark, out}
  Channel = {toSplit, toPlain, toWin, toTotal, toToggle, toLog, toDelta, toHalf, toMeter, toGate, toMark, toOut}
  Kind <- MCKind
  Outputs <- MCOutputs
  End <- MCEnd
  Code <- MCCode
  Options <- MCOptions
  Predicate <- MCPredicate
  Preset <- MCPreset
  Accepts <- MCAccepts
  Guard <- MCGuard
  Payload <- MCPayload
  Registered <- MCRegistered
  Half = 4
  InitialTTL = 8
  MaxInputs <- MCMaxInputs
  MaxTime = 1
  MaxSkew = 0
  MaxFailures = 0
  MaxLost = 1
INVARIANTS
  NoEmptyWindow
  NeverDrifts
  GuardFollowsWindow
PROPERTIES
  ActsSerially
  FirstWindowPasses
  IterationsEnd
\* Once standard input has ended the process waits in pselect for ever.
CHECK_DEADLOCK FALSE
