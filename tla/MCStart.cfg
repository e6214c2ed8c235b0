\* Configurations of up to four items, of which up to two nodes and three channels.
SPECIFICATION StartSpec
CONSTANTS
  Node = {1, 2}
  Channel = {1, 2, 3}
  Null = Null
  MaxConnector = 1
  Code <- MCCode
  ConstantName <- MCConstantName
  EnumName = {"E"}
  MemberName = {"x", "y"}
  Setting <- MCSetting
  NodeName = {"a", "b"}
  Keys <- MCKeys
  InitialCapacity = 1
  MaxItems = 4
INVARIANTS
  TypeOK
  Connected
  EnumsCount
  AsConfigured
PROPERTY OthersStay
\* The program runs, or has ended.
CHECK_DEADLOCK FALSE
