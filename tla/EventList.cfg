\* Every order of calls on a list of up to four events.
SPECIFICATION FairSpec
CONSTANTS
  Cell = {c1, c2, c3, c4}
  End = End
  Null = Null
  Time = {1, 2, 3}
  MaxReplicas = 2
INVARIANTS
  TypeOK
  LinksMutual
  NoAbort
PROPERTIES
  NeverOvertakes
  ImplementsSequence
  DestroyAllEmpties
