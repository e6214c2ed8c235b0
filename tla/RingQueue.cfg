\* Three growths, from 0 to 2, 5 and 9 slots, at every position of the head.
SPECIFICATION Spec
CONSTANTS
  Value = {v1, v2}
  Junk = Junk
  MaxCapacity = 9
INVARIANTS
  TypeOK
  NeverAborts
PROPERTY ImplementsFifo
