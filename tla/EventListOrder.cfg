\* Two events created with decreasing times.
SPECIFICATION Spec
CONSTANTS
  Cell = {c1, c2}
  End = End
  Null = Null
  Time = {1, 2}
  MaxReplicas = 1
INVARIANT OrderedByCreationTime
