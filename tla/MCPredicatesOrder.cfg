\* Names that are defined in any order.
SPECIFICATION Spec
CONSTANTS
  a = a
  b = b
  c = c
  e1 = e1
  e2 = e2
  Inner = Inner
  NoName = NoName
  Name <- MCName
  Event <- MCEvent
  Definition <- MCDefinition
  ModifyNode <- MCModifyNode
  MaxPredicates = 4
INVARIANT AllArgsAccept
\* A node without a target ends the program.
CHECK_DEADLOCK FALSE
