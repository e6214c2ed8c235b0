\* Up to four predicates under three names, changed by two nodes.
SPECIFICATION Spec
CONSTANTS
  a = a
  b = b
  c = c
  e1 = e1
  e2 = e2
  Inner = Inner
  NoName = NoName
  Name <- MCName
  Event <- MCEvent
  Definition <- MCDefinition
  ModifyNode <- MCModifyNode
  MaxPredicates = 4
INVARIANTS
  TypeOK
  RefersBack
PROPERTIES
  HandlesStay
  ModifiesAsDocumented
\* A node without a target ends the program.
CHECK_DEADLOCK FALSE
