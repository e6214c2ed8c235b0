\* Two events, four nodes, and five arrays: one for each but the idle node.
SPECIFICATION Spec
CONSTANTS
  setter = setter
  unsetter = unsetter
  toggler = toggler
  idler = idler
  Event = {e1, e2}
  Buffer = {b1, b2, b3, b4, b5}
  Null = Null
  Node <- MCNode
  Op <- MCOp
  Listed <- MCListed
  Modifier <- MCModifier
  ByteBits = 2
  MaxReplicas = 1
SYMMETRY Symmetry
INVARIANTS
  TypeOK
  InBounds
  OneOwner
PROPERTIES
  HandlerOperates
  CopiesAgree
  OnlyWindowsLose
