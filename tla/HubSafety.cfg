CONSTANTS
  Client = {c1, c2}
  SendCap = 1
  MaxMsgs = 2
SPECIFICATION Spec
SYMMETRY ClientSymmetry
INVARIANTS
  TypeOK
  NoPanic
  InOrder
  MembersMissNothing
  ClosedIffRemoved
PROPERTIES
  ImplementsRoom
