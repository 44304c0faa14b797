CONSTANTS
  Name = {n1, n2}
  Email = {e1, e2}
  Pass = {p1}
  ChanName = {g1}
  MaxUsers = 2
  MaxChannels = 2
  Req = {r1, r2}
  Ops = {"register", "create", "join", "delete", "deleteMe"}
  DbFails = TRUE
SPECIFICATION Spec
SYMMETRY Symmetry
INVARIANTS
  TypeOK
  Integrity
  DeletedChannelIsGone
PROPERTIES
  ErrorIsAllOrNothing
  OnlyOwnersDelete
  JoinedMeansMember
