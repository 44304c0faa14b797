CONSTANTS
  Name = {n1, n2}
  Email = {e1, e2}
  Pass = {p1, p2}
  ChanName = {g1}
  MaxUsers = 2
  MaxChannels = 0
  Req = {r1, r2}
  Ops = {"register", "update", "deleteMe"}
  DbFails = TRUE
SPECIFICATION Spec
SYMMETRY Symmetry
INVARIANTS
  Integrity
PROPERTIES
  ErrorIsAllOrNothing
  OnlyDeletedAccountsStray
