CONSTANTS
  Name = {n1}
  Email = {e1, e2}
  Pass = {p1}
  ChanName = {g1}
  MaxUsers = 2
  MaxChannels = 0
  Req = {r1, r2}
  Ops = {"register", "update", "deleteMe"}
  DbFails = FALSE
SPECIFICATION Spec
PROPERTIES
  ProfileIsEditedByItsOwner
