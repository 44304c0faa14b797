CONSTANTS
  Name = {n1, n2}
  Email = {e1, e2}
  Pass = {p1}
  ChanName = {g1}
  MaxUsers = 1
  MaxChannels = 0
  Req = {r1, r2}
  Ops = {"register", "update"}
  DbFails = FALSE
SPECIFICATION Spec
PROPERTIES
  OmittedFieldsStay
