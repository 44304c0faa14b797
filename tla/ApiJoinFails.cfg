CONSTANTS
  Name = {n1, n2}
  Email = {e1, e2}
  Pass = {p1}
  ChanName = {g1}
  MaxUsers = 2
  MaxChannels = 1
  Req = {r1, r2}
  Ops = {"register", "create", "join"}
  DbFails = TRUE
SPECIFICATION Spec
PROPERTIES
  JoinAnswerIsTrue
