CONSTANTS
  Conn = {k1, k2}
  c1 = c1
  c2 = c2
  u1 = u1
  u2 = u2
  Channel = {c1, c2}
  User = {u1, u2}
  Owner <- MCOwner
  Nobody = nobody
SPECIFICATION FairSpec
INVARIANTS
  TypeOK
  OneRoom
  OnlyTheEntitled
PROPERTIES
  UpgradedGetsIn
