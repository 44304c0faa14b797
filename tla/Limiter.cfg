CONSTANTS
  Ip = {i1, i2}
  Req = {r1, r2}
  Limit = 2
  Window = 1
  Lag = 2
  MaxClock = 4
SPECIFICATION Spec
SYMMETRY Symmetry
INVARIANTS
  TypeOK
  BurstIsBounded
PROPERTIES
  ExpiryOnlyGrows
  RefusedOnlyWhenSpent
