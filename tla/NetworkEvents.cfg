SPECIFICATION Spec
CONSTANTS
  k1 = k1  k2 = k2
  r1 = r1  r2 = r2
  Capacity = {1, 3}
  Id = {k1, k2}
  Reader = {r1, r2}
  Wants <- MCWants
  Limit = {1, 2}
  NotIndexed = NotIndexed
  MaxSequence = 5
INVARIANTS
  NetworkInv
  IndexNewest
  NothingMissed
  LossReported
CHECK_DEADLOCK FALSE
