SPECIFICATION FairSpec
CONSTANTS
  a1 = a1  a2 = a2  a3 = a3
  m1 = m1  m2 = m2
  Op = {a1, a2, a3, m1, m2}
  LockOf <- MCLockOf
  Closer = Closer
  Nobody = Nobody
INVARIANTS
  OperationsInv
  TeardownExclusive
  ResolvesOwnRecord
PROPERTIES
  StartsOnlyLive
  ImplementsGate
  CloseReleasesLocks
  OperationsEnd
CHECK_DEADLOCK FALSE
