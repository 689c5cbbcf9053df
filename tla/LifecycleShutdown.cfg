SPECIFICATION FairSpec
CONSTANTS
  l1 = l1  l2 = l2  l3 = l3  l4 = l4
  n1 = n1  n2 = n2  n3 = n3
  p1 = p1
  Launch = {l1, l2}
  Name = {n1}
  NameOf <- PairNames
  ProfileOf <- PairProfiles
  NoProfile = NoProfile
  Unreserved = Unreserved
  None = None
  MaxInstances = 2
INVARIANTS
  LifecycleInv
  BrowsersExclusive
  DrainedLeavesOnlyCleanup
PROPERTIES
  RetiredUntilClosed
  PublishedOnlyToCaller
  CreateEnds
  ReservationSettles
CHECK_DEADLOCK FALSE
