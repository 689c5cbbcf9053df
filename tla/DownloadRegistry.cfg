SPECIFICATION Spec
CONSTANTS
  d1 = d1  d2 = d2  d3 = d3  d4 = d4
  Download = {d1, d2, d3, d4}
  Capacity = {1, 2}
  NoEvent = NoEvent
  MaxSequence = 9
SYMMETRY DownloadSymmetry
INVARIANTS
  DownloadInv
  SavingRetained
  EvidenceTruthful
CHECK_DEADLOCK FALSE
