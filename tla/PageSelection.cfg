SPECIFICATION Spec
CONSTANTS
  p1 = p1  p2 = p2  p3 = p3
  Page = {p1, p2, p3}
  None = None
SYMMETRY PageSymmetry
INVARIANTS
  PageSelectionInv
  SelectionKept
  OutcomeTruthful
  OwnTabClosed
CHECK_DEADLOCK FALSE
