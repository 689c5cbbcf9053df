SPECIFICATION Spec
CONSTANTS
  d1 = d1  d2 = d2  d3 = d3
  f1 = f1  f2 = f2
  p1 = p1  p2 = p2
  Modal = {d1, d2, d3, f1}
  Page = {p1, p2}
  KindOf <- MCKindOf
  PageOf <- MCPageOf
INVARIANTS
  ModalInv
  OpenModalsKnown
  OldestFirstPerPage
CHECK_DEADLOCK FALSE
