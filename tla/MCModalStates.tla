--------------------------- MODULE MCModalStates ---------------------------
EXTENDS ModalStates, TLC

CONSTANTS d1, d2, d3, f1, f2, p1, p2

\* Two dialogs and a chooser on p1, one dialog and one chooser on p2.
MCKindOf == [m \in Modal |-> IF m \in {f1, f2} THEN "filechooser" ELSE "dialog"]
MCPageOf == [m \in Modal |-> IF m \in {d2, f2} THEN p2 ELSE p1]
=============================================================================
