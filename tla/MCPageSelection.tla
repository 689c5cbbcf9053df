-------------------------- MODULE MCPageSelection --------------------------
EXTENDS PageSelection, TLC

CONSTANTS p1, p2, p3

\* Pages are interchangeable.
PageSymmetry == Permutations({p1, p2, p3})
=============================================================================
