-------------------------- MODULE MCNetworkEvents --------------------------
EXTENDS NetworkEvents, TLC

CONSTANTS k1, k2, r1, r2

\* r1 reads everything, r2 filters.
MCWants == r1 :> Id @@ r2 :> {k1}
=============================================================================
