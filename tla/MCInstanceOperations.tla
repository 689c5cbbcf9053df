----------------------- MODULE MCInstanceOperations -----------------------
EXTENDS InstanceOperations, TLC

CONSTANTS a1, a2, a3, m1, m2

\* Actions compete for lock, modal tools for modal_lock.
MCLockOf == [o \in Op |-> IF o \in {m1, m2} THEN "modal_lock" ELSE "lock"]
=============================================================================
