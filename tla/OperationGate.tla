--------------------------- MODULE OperationGate ---------------------------
(***************************************************************************)
(* What the locks, the task set and the two-phase close of an instance     *)
(* promise about its operations: they run one at a time per lock, none     *)
(* starts once the gate is shut, and the browser is torn down only after   *)
(* the last of them has left.  InstanceOperations implements this module.  *)
(***************************************************************************)
CONSTANTS
  Op,       \* tool calls on one instance
  LockOf    \* LockOf[o]: the lock that serializes o

VARIABLES
  phase,    \* "open", "draining", "tearing", "closed" or "failed"
  inside    \* the operations whose body is executing

Init == phase = "open" /\ inside = {}

Enter(o) ==
  /\ phase = "open"
  /\ \A p \in inside : LockOf[p] # LockOf[o]
  /\ inside' = inside \cup {o}
  /\ UNCHANGED phase

Leave(o) == o \in inside /\ inside' = inside \ {o} /\ UNCHANGED phase

Shut == phase = "open" /\ phase' = "draining" /\ UNCHANGED inside

\* An operation that finds its browser crashed shuts the gate as it leaves.
LeaveAndShut(o) ==
  /\ o \in inside /\ inside' = inside \ {o}
  /\ phase = "open" /\ phase' = "draining"

TearDown == phase = "draining" /\ inside = {} /\ phase' = "tearing" /\ UNCHANGED inside

Close == phase = "tearing" /\ phase' = "closed" /\ UNCHANGED inside

\* The deadline of the close passed, possibly with operations still inside.
Fail == phase \in {"draining", "tearing"} /\ phase' = "failed" /\ UNCHANGED inside

Next ==
  \/ \E o \in Op : Enter(o) \/ Leave(o) \/ LeaveAndShut(o)
  \/ Shut \/ TearDown \/ Close \/ Fail

Spec == Init /\ [][Next]_<<phase, inside>>
=============================================================================
