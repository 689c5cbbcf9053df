------------------------ MODULE InstanceOperations ------------------------
(***************************************************************************)
(* instance_manager.py: the operations of one registered InstanceRecord    *)
(* against its teardown.  Tool calls serialize on the record's lock, modal *)
(* recovery on its modal_lock, both through the context manager _operation;*)
(* _safe_close runs _close_resources, which needs both locks, waits half   *)
(* of close_timeout_seconds, cancels the operations still tracked, and     *)
(* gives up after the other half.  An action is one run of one task        *)
(* between two awaits; asyncio locks serve their waiters in order.         *)
(*                                                                         *)
(* How the record was launched, and its name, are in InstanceLifecycle.    *)
(***************************************************************************)
EXTENDS Integers, FiniteSets, SequencesExt

CONSTANTS
  Op,       \* tool calls on the instance
  LockOf,   \* LockOf[o]: "lock", or "modal_lock" for the two modal tools
  Closer,   \* the task _close_resources
  Nobody    \* a lock is free

Lock == {"lock", "modal_lock"}

ASSUME OperationsAssumption ==
  /\ LockOf \in [Op -> Lock]
  /\ Closer \notin Op
  /\ Nobody \notin Op \cup {Closer}

VARIABLES
  status,      \* rec.state.status
  registered,  \* _instances[rec.name] is rec
  retired,     \* _retired[rec.name] is rec
  tracked,     \* rec.operation_tasks
  op,          \* where each tool call is
  cancelling,  \* operations with a cancellation to deliver
  holder,      \* holder[k]: the task holding lock k
  waiting,     \* waiting[k]: the tasks waiting for lock k, in order
  safeClose,   \* the task _safe_close (rec.close_task)
  resources,   \* the task _close_resources
  closeError   \* rec.close_error is not None

recordVars == <<status, registered, retired>>
opVars     == <<tracked, op, cancelling>>
lockVars   == <<holder, waiting>>
closeVars  == <<safeClose, resources, closeError>>
vars       == <<recordVars, opVars, lockVars, closeVars>>

Active == {o \in Op : op[o] \in {"queued", "running"}}

TypeOK ==
  /\ status \in {"live", "crashed", "closing", "close_failed"}
  /\ registered \in BOOLEAN /\ retired \in BOOLEAN /\ closeError \in BOOLEAN
  /\ tracked \subseteq Op
  /\ op \in [Op -> {"idle", "queued", "running", "ended"}]
  /\ cancelling \subseteq Op
  /\ holder \in [Lock -> Op \cup {Closer, Nobody}]
  /\ waiting \in [Lock -> Seq(Op \cup {Closer})]
  /\ safeClose \in {"none", "scheduled", "graceful", "forced", "ended"}
  /\ resources \in {"none", "scheduled", "wantLock", "wantModal", "teardown", "ended"}

Init ==
  /\ status = "live" /\ registered = TRUE /\ retired = FALSE
  /\ tracked = {}
  /\ op = [o \in Op |-> "idle"]
  /\ cancelling = {}
  /\ holder = [k \in Lock |-> Nobody]
  /\ waiting = [k \in Lock |-> <<>>]
  /\ safeClose = "none" /\ resources = "none" /\ closeError = FALSE

-----------------------------------------------------------------------------
(* Helpers *)

\* asyncio.Lock.acquire() returns without waiting.
Free(k) == holder[k] = Nobody /\ \A i \in DOMAIN waiting[k] : waiting[k][i] \in cancelling

\* A waiter whose cancellation is being delivered is passed over.
Turn(t, k) ==
  /\ holder[k] = Nobody
  /\ \E i \in DOMAIN waiting[k] :
       waiting[k][i] = t /\ \A j \in 1 .. i - 1 : waiting[k][j] \in cancelling

\* s without t, which waits at most once.
Without(s, t) ==
  IF t \in ToSet(s) THEN RemoveAt(s, CHOOSE i \in DOMAIN s : s[i] = t) ELSE s

\* Fault: a crash after the lookup goes unnoticed.
ValidRegistered == registered

\* _validate_record accepts the record.
Valid == status = "live" /\ registered

\* Fault: the record is in no table while it closes.
StartCloseUnretired ==
  IF safeClose # "none"
  THEN UNCHANGED <<recordVars, safeClose>>
  ELSE registered' = FALSE /\ status' = "closing" /\ safeClose' = "scheduled"
       /\ UNCHANGED retired

\* _start_close
StartClose ==
  IF safeClose # "none"
  THEN UNCHANGED <<recordVars, safeClose>>
  ELSE /\ registered' = FALSE
       /\ retired' = TRUE
       /\ status' = "closing"
       /\ safeClose' = "scheduled"

\* Fault: leaving the queue releases the lock of whoever holds it.
LeaveReleasingAlways(o) ==
  /\ op' = [op EXCEPT ![o] = "ended"]
  /\ tracked' = tracked \ {o}
  /\ cancelling' = cancelling \ {o}
  /\ holder' = [holder EXCEPT ![LockOf[o]] = Nobody]
  /\ waiting' = [waiting EXCEPT ![LockOf[o]] = Without(@, o)]

\* The exit of _operation: its lock is released and the task is not tracked.
Leave(o) ==
  /\ op' = [op EXCEPT ![o] = "ended"]
  /\ tracked' = tracked \ {o}
  /\ cancelling' = cancelling \ {o}
  /\ holder' = [holder EXCEPT ![LockOf[o]] = IF @ = o THEN Nobody ELSE @]
  /\ waiting' = [waiting EXCEPT ![LockOf[o]] = Without(@, o)]

-----------------------------------------------------------------------------
(* Tool calls *)

\* lock_for or modal_lock_for, and the way into the lock, on a live record.
Begin(o) ==
  LET k == LockOf[o] IN
  /\ op[o] = "idle"
  /\ Valid
  /\ tracked' = tracked \cup {o}
  /\ IF Free(k)
     THEN /\ holder' = [holder EXCEPT ![k] = o]
          /\ op' = [op EXCEPT ![o] = "running"]
          /\ UNCHANGED waiting
     ELSE /\ waiting' = [waiting EXCEPT ![k] = Append(@, o)]
          /\ op' = [op EXCEPT ![o] = "queued"]
          /\ UNCHANGED holder
  /\ UNCHANGED <<recordVars, cancelling, closeVars>>

\* get() finds no record, or evicts a crashed one; the call ends in an error.
BeginRefused(o) ==
  /\ op[o] = "idle"
  /\ ~Valid
  /\ op' = [op EXCEPT ![o] = "ended"]
  /\ IF registered THEN StartClose ELSE UNCHANGED <<recordVars, safeClose>>
  /\ UNCHANGED <<tracked, cancelling, lockVars, resources, closeError>>

\* The lock comes to a queued operation, whose record may have been closed or
\* may have crashed since it was looked up.
Acquire(o) ==
  LET k == LockOf[o] IN
  /\ op[o] = "queued"
  /\ o \notin cancelling
  /\ Turn(o, k)
  /\ IF Valid
     THEN /\ holder' = [holder EXCEPT ![k] = o]
          /\ waiting' = [waiting EXCEPT ![k] = Without(@, o)]
          /\ op' = [op EXCEPT ![o] = "running"]
          /\ UNCHANGED <<recordVars, safeClose, tracked, cancelling>>
     ELSE StartClose /\ Leave(o)
  /\ UNCHANGED <<resources, closeError>>

\* The body calls get() again after an await and finds its browser crashed.
MeetsCrash(o) ==
  /\ op[o] = "running"
  /\ registered /\ status = "crashed"
  /\ StartClose
  /\ Leave(o)
  /\ UNCHANGED <<resources, closeError>>

Finish(o) ==
  /\ op[o] = "running"
  /\ Leave(o)
  /\ UNCHANGED <<recordVars, closeVars>>

\* Fault: the deadline covers the wait for the lock only.
InterruptWaiting(o) ==
  /\ op[o] = "queued"
  /\ cancelling' = cancelling \cup {o}
  /\ UNCHANGED <<recordVars, tracked, op, lockVars, closeVars>>

\* operation_timeout_seconds passed, waiting included, or the client cancelled.
Interrupt(o) ==
  /\ o \in Active
  /\ cancelling' = cancelling \cup {o}
  /\ UNCHANGED <<recordVars, tracked, op, lockVars, closeVars>>

\* The CancelledError leaves the lock's queue or the body.
Unwind(o) ==
  /\ o \in cancelling
  /\ Leave(o)
  /\ UNCHANGED <<recordVars, closeVars>>

-----------------------------------------------------------------------------
(* What happens to the record *)

\* Fault: the listener records the event's name.
CrashDisconnected ==
  /\ status = "live"
  /\ status' = "disconnected"
  /\ UNCHANGED <<registered, retired, opVars, lockVars, closeVars>>

\* _mark_crashed
Crash ==
  /\ status = "live"
  /\ status' = "crashed"
  /\ UNCHANGED <<registered, retired, opVars, lockVars, closeVars>>

\* destroy() and shutdown_all() ask for the close of whatever is registered.
Destroy ==
  /\ registered
  /\ StartClose
  /\ UNCHANGED <<opVars, lockVars, resources, closeError>>

\* reap_once() on a record that is idle or crashed: nothing holds a lock of it
\* and no operation is tracked.
Reap ==
  /\ registered
  /\ \A k \in Lock : holder[k] = Nobody
  /\ tracked = {}
  /\ StartClose
  /\ UNCHANGED <<opVars, lockVars, resources, closeError>>

-----------------------------------------------------------------------------
(* _safe_close and _close_resources *)

SafeCloseStarts ==
  /\ safeClose = "scheduled"
  /\ safeClose' = "graceful"
  /\ resources' = "scheduled"
  /\ UNCHANGED <<recordVars, opVars, lockVars, closeError>>

\* Fault: the teardown waits for actions but not for modal recovery.
TakeActionLock ==
  /\ holder' = [holder EXCEPT !["lock"] = Closer]
  /\ waiting' = [waiting EXCEPT !["lock"] = Without(@, Closer)]
  /\ resources' = "teardown"

\* "async with rec.lock, rec.modal_lock" once lock can be taken.
TakeLocks ==
  IF Free("modal_lock")
  THEN /\ holder' = [k \in Lock |-> Closer]
       /\ waiting' = [waiting EXCEPT !["lock"] = Without(@, Closer)]
       /\ resources' = "teardown"
  ELSE /\ holder' = [holder EXCEPT !["lock"] = Closer]
       /\ waiting' = [waiting EXCEPT !["lock"] = Without(@, Closer),
                                     !["modal_lock"] = Append(@, Closer)]
       /\ resources' = "wantModal"

ResourcesStart ==
  /\ resources = "scheduled"
  /\ IF Free("lock")
     THEN TakeLocks
     ELSE /\ waiting' = [waiting EXCEPT !["lock"] = Append(@, Closer)]
          /\ resources' = "wantLock"
          /\ UNCHANGED holder
  /\ UNCHANGED <<recordVars, opVars, safeClose, closeError>>

ResourcesGetLock ==
  /\ resources = "wantLock"
  /\ Turn(Closer, "lock")
  /\ TakeLocks
  /\ UNCHANGED <<recordVars, opVars, safeClose, closeError>>

ResourcesGetModal ==
  /\ resources = "wantModal"
  /\ Turn(Closer, "modal_lock")
  /\ holder' = [holder EXCEPT !["modal_lock"] = Closer]
  /\ waiting' = [waiting EXCEPT !["modal_lock"] = Without(@, Closer)]
  /\ resources' = "teardown"
  /\ UNCHANGED <<recordVars, opVars, safeClose, closeError>>

ResourcesEnd ==
  /\ resources' = "ended"
  /\ holder' = [k \in Lock |-> IF holder[k] = Closer THEN Nobody ELSE holder[k]]
  /\ waiting' = [k \in Lock |-> Without(waiting[k], Closer)]
  /\ UNCHANGED <<recordVars, opVars, safeClose>>

TeardownSucceeds == resources = "teardown" /\ ResourcesEnd /\ UNCHANGED closeError

\* The exit stack raised or was cancelled from within.
TeardownFails == resources = "teardown" /\ ResourcesEnd /\ closeError' = TRUE

\* Half of close_timeout_seconds passed: the operations still tracked are
\* cancelled.
CancelsOperations ==
  /\ safeClose = "graceful"
  /\ resources # "ended"
  /\ safeClose' = "forced"
  /\ cancelling' = cancelling \cup tracked
  /\ UNCHANGED <<recordVars, tracked, op, lockVars, resources, closeError>>

SafeCloseEnds ==
  /\ safeClose \in {"graceful", "forced"}
  /\ resources = "ended"
  /\ safeClose' = "ended"
  /\ IF closeError
     THEN status' = "close_failed" /\ UNCHANGED retired
     ELSE retired' = FALSE /\ UNCHANGED status
  /\ UNCHANGED <<registered, opVars, lockVars, resources, closeError>>

\* The second half passed as well; the resources task is cancelled.
GivesUp ==
  /\ safeClose = "forced"
  /\ resources # "ended"
  /\ safeClose' = "ended"
  /\ closeError' = TRUE
  /\ status' = "close_failed"
  /\ UNCHANGED <<registered, retired, opVars, lockVars, resources>>

\* Fault: a teardown that is given up is left running.
ResourcesLeftRunning == FALSE

ResourcesCancelled ==
  /\ safeClose = "ended"
  /\ resources # "ended"
  /\ ResourcesEnd
  /\ UNCHANGED closeError

-----------------------------------------------------------------------------

ToolCall(o) == \/ Begin(o) \/ BeginRefused(o) \/ Acquire(o) \/ MeetsCrash(o)
               \/ Finish(o) \/ Interrupt(o) \/ Unwind(o)

Resources == \/ ResourcesStart \/ ResourcesGetLock \/ ResourcesGetModal
             \/ TeardownSucceeds \/ TeardownFails \/ ResourcesCancelled

SafeClose == SafeCloseStarts \/ CancelsOperations \/ SafeCloseEnds \/ GivesUp

Next == \/ \E o \in Op : ToolCall(o)
        \/ Crash \/ Destroy \/ Reap
        \/ Resources \/ SafeClose

Spec == Init /\ [][Next]_vars

\* Ready tasks run; every operation meets its deadline, whatever its body
\* does, and a cancelled body is cooperative: it ends.  _safe_close waits with
\* timeouts.  A teardown may hang.
Fairness ==
  /\ \A o \in Op : WF_vars(Acquire(o)) /\ WF_vars(Interrupt(o) /\ o \notin cancelling)
                   /\ WF_vars(Unwind(o))
  /\ WF_vars(ResourcesStart) /\ WF_vars(ResourcesGetLock) /\ WF_vars(ResourcesGetModal)
  /\ WF_vars(ResourcesCancelled)
  /\ WF_vars(SafeCloseStarts)
  /\ WF_vars(CancelsOperations \/ SafeCloseEnds \/ GivesUp)

FairSpec == Spec /\ Fairness

-----------------------------------------------------------------------------
(* Safety *)

\* An operation body starts only on a live registered record, although the
\* record was looked up before the wait for the lock.  (_validate_record)
StartsOnlyLive ==
  [][\A o \in Op : op[o] # "running" /\ op'[o] = "running"
       => status = "live" /\ registered]_vars

\* While the exit stack of the browser is being torn down no operation body is
\* executing, of either lock.  (_close_resources takes both locks)
TeardownExclusive ==
  resources = "teardown" => \A o \in Op : op[o] # "running"

\* Until it ends, an operation that started can look its own record up by
\* name: through _instances, or through _retired because it is tracked.
ResolvesOwnRecord ==
  \A o \in Op : op[o] = "running" => registered \/ (retired /\ o \in tracked)

-----------------------------------------------------------------------------
(* Liveness, under FairSpec *)

\* Once a close has begun both locks eventually come free and stay free, even
\* if a body never finishes by itself and the teardown hangs.
CloseReleasesLocks == safeClose = "scheduled" ~> [](\A k \in Lock : holder[k] = Nobody)

\* Every operation that began ends, whether its lock comes or not.
OperationsEnd == \A o \in Op : o \in Active ~> op[o] = "ended"

-----------------------------------------------------------------------------
(* The refinement of OperationGate *)

Phase == IF registered THEN "open"
         ELSE IF ~retired THEN "closed"
         ELSE IF status = "close_failed" THEN "failed"
         ELSE IF resources \in {"teardown", "ended"} THEN "tearing"
         ELSE "draining"

Running == {o \in Op : op[o] = "running"}

Gate == INSTANCE OperationGate WITH phase <- Phase, inside <- Running

\* The locks, the tracked tasks and the close behave as a gate that is shut
\* once and torn down behind the last operation.
ImplementsGate == Gate!Spec

-----------------------------------------------------------------------------
(* The inductive invariant behind the safety properties and the refinement *)

\* Each lock is held by the operation whose body runs under it, by the close or
\* by nobody, and the operations tracked are those that have not ended.
LocksAgree ==
  /\ \A o \in Op : op[o] = "running" <=> holder[LockOf[o]] = o
  /\ \A k \in Lock : holder[k] \in Op => LockOf[holder[k]] = k
  /\ holder["lock"] = Closer <=> resources \in {"wantModal", "teardown"}
  /\ holder["modal_lock"] = Closer <=> resources = "teardown"
  /\ tracked = Active
  /\ cancelling \subseteq tracked

\* How far the close has come, by what it has written to the record.
CloseAgrees ==
  /\ registered <=> safeClose = "none"
  /\ registered <=> status \in {"live", "crashed"}
  /\ retired <=> safeClose # "none" /\ (safeClose = "ended" => closeError)
  /\ status = "close_failed" <=> safeClose = "ended" /\ closeError
  /\ resources = "none" <=> safeClose \in {"none", "scheduled"}
  /\ safeClose = "ended" /\ ~closeError => resources = "ended"

\* A close that was not given up has left no operation running behind it.
QuietBehindTeardown ==
  status = "closing" /\ resources = "ended" => \A o \in Op : op[o] # "running"

OperationsInv == TypeOK /\ LocksAgree /\ CloseAgrees /\ QuietBehindTeardown
=============================================================================
