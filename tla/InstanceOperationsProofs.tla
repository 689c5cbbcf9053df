---------------------- MODULE InstanceOperationsProofs ----------------------
(***************************************************************************)
(* Proofs about InstanceOperations, for every set of tool calls and every  *)
(* assignment of them to the two locks: the inductive invariant, the       *)
(* safety properties that follow from it, and the refinement of            *)
(* OperationGate, one step lemma per action.                               *)
(***************************************************************************)
EXTENDS InstanceOperations, SequenceTheorems, TLAPS

USE OperationsAssumption

-----------------------------------------------------------------------------
(* Helpers *)

\* A queue that a task leaves is a queue of the same tasks.
LEMMA WithoutType ==
  ASSUME NEW S, NEW s \in Seq(S), NEW t
  PROVE  Without(s, t) \in Seq(S)
<1>1. CASE t \in ToSet(s)
  <2> DEFINE i == CHOOSE i \in DOMAIN s : s[i] = t
  <2>1. i \in 1 .. Len(s)
    BY <1>1 DEF ToSet
  <2>2. SubSeq(s, 1, i - 1) \in Seq(S) /\ SubSeq(s, i + 1, Len(s)) \in Seq(S)
    <3>1. Len(s) \in Nat /\ \A j \in 1 .. Len(s) : s[j] \in S
      BY LenProperties, ElementOfSeq
    <3>2. \A j \in (1 .. i - 1) \cup (i + 1 .. Len(s)) : s[j] \in S
      BY <2>1, <3>1
    <3> HIDE DEF i
    <3> QED
      BY <2>1, <3>1, <3>2, SubSeqProperties
  <2>3. RemoveAt(s, i) \in Seq(S)
    BY <2>2 DEF RemoveAt
  <2> QED
    BY <1>1, <2>3 DEF Without
<1>2. CASE t \notin ToSet(s)
  BY <1>2 DEF Without
<1> QED
  BY <1>1, <1>2

LEMMA LockTypes ==
  /\ "lock" \in Lock /\ "modal_lock" \in Lock
  /\ \A o \in Op : LockOf[o] \in Lock /\ o # Closer /\ o # Nobody
  /\ Closer # Nobody
BY DEF Lock

\* What _start_close leaves behind, whether it had to do anything or not.
LEMMA StartCloseInv ==
  ASSUME OperationsInv, StartClose, UNCHANGED <<resources, closeError>>,
         \A o \in Op : op'[o] = "running" => op[o] = "running"
  PROVE  /\ status' \in {"live", "crashed", "closing", "close_failed"}
         /\ registered' \in BOOLEAN /\ retired' \in BOOLEAN
         /\ safeClose' \in {"none", "scheduled", "graceful", "forced", "ended"}
         /\ CloseAgrees' /\ QuietBehindTeardown'
<1>1. CASE safeClose # "none"
  BY <1>1 DEF StartClose, OperationsInv, TypeOK, CloseAgrees, QuietBehindTeardown, recordVars
<1>2. CASE safeClose = "none"
  BY <1>2 DEF StartClose, OperationsInv, TypeOK, CloseAgrees, QuietBehindTeardown
<1> QED
  BY <1>1, <1>2

\* An operation that leaves gives back its own lock and no other.
LEMMA LeaveInv ==
  ASSUME OperationsInv, NEW o \in Op, o \in Active, Leave(o), UNCHANGED resources
  PROVE  /\ tracked' \subseteq Op /\ cancelling' \subseteq Op
         /\ op' \in [Op -> {"idle", "queued", "running", "ended"}]
         /\ holder' \in [Lock -> Op \cup {Closer, Nobody}]
         /\ waiting' \in [Lock -> Seq(Op \cup {Closer})]
         /\ LocksAgree'
         /\ \A p \in Op : op'[p] = "running" <=> op[p] = "running" /\ p # o
<1> DEFINE k == LockOf[o]
<1> k \in Lock
  BY LockTypes
<1>1. /\ tracked' \subseteq Op /\ cancelling' \subseteq Op
      /\ op' \in [Op -> {"idle", "queued", "running", "ended"}]
      /\ holder' \in [Lock -> Op \cup {Closer, Nobody}]
  BY DEF Leave, OperationsInv, TypeOK
<1>2. waiting' \in [Lock -> Seq(Op \cup {Closer})]
  <2>1. Without(waiting[k], o) \in Seq(Op \cup {Closer})
    BY WithoutType DEF OperationsInv, TypeOK
  <2> QED
    BY <2>1 DEF Leave, OperationsInv, TypeOK
<1>3. \A p \in Op : op'[p] = "running" <=> op[p] = "running" /\ p # o
  BY DEF Leave, OperationsInv, TypeOK
<1>4. LocksAgree'
  <2>1. \A p \in Op : op'[p] = "running" <=> holder'[LockOf[p]] = p
    BY <1>3, LockTypes DEF Leave, OperationsInv, TypeOK, LocksAgree
  <2>2. \A j \in Lock : holder'[j] \in Op => LockOf[holder'[j]] = j
    BY LockTypes DEF Leave, OperationsInv, TypeOK, LocksAgree
  <2>3. \A j \in Lock : holder'[j] = Closer <=> holder[j] = Closer
    BY LockTypes DEF Leave, OperationsInv, TypeOK
  <2>4. tracked' = Active' /\ cancelling' \subseteq tracked'
    BY DEF Leave, OperationsInv, TypeOK, LocksAgree, Active
  <2> QED
    BY <2>1, <2>2, <2>3, <2>4, LockTypes DEF OperationsInv, LocksAgree
<1> QED
  BY <1>1, <1>2, <1>3, <1>4

\* A step that only changes how far the close is.
LEMMA LocksKept ==
  ASSUME OperationsInv, UNCHANGED <<opVars, lockVars, resources>>
  PROVE  LocksAgree'
BY DEF OperationsInv, LocksAgree, opVars, lockVars, Active

LEMMA InitInv == Init => OperationsInv
<1> SUFFICES ASSUME Init PROVE OperationsInv
  OBVIOUS
<1>1. TypeOK
  BY EmptySeq DEF Init, TypeOK
<1>2. LocksAgree
  BY LockTypes DEF Init, LocksAgree, Active
<1>3. CloseAgrees /\ QuietBehindTeardown
  BY DEF Init, CloseAgrees, QuietBehindTeardown
<1> QED
  BY <1>1, <1>2, <1>3 DEF OperationsInv

-----------------------------------------------------------------------------
(* Tool calls *)

LEMMA BeginInv ==
  ASSUME OperationsInv, NEW o \in Op, Begin(o)
  PROVE  OperationsInv'
<1> DEFINE k == LockOf[o]
<1> k \in Lock
  BY LockTypes
<1>1. TypeOK'
  <2>1. Append(waiting[k], o) \in Seq(Op \cup {Closer})
    BY AppendProperties DEF OperationsInv, TypeOK
  <2>2. waiting' \in [Lock -> Seq(Op \cup {Closer})]
    BY <2>1 DEF Begin, OperationsInv, TypeOK
  <2> QED
    <3>1. /\ holder' \in [Lock -> Op \cup {Closer, Nobody}] /\ tracked' \subseteq Op
          /\ op' \in [Op -> {"idle", "queued", "running", "ended"}]
      <4>1. CASE Free(k)
        <5>1. /\ holder \in [Lock -> Op \cup {Closer, Nobody}] /\ tracked \subseteq Op
              /\ op \in [Op -> {"idle", "queued", "running", "ended"}]
          BY DEF OperationsInv, TypeOK
        <5>2. /\ holder' = [holder EXCEPT ![k] = o] /\ tracked' = tracked \cup {o}
              /\ op' = [op EXCEPT ![o] = "running"]
          BY <4>1 DEF Begin
        <5> HIDE DEF k
        <5> QED
          BY <5>1, <5>2
      <4>2. CASE ~Free(k)
        BY <4>2 DEF Begin, OperationsInv, TypeOK
      <4> QED
        BY <4>1, <4>2
    <3>2. /\ UNCHANGED <<status, registered, retired, closeError, cancelling, safeClose, resources>>
      BY DEF Begin, recordVars, closeVars
    <3> QED
      BY <2>2, <3>1, <3>2 DEF OperationsInv, TypeOK
<1>2. LocksAgree'
  <2>1. CASE Free(k)
    <3>1. holder[k] = Nobody /\ holder' = [holder EXCEPT ![k] = o]
      BY <2>1 DEF Begin, Free
    <3>2. op' = [op EXCEPT ![o] = "running"] /\ op[o] = "idle"
      BY <2>1 DEF Begin
    <3>3. tracked' = Active' /\ cancelling' \subseteq tracked'
      BY <3>2 DEF Begin, OperationsInv, TypeOK, LocksAgree, Active
    <3>4. \A p \in Op : op'[p] = "running" <=> holder'[LockOf[p]] = p
      BY <3>1, <3>2, LockTypes DEF OperationsInv, TypeOK, LocksAgree
    <3> QED
      BY <3>1, <3>3, <3>4, LockTypes DEF Begin, OperationsInv, TypeOK, LocksAgree, closeVars
  <2>2. CASE ~Free(k)
    BY <2>2, LockTypes DEF Begin, OperationsInv, TypeOK, LocksAgree, Active, closeVars
  <2> QED
    BY <2>1, <2>2
<1>3. CloseAgrees' /\ QuietBehindTeardown'
  BY DEF Begin, Valid, OperationsInv, CloseAgrees, QuietBehindTeardown, recordVars, closeVars
<1> QED
  BY <1>1, <1>2, <1>3 DEF OperationsInv

LEMMA BeginRefusedInv ==
  ASSUME OperationsInv, NEW o \in Op, BeginRefused(o)
  PROVE  OperationsInv'
<1>1. /\ UNCHANGED <<resources, closeError>>
      /\ \A p \in Op : op'[p] = "running" <=> op[p] = "running"
  BY DEF BeginRefused, OperationsInv, TypeOK
<1>2. CASE registered
  <2>1. StartClose
    BY <1>2 DEF BeginRefused
  <2>2. TypeOK'
    BY <1>1, <2>1, StartCloseInv DEF BeginRefused, OperationsInv, TypeOK, lockVars
  <2> QED
    BY <1>1, <2>1, <2>2, StartCloseInv
    DEF BeginRefused, OperationsInv, TypeOK, LocksAgree, Active, lockVars
<1>3. CASE ~registered
  BY <1>1, <1>3
  DEF BeginRefused, OperationsInv, TypeOK, LocksAgree, Active, CloseAgrees,
      QuietBehindTeardown, recordVars, lockVars
<1> QED
  BY <1>2, <1>3

LEMMA AcquireInv ==
  ASSUME OperationsInv, NEW o \in Op, Acquire(o)
  PROVE  OperationsInv'
<1> DEFINE k == LockOf[o]
<1> k \in Lock /\ o \in Active
  BY LockTypes DEF Acquire, Active
<1>1. CASE Valid
  <2>0. /\ op[o] = "queued" /\ op' = [op EXCEPT ![o] = "running"]
        /\ holder[k] = Nobody /\ holder' = [holder EXCEPT ![k] = o]
        /\ waiting' = [waiting EXCEPT ![k] = Without(@, o)]
        /\ UNCHANGED <<recordVars, safeClose, tracked, cancelling, resources, closeError>>
    BY <1>1 DEF Acquire, Turn
  <2>1. TypeOK'
    <3>1. Without(waiting[k], o) \in Seq(Op \cup {Closer})
      BY WithoutType DEF OperationsInv, TypeOK
    <3>2. waiting' \in [Lock -> Seq(Op \cup {Closer})]
      BY <2>0, <3>1 DEF OperationsInv, TypeOK
    <3> QED
      BY <2>0, <3>2 DEF OperationsInv, TypeOK, recordVars
  <2>2. LocksAgree'
    <3>1. tracked' = Active' /\ cancelling' \subseteq tracked'
      BY <2>0 DEF OperationsInv, TypeOK, LocksAgree, Active
    <3>2. \A p \in Op : op'[p] = "running" <=> holder'[LockOf[p]] = p
      BY <2>0, LockTypes DEF OperationsInv, TypeOK, LocksAgree
    <3> QED
      BY <2>0, <3>1, <3>2, LockTypes DEF OperationsInv, TypeOK, LocksAgree
  <2>3. CloseAgrees' /\ QuietBehindTeardown'
    BY <1>1, <2>0 DEF Valid, OperationsInv, CloseAgrees, QuietBehindTeardown, recordVars
  <2> QED
    BY <2>1, <2>2, <2>3 DEF OperationsInv
<1>2. CASE ~Valid
  <2>1. StartClose /\ Leave(o) /\ UNCHANGED <<resources, closeError>>
    BY <1>2 DEF Acquire
  <2> QED
    BY <2>1, StartCloseInv, LeaveInv DEF OperationsInv, TypeOK
<1> QED
  BY <1>1, <1>2

LEMMA MeetsCrashInv ==
  ASSUME OperationsInv, NEW o \in Op, MeetsCrash(o)
  PROVE  OperationsInv'
<1>1. o \in Active /\ StartClose /\ Leave(o) /\ UNCHANGED <<resources, closeError>>
  BY DEF MeetsCrash, Active
<1> QED
  BY <1>1, StartCloseInv, LeaveInv DEF OperationsInv, TypeOK

\* Finish and Unwind leave the record and its close alone.
LEMMA LeavesInv ==
  ASSUME OperationsInv, NEW o \in Op, o \in Active, Leave(o), UNCHANGED <<recordVars, closeVars>>
  PROVE  OperationsInv'
<1>1. CloseAgrees' /\ QuietBehindTeardown'
  BY LeaveInv DEF OperationsInv, CloseAgrees, QuietBehindTeardown, recordVars, closeVars
<1> QED
  BY <1>1, LeaveInv DEF OperationsInv, TypeOK, recordVars, closeVars

LEMMA InterruptInv ==
  ASSUME OperationsInv, NEW o \in Op, Interrupt(o)
  PROVE  OperationsInv'
BY DEF Interrupt, OperationsInv, TypeOK, LocksAgree, CloseAgrees, QuietBehindTeardown, Active,
       recordVars, lockVars, closeVars

-----------------------------------------------------------------------------
(* What happens to the record *)

LEMMA CrashInv == ASSUME OperationsInv, Crash PROVE OperationsInv'
BY DEF Crash, OperationsInv, TypeOK, LocksAgree, CloseAgrees, QuietBehindTeardown, Active,
       opVars, lockVars, closeVars

\* destroy(), shutdown_all() and the reaper.
LEMMA ClosesInv ==
  ASSUME OperationsInv, StartClose, UNCHANGED <<opVars, lockVars, resources, closeError>>
  PROVE  OperationsInv'
<1>1. LocksAgree'
  BY LocksKept
<1>2. TypeOK' /\ CloseAgrees' /\ QuietBehindTeardown'
  BY StartCloseInv DEF OperationsInv, TypeOK, opVars, lockVars
<1> QED
  BY <1>1, <1>2 DEF OperationsInv

-----------------------------------------------------------------------------
(* _safe_close and _close_resources *)

LEMMA SafeCloseStartsInv == ASSUME OperationsInv, SafeCloseStarts PROVE OperationsInv'
BY DEF SafeCloseStarts, OperationsInv, TypeOK, LocksAgree, CloseAgrees, QuietBehindTeardown,
       Active, recordVars, opVars, lockVars

\* Taking the locks, or one of them and the way into the other.
LEMMA TakeLocksInv ==
  ASSUME OperationsInv, TakeLocks, UNCHANGED <<recordVars, opVars, safeClose, closeError>>,
         resources \in {"scheduled", "wantLock"}, holder["lock"] = Nobody
  PROVE  OperationsInv'
<1> DEFINE Q == Seq(Op \cup {Closer})
<1>1. Without(waiting["lock"], Closer) \in Q /\ Append(waiting["modal_lock"], Closer) \in Q
  BY WithoutType, AppendProperties, LockTypes DEF OperationsInv, TypeOK
<1>2. CASE Free("modal_lock")
  <2>1. TypeOK'
    <3>1. waiting' \in [Lock -> Q]
      BY <1>1, <1>2 DEF TakeLocks, OperationsInv, TypeOK
    <3> QED
      BY <1>2, <3>1 DEF TakeLocks, OperationsInv, TypeOK, recordVars, opVars
  <2>2. LocksAgree'
    <3>1. \A k \in Lock : holder[k] = Nobody
      BY <1>2 DEF Free, Lock
    <3>2. \A o \in Op : op[o] # "running"
      BY <3>1, LockTypes DEF OperationsInv, LocksAgree
    <3> QED
      BY <1>2, <3>2, LockTypes DEF TakeLocks, OperationsInv, LocksAgree, Active, opVars
  <2> QED
    BY <1>2, <2>1, <2>2 DEF TakeLocks, OperationsInv, CloseAgrees, QuietBehindTeardown,
                            recordVars, opVars
<1>3. CASE ~Free("modal_lock")
  <2>1. TypeOK'
    <3>1. waiting' \in [Lock -> Q]
      <4>1. waiting' = [waiting EXCEPT !["lock"] = Without(waiting["lock"], Closer),
                                       !["modal_lock"] = Append(waiting["modal_lock"], Closer)]
        BY <1>3 DEF TakeLocks
      <4>2. waiting \in [Lock -> Q]
        BY DEF OperationsInv, TypeOK
      <4> HIDE DEF Q
      <4> QED
        BY <1>1, <4>1, <4>2
    <3> QED
      BY <1>3, <3>1 DEF TakeLocks, OperationsInv, TypeOK, recordVars, opVars
  <2>2. LocksAgree'
    <3>1. holder' = [holder EXCEPT !["lock"] = Closer]
      BY <1>3 DEF TakeLocks
    <3>2. tracked' = Active' /\ cancelling' \subseteq tracked'
      BY DEF OperationsInv, LocksAgree, Active, opVars
    <3>3. \A o \in Op : op'[o] = "running" <=> holder'[LockOf[o]] = o
      BY <3>1, LockTypes DEF OperationsInv, TypeOK, LocksAgree, opVars
    <3> QED
      BY <1>3, <3>1, <3>2, <3>3, LockTypes DEF TakeLocks, OperationsInv, TypeOK, LocksAgree
  <2> QED
    BY <1>3, <2>1, <2>2 DEF TakeLocks, OperationsInv, CloseAgrees, QuietBehindTeardown,
                            recordVars, opVars
<1> QED
  BY <1>2, <1>3

LEMMA ResourcesStartInv == ASSUME OperationsInv, ResourcesStart PROVE OperationsInv'
<1>1. CASE Free("lock")
  BY <1>1, TakeLocksInv DEF ResourcesStart, Free
<1>2. CASE ~Free("lock")
  <2>1. Append(waiting["lock"], Closer) \in Seq(Op \cup {Closer})
    BY AppendProperties, LockTypes DEF OperationsInv, TypeOK
  <2>2. waiting' \in [Lock -> Seq(Op \cup {Closer})]
    BY <1>2, <2>1 DEF ResourcesStart, OperationsInv, TypeOK
  <2>3. TypeOK'
    BY <1>2, <2>2 DEF ResourcesStart, OperationsInv, TypeOK, recordVars, opVars
  <2> QED
    BY <1>2, <2>3 DEF ResourcesStart, OperationsInv, LocksAgree, CloseAgrees,
                      QuietBehindTeardown, Active, recordVars, opVars
<1> QED
  BY <1>1, <1>2

LEMMA ResourcesGetLockInv == ASSUME OperationsInv, ResourcesGetLock PROVE OperationsInv'
BY TakeLocksInv DEF ResourcesGetLock, Turn

LEMMA ResourcesGetModalInv == ASSUME OperationsInv, ResourcesGetModal PROVE OperationsInv'
<1>1. Without(waiting["modal_lock"], Closer) \in Seq(Op \cup {Closer})
  BY WithoutType, LockTypes DEF OperationsInv, TypeOK
<1>2. TypeOK'
  <2>1. /\ waiting' \in [Lock -> Seq(Op \cup {Closer})]
        /\ holder' \in [Lock -> Op \cup {Closer, Nobody}]
    BY <1>1 DEF ResourcesGetModal, OperationsInv, TypeOK
  <2> QED
    BY <2>1 DEF ResourcesGetModal, OperationsInv, TypeOK, recordVars, opVars
<1>3. LocksAgree'
  <2>1. holder["modal_lock"] = Nobody /\ holder' = [holder EXCEPT !["modal_lock"] = Closer]
    BY DEF ResourcesGetModal, Turn
  <2>2. tracked' = Active' /\ cancelling' \subseteq tracked'
    BY DEF ResourcesGetModal, OperationsInv, LocksAgree, Active, opVars
  <2>3. \A o \in Op : op'[o] = "running" <=> holder'[LockOf[o]] = o
    BY <2>1, LockTypes DEF ResourcesGetModal, OperationsInv, TypeOK, LocksAgree, opVars
  <2> QED
    BY <2>1, <2>2, <2>3, LockTypes DEF ResourcesGetModal, OperationsInv, TypeOK, LocksAgree
<1> QED
  BY <1>2, <1>3 DEF ResourcesGetModal, OperationsInv, CloseAgrees, QuietBehindTeardown,
                    recordVars, opVars

\* The end of the teardown: no operation runs if both locks were held.
LEMMA ResourcesEndInv ==
  ASSUME OperationsInv, ResourcesEnd, closeError' \in BOOLEAN, closeError => closeError',
         \/ resources = "teardown"
         \/ safeClose = "ended" /\ resources # "ended" /\ closeError' = closeError
  PROVE  OperationsInv'
<1>1. TypeOK'
  <2>1. waiting' \in [Lock -> Seq(Op \cup {Closer})]
    BY WithoutType DEF ResourcesEnd, OperationsInv, TypeOK
  <2> QED
    BY <2>1 DEF ResourcesEnd, OperationsInv, TypeOK, recordVars, opVars
<1>2. LocksAgree'
  BY LockTypes DEF ResourcesEnd, OperationsInv, TypeOK, LocksAgree, Active, opVars
<1>3. CloseAgrees'
  BY DEF ResourcesEnd, OperationsInv, TypeOK, CloseAgrees, recordVars
<1>4. QuietBehindTeardown'
  <2>1. CASE resources = "teardown"
    <3>1. \A k \in Lock : holder[k] = Closer
      BY <2>1 DEF OperationsInv, LocksAgree, Lock
    <3> QED
      BY <3>1, LockTypes DEF ResourcesEnd, OperationsInv, LocksAgree, QuietBehindTeardown, opVars
  <2>2. CASE safeClose = "ended" /\ resources # "ended"
    BY <2>2 DEF ResourcesEnd, OperationsInv, CloseAgrees, QuietBehindTeardown, recordVars
  <2> QED
    BY <2>1, <2>2
<1> QED
  BY <1>1, <1>2, <1>3, <1>4 DEF OperationsInv

LEMMA TeardownEndsInv ==
  ASSUME OperationsInv, TeardownSucceeds \/ TeardownFails \/ ResourcesCancelled
  PROVE  OperationsInv'
<1>1. CASE TeardownSucceeds
  BY <1>1, ResourcesEndInv DEF TeardownSucceeds, OperationsInv, TypeOK
<1>2. CASE TeardownFails
  BY <1>2, ResourcesEndInv DEF TeardownFails
<1>3. CASE ResourcesCancelled
  BY <1>3, ResourcesEndInv DEF ResourcesCancelled, OperationsInv, TypeOK
<1> QED
  BY <1>1, <1>2, <1>3

LEMMA CancelsOperationsInv == ASSUME OperationsInv, CancelsOperations PROVE OperationsInv'
BY DEF CancelsOperations, OperationsInv, TypeOK, LocksAgree, CloseAgrees, QuietBehindTeardown,
       Active, recordVars, lockVars

LEMMA SafeCloseEndsInv == ASSUME OperationsInv, SafeCloseEnds PROVE OperationsInv'
<1>1. LocksAgree'
  BY LocksKept DEF SafeCloseEnds
<1>2. TypeOK' /\ CloseAgrees' /\ QuietBehindTeardown'
  BY DEF SafeCloseEnds, OperationsInv, TypeOK, CloseAgrees, QuietBehindTeardown, opVars, lockVars
<1> QED
  BY <1>1, <1>2 DEF OperationsInv

LEMMA GivesUpInv == ASSUME OperationsInv, GivesUp PROVE OperationsInv'
<1>1. LocksAgree'
  BY LocksKept DEF GivesUp
<1>2. TypeOK' /\ CloseAgrees' /\ QuietBehindTeardown'
  BY DEF GivesUp, OperationsInv, TypeOK, CloseAgrees, QuietBehindTeardown, opVars, lockVars
<1> QED
  BY <1>1, <1>2 DEF OperationsInv

-----------------------------------------------------------------------------
(* The inductive invariant *)

LEMMA NextInv == OperationsInv /\ [Next]_vars => OperationsInv'
<1> SUFFICES ASSUME OperationsInv, [Next]_vars PROVE OperationsInv'
  OBVIOUS
<1>1. ASSUME NEW o \in Op, ToolCall(o) PROVE OperationsInv'
  <2>1. CASE Begin(o)
    BY <2>1, BeginInv
  <2>2. CASE BeginRefused(o)
    BY <2>2, BeginRefusedInv
  <2>3. CASE Acquire(o)
    BY <2>3, AcquireInv
  <2>4. CASE MeetsCrash(o)
    BY <2>4, MeetsCrashInv
  <2>5. CASE Finish(o)
    BY <2>5, LeavesInv DEF Finish, Active
  <2>6. CASE Interrupt(o)
    BY <2>6, InterruptInv
  <2>7. CASE Unwind(o)
    BY <2>7, LeavesInv DEF Unwind, OperationsInv, LocksAgree
  <2> QED
    BY <1>1, <2>1, <2>2, <2>3, <2>4, <2>5, <2>6, <2>7 DEF ToolCall
<1>2. CASE Crash
  BY <1>2, CrashInv
<1>3. CASE Destroy \/ Reap
  BY <1>3, ClosesInv DEF Destroy, Reap
<1>4. CASE Resources
  BY <1>4, ResourcesStartInv, ResourcesGetLockInv, ResourcesGetModalInv, TeardownEndsInv
  DEF Resources
<1>5. CASE SafeClose
  BY <1>5, SafeCloseStartsInv, CancelsOperationsInv, SafeCloseEndsInv, GivesUpInv DEF SafeClose
<1>6. CASE UNCHANGED vars
  BY <1>6 DEF vars, recordVars, opVars, lockVars, closeVars, OperationsInv, TypeOK, LocksAgree,
              CloseAgrees, QuietBehindTeardown, Active
<1> QED
  BY <1>1, <1>2, <1>3, <1>4, <1>5, <1>6 DEF Next
\* The inductive invariant holds in every reachable state, for all sets of
\* tool calls: locks, tracked tasks and the close agree.  (_operation,
\* _start_close, _safe_close, _close_resources)
THEOREM OperationsInvariant == Spec => []OperationsInv
<1>1. Init => OperationsInv
  BY InitInv
<1>2. OperationsInv /\ [Next]_vars => OperationsInv'
  BY NextInv
<1> QED
  BY <1>1, <1>2, PTL DEF Spec

-----------------------------------------------------------------------------
(* The safety properties *)

\* No operation body, of either lock, runs while the exit stack of the browser
\* is torn down.  (_close_resources)
THEOREM Exclusive == Spec => []TeardownExclusive
<1>1. ASSUME OperationsInv, resources = "teardown", NEW o \in Op PROVE op[o] # "running"
  <2>1. \A k \in Lock : holder[k] = Closer
    BY <1>1 DEF OperationsInv, LocksAgree, Lock
  <2> QED
    BY <1>1, <2>1, LockTypes DEF OperationsInv, LocksAgree
<1>2. OperationsInv => TeardownExclusive
  BY <1>1 DEF TeardownExclusive
<1> QED
  BY <1>2, OperationsInvariant, PTL

\* A running operation finds its own record by name until it ends: in _instances,
\* or in _retired as one of operation_tasks.  (InstanceManager.get)
THEOREM Resolves == Spec => []ResolvesOwnRecord
<1>1. ASSUME OperationsInv, NEW o \in Op, op[o] = "running", ~registered
      PROVE  retired /\ o \in tracked
  <2>1. o \in tracked
    BY <1>1 DEF OperationsInv, LocksAgree, Active
  <2>2. safeClose = "ended" => closeError
    <3>1. safeClose # "none" /\ status \notin {"live", "crashed"}
      BY <1>1 DEF OperationsInv, CloseAgrees
    <3>2. ASSUME safeClose = "ended", ~closeError PROVE FALSE
      <4>1. status # "close_failed" /\ resources = "ended"
        BY <1>1, <3>2 DEF OperationsInv, CloseAgrees
      <4>2. status = "closing"
        BY <1>1, <3>1, <4>1 DEF OperationsInv, TypeOK
      <4> QED
        BY <1>1, <4>1, <4>2 DEF OperationsInv, QuietBehindTeardown
    <3> QED
      BY <3>2
  <2> QED
    BY <1>1, <2>1, <2>2 DEF OperationsInv, CloseAgrees
<1>2. OperationsInv => ResolvesOwnRecord
  BY <1>1 DEF ResolvesOwnRecord
<1> QED
  BY <1>2, OperationsInvariant, PTL

\* No body starts on a record that was closed or crashed while its call waited
\* for the lock.  (_validate_record)
THEOREM StartsLive == Spec => StartsOnlyLive
<1>1. ASSUME OperationsInv, [Next]_vars, NEW o \in Op, op[o] # "running", op'[o] = "running"
      PROVE  status = "live" /\ registered
  <2>1. ASSUME NEW p \in Op, ToolCall(p) PROVE Valid
    <3>1. CASE Begin(p)
      BY <3>1 DEF Begin
    <3>2. CASE Acquire(p)
      BY <1>1, <3>2 DEF Acquire, Leave, OperationsInv, TypeOK
    <3>3. CASE BeginRefused(p)
      BY <1>1, <3>3 DEF BeginRefused, OperationsInv, TypeOK
    <3>4. CASE MeetsCrash(p) \/ Finish(p) \/ Unwind(p)
      BY <1>1, <3>4 DEF MeetsCrash, Finish, Unwind, Leave, OperationsInv, TypeOK
    <3>5. CASE Interrupt(p)
      BY <1>1, <3>5 DEF Interrupt
    <3> QED
      BY <2>1, <3>1, <3>2, <3>3, <3>4, <3>5 DEF ToolCall
  <2>2. CASE Crash \/ Destroy \/ Reap \/ Resources \/ SafeClose
    <3>1. UNCHANGED op
      BY <2>2 DEF Crash, Destroy, Reap, Resources, ResourcesStart, ResourcesGetLock,
                  ResourcesGetModal, TeardownSucceeds, TeardownFails, ResourcesCancelled,
                  ResourcesEnd, SafeClose, SafeCloseStarts, CancelsOperations, SafeCloseEnds,
                  GivesUp, opVars
    <3> QED
      BY <1>1, <3>1
  <2>3. CASE UNCHANGED vars
    BY <1>1, <2>3 DEF vars, opVars
  <2> QED
    BY <1>1, <2>1, <2>2, <2>3 DEF Next, Valid
<1>2. OperationsInv /\ [Next]_vars =>
        [\A o \in Op : op[o] # "running" /\ op'[o] = "running"
           => status = "live" /\ registered]_vars
  BY <1>1
<1> QED
  BY <1>2, OperationsInvariant, PTL DEF Spec, StartsOnlyLive

-----------------------------------------------------------------------------
(* The refinement of OperationGate *)

\* A step of the record keeps the phase of the gate, or shuts it.
LEMMA StartCloseShuts ==
  ASSUME OperationsInv, StartClose, UNCHANGED resources
  PROVE  \/ Phase' = Phase
         \/ Phase = "open" /\ Phase' = "draining"
<1>1. CASE safeClose = "none"
  BY <1>1 DEF StartClose, OperationsInv, CloseAgrees, Phase
<1>2. CASE safeClose # "none"
  BY <1>2 DEF StartClose, recordVars, Phase
<1> QED
  BY <1>1, <1>2

LEMMA ToolCallImplements ==
  ASSUME OperationsInv, NEW o \in Op, ToolCall(o)
  PROVE  Gate!Next \/ UNCHANGED <<Phase, Running>>
<1>1. ASSUME Valid, op' = [op EXCEPT ![o] = "running"], holder[LockOf[o]] = Nobody,
             UNCHANGED <<recordVars, resources>>
      PROVE  Gate!Enter(o)
  <2>1. Phase = "open" /\ Phase' = Phase
    BY <1>1 DEF Valid, Phase, recordVars
  <2>2. \A p \in Running : LockOf[p] # LockOf[o]
    BY <1>1, LockTypes DEF OperationsInv, LocksAgree, Running
  <2>3. Running' = Running \cup {o}
    BY <1>1 DEF OperationsInv, TypeOK, Running
  <2> QED
    BY <2>1, <2>2, <2>3 DEF Gate!Enter
<1>2. ASSUME Leave(o) PROVE Running' = Running \ {o}
  BY <1>2 DEF Leave, OperationsInv, TypeOK, Running
<1>3. CASE Begin(o)
  <2>1. CASE Free(LockOf[o])
    BY <1>1, <1>3, <2>1 DEF Begin, Free, closeVars, Gate!Next
  <2>2. CASE ~Free(LockOf[o])
    <3>1. Running' = Running
      BY <1>3, <2>2 DEF Begin, OperationsInv, TypeOK, Running
    <3> QED
      BY <1>3, <3>1 DEF Begin, recordVars, closeVars, Phase
  <2> QED
    BY <2>1, <2>2
<1>4. CASE BeginRefused(o)
  <2>1. Running' = Running
    BY <1>4 DEF BeginRefused, OperationsInv, TypeOK, Running
  <2>2. CASE registered
    BY <1>4, <2>1, <2>2, StartCloseShuts DEF BeginRefused, Gate!Next, Gate!Shut
  <2>3. CASE ~registered
    BY <1>4, <2>1, <2>3 DEF BeginRefused, recordVars, Phase
  <2> QED
    BY <2>2, <2>3
<1>5. CASE Acquire(o)
  <2>1. CASE Valid
    <3>1. op' = [op EXCEPT ![o] = "running"] /\ holder[LockOf[o]] = Nobody
          /\ UNCHANGED <<recordVars, resources>>
      BY <1>5, <2>1 DEF Acquire, Turn
    <3> QED
      BY <1>1, <2>1, <3>1 DEF Gate!Next
  <2>2. CASE ~Valid
    <3>1. StartClose /\ Leave(o) /\ UNCHANGED resources /\ o \notin Running
      BY <1>5, <2>2 DEF Acquire, Running
    <3>2. Running' = Running
      BY <1>2, <3>1
    <3> QED
      BY <3>1, <3>2, StartCloseShuts DEF Gate!Next, Gate!Shut
  <2> QED
    BY <2>1, <2>2
<1>6. CASE MeetsCrash(o)
  <2>1. o \in Running /\ Running' = Running \ {o} /\ StartClose /\ UNCHANGED resources
    BY <1>2, <1>6 DEF MeetsCrash, Running
  <2> QED
    BY <2>1, StartCloseShuts DEF Gate!Next, Gate!Leave, Gate!LeaveAndShut
<1>7. CASE Finish(o) \/ Unwind(o)
  <2>1. Running' = Running \ {o} /\ Phase' = Phase
    BY <1>2, <1>7 DEF Finish, Unwind, recordVars, closeVars, Phase
  <2>2. CASE o \in Running
    BY <2>1, <2>2 DEF Gate!Next, Gate!Leave
  <2>3. CASE o \notin Running
    BY <2>1, <2>3
  <2> QED
    BY <2>2, <2>3
<1>8. CASE Interrupt(o)
  BY <1>8 DEF Interrupt, recordVars, closeVars, Phase, Running
<1> QED
  BY <1>3, <1>4, <1>5, <1>6, <1>7, <1>8 DEF ToolCall

\* The task _close_resources gets behind the last operation, or is too late.
LEMMA ResourcesImplement ==
  ASSUME OperationsInv, Resources
  PROVE  Gate!Next \/ UNCHANGED <<Phase, Running>>
<1>1. Running' = Running /\ UNCHANGED recordVars
  BY DEF Resources, ResourcesStart, ResourcesGetLock, ResourcesGetModal, TeardownSucceeds,
         TeardownFails, ResourcesCancelled, ResourcesEnd, opVars, Running
<1>2. ASSUME resources' = "teardown", resources # "none",
             \A k \in Lock : holder[k] \in {Nobody, Closer}
      PROVE  Gate!Next \/ UNCHANGED <<Phase, Running>>
  <2>1. Running = {}
    BY <1>2, LockTypes DEF OperationsInv, LocksAgree, Running
  <2> QED
    BY <1>1, <1>2, <2>1 DEF Phase, recordVars, Gate!Next, Gate!TearDown
<1>3. ASSUME TakeLocks, holder["lock"] = Nobody, resources \in {"scheduled", "wantLock"}
      PROVE  Gate!Next \/ UNCHANGED <<Phase, Running>>
  <2>1. CASE Free("modal_lock")
    BY <1>2, <1>3, <2>1 DEF TakeLocks, Free, Lock
  <2>2. CASE ~Free("modal_lock")
    <3>1. resources' = "wantModal" /\ resources \notin {"teardown", "ended"}
      BY <1>3, <2>2 DEF TakeLocks
    <3> QED
      BY <1>1, <3>1 DEF Phase, recordVars
  <2> QED
    BY <2>1, <2>2
<1>4. CASE ResourcesStart
  <2>1. CASE Free("lock")
    BY <1>3, <1>4, <2>1 DEF ResourcesStart, Free
  <2>2. CASE ~Free("lock")
    BY <1>1, <1>4, <2>2 DEF ResourcesStart, Phase, recordVars
  <2> QED
    BY <2>1, <2>2
<1>5. CASE ResourcesGetLock
  BY <1>3, <1>5 DEF ResourcesGetLock, Turn
<1>6. CASE ResourcesGetModal
  BY <1>2, <1>6 DEF ResourcesGetModal, Turn, OperationsInv, LocksAgree, Lock
<1>7. CASE TeardownSucceeds \/ TeardownFails
  BY <1>1, <1>7 DEF TeardownSucceeds, TeardownFails, ResourcesEnd, Phase, recordVars
<1>8. CASE ResourcesCancelled
  BY <1>1, <1>8 DEF ResourcesCancelled, OperationsInv, CloseAgrees, Phase, recordVars
<1> QED
  BY <1>4, <1>5, <1>6, <1>7, <1>8 DEF Resources

LEMMA SafeCloseImplements ==
  ASSUME OperationsInv, SafeClose
  PROVE  Gate!Next \/ UNCHANGED <<Phase, Running>>
<1>1. Running' = Running
  BY DEF SafeClose, SafeCloseStarts, CancelsOperations, SafeCloseEnds, GivesUp, opVars, Running
<1>2. CASE SafeCloseStarts
  BY <1>1, <1>2 DEF SafeCloseStarts, OperationsInv, CloseAgrees, Phase, recordVars
<1>3. CASE CancelsOperations
  BY <1>1, <1>3 DEF CancelsOperations, Phase, recordVars
<1>4. CASE SafeCloseEnds
  <2>1. Phase = "tearing" /\ Phase' \in {"failed", "closed"}
    BY <1>4 DEF SafeCloseEnds, OperationsInv, TypeOK, CloseAgrees, Phase
  <2> QED
    BY <1>1, <2>1 DEF Gate!Next, Gate!Fail, Gate!Close
<1>5. CASE GivesUp
  <2>1. Phase \in {"draining", "tearing"} /\ Phase' = "failed"
    BY <1>5 DEF GivesUp, OperationsInv, TypeOK, CloseAgrees, Phase
  <2> QED
    BY <1>1, <2>1 DEF Gate!Next, Gate!Fail
<1> QED
  BY <1>2, <1>3, <1>4, <1>5 DEF SafeClose

LEMMA StepImplements ==
  ASSUME OperationsInv, [Next]_vars
  PROVE  [Gate!Next]_<<Phase, Running>>
<1>1. CASE Crash
  BY <1>1 DEF Crash, OperationsInv, CloseAgrees, opVars, closeVars, Phase, Running
<1>2. CASE Destroy \/ Reap
  <2>1. StartClose /\ UNCHANGED resources /\ Running' = Running
    BY <1>2 DEF Destroy, Reap, opVars, Running
  <2> QED
    BY <2>1, StartCloseShuts DEF Gate!Next, Gate!Shut
<1>3. CASE UNCHANGED vars
  BY <1>3 DEF vars, recordVars, opVars, closeVars, Phase, Running
<1> QED
  BY <1>1, <1>2, <1>3, ToolCallImplements, ResourcesImplement, SafeCloseImplements DEF Next

\* The two locks, operation_tasks and the two-phase close behave as one gate: it
\* is shut once, nothing enters it afterwards, and unless the close is given up
\* the browser is torn down behind the last operation.
THEOREM Implementation == Spec => ImplementsGate
<1>1. Init => Gate!Init
  BY DEF Init, Gate!Init, Phase, Running
<1>2. OperationsInv /\ [Next]_vars => [Gate!Next]_<<Phase, Running>>
  BY StepImplements
<1> QED
  BY <1>1, <1>2, OperationsInvariant, PTL DEF Spec, ImplementsGate, Gate!Spec
=============================================================================
