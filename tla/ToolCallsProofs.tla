--------------------------- MODULE ToolCallsProofs ---------------------------
(***************************************************************************)
(* Proofs about ToolCalls, for every set of calls and all tools whose      *)
(* bodies respect BodiesAssumption: what a call reports of itself is so,   *)
(* wherever the browser fails, whatever event arrives when and wherever    *)
(* the call is interrupted.                                                *)
(***************************************************************************)
EXTENDS ToolCalls, SequenceTheorems, FiniteSetTheorems, NaturalsInduction, WellFoundedInduction, TLAPS

-----------------------------------------------------------------------------
(* The steps that are left of a path *)

\* t is what is left of s after its first k steps.
Left(s, t, k) ==
  /\ k \in Nat /\ Len(s) \in Nat /\ Len(t) \in Nat /\ Len(s) = Len(t) + k
  /\ DOMAIN s = 1 .. Len(s) /\ DOMAIN t = 1 .. Len(t)
  /\ \A i \in 1 .. Len(t) : t[i] = s[k + i]

LEMMA SubSeqLeft ==
  ASSUME NEW s \in Seq(Steps), NEW k \in 0 .. Len(s)
  PROVE  SubSeq(s, k + 1, Len(s)) \in Seq(Steps) /\ Left(s, SubSeq(s, k + 1, Len(s)), k)
<1> DEFINE t == SubSeq(s, k + 1, Len(s))
<1>1. Len(s) \in Nat /\ DOMAIN s = 1 .. Len(s) /\ \A i \in 1 .. Len(s) : s[i] \in Steps
  BY LenProperties, ElementOfSeq
<1>2. \A i \in k + 1 .. Len(s) : s[i] \in Steps
  BY <1>1
<1>3. /\ t \in Seq(Steps)
      /\ Len(t) = IF k + 1 <= Len(s) THEN Len(s) - (k + 1) + 1 ELSE 0
      /\ \A i \in 1 .. Len(s) - (k + 1) + 1 : t[i] = s[k + 1 + i - 1]
  BY <1>1, <1>2, SubSeqProperties
<1> HIDE DEF t
<1>4. Len(t) = Len(s) - k /\ Len(s) - (k + 1) + 1 = Len(s) - k
  <2>0. Len(s) \in Nat /\ k \in Nat /\ k <= Len(s)
    BY <1>1
  <2>1. Len(s) - (k + 1) + 1 = Len(s) - k
    BY <2>0
  <2>2. ~(k + 1 <= Len(s)) => Len(s) - k = 0
    BY <2>0
  <2>3. Len(t) = IF k + 1 <= Len(s) THEN Len(s) - (k + 1) + 1 ELSE 0
    BY <1>3
  <2>4. Len(t) = Len(s) - k
    BY <2>0, <2>1, <2>2, <2>3
  <2> QED
    BY <2>1, <2>4
<1>6. DOMAIN t = 1 .. Len(t)
  BY <1>3, LenProperties
<1>5. ASSUME NEW i \in 1 .. Len(t) PROVE t[i] = s[k + i]
  <2>1. k + 1 + i - 1 = k + i
    BY <1>1
  <2> QED
    BY <1>3, <1>4, <2>1
<1>7. k \in Nat /\ Len(t) \in Nat /\ Len(s) = Len(t) + k
  BY <1>1, <1>4
<1> QED
  BY <1>1, <1>3, <1>5, <1>6, <1>7 DEF Left, t

LEMMA TailLeft ==
  ASSUME NEW s \in Seq(Steps), s # <<>>
  PROVE  /\ Tail(s) \in Seq(Steps) /\ Left(s, Tail(s), 1)
         /\ Head(s) = s[1] /\ 1 \in DOMAIN s /\ Head(s) \in Steps
<1>1. Len(s) \in Nat /\ Len(s) # 0 /\ DOMAIN s = 1 .. Len(s)
  BY EmptySeq, LenProperties
<1>2. /\ Head(s) = s[1] /\ Head(s) \in Steps /\ Tail(s) \in Seq(Steps) /\ Len(Tail(s)) = Len(s) - 1
      /\ \A i \in 1 .. Len(Tail(s)) : Tail(s)[i] = s[i + 1]
  BY HeadTailProperties, ElementOfSeq
<1>3. DOMAIN Tail(s) = 1 .. Len(Tail(s))
  BY <1>2, LenProperties
<1>4. \A i \in 1 .. Len(Tail(s)) : i + 1 = 1 + i
  BY <1>1, <1>2
<1> QED
  BY <1>1, <1>2, <1>3, <1>4 DEF Left

LEMMA WaitsOnceLeft ==
  ASSUME NEW s, NEW t, NEW k, Left(s, t, k), WaitsOnce(s)
  PROVE  WaitsOnce(t)
<1> SUFFICES ASSUME NEW i \in DOMAIN t, NEW j \in DOMAIN t, t[i] \in WaitSteps, t[j] \in WaitSteps
             PROVE  i = j
  BY DEF WaitsOnce
<1>1. /\ k + i \in DOMAIN s /\ t[i] = s[k + i] /\ i \in Nat /\ k \in Nat
      /\ k + j \in DOMAIN s /\ t[j] = s[k + j] /\ j \in Nat
  BY DEF Left
<1>2. k + i = k + j
  BY <1>1 DEF WaitsOnce
<1> QED
  BY <1>1, <1>2

\* The conditions on a path carry over to what is left of it.
LEMMA ActsLateLeft ==
  ASSUME NEW s, NEW t, NEW k, Left(s, t, k), ActsLate(s),
         \A i \in 1 .. k : s[i] \notin LockSteps \cup {"mark"}
  PROVE  ActsLate(t)
<1> SUFFICES ASSUME NEW i \in DOMAIN t, t[i] \in {"page", "tab", "input", "press", "consume"}
             PROVE  \E j \in 1 .. i - 1 : t[j] \in LockSteps \cup {"mark"}
  BY DEF ActsLate
<1>1. k + i \in DOMAIN s /\ s[k + i] = t[i] /\ i \in Nat /\ k \in Nat
  BY DEF Left
<1>2. PICK j \in 1 .. k + i - 1 : s[j] \in LockSteps \cup {"mark"}
  BY <1>1 DEF ActsLate
<1>3. j - k \in 1 .. i - 1 /\ k + (j - k) = j
  BY <1>1, <1>2
<1>4. j - k \in 1 .. Len(t)
  BY <1>1, <1>3 DEF Left
<1> QED
  BY <1>2, <1>3, <1>4 DEF Left

LEMMA OnlyReadsLeft ==
  ASSUME NEW s, NEW t, NEW k, Left(s, t, k), OnlyReads(s)
  PROVE  OnlyReads(t)
<1>1. \A i \in DOMAIN t : k + i \in DOMAIN s /\ t[i] = s[k + i]
  BY DEF Left
<1> QED
  BY <1>1 DEF OnlyReads, Range

LEMMA RangeLeft ==
  ASSUME NEW s, NEW t, NEW k, Left(s, t, k)
  PROVE  Range(t) \subseteq Range(s)
<1>1. \A i \in DOMAIN t : k + i \in DOMAIN s /\ t[i] = s[k + i]
  BY DEF Left
<1> QED
  BY <1>1 DEF Range

LEMMA ObservesLeft ==
  ASSUME NEW s, NEW t, NEW k, Left(s, t, k), ObservesAction(s), \A i \in 1 .. k : s[i] # "arm"
  PROVE  ObservesAction(t)
<1>0. \A i \in DOMAIN t : k + i \in DOMAIN s /\ t[i] = s[k + i] /\ i \in Nat /\ i >= 1
  BY DEF Left
<1>1. \A i, j \in DOMAIN t : t[i] = "arm" /\ t[j] = "arm" => i = j
  <2> SUFFICES ASSUME NEW i \in DOMAIN t, NEW j \in DOMAIN t, t[i] = "arm", t[j] = "arm" PROVE i = j
    OBVIOUS
  <2>1. k + i = k + j
    BY <1>0 DEF ObservesAction
  <2> QED
    BY <1>0, <2>1 DEF Left
<1>2. ASSUME NEW i \in DOMAIN t, t[i] = "arm"
      PROVE  \E j \in DOMAIN t : i < j /\ t[j] \in WaitSteps
  <2>1. PICK j \in DOMAIN s : k + i < j /\ s[j] \in WaitSteps
    BY <1>0, <1>2 DEF ObservesAction
  <2>2. j - k \in DOMAIN t /\ i < j - k /\ k + (j - k) = j
    BY <1>0, <2>1 DEF Left
  <2> QED
    BY <1>0, <2>1, <2>2
<1>3. ASSUME NEW i \in DOMAIN t, NEW j \in DOMAIN t, i < j, t[i] \in {"input", "press"}, t[j] \in WaitSteps
      PROVE  \E m \in 1 .. i - 1 : t[m] = "arm"
  <2>1. k + i < k + j /\ k \in Nat
    BY <1>0, <1>3 DEF Left
  <2>2. PICK m \in 1 .. k + i - 1 : s[m] = "arm"
    BY <1>0, <1>3, <2>1 DEF ObservesAction
  <2>3. m - k \in 1 .. i - 1 /\ k + (m - k) = m
    BY <1>0, <2>1, <2>2
  <2>4. m - k \in 1 .. Len(t)
    BY <2>3 DEF Left
  <2> QED
    BY <2>2, <2>3, <2>4 DEF Left
<1> QED
  BY <1>1, <1>2, <1>3 DEF ObservesAction

-----------------------------------------------------------------------------
(* What becomes of a call *)

Fields == {"state", "rest", "holds", "readOnly", "started", "written", "result", "observer",
           "failure", "cancels", "shaken", "release", "did", "acted", "waits", "event", "reply"}

\* A call between two awaits.
Moving(r) ==
  /\ DOMAIN r = Fields /\ r.state = "running" /\ r.rest \in Seq(Steps) /\ r.holds \subseteq LockSteps
  /\ r.readOnly \in BOOLEAN /\ r.started \in BOOLEAN /\ r.written \in BOOLEAN /\ r.result \in BOOLEAN
  /\ r.shaken \in BOOLEAN /\ r.release \in BOOLEAN /\ r.acted \in BOOLEAN
  /\ r.observer \in {"off", "armed", "matched", "failed"}
  /\ r.failure \in {"none", "error", "unobserved", "terminated", "interrupted"}
  /\ r.cancels \subseteq Interruptions
  /\ r.waits \in WaitSteps \cup {"none"}
  /\ r.event \in {"none", "matched", "failed"}
  /\ r.reply = NoReply
  /\ Agrees(r)

CallInv(r) ==
  /\ IsCall(r) /\ Agrees(r)
  /\ r.state = "idle" => r.reply = NoReply /\ ~r.release
  /\ r.state = "running" => Running(r)
  /\ r.state = "over" => Over(r)

LEMMA FieldsOfCall == DOMAIN NewCall("", <<>>) = Fields
BY DEF NewCall, Fields

\* A call that awaits a step.
LEMMA Awaiting ==
  ASSUME NEW r, Moving(r), r.rest # <<>>, Head(r.rest) \notin SyncSteps, Running(r)
  PROVE  CallInv(r)
BY FieldsOfCall DEF Moving, CallInv, IsCall

LEMMA ReplyDepends ==
  ASSUME NEW r, NEW n, n.failure = r.failure, n.cancels = r.cancels, n.started = r.started,
         n.readOnly = r.readOnly, n.written = r.written, n.observer = r.observer, n.result = r.result
  PROVE  Replies(n) = Replies(r)
<1>1. Outcome(n) = Outcome(r) /\ Retry(n) = Retry(r) /\ Completed(n) = Completed(r)
  BY DEF Outcome, Retry, Completed
<1> QED
  BY <1>1 DEF Replies

LEMMA EndInv ==
  ASSUME NEW r, Moving(r),
         r.failure = "none" /\ r.observer # "off" => r.acted /\ r.event # "failed",
         r.release => Cardinality(r.cancels \ {"client"}) >= 2,
         NEW n \in End(r)
  PROVE  CallInv(n)
<1>1. PICK reply \in Replies(r) :
        n = [r EXCEPT !.state = "over", !.rest = <<>>, !.holds = {}, !.reply = reply]
  BY DEF End
<1>2. /\ DOMAIN n = Fields /\ n.state = "over" /\ n.rest = <<>> /\ n.holds = {} /\ n.reply = reply
      /\ n.readOnly = r.readOnly /\ n.started = r.started /\ n.written = r.written
      /\ n.result = r.result /\ n.observer = r.observer /\ n.failure = r.failure
      /\ n.cancels = r.cancels /\ n.shaken = r.shaken /\ n.release = r.release /\ n.did = r.did
      /\ n.acted = r.acted /\ n.waits = r.waits /\ n.event = r.event
  BY <1>1 DEF Moving, Fields
<1>3. IsCall(n)
  BY <1>2, EmptySeq, FieldsOfCall DEF Moving, IsCall
<1>4. Agrees(n)
  BY <1>2 DEF Moving, Agrees
<1>5. Over(n)
  BY <1>2, ReplyDepends DEF Over
<1> QED
  BY <1>2, <1>3, <1>4, <1>5 DEF CallInv

\* A call that has just failed.
LEMMA FailInv ==
  ASSUME NEW r, Moving(r), r.rest # <<>>,
         NEW why \in {"error", "unobserved", "terminated", "interrupted"},
         why \in {"unobserved", "terminated"} => r.acted, why = "terminated" => r.event # "matched",
         why = "unobserved" => r.event = "none" \/ (r.waits = "expect" /\ r.event = "failed"),
         r.release => Cardinality(r.cancels \ {"client"}) >= 2,
         NEW n \in Fail(r, why)
  PROVE  CallInv(n)
<1> DEFINE failing == [r EXCEPT !.failure = why]
           owed == Owed(r.rest)
<1>1. /\ Moving(failing) /\ failing.failure = why
      /\ failing.release = r.release /\ failing.cancels = r.cancels
  BY DEF Moving, Agrees, Fields
<1>2. owed \in {<<>>, <<"release">>, <<"closeTab">>, <<"discardTab">>}
  BY DEF Owed
<1>3. CASE owed = <<>>
  <2>1. n \in End(failing)
    BY <1>3 DEF Fail
  <2> HIDE DEF failing
  <2> QED
    BY <1>1, <2>1, EndInv
<1>4. CASE owed # <<>>
  <2>1. n = [failing EXCEPT !.rest = owed, !.release = (owed = <<"release">>)]
    BY <1>4 DEF Fail
  <2>2. PICK step \in {"release", "closeTab", "discardTab"} : owed = <<step>>
    BY <1>2, <1>4
  <2>3. /\ owed \in Seq(Steps) /\ owed # <<>> /\ Head(owed) = step
        /\ step = "release" <=> owed = <<"release">>
    BY <2>2 DEF Steps, CleanupSteps
  <2> HIDE DEF failing, owed
  <2>4. /\ DOMAIN n = Fields /\ n.rest = owed /\ n.release = (owed = <<"release">>)
        /\ n.state = "running" /\ n.holds = failing.holds /\ n.reply = failing.reply
        /\ n.readOnly = failing.readOnly /\ n.started = failing.started /\ n.written = failing.written
        /\ n.result = failing.result /\ n.observer = failing.observer /\ n.failure = failing.failure
        /\ n.cancels = failing.cancels /\ n.shaken = failing.shaken /\ n.did = failing.did
        /\ n.acted = failing.acted /\ n.waits = failing.waits /\ n.event = failing.event
    BY <1>1, <2>1 DEF Moving, Fields
  <2>5. Moving(n)
    BY <1>1, <2>3, <2>4 DEF Moving, Agrees
  <2>6. Running(n)
    <3>1. n.failure = why /\ n.reply = NoReply /\ n.rest = <<step>> /\ step \in CleanupSteps
      BY <1>1, <2>2, <2>4, <2>5 DEF Moving, CleanupSteps
    <3>2. n.release => Head(n.rest) = "release"
      BY <2>3, <2>4
    <3>3. Head(n.rest) \notin WaitSteps
      BY <2>2, <2>3, <2>4 DEF WaitSteps
    <3> QED
      BY <3>1, <3>2, <3>3 DEF Running
  <2>7. Head(n.rest) \notin SyncSteps
    BY <2>2, <2>3, <2>4 DEF SyncSteps
  <2> QED
    BY <2>3, <2>4, <2>5, <2>6, <2>7, Awaiting
<1> QED
  BY <1>3, <1>4

LEMMA AheadSame ==
  ASSUME NEW r, NEW n, NEW s, Ahead(r, s), r.started => n.started, n.readOnly = r.readOnly,
         n.observer = r.observer, r.acted => n.acted, "input" \in n.did => "input" \in r.did
  PROVE  Ahead(n, s)
BY DEF Ahead

LEMMA StartsCloseIs ==
  ASSUME NEW r, Moving(r)
  PROVE  LET n == StartsClose(r) IN
         /\ Moving(n) /\ n.rest = r.rest /\ n.failure = r.failure
         /\ n.observer = r.observer /\ n.event = r.event /\ n.acted = r.acted /\ n.waits = r.waits
         /\ n.release = r.release /\ n.cancels = r.cancels /\ n.readOnly = r.readOnly
         /\ r.started => n.started
         /\ "input" \in n.did => "input" \in r.did
<1>1. CASE instance \in {"live", "crashed"}
  <2> DEFINE n == [r EXCEPT !.started = TRUE, !.did = @ \cup {"instance"}]
  <2>1. /\ DOMAIN n = Fields /\ n.state = r.state /\ n.rest = r.rest /\ n.holds = r.holds
        /\ n.reply = r.reply /\ n.release = r.release
        /\ n.readOnly = r.readOnly /\ n.started = TRUE /\ n.written = r.written
        /\ n.result = r.result /\ n.observer = r.observer /\ n.failure = r.failure
        /\ n.cancels = r.cancels /\ n.shaken = r.shaken /\ n.did = r.did \cup {"instance"}
        /\ n.acted = r.acted /\ n.waits = r.waits /\ n.event = r.event
    BY DEF Moving, Fields
  <2>2. StartsClose(r) = n
    BY <1>1 DEF StartsClose
  <2> HIDE DEF n
  <2>3. Moving(n)
    <3>1. Agrees(n)
      BY <2>1 DEF Moving, Agrees
    <3> QED
      BY <2>1, <3>1 DEF Moving
  <2> QED
    BY <2>1, <2>2, <2>3
<1>2. CASE instance \notin {"live", "crashed"}
  BY <1>2 DEF StartsClose
<1> QED
  BY <1>1, <1>2

LEMMA StepKinds ==
  /\ SyncSteps \cap (LockSteps \cup WaitSteps) = {} /\ WaitSteps \cap LockSteps = {}
  /\ "mark" \notin LockSteps /\ "arm" \notin WaitSteps /\ {"input", "press"} \cap WaitSteps = {}
BY DEF SyncSteps, LockSteps, WaitSteps

\* A call that has run k more steps without an await.
LEMMA PassingIs ==
  ASSUME NEW r, Moving(r), r.failure = "none", NEW s \in Seq(Steps), Ahead(r, s),
         NEW k \in 0 .. Len(s), \A i \in 1 .. k : s[i] \in SyncSteps
  PROVE  LET n == Passing(r, s, k) IN
         /\ Moving(n) /\ Ahead(n, n.rest)
         /\ n.rest = SubSeq(s, k + 1, Len(s))
         /\ n.failure = "none" /\ n.acted = r.acted /\ n.waits = r.waits /\ n.event = r.event
         /\ n.release = r.release /\ n.cancels = r.cancels
<1> DEFINE passed(step) == \E i \in 1 .. k : s[i] = step
           t == SubSeq(s, k + 1, Len(s))
           n == Passing(r, s, k)
<1>1. t \in Seq(Steps) /\ Left(s, t, k)
  BY SubSeqLeft
<1>2. /\ DOMAIN n = Fields /\ n.state = r.state /\ n.rest = t /\ n.reply = r.reply
      /\ n.holds = IF passed("unlock") THEN {} ELSE r.holds
      /\ n.release = r.release /\ n.readOnly = r.readOnly /\ n.started = (r.started \/ passed("mark"))
      /\ n.written = r.written /\ n.result = r.result
      /\ n.observer = IF passed("arm") THEN "armed" ELSE r.observer
      /\ n.failure = r.failure /\ n.cancels = r.cancels /\ n.shaken = r.shaken
      /\ n.did = IF passed("consume") THEN r.did \cup {"modal"} ELSE r.did
      /\ n.acted = r.acted /\ n.waits = r.waits /\ n.event = r.event
  BY DEF Passing, Moving, Fields
<1> HIDE DEF n, t
<1>3. k \in Nat /\ DOMAIN s = 1 .. Len(s) /\ \A i \in 1 .. k : i \in DOMAIN s
  BY LenProperties
<1>4. ~n.started => ~r.started /\ \A i \in 1 .. k : s[i] \notin LockSteps \cup {"mark"}
  BY <1>2, StepKinds
<1>5. ~n.started => ~passed("consume")
  <2> SUFFICES ASSUME ~n.started, NEW i \in 1 .. k, s[i] = "consume" PROVE FALSE
    OBVIOUS
  <2>1. PICK j \in 1 .. i - 1 : s[j] \in LockSteps \cup {"mark"}
    BY <1>3, <1>4 DEF Ahead, ActsLate
  <2>2. j \in 1 .. k
    BY <1>3, <2>1
  <2> QED
    BY <1>4, <2>1, <2>2
<1>6. r.readOnly => ~passed("consume")
  BY <1>3 DEF Ahead, OnlyReads, Range
<1>7. passed("arm") => r.observer = "off" /\ r.event = "none"
  <2>1. passed("arm") => r.observer = "off"
    BY <1>3 DEF Ahead, Moving
  <2> QED
    BY <2>1 DEF Moving, Agrees
<1>8. Moving(n)
  <2>1. /\ n.holds \subseteq LockSteps /\ n.started \in BOOLEAN
        /\ n.observer \in {"off", "armed", "matched", "failed"}
    BY <1>2 DEF Moving
  <2>2. Agrees(n)
    <3>1. (~n.started => n.did = {}) /\ (n.readOnly /\ ~n.written => n.did \subseteq {"page", "instance"})
      BY <1>2, <1>4, <1>5, <1>6 DEF Moving, Agrees
    <3>2. /\ n.event # "none" => n.observer = n.event
          /\ ~n.acted /\ n.observer \in {"matched", "failed"} => n.event = n.observer
      BY <1>2, <1>7 DEF Moving, Agrees
    <3> QED
      BY <1>2, <3>1, <3>2 DEF Moving, Agrees
  <2> QED
    BY <1>1, <1>2, <2>1, <2>2 DEF Moving
<1>9. Ahead(n, t)
  <2>1. n.started \/ ActsLate(t)
    BY <1>1, <1>4, ActsLateLeft DEF Ahead
  <2>2. n.readOnly => OnlyReads(t)
    BY <1>1, <1>2, OnlyReadsLeft DEF Ahead
  <2>3. ASSUME n.observer = "off"
        PROVE  /\ ObservesAction(t)
               /\ ~n.acted /\ "input" \in n.did => \A i \in DOMAIN t : t[i] \notin WaitSteps
    <3>1. r.observer = "off" /\ \A i \in 1 .. k : s[i] # "arm"
      BY <1>2, <2>3
    <3>2. ObservesAction(t)
      BY <1>1, <3>1, ObservesLeft DEF Ahead
    <3>3. ASSUME ~n.acted, "input" \in n.did, NEW i \in DOMAIN t PROVE t[i] \notin WaitSteps
      <4>1. k + i \in DOMAIN s /\ t[i] = s[k + i]
        BY <1>1 DEF Left
      <4>2. ~r.acted /\ "input" \in r.did
        BY <1>2, <3>3
      <4> QED
        BY <3>1, <4>1, <4>2 DEF Ahead
    <3> QED
      BY <3>2, <3>3
  <2>4. ASSUME n.observer # "off"
        PROVE  /\ \A i \in DOMAIN t : t[i] # "arm"
               /\ ~n.acted => \E i \in DOMAIN t : t[i] \in WaitSteps
    <3>0. \A i \in DOMAIN t : k + i \in DOMAIN s /\ t[i] = s[k + i] /\ ~(k + i \in 1 .. k)
      BY <1>1 DEF Left
    <3>1. ASSUME NEW j \in DOMAIN s, s[j] \in WaitSteps PROVE \E i \in DOMAIN t : t[i] \in WaitSteps
      <4>1. j \notin 1 .. k
        BY <3>1, StepKinds
      <4>2. j - k \in DOMAIN t /\ k + (j - k) = j
        BY <1>1, <1>3, <4>1 DEF Left
      <4> QED
        BY <3>0, <3>1, <4>2
    <3>2. CASE r.observer # "off"
      BY <1>2, <3>0, <3>1, <3>2 DEF Ahead
    <3>3. CASE r.observer = "off"
      <4>1. PICK i \in 1 .. k : s[i] = "arm"
        BY <1>2, <2>4, <3>3
      <4>2. ObservesAction(s)
        BY <3>3 DEF Ahead
      <4>3. \A j \in DOMAIN t : t[j] # "arm"
        BY <1>3, <3>0, <4>1, <4>2 DEF ObservesAction
      <4>4. \E j \in DOMAIN s : s[j] \in WaitSteps
        BY <1>3, <4>1, <4>2 DEF ObservesAction
      <4> QED
        BY <3>1, <4>3, <4>4
    <3> QED
      BY <3>2, <3>3
  <2>5. "abandon" \notin Range(t)
    BY <1>1, RangeLeft DEF Ahead
  <2>6. WaitsOnce(t)
    BY <1>1, WaitsOnceLeft DEF Ahead
  <2>7. n.observer = "matched" => "expect" \notin Range(t)
    BY <1>1, <1>2, RangeLeft DEF Ahead
  <2> QED
    BY <2>1, <2>2, <2>3, <2>4, <2>5, <2>6, <2>7 DEF Ahead
<1> QED
  BY <1>2, <1>8, <1>9 DEF n, t

\* A call that arrives at its next await.
LEMMA ArriveInv ==
  ASSUME NEW r, Moving(r), r.failure = "none", Ahead(r, r.rest), ~r.release,
         r.rest # <<>> => Head(r.rest) \notin SyncSteps,
         r.acted => r.event # "failed",
         NEW n \in Arrive(r)
  PROVE  CallInv(n)
<1> DEFINE s == r.rest
           step == Head(s)
<1>1. CASE s = <<>>
  <2>1. n \in End(r)
    BY <1>1 DEF Arrive
  <2>2. r.observer # "off" => r.acted
    BY <1>1 DEF Ahead, Moving
  <2> QED
    BY <2>1, <2>2, EndInv
<1>2. ASSUME s # <<>> PROVE CallInv(n)
  <2>1. /\ s \in Seq(Steps) /\ step = s[1] /\ 1 \in DOMAIN s /\ step \in Steps
        /\ \A i \in DOMAIN s : i # 1 => 1 < i
    BY <1>2, TailLeft DEF Moving, Left
  <2>2. step \in {"page", "tab", "input", "press", "consume"} => r.started
    BY <2>1 DEF Ahead, ActsLate
  <2>3. step \in {"input", "press", "consume", "launch"} => ~r.readOnly
    BY <2>1 DEF Ahead, OnlyReads, Range, Moving
  <2>4. step \in {"input", "press"} /\ r.observer = "off" => \A i \in DOMAIN s : s[i] \notin WaitSteps
    BY <2>1, StepKinds DEF Ahead, ObservesAction
  <2>5. Running(r) \/ step \in WaitSteps
    BY DEF Running, Moving, WaitSteps
  <2>6. CASE step \in {"input", "press"}
    <3> DEFINE m == [r EXCEPT !.did = @ \cup {"input"}]
    <3>1. n = m
      BY <1>2, <2>6, StepKinds DEF Arrive
    <3>2. /\ Moving(m) /\ m.rest = s /\ m.failure = "none" /\ m.acted = r.acted /\ m.waits = r.waits /\ m.event = r.event
          /\ m.release = r.release /\ m.started = r.started /\ m.readOnly = r.readOnly
          /\ m.observer = r.observer
      BY <2>2, <2>3, <2>6 DEF Moving, Agrees, Fields
    <3> HIDE DEF m
    <3>3. Ahead(m, s)
      BY <2>4, <2>6, <3>2 DEF Ahead
    <3>4. Running(m)
      BY <2>6, <3>2, <3>3, StepKinds DEF Running, Moving
    <3> QED
      BY <1>2, <3>1, <3>2, <3>4, Awaiting
  <2>7. CASE step \in {"page", "tab"}
    <3> DEFINE m == [r EXCEPT !.did = @ \cup {"page"}]
    <3>1. n = m
      BY <1>2, <2>7 DEF Arrive, WaitSteps
    <3>2. /\ Moving(m) /\ m.rest = s /\ m.failure = "none" /\ m.acted = r.acted /\ m.waits = r.waits /\ m.event = r.event
          /\ m.release = r.release /\ m.started = r.started /\ m.readOnly = r.readOnly
          /\ m.observer = r.observer /\ m.did = r.did \cup {"page"}
      BY <2>2, <2>7 DEF Moving, Agrees, Fields
    <3> HIDE DEF m
    <3>3. Ahead(m, s)
      BY <3>2, AheadSame
    <3>4. Running(m)
      BY <2>7, <3>2, <3>3 DEF Running, Moving, WaitSteps
    <3> QED
      BY <1>2, <3>1, <3>2, <3>4, Awaiting
  <2>8. CASE step = "release"
    <3> DEFINE m == [r EXCEPT !.release = TRUE]
    <3>1. n = m
      BY <1>2, <2>8 DEF Arrive, WaitSteps
    <3>2. /\ Moving(m) /\ m.rest = s /\ m.failure = "none" /\ m.acted = r.acted /\ m.waits = r.waits /\ m.event = r.event
          /\ m.started = r.started /\ m.readOnly = r.readOnly
          /\ m.observer = r.observer /\ m.did = r.did
      BY DEF Moving, Agrees, Fields
    <3> HIDE DEF m
    <3>3. Ahead(m, s)
      BY <3>2, AheadSame
    <3>4. Running(m)
      BY <2>8, <3>2, <3>3 DEF Running, Moving, WaitSteps
    <3> QED
      BY <1>2, <3>1, <3>2, <3>4, Awaiting
  <2>9. CASE step = "write"
    <3> DEFINE m == [[r EXCEPT !.started = TRUE, !.written = TRUE] EXCEPT !.did = @ \cup {"file"}]
    <3>1. n = m
      BY <1>2, <2>9 DEF Arrive, WaitSteps, WriteStarted
    <3>2. /\ DOMAIN m = Fields /\ m.state = r.state /\ m.rest = s /\ m.holds = r.holds
          /\ m.reply = r.reply /\ m.release = r.release
          /\ m.readOnly = r.readOnly /\ m.started = TRUE /\ m.written = TRUE
          /\ m.result = r.result /\ m.observer = r.observer /\ m.failure = r.failure
          /\ m.cancels = r.cancels /\ m.shaken = r.shaken /\ m.did = r.did \cup {"file"}
          /\ m.acted = r.acted /\ m.waits = r.waits /\ m.event = r.event
      BY DEF Moving, Fields
    <3> HIDE DEF m
    <3>3. Moving(m)
      BY <3>2 DEF Moving, Agrees
    <3>4. Ahead(m, s)
      BY <3>2, AheadSame
    <3>5. Running(m)
      BY <2>9, <3>2, <3>3, <3>4 DEF Running, Moving, WaitSteps
    <3> QED
      BY <1>2, <3>1, <3>2, <3>3, <3>5, Awaiting
  <2>10. CASE step = "destroy"
    <3>1. CASE instance = "closed"
      <4>1. n \in Fail(r, "error")
        BY <1>2, <2>10, <3>1 DEF Arrive, WaitSteps
      <4> QED
        BY <1>2, <4>1, FailInv
    <3>2. CASE instance # "closed"
      <4> DEFINE m == StartsClose(r)
      <4>1. n = m
        BY <1>2, <2>10, <3>2 DEF Arrive, WaitSteps
      <4>2. /\ Moving(m) /\ m.rest = s /\ m.failure = "none" /\ m.acted = r.acted /\ m.waits = r.waits /\ m.event = r.event
            /\ m.release = r.release /\ m.readOnly = r.readOnly /\ m.observer = r.observer
            /\ r.started => m.started
            /\ "input" \in m.did => "input" \in r.did
        BY StartsCloseIs
      <4> HIDE DEF m
      <4>3. Ahead(m, s)
        BY <4>2, AheadSame
      <4>4. Running(m)
        BY <2>10, <4>2, <4>3 DEF Running, Moving, WaitSteps
      <4> QED
        BY <1>2, <4>1, <4>2, <4>4, Awaiting
    <3> QED
      BY <3>1, <3>2
  <2>11. CASE step \in WaitSteps
    <3> DEFINE m == [[r EXCEPT !.result = TRUE] EXCEPT !.acted = TRUE, !.waits = step]
    <3>1. /\ DOMAIN m = Fields /\ m.state = r.state /\ m.rest = s /\ m.holds = r.holds
          /\ m.reply = r.reply /\ m.release = r.release
          /\ m.readOnly = r.readOnly /\ m.started = r.started /\ m.written = r.written
          /\ m.result = TRUE /\ m.observer = r.observer /\ m.failure = r.failure
          /\ m.cancels = r.cancels /\ m.shaken = r.shaken /\ m.did = r.did
          /\ m.acted = TRUE /\ m.waits = step /\ m.event = r.event
      BY DEF Moving, Fields
    <3>2. step = "expect" \/ r.observer \in {"off", "armed"} => n = m
      BY <1>2, <2>11 DEF Arrive, ActionCompleted, WaitSteps
    <3>3. step = "observe" => /\ r.observer = "failed" => n \in Fail(m, "terminated")
                              /\ r.observer = "matched" => n \in End(m)
      BY <1>2 DEF Arrive, ActionCompleted
    <3> HIDE DEF m
    <3>4. Moving(m)
      BY <2>11, <3>1 DEF Moving, Agrees
    <3>5. Ahead(m, s)
      BY <3>1, AheadSame
    <3>6. r.observer # "matched" => m.event # "matched"
      BY <3>1 DEF Moving, Agrees
    <3>7. CASE step = "observe" /\ r.observer = "failed"
      BY <1>2, <3>1, <3>3, <3>4, <3>6, <3>7, FailInv
    <3>8. CASE step = "observe" /\ r.observer = "matched"
      <4>1. m.event # "failed"
        BY <3>1, <3>8 DEF Moving, Agrees
      <4> QED
        BY <3>1, <3>3, <3>4, <3>8, <4>1, EndInv
    <3>9. CASE step = "expect" \/ r.observer \in {"off", "armed"}
      <4>1. r.observer # "matched"
        <5>1. "expect" \in Range(s) \/ step # "expect"
          BY <2>1 DEF Range
        <5> QED
          BY <3>9, <5>1 DEF Ahead
      <4>2. r.observer \in {"off", "armed"} => m.event = "none"
        BY <3>1 DEF Moving, Agrees
      <4>3. Running(m)
        BY <2>11, <3>1, <3>4, <3>5, <3>6, <3>9, <4>1, <4>2 DEF Running, Moving
      <4> QED
        BY <1>2, <3>1, <3>2, <3>4, <3>9, <4>3, Awaiting
    <3> QED
      BY <2>11, <3>7, <3>8, <3>9 DEF Moving, WaitSteps
  <2>12. CASE step \notin {"input", "press", "page", "tab", "release", "write", "destroy"} \cup WaitSteps
    <3>1. n = r
      BY <1>2, <2>12 DEF Arrive, WaitSteps
    <3> QED
      BY <1>2, <2>5, <2>12, <3>1, Awaiting
  <2> QED
    BY <2>6, <2>7, <2>8, <2>9, <2>10, <2>11, <2>12
<1> QED
  BY <1>1, <1>2

\* The steps that run without an await end somewhere.
LEMMA NextAwait ==
  ASSUME NEW s \in Seq(Steps)
  PROVE  \E n \in 0 .. Len(s) : /\ \A i \in 1 .. n : s[i] \in SyncSteps
                                /\ n < Len(s) => s[n + 1] \notin SyncSteps
<1> DEFINE stops == {n \in Nat : n <= Len(s) /\ (n < Len(s) => s[n + 1] \notin SyncSteps)}
<1>1. Len(s) \in Nat
  BY LenProperties
<1>2. stops \subseteq Nat /\ Len(s) \in stops
  BY <1>1
<1>3. PICK n \in stops : \A m \in stops : ~(m < n)
  <2>1. PICK n \in stops : \A m \in stops : ~(<<m, n>> \in OpToRel(<, Nat))
    BY <1>2, WFMin, NatLessThanWellFounded
  <2>2. \A m \in stops : <<m, n>> \in Nat \X Nat
    BY <1>2
  <2>3. \A m \in stops : ~(m < n)
    BY <2>1, <2>2 DEF OpToRel
  <2> QED
    BY <2>3
<1>4. ASSUME NEW i \in 1 .. n PROVE s[i] \in SyncSteps
  <2>1. i - 1 \in Nat /\ i - 1 < n /\ i - 1 < Len(s) /\ (i - 1) + 1 = i
    BY <1>1, <1>2
  <2>2. i - 1 \notin stops
    BY <1>3, <2>1
  <2> QED
    BY <2>1, <2>2
<1>5. n \in 0 .. Len(s) /\ (n < Len(s) => s[n + 1] \notin SyncSteps)
  BY <1>1, <1>3
<1> QED
  BY <1>4, <1>5


\* A call that goes on with the steps s.
LEMMA ContinueInv ==
  ASSUME NEW r, Moving(r), r.failure = "none", ~r.release, r.acted => r.event # "failed",
         NEW s \in Seq(Steps), Ahead(r, s), NEW n \in Continue(r, s)
  PROVE  CallInv(n)
<1> DEFINE stop == CHOOSE k \in 0 .. Len(s) : /\ \A i \in 1 .. k : s[i] \in SyncSteps
                                              /\ k < Len(s) => s[k + 1] \notin SyncSteps
           at(k) == Passing(r, s, k)
           failed(k) == IF s[k + 1] = "lookup" /\ instance = "crashed" THEN StartsClose(at(k)) ELSE at(k)
<1>1. \/ \E k \in 0 .. stop - 1 : n \in Fail(failed(k), "error")
      \/ n \in Arrive(at(stop))
  <2> DEFINE reaches(k) == \A i \in 1 .. k : s[i] # "refuse" /\ (s[i] = "lookup" => Found(at(i - 1)))
             refused == {k \in 0 .. stop - 1 :
                           /\ reaches(k)
                           /\ \/ s[k + 1] \in {"validate", "refuse", "guard", "frame", "pin", "consume"}
                              \/ s[k + 1] = "lookup" /\ ~Found(at(k))}
  <2>1. n \in (UNION {Fail(failed(k), "error") : k \in refused}) \cup (IF reaches(stop) THEN Arrive(at(stop)) ELSE {})
    BY Zenon DEF Continue
  <2>2. refused \subseteq 0 .. stop - 1
    OBVIOUS
  <2> HIDE DEF refused, reaches, stop, at, failed
  <2> QED
    BY <2>1, <2>2
<1>2. /\ stop \in 0 .. Len(s) /\ \A i \in 1 .. stop : s[i] \in SyncSteps
      /\ stop < Len(s) => s[stop + 1] \notin SyncSteps
  BY NextAwait
<1> HIDE DEF stop
<1>3. Len(s) \in Nat
  BY LenProperties
<1>4. ASSUME NEW k \in 0 .. stop
      PROVE  /\ Moving(at(k)) /\ Ahead(at(k), at(k).rest)
             /\ at(k).rest = SubSeq(s, k + 1, Len(s))
             /\ at(k).failure = "none" /\ at(k).acted = r.acted
             /\ at(k).waits = r.waits /\ at(k).event = r.event
             /\ at(k).release = r.release
             /\ at(k).rest \in Seq(Steps) /\ Left(s, at(k).rest, k)
  <2>1. k \in 0 .. Len(s) /\ \A i \in 1 .. k : s[i] \in SyncSteps
    BY <1>2, <1>3
  <2> QED
    BY <2>1, PassingIs, SubSeqLeft
<1> HIDE DEF at
<1>5. ASSUME NEW k \in 0 .. stop - 1, n \in Fail(failed(k), "error") PROVE CallInv(n)
  <2>1. k \in 0 .. stop /\ k < Len(s)
    BY <1>2, <1>3
  <2>2. at(k).rest # <<>>
    <3>1. Len(at(k).rest) # 0
      BY <1>3, <1>4, <2>1 DEF Left
    <3> QED
      BY <3>1, EmptySeq
  <2>3. Moving(failed(k)) /\ failed(k).rest = at(k).rest /\ failed(k).release = r.release
    <3>1. Moving(at(k)) /\ at(k).release = r.release
      BY <1>4, <2>1
    <3> HIDE DEF failed
    <3>2. failed(k) \in {at(k), StartsClose(at(k))}
      BY DEF failed
    <3> QED
      BY <3>1, <3>2, StartsCloseIs
  <2> HIDE DEF failed
  <2> QED
    BY <1>5, <2>2, <2>3, FailInv
<1>6. ASSUME n \in Arrive(at(stop)) PROVE CallInv(n)
  <2> DEFINE m == at(stop)
  <2>1. /\ Moving(m) /\ Ahead(m, m.rest) /\ m.failure = "none" /\ m.acted = r.acted /\ m.waits = r.waits /\ m.event = r.event
        /\ m.release = r.release /\ m.rest \in Seq(Steps) /\ Left(s, m.rest, stop)
    BY <1>2, <1>4
  <2> HIDE DEF m
  <2>2. ASSUME m.rest # <<>> PROVE Head(m.rest) \notin SyncSteps
    <3>1. Head(m.rest) = m.rest[1] /\ 1 \in DOMAIN m.rest
      BY <2>1, <2>2, TailLeft
    <3>2. m.rest[1] = s[stop + 1] /\ stop < Len(s)
      BY <2>1, <3>1 DEF Left
    <3> QED
      BY <1>2, <3>1, <3>2
  <2>3. n \in Arrive(m)
    BY <1>6 DEF m
  <2> QED
    BY <2>1, <2>2, <2>3, ArriveInv
<1> QED
  BY <1>1, <1>5, <1>6

\* A call that has done the step it awaited.
LEMMA AheadTail ==
  ASSUME NEW r, Moving(r), r.rest # <<>>, Head(r.rest) \notin SyncSteps, Ahead(r, r.rest),
         Head(r.rest) \in LockSteps => r.started, Head(r.rest) \in WaitSteps => r.acted
  PROVE  Tail(r.rest) \in Seq(Steps) /\ Ahead(r, Tail(r.rest))
<1> DEFINE s == r.rest
           t == Tail(s)
<1>1. /\ t \in Seq(Steps) /\ Left(s, t, 1) /\ Head(s) = s[1] /\ 1 \in DOMAIN s
      /\ \A i \in 1 .. 1 : i = 1
  BY TailLeft DEF Moving
<1> HIDE DEF s, t
<1>2. s[1] # "arm" /\ s[1] # "mark"
  BY <1>1 DEF SyncSteps, s
<1>3. r.started \/ ActsLate(t)
  BY <1>1, <1>2, ActsLateLeft DEF Ahead, s
<1>4. r.readOnly => OnlyReads(t)
  BY <1>1, OnlyReadsLeft DEF Ahead, s
<1>5. \A i \in DOMAIN t : 1 + i \in DOMAIN s /\ t[i] = s[1 + i]
  BY <1>1 DEF Left
<1>6. r.observer = "off" => ObservesAction(t)
  BY <1>1, <1>2, ObservesLeft DEF Ahead, s
<1>7. ASSUME r.observer # "off", ~r.acted PROVE \E i \in DOMAIN t : t[i] \in WaitSteps
  <2>1. PICK i \in DOMAIN s : s[i] \in WaitSteps
    BY <1>7 DEF Ahead, s
  <2>2. i # 1
    BY <1>1, <1>7, <2>1 DEF s
  <2>3. i - 1 \in DOMAIN t /\ 1 + (i - 1) = i
    BY <1>1, <2>1, <2>2 DEF Left
  <2> QED
    BY <1>5, <2>1, <2>3
<1>8. "abandon" \notin Range(t) /\ (r.observer = "matched" => "expect" \notin Range(t))
  BY <1>1, RangeLeft DEF Ahead, s
<1>9. WaitsOnce(t)
  BY <1>1, WaitsOnceLeft DEF Ahead, s
<1> QED
  BY <1>1, <1>3, <1>4, <1>5, <1>6, <1>7, <1>8, <1>9 DEF Ahead, s, t


-----------------------------------------------------------------------------
(* The steps *)

LEMMA OfInv ==
  ASSUME ToolCallsInv, NEW c \in Call
  PROVE  CallInv(call[c])
BY DEF ToolCallsInv, TypeOK, CallInv

LEMMA BecomeInv ==
  ASSUME ToolCallsInv, NEW c \in Call, NEW rs, Become(c, rs), \A n \in rs : CallInv(n)
  PROVE  ToolCallsInv'
<1>1. PICK n \in rs : call' = [call EXCEPT ![c] = n] /\ instance' \in {instance, "closing"}
  BY DEF Become
<1>2. DOMAIN call = Call /\ instance \in {"live", "crashed", "closing", "closed"}
  BY DEF ToolCallsInv, TypeOK
<1>3. DOMAIN call' = Call /\ \A d \in Call : call'[d] = IF d = c THEN n ELSE call[d]
  BY <1>1, <1>2
<1>4. \A d \in Call : CallInv(call'[d])
  BY <1>1, <1>3, OfInv
<1> QED
  BY <1>1, <1>2, <1>3, <1>4 DEF ToolCallsInv, TypeOK, CallInv

\* A call that awaits a step, and what follows from the kind of the step.
LEMMA AwaitsIs ==
  ASSUME ToolCallsInv, NEW c \in Call, call[c].state = "running"
  PROVE  LET r == call[c] IN
         /\ Moving(r) /\ r.rest # <<>> /\ Head(r.rest) \in Steps \ SyncSteps /\ Running(r)
         /\ Head(r.rest) \notin CleanupSteps => r.failure = "none" /\ ~r.release
         /\ Head(r.rest) # "release" => ~r.release
<1> DEFINE r == call[c]
<1>1. CallInv(r)
  BY OfInv
<1>2. Moving(r) /\ r.rest # <<>> /\ Head(r.rest) \notin SyncSteps /\ Running(r)
  BY <1>1, FieldsOfCall DEF CallInv, IsCall, Moving, Running
<1>3. Head(r.rest) \in Steps
  BY <1>2, TailLeft DEF Moving
<1>4. ASSUME r.failure # "none" PROVE Head(r.rest) \in CleanupSteps
  <2>1. PICK step \in CleanupSteps : r.rest = <<step>>
    BY <1>2, <1>4 DEF Running
  <2> QED
    BY <2>1
<1>5. r.release => Head(r.rest) = "release"
  BY <1>2 DEF Running
<1>6. "release" \in CleanupSteps
  BY DEF CleanupSteps
<1>7. r.release \in BOOLEAN
  BY <1>2 DEF Moving
<1> QED
  BY <1>2, <1>3, <1>4, <1>5, <1>6, <1>7

\* A call that goes on after the step it awaits.
LEMMA GoesOn ==
  ASSUME NEW r, Moving(r), r.rest # <<>>, Head(r.rest) \notin SyncSteps, Running(r), r.failure = "none",
         ~r.release, Head(r.rest) \in LockSteps => r.started,
         Head(r.rest) = "expect" => r.observer # "failed",
         NEW n \in Continue(r, Tail(r.rest))
  PROVE  CallInv(n)
<1>1. Ahead(r, r.rest) /\ (r.acted => r.event # "failed") /\ (Head(r.rest) \in WaitSteps => r.acted)
  BY DEF Running, Moving, Agrees
<1>2. Tail(r.rest) \in Seq(Steps) /\ Ahead(r, Tail(r.rest))
  BY <1>1, AheadTail
<1> QED
  BY <1>1, <1>2, ContinueInv

LEMMA Kinds ==
  /\ "expect" \notin LockSteps \cup BrowserSteps \cup ServerSteps \cup CleanupSteps
  /\ LockSteps \cap CleanupSteps = {} /\ BrowserSteps \cap (CleanupSteps \cup LockSteps) = {}
  /\ ServerSteps \cap (CleanupSteps \cup LockSteps) = {} /\ WaitSteps \cap (CleanupSteps \cup LockSteps) = {}
BY DEF LockSteps, BrowserSteps, ServerSteps, WaitSteps, CleanupSteps

LEMMA BeginInv ==
  ASSUME ToolCallsInv, NEW c \in Call, Begin(c)
  PROVE  ToolCallsInv'
<1>0. PICK tool \in Menu[c] : \E path \in Bodies[tool] \cup {<<"refuse">>} :
        Become(c, Continue(NewCall(tool, path), path))
  BY DEF Begin
<1>1. PICK path \in Bodies[tool] \cup {<<"refuse">>} : Become(c, Continue(NewCall(tool, path), path))
  BY <1>0
<1>2. tool \in DOMAIN Bodies
  BY <1>0, MenuAssumption
<1>3. /\ path \in Seq(Steps) /\ "abandon" \notin Range(path)
      /\ ActsLate(path) /\ ObservesAction(path) /\ WaitsOnce(path)
      /\ tool \in ReadTools => OnlyReads(path)
  <2>1. CASE path \in Bodies[tool]
    BY <1>2, <2>1, BodiesAssumption
  <2>2. CASE path = <<"refuse">>
    <3>1. path \in Seq(Steps) /\ DOMAIN path = {1} /\ path[1] = "refuse"
      BY <2>2 DEF Steps, SyncSteps
    <3>2. Range(path) = {"refuse"}
      BY <3>1 DEF Range
    <3> QED
      BY <3>1, <3>2, StepKinds DEF ActsLate, OnlyReads, ObservesAction, WaitsOnce
  <2> QED
    BY <1>1, <2>1, <2>2
<1> DEFINE r == NewCall(tool, path)
<1>4. Moving(r)
  BY <1>3 DEF NewCall, Moving, Agrees, Fields, Interruptions
<1>5. r.failure = "none" /\ ~r.release /\ ~r.acted /\ Ahead(r, path)
  BY <1>3 DEF NewCall, Ahead
<1> HIDE DEF r
<1>6. \A n \in Continue(r, path) : CallInv(n)
  BY <1>3, <1>4, <1>5, ContinueInv
<1> QED
  BY <1>1, <1>6, BecomeInv DEF r

LEMMA AcquireInv ==
  ASSUME ToolCallsInv, NEW c \in Call, Acquire(c)
  PROVE  ToolCallsInv'
<1> DEFINE r == call[c]
           s == [r EXCEPT !.holds = {Head(r.rest)}, !.started = TRUE]
<1>1. /\ Moving(r) /\ r.rest # <<>> /\ Head(r.rest) \in LockSteps /\ Head(r.rest) \notin SyncSteps
      /\ Running(r) /\ r.failure = "none" /\ ~r.release /\ Head(r.rest) # "expect"
  BY AwaitsIs, Kinds DEF Acquire, Awaits
<1>2. CASE instance = "live"
  <2>1. Become(c, Continue(s, Tail(s.rest)))
    BY <1>1, <1>2 DEF Acquire, Moving, Fields
  <2>2. /\ DOMAIN s = Fields /\ s.state = r.state /\ s.rest = r.rest /\ s.holds = {Head(r.rest)}
        /\ s.reply = r.reply /\ s.release = r.release
        /\ s.readOnly = r.readOnly /\ s.started = TRUE /\ s.written = r.written
        /\ s.result = r.result /\ s.observer = r.observer /\ s.failure = r.failure
        /\ s.cancels = r.cancels /\ s.shaken = r.shaken /\ s.did = r.did
        /\ s.acted = r.acted /\ s.waits = r.waits /\ s.event = r.event
    BY <1>1 DEF Moving, Fields
  <2> HIDE DEF s
  <2>3. Moving(s)
    BY <1>1, <2>2 DEF Moving, Agrees
  <2>4. Ahead(s, s.rest)
    BY <1>1, <2>2, AheadSame DEF Running
  <2>5. Running(s)
    BY <1>1, <2>2, <2>4 DEF Running
  <2>6. \A n \in Continue(s, Tail(s.rest)) : CallInv(n)
    BY <1>1, <2>2, <2>3, <2>5, GoesOn
  <2> QED
    BY <2>1, <2>6, BecomeInv
<1>3. CASE instance # "live"
  <2> DEFINE m == IF instance = "crashed" THEN StartsClose(r) ELSE r
  <2>1. Become(c, Fail(m, "error"))
    BY <1>3 DEF Acquire
  <2>2. Moving(m) /\ m.rest = r.rest /\ m.release = r.release
    BY <1>1, StartsCloseIs
  <2> HIDE DEF m
  <2>3. \A n \in Fail(m, "error") : CallInv(n)
    BY <1>1, <2>2, FailInv
  <2> QED
    BY <2>1, <2>3, BecomeInv
<1> QED
  BY <1>2, <1>3

LEMMA AnswersInv ==
  ASSUME ToolCallsInv, NEW c \in Call, Answers(c)
  PROVE  ToolCallsInv'
<1> DEFINE r == call[c]
<1>1. /\ Moving(r) /\ r.rest # <<>> /\ Head(r.rest) \notin LockSteps /\ Head(r.rest) \notin SyncSteps
      /\ Running(r) /\ r.failure = "none" /\ ~r.release /\ Head(r.rest) # "expect"
  BY AwaitsIs, Kinds DEF Answers, Awaits
<1>2. \A n \in Continue(r, Tail(r.rest)) : CallInv(n)
  BY <1>1, GoesOn
<1> QED
  BY <1>2, BecomeInv DEF Answers

LEMMA FinishesInv ==
  ASSUME ToolCallsInv, NEW c \in Call, Finishes(c)
  PROVE  ToolCallsInv'
<1> DEFINE r == call[c]
<1>1. /\ Moving(r) /\ r.rest # <<>> /\ Head(r.rest) \notin LockSteps /\ Head(r.rest) \notin SyncSteps
      /\ Running(r) /\ r.failure = "none" /\ ~r.release /\ Head(r.rest) # "expect"
  BY AwaitsIs, Kinds DEF Finishes, Awaits
<1>2. \A n \in Continue(r, Tail(r.rest)) : CallInv(n)
  BY <1>1, GoesOn
<1> QED
  BY <1>2, BecomeInv DEF Finishes

LEMMA FailsInv ==
  ASSUME ToolCallsInv, NEW c \in Call, Fails(c)
  PROVE  ToolCallsInv'
<1> DEFINE r == call[c]
<1>1. Moving(r) /\ r.rest # <<>> /\ ~r.release
  BY AwaitsIs, Kinds DEF Fails, Awaits
<1>2. \A n \in Fail(r, "error") : CallInv(n)
  BY <1>1, FailInv
<1> QED
  BY <1>2, BecomeInv DEF Fails


LEMMA LaunchStartsInv ==
  ASSUME ToolCallsInv, NEW c \in Call, LaunchStarts(c)
  PROVE  ToolCallsInv'
<1> DEFINE r == call[c]
           n == [r EXCEPT !.started = TRUE, !.did = @ \cup {"browser"}]
<1>1. /\ Moving(r) /\ r.rest # <<>> /\ Head(r.rest) = "launch" /\ Head(r.rest) \notin SyncSteps
      /\ Running(r) /\ r.failure = "none" /\ ~r.release
  <2>1. "launch" \in ServerSteps
    BY DEF ServerSteps
  <2> QED
    BY <2>1, AwaitsIs, Kinds DEF LaunchStarts, Awaits
<1>2. ~r.readOnly
  BY <1>1, TailLeft DEF Running, Ahead, OnlyReads, Range, Moving
<1>3. /\ DOMAIN n = Fields /\ n.state = r.state /\ n.rest = r.rest /\ n.holds = r.holds
      /\ n.reply = r.reply /\ n.release = r.release
      /\ n.readOnly = r.readOnly /\ n.started = TRUE /\ n.written = r.written
      /\ n.result = r.result /\ n.observer = r.observer /\ n.failure = r.failure
      /\ n.cancels = r.cancels /\ n.shaken = r.shaken /\ n.did = r.did \cup {"browser"}
      /\ n.acted = r.acted /\ n.waits = r.waits /\ n.event = r.event
  BY <1>1 DEF Moving, Fields
<1>4. Become(c, {n})
  BY DEF LaunchStarts
<1> HIDE DEF n
<1>5. Moving(n)
  BY <1>1, <1>2, <1>3 DEF Moving, Agrees
<1>6. Ahead(n, n.rest)
  BY <1>1, <1>3, AheadSame DEF Running
<1>7. Running(n)
  BY <1>1, <1>3, <1>6 DEF Running
<1>8. CallInv(n)
  BY <1>1, <1>3, <1>5, <1>7, Awaiting
<1> QED
  BY <1>4, <1>8, BecomeInv

LEMMA EmitsInv ==
  ASSUME ToolCallsInv, NEW c \in Call, Emits(c)
  PROVE  ToolCallsInv'
<1> DEFINE r == call[c]
<1>1. /\ Moving(r) /\ r.rest # <<>> /\ Head(r.rest) \notin SyncSteps /\ Running(r)
      /\ "input" \in r.did \/ r.observer # "off"
  BY AwaitsIs DEF Emits
<1>2. PICK event \in {"matched", "failed"} :
        /\ event = "matched" => Contains(r.rest, "observe")
        /\ \E step \in WaitSteps : Contains(r.rest, step)
        /\ Become(c, {[r EXCEPT !.observer = IF r.observer = "armed" THEN event ELSE r.observer,
                                !.event    = IF r.event = "none" /\ ~r.acted THEN event ELSE r.event]})
  BY <1>1 DEF Emits, Moving, Fields
<1> DEFINE n == [r EXCEPT !.observer = IF r.observer = "armed" THEN event ELSE r.observer,
                          !.event    = IF r.event = "none" /\ ~r.acted THEN event ELSE r.event]
<1>3. \E i \in DOMAIN r.rest : r.rest[i] \in WaitSteps
  BY <1>2 DEF Contains, Range
<1>4. r.failure = "none"
  <2> SUFFICES ASSUME r.failure # "none" PROVE FALSE
    OBVIOUS
  <2>1. PICK step \in CleanupSteps : r.rest = <<step>>
    BY <1>1 DEF Running
  <2>2. DOMAIN r.rest = {1} /\ r.rest[1] = step
    BY <2>1
  <2> QED
    BY <1>3, <2>2, Kinds
<1>5. Ahead(r, r.rest) /\ (r.acted /\ r.event = "failed" => Head(r.rest) = "expect")
  BY <1>1, <1>4 DEF Running
<1>6. ~r.acted => r.observer # "off"
  BY <1>1, <1>3, <1>5 DEF Ahead
<1>7. /\ DOMAIN n = Fields /\ n.state = r.state /\ n.rest = r.rest /\ n.holds = r.holds
      /\ n.reply = r.reply /\ n.release = r.release
      /\ n.readOnly = r.readOnly /\ n.started = r.started /\ n.written = r.written
      /\ n.result = r.result /\ n.failure = r.failure
      /\ n.observer = IF r.observer = "armed" THEN event ELSE r.observer
      /\ n.cancels = r.cancels /\ n.shaken = r.shaken /\ n.did = r.did
      /\ n.acted = r.acted /\ n.waits = r.waits
      /\ n.event = IF r.event = "none" /\ ~r.acted THEN event ELSE r.event
  BY <1>1 DEF Moving, Fields
<1> HIDE DEF n
<1>8. Agrees(n)
  <2>1. /\ n.event # "none" => n.observer = n.event
        /\ ~n.acted /\ n.observer \in {"matched", "failed"} => n.event = n.observer
    BY <1>1, <1>5, <1>6, <1>7 DEF Moving, Agrees
  <2> QED
    BY <1>1, <1>4, <1>7, <2>1 DEF Moving, Agrees
<1>9. Moving(n)
  BY <1>1, <1>7, <1>8 DEF Moving
<1>10. Ahead(n, n.rest)
  <2>1. event = "matched" => "expect" \notin Range(r.rest)
    BY <1>2, <1>5 DEF Contains, Range, Ahead, WaitsOnce, WaitSteps
  <2> QED
    BY <1>5, <1>7, <2>1 DEF Ahead
<1>11. Running(n)
  <2>1. r.acted => n.event = r.event
    BY <1>7
  <2>2. /\ Head(n.rest) \in WaitSteps => n.acted /\ n.waits = Head(n.rest) /\ n.event # "matched"
        /\ Head(n.rest) = "observe" => n.event = "none"
    BY <1>1, <1>7, <2>1 DEF Running, WaitSteps
  <2>3. n.acted /\ n.event = "failed" => Head(n.rest) = "expect"
    BY <1>5, <1>7, <2>1
  <2> QED
    BY <1>1, <1>4, <1>7, <1>10, <2>2, <2>3 DEF Running
<1>12. CallInv(n)
  BY <1>1, <1>7, <1>9, <1>11, Awaiting
<1>13. Become(c, {n})
  BY <1>2 DEF n
<1> QED
  BY <1>12, <1>13, BecomeInv

LEMMA ObservesInv ==
  ASSUME ToolCallsInv, NEW c \in Call, Observes(c)
  PROVE  ToolCallsInv'
<1> DEFINE r == call[c]
<1>1. /\ Moving(r) /\ r.rest # <<>> /\ Head(r.rest) \in WaitSteps
      /\ Head(r.rest) \notin LockSteps /\ Head(r.rest) \notin SyncSteps
      /\ Running(r) /\ r.failure = "none" /\ ~r.release
  <2>1. Awaits(c, WaitSteps)
    BY DEF Observes
  <2> QED
    BY <2>1, AwaitsIs, Kinds DEF Awaits
<1>2. /\ r.acted /\ r.waits = Head(r.rest) /\ r.event # "matched"
      /\ Head(r.rest) = "observe" => r.event = "none"
  BY <1>1 DEF Running
<1>3. \/ \E why \in {"terminated", "unobserved", "error"} : Become(c, Fail(r, why))
      \/ r.observer # "failed" /\ Become(c, Continue(r, Tail(r.rest)))
  BY DEF Observes
<1>4. r.event = "none" \/ (r.waits = "expect" /\ r.event = "failed")
  BY <1>1, <1>2 DEF Moving, WaitSteps
<1>5. \A why \in {"terminated", "unobserved", "error"} : \A n \in Fail(r, why) : CallInv(n)
  BY <1>1, <1>2, <1>4, FailInv
<1>6. r.observer # "failed" => \A n \in Continue(r, Tail(r.rest)) : CallInv(n)
  BY <1>1, GoesOn
<1> QED
  BY <1>3, <1>5, <1>6, BecomeInv

LEMMA ReleasedInv ==
  ASSUME ToolCallsInv, NEW c \in Call, Released(c)
  PROVE  ToolCallsInv'
<1> DEFINE s == call[c]
           r == [s EXCEPT !.release = FALSE]
<1>1. CallInv(s) /\ s.release /\ DOMAIN s = Fields
  BY OfInv, FieldsOfCall DEF Released, CallInv, IsCall
<1>2. /\ DOMAIN r = Fields /\ r.state = s.state /\ r.rest = s.rest /\ r.holds = s.holds
      /\ r.reply = s.reply /\ r.release = FALSE
      /\ r.readOnly = s.readOnly /\ r.started = s.started /\ r.written = s.written
      /\ r.result = s.result /\ r.observer = s.observer /\ r.failure = s.failure
      /\ r.cancels = s.cancels /\ r.shaken = s.shaken /\ r.did = s.did
      /\ r.acted = s.acted /\ r.waits = s.waits /\ r.event = s.event
  BY <1>1 DEF Fields
<1>3. CASE ~Awaits(c, {"release"})
  <2>1. Become(c, {r})
    BY <1>3 DEF Released
  <2> HIDE DEF r
  <2>2. s.state = "over"
    BY <1>1, <1>3 DEF CallInv, IsCall, Running, Awaits
  <2>3. IsCall(r)
    <3>1. IsCall(s)
      BY <1>1 DEF CallInv
    <3>2. {r.readOnly, r.started, r.written, r.result, r.shaken, r.release, r.acted} \subseteq BOOLEAN
      BY <1>2, <3>1 DEF IsCall
    <3> QED
      BY <1>1, <1>2, <3>1, <3>2 DEF IsCall
  <2>4. Agrees(r) /\ Over(r)
    BY <1>1, <1>2, <2>2, ReplyDepends DEF CallInv, Agrees, Over
  <2>5. CallInv(r)
    BY <1>2, <2>2, <2>3, <2>4 DEF CallInv
  <2> QED
    BY <2>1, <2>5, BecomeInv
<1>4. CASE Awaits(c, {"release"})
  <2>1. /\ Moving(s) /\ s.rest # <<>> /\ Head(s.rest) = "release" /\ Head(s.rest) \notin SyncSteps /\ Running(s)
    BY <1>4, AwaitsIs DEF Awaits
  <2>2. \/ \E why \in {"interrupted", "error"} : Become(c, Fail(r, why))
        \/ r.failure # "none" /\ Become(c, End(r))
        \/ r.failure = "none" /\ Become(c, Continue(r, Tail(r.rest)))
    BY <1>4 DEF Released
  <2> HIDE DEF r
  <2>3. Moving(r)
    <3>1. Agrees(r)
      BY <1>2, <2>1 DEF Moving, Agrees
    <3> QED
      BY <1>2, <2>1, <3>1 DEF Moving
  <2>4. Running(r)
    <3>1. s.failure = "none" => Ahead(r, r.rest)
      BY <1>2, <2>1, AheadSame DEF Running
    <3> QED
      BY <1>2, <2>1, <3>1 DEF Running
  <2>5. \A why \in {"interrupted", "error"} : \A n \in Fail(r, why) : CallInv(n)
    BY <1>2, <2>1, <2>3, FailInv
  <2>6. r.failure # "none" => \A n \in End(r) : CallInv(n)
    BY <1>2, <2>3, EndInv
  <2>7. r.failure = "none" => \A n \in Continue(r, Tail(r.rest)) : CallInv(n)
    <3>1. Head(r.rest) \notin LockSteps
      BY <1>2, <2>1 DEF LockSteps
    <3> QED
      BY <1>2, <2>1, <2>3, <2>4, <3>1, GoesOn
  <2> QED
    BY <2>2, <2>5, <2>6, <2>7, BecomeInv
<1> QED
  BY <1>3, <1>4

LEMMA TabClosesInv ==
  ASSUME ToolCallsInv, NEW c \in Call, TabCloses(c)
  PROVE  ToolCallsInv'
<1> DEFINE r == call[c]
<1>1. /\ Moving(r) /\ r.rest # <<>> /\ Head(r.rest) \notin LockSteps /\ Head(r.rest) \notin SyncSteps
      /\ Running(r) /\ ~r.release /\ Head(r.rest) # "expect"
  BY AwaitsIs DEF TabCloses, Awaits, LockSteps
<1>2. \/ r.failure # "none" /\ Become(c, End(r))
      \/ r.failure = "none" /\ Become(c, Fail(r, "error") \cup Continue(r, Tail(r.rest)))
  BY DEF TabCloses
<1>3. r.failure # "none" => \A n \in End(r) : CallInv(n)
  BY <1>1, EndInv
<1>4. \A n \in Fail(r, "error") : CallInv(n)
  BY <1>1, FailInv
<1>5. r.failure = "none" => \A n \in Continue(r, Tail(r.rest)) : CallInv(n)
  BY <1>1, GoesOn
<1>6. r.failure = "none" => \A n \in Fail(r, "error") \cup Continue(r, Tail(r.rest)) : CallInv(n)
  BY <1>4, <1>5
<1> QED
  BY <1>2, <1>3, <1>6, BecomeInv

LEMMA AbandonedInv ==
  ASSUME ToolCallsInv, NEW c \in Call, Abandoned(c)
  PROVE  ToolCallsInv'
<1> DEFINE r == call[c]
<1>1. Moving(r) /\ r.rest # <<>> /\ Head(r.rest) = "abandon" /\ Running(r) /\ ~r.release
  BY AwaitsIs DEF Abandoned, Awaits
<1>2. r.failure # "none"
  BY <1>1, TailLeft DEF Running, Ahead, Range, Moving
<1>3. \A n \in End(r) : CallInv(n)
  BY <1>1, <1>2, EndInv
<1> QED
  BY <1>3, BecomeInv DEF Abandoned

LEMMA InterruptInv ==
  ASSUME ToolCallsInv, NEW c \in Call, NEW why \in Interruptions, Interrupt(c, why)
  PROVE  ToolCallsInv'
<1> DEFINE s == call[c]
           r == [s EXCEPT !.cancels = @ \cup {why}]
<1>1. /\ Moving(s) /\ s.rest # <<>> /\ Head(s.rest) \notin SyncSteps /\ Running(s) /\ s.state = "running"
      /\ s.release => Head(s.rest) = "release"
      /\ Head(s.rest) \notin CleanupSteps => s.failure = "none"
  BY AwaitsIs DEF Interrupt
<1>2. why \notin s.cancels /\ (why = "client" => Head(s.rest) # "release")
  BY <1>1 DEF Interrupt, Awaits
<1>3. /\ DOMAIN r = Fields /\ r.state = s.state /\ r.rest = s.rest /\ r.holds = s.holds
      /\ r.reply = s.reply /\ r.release = s.release
      /\ r.readOnly = s.readOnly /\ r.started = s.started /\ r.written = s.written
      /\ r.result = s.result /\ r.observer = s.observer /\ r.failure = s.failure
      /\ r.cancels = s.cancels \cup {why} /\ r.shaken = s.shaken /\ r.did = s.did
      /\ r.acted = s.acted /\ r.waits = s.waits /\ r.event = s.event
  BY <1>1 DEF Moving, Fields
<1>4. Become(c, Interrupted(r))
  BY DEF Interrupt
<1> HIDE DEF r
<1>5. Moving(r)
  BY <1>1, <1>3 DEF Moving, Agrees
<1>6. CASE Head(r.rest) = "release" /\ ~r.shaken
  <2> DEFINE n == [r EXCEPT !.shaken = TRUE]
  <2>1. Become(c, {n})
    BY <1>4, <1>6 DEF Interrupted
  <2>2. /\ DOMAIN n = Fields /\ n.state = r.state /\ n.rest = r.rest /\ n.holds = r.holds
        /\ n.reply = r.reply /\ n.release = r.release
        /\ n.readOnly = r.readOnly /\ n.started = r.started /\ n.written = r.written
        /\ n.result = r.result /\ n.observer = r.observer /\ n.failure = r.failure
        /\ n.cancels = r.cancels /\ n.shaken = TRUE /\ n.did = r.did
        /\ n.acted = r.acted /\ n.waits = r.waits /\ n.event = r.event
    BY <1>5 DEF Moving, Fields
  <2> HIDE DEF n
  <2>3. n.cancels \ {"client"} # {}
    BY <1>2, <1>3, <1>6, <2>2
  <2>4. Moving(n)
    <3>1. Agrees(n)
      BY <1>5, <2>2, <2>3 DEF Moving, Agrees
    <3> QED
      BY <1>5, <2>2, <2>3, <3>1 DEF Moving
  <2>5. n.failure = "none" => Ahead(n, n.rest)
    BY <1>1, <1>3, <2>2, AheadSame DEF Running
  <2>6. Running(n)
    BY <1>1, <1>3, <2>2, <2>5 DEF Running
  <2>7. CallInv(n)
    BY <1>1, <1>3, <2>2, <2>4, <2>6, Awaiting
  <2> QED
    BY <2>1, <2>7, BecomeInv
<1>7. CASE Head(r.rest) = "launch"
  <2> DEFINE n == [r EXCEPT !.failure = "interrupted", !.rest = <<"abandon">>]
  <2>1. Become(c, {n})
    BY <1>4, <1>7 DEF Interrupted
  <2>2. /\ DOMAIN n = Fields /\ n.state = r.state /\ n.rest = <<"abandon">> /\ n.holds = r.holds
        /\ n.reply = r.reply /\ n.release = r.release
        /\ n.readOnly = r.readOnly /\ n.started = r.started /\ n.written = r.written
        /\ n.result = r.result /\ n.observer = r.observer /\ n.failure = "interrupted"
        /\ n.cancels = r.cancels /\ n.shaken = r.shaken /\ n.did = r.did
        /\ n.acted = r.acted /\ n.waits = r.waits /\ n.event = r.event
    BY <1>5 DEF Moving, Fields
  <2> HIDE DEF n
  <2>3. /\ n.rest \in Seq(Steps) /\ n.rest # <<>> /\ Head(n.rest) = "abandon"
        /\ "abandon" \in CleanupSteps /\ "abandon" \notin SyncSteps \cup WaitSteps
    BY <2>2 DEF Steps, SyncSteps, CleanupSteps, WaitSteps
  <2>4. Moving(n)
    <3>1. Agrees(n)
      BY <1>5, <2>2, <2>3 DEF Moving, Agrees
    <3> QED
      BY <1>5, <2>2, <2>3, <3>1 DEF Moving
  <2>5. Running(n)
    BY <1>1, <1>3, <1>7, <2>2, <2>3, <2>4 DEF Running, Moving
  <2>6. CallInv(n)
    BY <2>3, <2>4, <2>5, Awaiting
  <2> QED
    BY <2>1, <2>6, BecomeInv
<1>8. CASE Head(r.rest) # "launch" /\ ~(Head(r.rest) = "release" /\ ~r.shaken)
  <2>1. Become(c, Fail(r, "interrupted"))
    BY <1>4, <1>8 DEF Interrupted
  <2>2. ASSUME r.release PROVE Cardinality(r.cancels \ {"client"}) >= 2
    <3>1. Head(s.rest) = "release" /\ s.shaken
      BY <1>1, <1>3, <1>8, <2>2
    <3>2. PICK other \in s.cancels \ {"client"} : TRUE
      BY <1>1, <3>1 DEF Moving, Agrees
    <3>3. {other, why} \subseteq r.cancels \ {"client"} /\ other # why
      BY <1>2, <1>3, <3>1, <3>2
    <3>4. IsFiniteSet(Interruptions)
      <4>1. IsFiniteSet({"server"})
        BY FS_Singleton
      <4>2. IsFiniteSet({"server"} \cup {"operation"})
        BY <4>1, FS_AddElement
      <4>3. IsFiniteSet({"server"} \cup {"operation"} \cup {"client"})
        BY <4>2, FS_AddElement
      <4>4. IsFiniteSet({"server"} \cup {"operation"} \cup {"client"} \cup {"teardown"})
        BY <4>3, FS_AddElement
      <4>5. Interruptions = {"server"} \cup {"operation"} \cup {"client"} \cup {"teardown"}
        BY DEF Interruptions
      <4> QED
        BY <4>4, <4>5
    <3>5. r.cancels \ {"client"} \subseteq Interruptions
      BY <1>5 DEF Moving
    <3>6. IsFiniteSet(r.cancels \ {"client"})
      BY <3>4, <3>5, FS_Subset
    <3>7. Cardinality({other, why}) = 2
      <4>1. IsFiniteSet({other}) /\ Cardinality({other}) = 1
        BY FS_Singleton
      <4>2. Cardinality({other} \cup {why}) = Cardinality({other}) + 1
        BY <3>3, <4>1, FS_AddElement
      <4>3. {other} \cup {why} = {other, why}
        OBVIOUS
      <4> QED
        BY <4>1, <4>2, <4>3
    <3>8. Cardinality({other, why}) <= Cardinality(r.cancels \ {"client"})
      BY <3>3, <3>6, FS_Subset
    <3> QED
      BY <3>6, <3>7, <3>8, FS_CardinalityType
  <2>3. \A n \in Fail(r, "interrupted") : CallInv(n)
    BY <1>1, <1>3, <1>5, <2>2, FailInv
  <2> QED
    BY <2>1, <2>3, BecomeInv
<1> QED
  BY <1>6, <1>7, <1>8


-----------------------------------------------------------------------------
(* The theorems *)

LEMMA InitInv == Init => ToolCallsInv
<1> SUFFICES ASSUME Init PROVE ToolCallsInv
  OBVIOUS
<1> DEFINE r == [NewCall("", <<>>) EXCEPT !.state = "idle"]
<1>1. /\ DOMAIN r = Fields /\ r.state = "idle" /\ r.rest = <<>> /\ r.holds = {} /\ r.readOnly \in BOOLEAN
      /\ r.started = FALSE /\ r.written = FALSE /\ r.result = FALSE /\ r.observer = "off"
      /\ r.failure = "none" /\ r.cancels = {} /\ r.shaken = FALSE /\ r.release = FALSE /\ r.did = {}
      /\ r.acted = FALSE /\ r.waits = "none" /\ r.event = "none" /\ r.reply = NoReply
  BY DEF NewCall, Fields
<1> HIDE DEF r
<1>2. CallInv(r)
  BY <1>1, FieldsOfCall, EmptySeq DEF CallInv, IsCall, Agrees
<1>3. instance = "live" /\ DOMAIN call = Call /\ \A c \in Call : call[c] = r
  BY DEF Init, r
<1> QED
  BY <1>2, <1>3 DEF ToolCallsInv, TypeOK, CallInv

LEMMA NextInv ==
  ASSUME ToolCallsInv, [Next]_vars
  PROVE  ToolCallsInv'
<1>1. ASSUME NEW c \in Call, Begin(c) \/ Acquire(c) \/ Answers(c) PROVE ToolCallsInv'
  BY <1>1, BeginInv, AcquireInv, AnswersInv
<1>2. ASSUME NEW c \in Call, LaunchStarts(c) \/ Finishes(c) \/ Fails(c) PROVE ToolCallsInv'
  BY <1>2, LaunchStartsInv, FinishesInv, FailsInv
<1>3. ASSUME NEW c \in Call, Emits(c) \/ Observes(c) PROVE ToolCallsInv'
  BY <1>3, EmitsInv, ObservesInv
<1>4. ASSUME NEW c \in Call, Released(c) \/ TabCloses(c) \/ Abandoned(c) PROVE ToolCallsInv'
  BY <1>4, ReleasedInv, TabClosesInv, AbandonedInv
<1>5. ASSUME NEW c \in Call, NEW why \in Interruptions, Interrupt(c, why) PROVE ToolCallsInv'
  BY <1>5, InterruptInv
<1>6. CASE Crash \/ Close \/ Closed
  BY <1>6 DEF ToolCallsInv, TypeOK, Crash, Close, Closed
<1>7. CASE UNCHANGED vars
  BY <1>7 DEF ToolCallsInv, TypeOK, vars
<1> QED
  BY <1>1, <1>2, <1>3, <1>4, <1>5, <1>6, <1>7 DEF Next

\* What a call has done is what its metadata says, and what is left of its body
\* respects what every body does, after every step of Next.
THEOREM ToolCallsInvariant == Spec => []ToolCallsInv
<1>1. Init => ToolCallsInv
  BY InitInv
<1>2. ToolCallsInv /\ [Next]_vars => ToolCallsInv'
  BY NextInv
<1> QED
  BY <1>1, <1>2, PTL DEF Spec

\* A call has no reply before it is over, and the one it has is of _finish().
LEMMA ReplyOf ==
  ASSUME ToolCallsInv, NEW c \in Call
  PROVE  LET r == call[c] IN
         /\ Agrees(r)
         /\ \/ r.reply = NoReply
            \/ r.state = "over" /\ Over(r) /\ r.reply.outcome = Outcome(r)
               /\ r.reply.status = (IF r.failure = "none" /\ r.reply.error # "result_too_large"
                                    THEN "success" ELSE "error")
               /\ \/ /\ r.reply.retry = Retry(r) /\ r.reply.completed = Completed(r)
                     /\ r.reply.error = (IF r.failure = "interrupted" THEN "operation_timeout" ELSE r.failure)
                  \/ /\ r.reply.retry = "inspect_state" /\ r.reply.completed = FALSE
                     /\ r.reply.error = "result_too_large"
<1> DEFINE r == call[c]
<1>1. CallInv(r)
  BY OfInv
<1>2. r.state \in {"idle", "running"} => r.reply = NoReply
  BY <1>1 DEF CallInv, Running
<1>3. ASSUME r.state = "over", r.reply # NoReply
      PROVE  /\ r.reply.outcome = Outcome(r)
             /\ r.reply.status = (IF r.failure = "none" /\ r.reply.error # "result_too_large"
                                  THEN "success" ELSE "error")
             /\ \/ /\ r.reply.retry = Retry(r) /\ r.reply.completed = Completed(r)
                   /\ r.reply.error = (IF r.failure = "interrupted" THEN "operation_timeout" ELSE r.failure)
                \/ /\ r.reply.retry = "inspect_state" /\ r.reply.completed = FALSE
                   /\ r.reply.error = "result_too_large"
  <2> DEFINE full == [status    |-> IF r.failure = "none" THEN "success" ELSE "error",
                      error     |-> IF r.failure = "interrupted" THEN "operation_timeout" ELSE r.failure,
                      outcome   |-> Outcome(r),
                      retry     |-> Retry(r),
                      completed |-> Completed(r)]
  <2> DEFINE large == [full EXCEPT !.status = "error", !.error = "result_too_large",
                                   !.retry = "inspect_state", !.completed = FALSE]
  <2>1. r.reply = full \/ r.reply = large
    BY <1>1, <1>3 DEF CallInv, Over, Replies
  <2>2. /\ full.status = (IF r.failure = "none" THEN "success" ELSE "error")
        /\ full.error = (IF r.failure = "interrupted" THEN "operation_timeout" ELSE r.failure)
        /\ full.outcome = Outcome(r) /\ full.retry = Retry(r) /\ full.completed = Completed(r)
    OBVIOUS
  <2>3. /\ large.status = "error" /\ large.error = "result_too_large" /\ large.outcome = Outcome(r)
        /\ large.retry = "inspect_state" /\ large.completed = FALSE
    OBVIOUS
  <2> HIDE DEF full, large
  <2>4. full.error # "result_too_large"
    BY <1>1, <2>2 DEF CallInv, IsCall
  <2>5. CASE r.reply = full
    BY <2>2, <2>4, <2>5
  <2>6. CASE r.reply = large
    BY <2>3, <2>6
  <2> QED
    BY <2>1, <2>5, <2>6
<1>4. r.state \in {"idle", "running", "over"}
  BY <1>1 DEF CallInv, IsCall
<1> QED
  BY <1>1, <1>2, <1>3, <1>4 DEF CallInv

\* After "not_started" nothing has been done; "read_only" is advised after
\* nothing but an opened page or a given up instance.
THEOREM Advice == Spec => []AdviceSafe
<1>1. ToolCallsInv => AdviceSafe
  <2> SUFFICES ASSUME ToolCallsInv, NEW c \in Call
               PROVE  LET r == call[c] IN
                      /\ r.reply.outcome = "not_started" => r.did = {}
                      /\ r.reply.retry = "after_correction" => r.reply.outcome = "not_started"
                      /\ r.reply.retry = "read_only" => r.did \subseteq {"page", "instance"}
    BY DEF AdviceSafe
  <2> QED
    <3> DEFINE r == call[c]
    <3>1. r.failure \in {"none", "error", "unobserved", "terminated", "interrupted"}
      BY OfInv DEF CallInv, IsCall
    <3>2. Outcome(r) = "not_started" => r.failure # "none" /\ ~r.started
      BY DEF Outcome
    <3>3. Retry(r) = "after_correction" => Outcome(r) = "not_started"
      BY DEF Retry, Outcome
    <3>4. Retry(r) = "read_only" => r.readOnly /\ ~r.written
      BY DEF Retry
    <3> QED
      <4>1. Agrees(r)
        BY ReplyOf
      <4>2. CASE r.reply = NoReply
        BY <4>2 DEF NoReply
      <4>3. CASE r.reply.outcome = Outcome(r) /\ r.reply.retry \in {Retry(r), "inspect_state"}
        BY <3>1, <3>2, <3>3, <3>4, <4>1, <4>3 DEF Agrees
      <4> QED
        BY <4>2, <4>3, ReplyOf
<1> QED
  BY <1>1, ToolCallsInvariant, PTL

\* action_completed is said of every action that has returned when the wait
\* fails or times out, and of no other.
THEOREM Completion == Spec => []CompletionTruthful
<1>1. ToolCallsInv => CompletionTruthful
  <2> SUFFICES ASSUME ToolCallsInv, NEW c \in Call
               PROVE  LET r == call[c] IN
                      /\ r.reply.completed => r.acted
                      /\ r.acted /\ r.reply.error \in {"operation_timeout", "unobserved", "terminated"}
                           => r.reply.completed
    BY DEF CompletionTruthful
  <2> DEFINE r == call[c]
  <2>1. /\ r.failure \in {"none", "error", "unobserved", "terminated", "interrupted"}
        /\ r.acted \in BOOLEAN /\ r.result \in BOOLEAN
    BY OfInv DEF CallInv, IsCall
  <2>2. CASE r.reply = NoReply
    BY <2>2 DEF NoReply
  <2>3. CASE r.reply.completed = FALSE /\ r.reply.error = "result_too_large"
    BY <2>3
  <2>4. CASE /\ Over(r) /\ Agrees(r) /\ r.reply.completed = Completed(r)
             /\ r.reply.error = (IF r.failure = "interrupted" THEN "operation_timeout" ELSE r.failure)
    BY <2>1, <2>4 DEF Over, Agrees, Completed
  <2> QED
    BY <2>2, <2>3, <2>4, ReplyOf
<1> QED
  BY <1>1, ToolCallsInvariant, PTL

\* The first event that the page emits while the action runs decides, except that the
\* timeout of a wait for an element or a text may come before a page that has gone.
THEOREM ActionEvents == Spec => []ActionEventsObserved
<1>1. ToolCallsInv => ActionEventsObserved
  <2> SUFFICES ASSUME ToolCallsInv, NEW c \in Call
               PROVE  LET r == call[c] IN
                      /\ r.reply.error = "unobserved" =>
                           r.event = "none" \/ (r.waits = "expect" /\ r.event = "failed")
                      /\ r.reply.error = "terminated" => r.event # "matched"
                      /\ r.reply.status = "success" /\ r.reply.completed => r.event # "failed"
    BY DEF ActionEventsObserved
  <2> DEFINE r == call[c]
  <2>1. r.failure \in {"none", "error", "unobserved", "terminated", "interrupted"}
    BY OfInv DEF CallInv, IsCall
  <2>2. CASE r.reply = NoReply
    BY <2>2 DEF NoReply
  <2>3. CASE r.reply.completed = FALSE /\ r.reply.error = "result_too_large"
    BY <2>3
  <2>4. CASE /\ Over(r) /\ Agrees(r) /\ r.reply.completed = Completed(r)
             /\ r.reply.error = (IF r.failure = "interrupted" THEN "operation_timeout" ELSE r.failure)
             /\ r.reply.status = (IF r.failure = "none" /\ r.reply.error # "result_too_large"
                                  THEN "success" ELSE "error")
    BY <2>1, <2>4 DEF Over, Agrees, Completed
  <2> QED
    BY <2>2, <2>3, <2>4, ReplyOf
<1> QED
  BY <1>1, ToolCallsInvariant, PTL

\* A call that ends before its button has come up was cancelled twice.
THEOREM ButtonReleased == Spec => []ReleasedUnderLock
<1>1. ToolCallsInv => ReleasedUnderLock
  BY DEF ToolCallsInv, Over, ReleasedUnderLock
<1> QED
  BY <1>1, ToolCallsInvariant, PTL
=============================================================================
