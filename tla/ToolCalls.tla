------------------------------ MODULE ToolCalls ------------------------------
(***************************************************************************)
(* Tool calls on one instance: operations.py follows each call and reports *)
(* what may have been done, operation_context.py records it on the way,    *)
(* observations.py waits for what an action causes, and the bodies of      *)
(* BrowserTools do it.  An action is one run of a call between two awaits; *)
(* a call can be interrupted at every await by the server's deadline, the  *)
(* deadline of its lock, its client and the forced phase of a close.       *)
(*                                                                         *)
(* The order of waiters on a lock and the two phases of the close are in   *)
(* InstanceOperations, launches in InstanceLifecycle, the list of modals   *)
(* in ModalStates, tabs in PageSelection, the saves of downloads in        *)
(* DownloadRegistry; here each of them may succeed, fail or not answer.    *)
(***************************************************************************)
EXTENDS Integers, Sequences, FiniteSets, Functions, BrowserTools

CONSTANTS
  Call,   \* tool calls
  Bodies, \* Bodies[tool]: the paths through the body of a tool (Tools in BrowserTools)
  Menu    \* Menu[c]: the tools that call c may name

\* operations.py: tools that may be repeated as long as they wrote no file.
ReadTools ==
  {"browser_health", "browser_list_instances", "browser_snapshot", "browser_frames", "browser_downloads",
   "browser_get_cookies", "browser_generate_locator", "browser_console_messages",
   "browser_network_requests", "browser_screenshot",
   "browser_verify_element_visible", "browser_verify_list_visible",
   "browser_verify_text_visible", "browser_verify_value"}

\* What every tool's body respects, on each of its paths: it holds a lock or has
\* called mark_operation_started() before it acts ...
ActsLate(path) ==
  \A i \in DOMAIN path : path[i] \in {"page", "tab", "input", "press", "consume"} =>
    \E j \in 1 .. i - 1 : path[j] \in LockSteps \cup {"mark"}

\* ... a tool that only reads neither acts on a page nor consumes a modal nor
\* launches a browser ...
OnlyReads(path) == Range(path) \cap {"input", "press", "consume", "launch"} = {}

\* ... an observed action, which is the only one of its call, runs between
\* arm() and wait() ...
ObservesAction(path) ==
  /\ \A i, j \in DOMAIN path : path[i] = "arm" /\ path[j] = "arm" => i = j
  /\ \A i \in DOMAIN path : path[i] = "arm" => \E j \in DOMAIN path : i < j /\ path[j] \in WaitSteps
  /\ \A i, j \in DOMAIN path : i < j /\ path[i] \in {"input", "press"} /\ path[j] \in WaitSteps =>
       \E k \in 1 .. i - 1 : path[k] = "arm"

\* ... and there is one wait_for.
WaitsOnce(path) == \A i, j \in DOMAIN path : path[i] \in WaitSteps /\ path[j] \in WaitSteps => i = j

ASSUME MenuAssumption == Menu \in [Call -> SUBSET DOMAIN Bodies]

ASSUME BodiesAssumption == \A tool \in DOMAIN Bodies : \A path \in Bodies[tool] :
  /\ path \in Seq(Steps) /\ "abandon" \notin Range(path)  \* which Interrupted() leads to
  /\ ActsLate(path) /\ ObservesAction(path) /\ WaitsOnce(path)
  /\ tool \in ReadTools => OnlyReads(path)

VARIABLES
  instance,  \* "live", "crashed", "closing" or "closed"
  call       \* call[c]: one tool call, see NewCall

vars == <<instance, call>>

Interruptions == {"server",     \* the deadline of OperationMiddleware
                  "operation",  \* the deadline of _operation, which starts later
                  "client",     \* the request is cancelled; AnyIO, respects its shields
                  "teardown"}   \* _safe_close cancels operation_tasks
NoReply == [status |-> "none", error |-> "none", outcome |-> "none", retry |-> "none", completed |-> FALSE]

\* A call that has just been received.
NewCall(tool, path) == [
  state    |-> "running",
  rest     |-> path,      \* the awaited step and those after it
  holds    |-> {},        \* locks of the instance
  readOnly |-> tool \in ReadTools,
  started  |-> FALSE,     \* execution_started
  written  |-> FALSE,     \* artifact_write_started
  result   |-> FALSE,     \* action_result is not None
  observer |-> "off",     \* "armed", or what its future holds: "matched", "failed"
  failure  |-> "none",    \* the exception that is being propagated
  cancels  |-> {},        \* the interruptions delivered so far
  shaken   |-> FALSE,     \* _release_drag_button has caught a CancelledError
  release  |-> FALSE,     \* the task of _release_drag_button runs
  did      |-> {},        \* history: what the call may have changed
  acted    |-> FALSE,     \* history: the observed action has returned
  waits    |-> "none",    \* history: the wait that followed it
  event    |-> "none",    \* history: the first event of the page during the action
  reply    |-> NoReply]

Init ==
  /\ instance = "live"
  /\ call = [c \in Call |-> [NewCall("", <<>>) EXCEPT !.state = "idle"]]

-----------------------------------------------------------------------------
(* The reply *)

\* _metadata(): what may have been done, and what the client may do about it.
Outcome(r) ==
  IF r.failure = "none" THEN "completed" ELSE IF r.started THEN "unknown" ELSE "not_started"

\* Fault: a tool that only reads is always safe to repeat.
RetryIgnoringWrites(r) ==
  IF r.failure = "none" THEN "not_needed"
  ELSE IF ~r.started THEN "after_correction"
  ELSE IF r.readOnly THEN "read_only" ELSE "inspect_state"

Retry(r) ==
  CASE r.failure = "none"                     -> "not_needed"
    [] r.failure # "none" /\ ~r.started       -> "after_correction"
    [] r.failure # "none" /\ r.started        -> IF r.readOnly /\ ~r.written THEN "read_only" ELSE "inspect_state"

\* The data of the reply says action_completed: run_observed_action put it
\* there, or _finish did after a deadline.
Completed(r) ==
  \/ r.failure = "none" /\ r.observer # "off"
  \/ r.failure = "interrupted" /\ r.result
  \/ r.failure \in {"unobserved", "terminated"}

\* _finish(), of a reply that fits and of one that is too large.  Only a call
\* that nothing but deadlines interrupted is answered after an interruption.
Replies(r) ==
  IF r.failure = "interrupted" /\ ~(r.cancels \subseteq {"server", "operation"})
  THEN {NoReply}
  ELSE LET full == [status    |-> IF r.failure = "none" THEN "success" ELSE "error",
                    error     |-> IF r.failure = "interrupted" THEN "operation_timeout" ELSE r.failure,
                    outcome   |-> Outcome(r),
                    retry     |-> Retry(r),
                    completed |-> Completed(r)]
       IN {full, [full EXCEPT !.status = "error", !.error = "result_too_large",
                              !.retry = "inspect_state", !.completed = FALSE]}

-----------------------------------------------------------------------------
(* How a call goes on.  Each operator is the set of what can become of r.  *)

Contains(s, step) == step \in Range(s)

\* Fault: a lock that is not released on the way out.
EndKeepingLocks(r) ==
  {[r EXCEPT !.state = "over", !.rest = <<>>, !.reply = reply] : reply \in Replies(r)}

\* The call returns, or its exception leaves on_call_tool().
End(r) ==
  {[r EXCEPT !.state = "over", !.rest = <<>>, !.holds = {}, !.reply = reply] : reply \in Replies(r)}

\* What the finally and except clauses await when the first step of s fails.
Owed(s) ==
  CASE Head(s) = "press" -> <<"release">>
    [] Contains(Tail(s), "closeTab") /\ ~Contains(s, "tab") -> <<"closeTab">>
    [] Contains(s, "select") /\ ~Contains(s, "tab") -> <<"discardTab">>
    [] OTHER -> <<>>

Fail(r, why) ==
  LET owed == Owed(r.rest)
      failing == [r EXCEPT !.failure = why]
  IN CASE owed = <<>> -> End(failing)
       [] owed # <<>> -> {[failing EXCEPT !.rest = owed, !.release = (owed = <<"release">>)]}

\* _start_close(), unless the instance is being closed already.
StartsClose(r) ==
  IF instance \in {"live", "crashed"}
  THEN [r EXCEPT !.started = TRUE, !.did = @ \cup {"instance"}]
  ELSE r

\* mark_artifact_write_started()
WriteStarted(r) == [r EXCEPT !.started = TRUE, !.written = TRUE]

\* Fault: the completed action is not recorded before the wait.
ActionCompletedUnrecorded(r) == r

\* mark_action_completed()
ActionCompleted(r) == [r EXCEPT !.result = TRUE]

\* r arrives at the await of its next step, or at the end of its body.  wait() does
\* not suspend for an event that is there already; for an element or a text it always does.
Arrive(r) ==
  LET step == Head(r.rest)
      acted == [ActionCompleted(r) EXCEPT !.acted = TRUE, !.waits = step]
  IN CASE r.rest = <<>> -> End(r)
       [] r.rest # <<>> ->
       CASE step \in {"input", "press"} -> {[r EXCEPT !.did = @ \cup {"input"}]}
         [] step \in {"page", "tab"}    -> {[r EXCEPT !.did = @ \cup {"page"}]}
         [] step = "release"            -> {[r EXCEPT !.release = TRUE]}
         [] step = "write"              -> {[WriteStarted(r) EXCEPT !.did = @ \cup {"file"}]}
         [] step = "destroy"            -> IF instance = "closed" THEN Fail(r, "error") ELSE {StartsClose(r)}
         [] step = "expect"             -> {acted}
         [] step = "observe"            -> CASE r.observer = "failed"  -> Fail(acted, "terminated")
                                             [] r.observer = "matched" -> End(acted)
                                             [] OTHER                  -> {acted}
         [] OTHER                       -> {r}

\* r after the first n steps of s, which run without an await.
Passing(r, s, n) ==
  LET passed(step) == \E i \in 1 .. n : s[i] = step IN
  [r EXCEPT !.rest     = SubSeq(s, n + 1, Len(s)),
            !.started  = @ \/ passed("mark"),
            !.did      = IF passed("consume") THEN @ \cup {"modal"} ELSE @,
            !.observer = IF passed("arm") THEN "armed" ELSE @,
            !.holds    = IF passed("unlock") THEN {} ELSE @]

\* get() returns the record: it is live, or retired and r is among its
\* operation_tasks.
Found(r) == instance = "live" \/ (instance = "closing" /\ r.holds # {})

\* r runs the steps s from an await to the next one, or to the first check
\* that fails.
Continue(r, s) ==
  LET n == CHOOSE n \in 0 .. Len(s) :
             /\ \A i \in 1 .. n : s[i] \in SyncSteps
             /\ n < Len(s) => s[n + 1] \notin SyncSteps
      at(k) == Passing(r, s, k)
      reaches(k) == \A i \in 1 .. k : s[i] # "refuse" /\ (s[i] = "lookup" => Found(at(i - 1)))
      refused == {k \in 0 .. n - 1 :
                    /\ reaches(k)
                    /\ \/ s[k + 1] \in {"validate", "refuse", "guard", "frame", "pin", "consume"}
                       \/ s[k + 1] = "lookup" /\ ~Found(at(k))}
      failed(k) == IF s[k + 1] = "lookup" /\ instance = "crashed" THEN StartsClose(at(k)) ELSE at(k)
  IN (UNION {Fail(failed(k), "error") : k \in refused}) \cup (IF reaches(n) THEN Arrive(at(n)) ELSE {})

\* The call c becomes one of rs, and the instance follows.
Become(c, rs) == \E r \in rs :
  /\ call' = [call EXCEPT ![c] = r]
  /\ instance' = IF "instance" \in r.did \ call[c].did THEN "closing" ELSE instance

Awaits(c, steps) == call[c].state = "running" /\ Head(call[c].rest) \in steps

-----------------------------------------------------------------------------
(* The steps of a call *)

\* on_call_tool(), of arguments that fit the tool's schema or do not.
Begin(c) ==
  /\ call[c].state = "idle"
  /\ \E tool \in Menu[c] : \E path \in Bodies[tool] \cup {<<"refuse">>} :
       Become(c, Continue(NewCall(tool, path), path))

\* _operation: the lock is free, _validate_record accepts the record or not.
Acquire(c) ==
  LET r == call[c] IN
  /\ Awaits(c, LockSteps)
  /\ \A d \in Call : Head(r.rest) \notin call[d].holds
  /\ Become(c, IF instance = "live"
               THEN Continue([r EXCEPT !.holds = {Head(r.rest)}, !.started = TRUE], Tail(r.rest))
               ELSE Fail(IF instance = "crashed" THEN StartsClose(r) ELSE r, "error"))

\* The browser answers.
Answers(c) ==
  LET r == call[c] IN
  /\ Awaits(c, BrowserSteps)
  /\ instance \in {"live", "closing"} \/ Head(r.rest) = "settle"
  /\ Become(c, Continue(r, Tail(r.rest)))

\* _launch_reserved begins, in a task that inherits the Operation of its caller.
LaunchStarts(c) ==
  /\ Awaits(c, {"launch"})
  /\ ~call[c].started
  /\ Become(c, {[call[c] EXCEPT !.started = TRUE, !.did = @ \cup {"browser"}]})

\* The file is written, the launch has a record, the close has ended.
Finishes(c) ==
  /\ Awaits(c, ServerSteps)
  /\ Head(call[c].rest) = "launch" => call[c].started
  /\ Head(call[c].rest) = "destroy" => instance = "closed"
  /\ Become(c, Continue(call[c], Tail(call[c].rest)))

\* The browser, the file system or the manager raises an exception.
Fails(c) ==
  /\ Awaits(c, (BrowserSteps \ {"settle"}) \cup ServerSteps)
  /\ Become(c, Fail(call[c], "error"))

\* Fault: a later event replaces the first one.
EmitsReplacing(c) ==
  LET r == call[c] IN
  /\ r.state = "running" /\ ("input" \in r.did \/ r.observer # "off")
  /\ \E event \in (IF Contains(r.rest, "observe") THEN {"matched", "failed"} ELSE {"failed"}) :
       /\ \E step \in WaitSteps : Contains(r.rest, step)
       /\ Become(c, {[r EXCEPT !.observer = IF @ = "off" THEN "off" ELSE event,
                               !.event    = IF @ = "none" /\ ~r.acted THEN event ELSE @]})

\* The page emits an event the call listens for, or closes or crashes.  The
\* first event after arm() sets the future.
Emits(c) ==
  LET r == call[c] IN
  /\ r.state = "running" /\ ("input" \in r.did \/ r.observer # "off")
  /\ \E event \in (IF Contains(r.rest, "observe") THEN {"matched", "failed"} ELSE {"failed"}) :
       /\ \E step \in WaitSteps : Contains(r.rest, step)
       /\ Become(c, {[r EXCEPT !.observer = IF @ = "armed" THEN event ELSE @,
                               !.event    = IF @ = "none" /\ ~r.acted THEN event ELSE @]})

\* The wait ends with what the future holds, with the postcondition or its
\* failure if the future holds nothing, or with its timeout, which may overtake
\* an event of the same turn of the loop.
Observes(c) ==
  LET r == call[c] IN
  /\ Awaits(c, WaitSteps)
  /\ \/ r.observer = "failed" /\ Become(c, Fail(r, "terminated"))
     \/ /\ r.observer = "matched" \/ (r.observer = "armed" /\ Head(r.rest) = "expect")
        /\ Become(c, Continue(r, Tail(r.rest)))
     \/ Become(c, Fail(r, "unobserved"))
     \/ r.observer = "armed" /\ Head(r.rest) = "expect" /\ Become(c, Fail(r, "error"))

-----------------------------------------------------------------------------
(* Cleanup, which is bounded: two seconds for a button or a tab *)

\* The task of _release_drag_button ends; a call that still waits goes on.
Released(c) ==
  LET r == [call[c] EXCEPT !.release = FALSE] IN
  /\ call[c].release
  /\ \/ ~Awaits(c, {"release"}) /\ Become(c, {r})
     \/ /\ Awaits(c, {"release"})
        /\ \/ r.shaken /\ Become(c, Fail(r, "interrupted"))
           \/ ~r.shaken /\ r.failure # "none" /\ Become(c, End(r))
           \/ ~r.shaken /\ r.failure = "none" /\ Become(c, Continue(r, Tail(r.rest)))
           \/ ~r.shaken /\ r.failure = "none" /\ Become(c, Fail(r, "error"))

\* page.close() of the tab succeeds, or fails; a failure is reported unless
\* another one already is.
TabCloses(c) ==
  LET r == call[c] IN
  /\ Awaits(c, {"closeTab", "discardTab"})
  /\ \/ r.failure # "none" /\ Become(c, End(r))
     \/ r.failure = "none" /\ Become(c, Fail(r, "error") \cup Continue(r, Tail(r.rest)))

\* The cancelled launch has ended, or close_timeout_seconds have passed.
Abandoned(c) == Awaits(c, {"abandon"}) /\ Become(c, End(call[c]))

-----------------------------------------------------------------------------
(* Interruptions *)

\* Fault: the release of the button is not awaited again.
InterruptedRelease(r) ==
  CASE Head(r.rest) = "launch" -> {[r EXCEPT !.failure = "interrupted", !.rest = <<"abandon">>]}
    [] OTHER -> Fail(r, "interrupted")

\* Fault: a launch is awaited to its end, however long it takes.
InterruptedButLaunch(r) ==
  CASE Head(r.rest) = "release" /\ ~r.shaken -> {[r EXCEPT !.shaken = TRUE]}
    [] Head(r.rest) = "launch" -> {r}
    [] OTHER -> Fail(r, "interrupted")

\* A CancelledError at the step r awaits.  A first one does not end the wait
\* for the button; a launch is cancelled and waited for.
Interrupted(r) ==
  CASE Head(r.rest) = "release" /\ ~r.shaken -> {[r EXCEPT !.shaken = TRUE]}
    [] Head(r.rest) = "launch" -> {[r EXCEPT !.failure = "interrupted", !.rest = <<"abandon">>]}
    [] OTHER -> Fail(r, "interrupted")

Interrupt(c, why) ==
  LET r == call[c] IN
  /\ r.state = "running" /\ why \notin r.cancels
  /\ why = "operation" => "server" \in r.cancels
  /\ why = "teardown" => instance = "closing"
  /\ why \in {"operation", "teardown"} => r.holds # {} \/ Awaits(c, LockSteps)
  /\ why = "client" => ~Awaits(c, {"release", "closeTab", "discardTab"})
  /\ Become(c, Interrupted([r EXCEPT !.cancels = @ \cup {why}]))

-----------------------------------------------------------------------------
(* The instance *)

Crash == instance = "live" /\ instance' = "crashed" /\ UNCHANGED call

\* destroy() by another client, or the reaper.
Close == instance \in {"live", "crashed"} /\ instance' = "closing" /\ UNCHANGED call

Closed == instance = "closing" /\ instance' = "closed" /\ UNCHANGED call

Next ==
  \/ \E c \in Call :
       \/ Begin(c) \/ Acquire(c) \/ Answers(c) \/ LaunchStarts(c) \/ Finishes(c) \/ Fails(c)
       \/ Emits(c) \/ Observes(c)
       \/ Released(c) \/ TabCloses(c) \/ Abandoned(c)
       \/ \E why \in Interruptions : Interrupt(c, why)
  \/ Crash \/ Close \/ Closed

\* The deadline of the middleware fires, and cleanup is bounded.  Nothing is
\* assumed of the browser, of clients or of the release of a lock.
Fairness == \A c \in Call :
  /\ WF_vars(Interrupt(c, "server"))
  /\ WF_vars(Released(c))
  /\ WF_vars(TabCloses(c))
  /\ WF_vars(Abandoned(c))

Spec     == Init /\ [][Next]_vars
FairSpec == Spec /\ Fairness

-----------------------------------------------------------------------------
(* Properties *)

IsCall(r) ==
  /\ DOMAIN r = DOMAIN NewCall("", <<>>)
  /\ r.state \in {"idle", "running", "over"}
  /\ r.rest \in Seq(Steps)
  /\ (r.state = "running") = (r.rest # <<>>)
  /\ r.state = "running" => Head(r.rest) \notin SyncSteps
  /\ r.holds \subseteq (IF r.state = "running" THEN LockSteps ELSE {})
  /\ {r.readOnly, r.started, r.written, r.result, r.shaken, r.release, r.acted} \subseteq BOOLEAN
  /\ r.observer \in {"off", "armed", "matched", "failed"}
  /\ r.failure \in {"none", "error", "unobserved", "terminated", "interrupted"}
  /\ r.cancels \subseteq Interruptions
  /\ r.waits \in WaitSteps \cup {"none"}
  /\ r.event \in {"none", "matched", "failed"}

\* Calls have their types: a running call awaits a step and no other call
\* holds a lock.
TypeOK ==
  /\ instance \in {"live", "crashed", "closing", "closed"}
  /\ DOMAIN call = Call /\ \A c \in Call : IsCall(call[c])

\* A client may act on the advice of an error.  After "not_started" nothing has
\* been done or will be, although the call may have been interrupted at any
\* await; after "read_only" at most the default page has been opened and a
\* crashed instance has been given up.
AdviceSafe == \A c \in Call : LET r == call[c] IN
  /\ r.reply.outcome = "not_started" => r.did = {}
  /\ r.reply.retry = "after_correction" => r.reply.outcome = "not_started"
  /\ r.reply.retry = "read_only" => r.did \subseteq {"page", "instance"}

\* An error says action_completed only of an action that has returned, and says
\* it whenever the action had returned and it was the wait that failed or was
\* cut off by the server's deadline.
CompletionTruthful == \A c \in Call : LET r == call[c] IN
  /\ r.reply.completed => r.acted
  /\ r.acted /\ r.reply.error \in {"operation_timeout", "unobserved", "terminated"} => r.reply.completed

\* What the page emits while the action runs decides the observation.  An event
\* is not reported as missing, although a page that has gone may be by a wait for
\* an element or a text, whose timeout can be first; a page that has gone is never
\* reported as a match, nor a match as a page that has gone.
ActionEventsObserved == \A c \in Call : LET r == call[c] IN
  /\ r.reply.error = "unobserved" => r.event = "none" \/ (r.waits = "expect" /\ r.event = "failed")
  /\ r.reply.error = "terminated" => r.event # "matched"
  /\ r.reply.status = "success" /\ r.reply.completed => r.event # "failed"

\* The button of a drag comes up under the lock of its call.  Only a second
\* task.cancel() during the release lets go of the lock before.
ReleasedUnderLock == \A c \in Call : LET r == call[c] IN
  r.release /\ r.state = "over" => Cardinality(r.cancels \ {"client"}) >= 2

\* Every call comes to an end, whatever the browser does not answer.
CallsEnd == \A c \in Call : call[c].state = "running" ~> call[c].state = "over"

-----------------------------------------------------------------------------
(* The inductive invariant behind them *)

\* What a call has done is what its metadata says, and the future of its
\* observer holds the first event of its action.
Agrees(r) ==
  /\ r.result = r.acted
  /\ ~r.started => r.did = {}
  /\ r.readOnly /\ ~r.written => r.did \subseteq {"page", "instance"}
  /\ r.event # "none" => r.observer = r.event
  /\ ~r.acted /\ r.observer \in {"matched", "failed"} => r.event = r.observer
  /\ r.failure \in {"unobserved", "terminated"} => r.acted
  /\ r.failure = "unobserved" => r.event = "none" \/ (r.waits = "expect" /\ r.event = "failed")
  /\ r.failure = "terminated" => r.event # "matched"
  /\ r.shaken => r.cancels \ {"client"} # {}

\* What the steps s that are still ahead of the call r respect.
Ahead(r, s) ==
  /\ "abandon" \notin Range(s)
  /\ WaitsOnce(s)
  /\ r.observer = "matched" => "expect" \notin Range(s)
  /\ r.started \/ ActsLate(s)
  /\ r.readOnly => OnlyReads(s)
  /\ r.observer = "off" =>
       /\ ObservesAction(s)
       /\ ~r.acted /\ "input" \in r.did => \A i \in DOMAIN s : s[i] \notin WaitSteps
  /\ r.observer # "off" =>
       /\ \A i \in DOMAIN s : s[i] # "arm"
       /\ ~r.acted => \E i \in DOMAIN s : s[i] \in WaitSteps

Running(r) ==
  /\ r.reply = NoReply
  /\ r.failure = "none" => Ahead(r, r.rest) /\ (r.acted /\ r.event = "failed" => Head(r.rest) = "expect")
  /\ r.failure # "none" => \E step \in CleanupSteps : r.rest = <<step>>
  /\ r.release => Head(r.rest) = "release"
  /\ Head(r.rest) \in WaitSteps => r.acted /\ r.waits = Head(r.rest) /\ r.event # "matched"
  /\ Head(r.rest) = "observe" => r.event = "none"

Over(r) ==
  /\ r.reply \in Replies(r)
  /\ r.failure = "none" /\ r.observer # "off" => r.acted /\ r.event # "failed"
  /\ r.release => Cardinality(r.cancels \ {"client"}) >= 2

ToolCallsInv ==
  /\ TypeOK
  /\ \A c \in Call : LET r == call[c] IN
       /\ Agrees(r)
       /\ r.state = "idle" => r.reply = NoReply /\ ~r.release
       /\ r.state = "running" => Running(r)
       /\ r.state = "over" => Over(r)
=============================================================================
