--------------------------- MODULE ServerLifecycle ---------------------------
(***************************************************************************)
(* __main__.py: the life of the server process.  main() prepares the       *)
(* browser in a worker process (browser_runtime.py), serves until the      *)
(* transport ends or a signal asks it to stop, and cleans up in order: the *)
(* server's task, the manager, telemetry (telemetry/runtime.py).  Signals  *)
(* and, for an embedding caller, cancellations of main() arrive at any     *)
(* await.  What shutdown_all() itself does is in InstanceLifecycle.        *)
(***************************************************************************)
EXTENDS Naturals

CONSTANT MaxCancels  \* bound of the model: task.cancel() calls on main()

ASSUME ServerAssumption == MaxCancels \in Nat

VARIABLES
  main,         \* what main() awaits, see Awaited
  result,       \* what main() is going to return or raise
  stop,         \* stop_event
  cancelled,    \* a CancelledError is on its way to main()
  cancels,      \* how often main() was cancelled
  preparation,  \* preparation_task
  interrupts,   \* how often the preparation was interrupted ...
  causes,       \* ... and by what: "signal", "cancel", "timeout"
  worker,       \* the process of ensure_camoufox_binary()
  server,       \* server_task
  stdin,        \* the pipe of the client, "unused" by the HTTP transport
  reaper,       \* the manager's reaper task
  manager,      \* the manager and its shutdown_all()
  telemetry     \* TelemetryRuntime

preparationVars == <<preparation, interrupts, causes, worker>>
serverVars == <<server, reaper, manager>>
vars == <<main, result, stop, cancelled, cancels, preparationVars, serverVars, stdin, telemetry>>

Awaited == {
  "preparing",   \* preparation_task
  "serving",     \* asyncio.wait of the server and the stop event
  "stopping",    \* asyncio.wait of the server, which was cancelled
  "gathering",   \* gather() in the finally clause
  "reaping",     \* stop_reaper()
  "draining",    \* shutdown_all()
  "closing"}     \* telemetry.shutdown()

Init ==
  /\ main = "preparing" /\ result = "returned"
  /\ stop = FALSE /\ cancelled = FALSE /\ cancels = 0
  /\ preparation = "created" /\ interrupts = 0 /\ causes = {} /\ worker = "none"
  /\ server = "none" /\ reaper = "off" /\ manager = "none"
  /\ stdin \in {"unused", "open"} /\ telemetry = "open"

Prepared    == preparation \in {"done", "failed", "cancelled"}
ServerEnded == server \in {"returned", "failed", "cancelled", "aborted"}
WorkerGone  == worker \in {"none", "exited"}

-----------------------------------------------------------------------------
(* ensure_camoufox_binary(), the preparation task *)

\* The interruption of the task by a cancellation or by its own deadline.  Its
\* except clause ends the worker and waits for it; another cancellation ends
\* that wait.  asyncio kills a process whose creation is cancelled.
Interrupted(cause) ==
  /\ interrupts' = interrupts + 1
  /\ causes' = causes \cup {cause}
  /\ \/ /\ preparation = "spawning"
        /\ preparation' = "killing" /\ worker' = "killed"
     \/ /\ preparation = "communicating" /\ worker = "running"
        /\ preparation' = "terminating" /\ worker' = "terminated"
     \/ /\ preparation = "communicating" /\ worker = "exited"
        /\ preparation' = IF cause = "timeout" THEN "failed" ELSE "cancelled"
        /\ UNCHANGED worker
     \/ /\ preparation \in {"created", "terminating", "killing", "checking"}
        /\ preparation' = "cancelled"
        /\ UNCHANGED worker

\* preparation_task.cancel()
CancelPreparation(cause) ==
  \/ ~Prepared /\ Interrupted(cause)
  \/ Prepared /\ UNCHANGED preparationVars

PreparationStarts ==
  /\ preparation = "created"
  /\ preparation' = "spawning"
  /\ UNCHANGED <<interrupts, causes, worker>>

WorkerStarts ==
  /\ preparation = "spawning"
  /\ \/ preparation' = "communicating" /\ worker' = "running"
     \/ preparation' = "failed" /\ UNCHANGED worker
  /\ UNCHANGED <<interrupts, causes>>

\* By itself, on SIGTERM or on SIGKILL.
WorkerExits ==
  /\ ~WorkerGone
  /\ worker' = "exited"
  /\ UNCHANGED <<preparation, interrupts, causes>>

\* The output of the worker is checked in a thread; a failure is raised.
PreparationGoesOn ==
  /\ \/ /\ preparation = "communicating" /\ worker = "exited"
        /\ preparation' \in {"checking", "failed"}
     \/ /\ preparation = "checking"
        /\ preparation' \in {"done", "failed"}
  /\ UNCHANGED <<interrupts, causes, worker>>

PreparationTimesOut == preparation = "communicating" /\ Interrupted("timeout")

\* wait_for(process.wait(), 5) has timed out.
WorkerKilled ==
  /\ preparation = "terminating" /\ worker = "terminated"
  /\ preparation' = "killing" /\ worker' = "killed"
  /\ UNCHANGED <<interrupts, causes>>

\* The worker has been waited for.
WorkerReaped ==
  /\ preparation \in {"terminating", "killing"} /\ worker = "exited"
  /\ preparation' = IF causes = {"timeout"} THEN "failed" ELSE "cancelled"
  /\ UNCHANGED <<interrupts, causes, worker>>

PreparationStep ==
  /\ \/ PreparationStarts \/ WorkerStarts \/ WorkerExits \/ PreparationGoesOn
     \/ PreparationTimesOut \/ WorkerKilled \/ WorkerReaped
  /\ UNCHANGED <<main, result, stop, cancelled, cancels, serverVars, stdin, telemetry>>

-----------------------------------------------------------------------------
(* Signals and cancellations *)

\* Fault: every signal cancels the preparation.
HeedsAlways == TRUE

\* request_stop(): repeated signals do nothing.
Heeds == ~stop

Signal ==
  /\ main \in Awaited
  /\ Heeds
  /\ stop' = TRUE
  /\ \/ main = "preparing" /\ CancelPreparation("signal")
     \/ main # "preparing" /\ UNCHANGED preparationVars
  /\ UNCHANGED <<main, result, cancelled, cancels, serverVars, stdin, telemetry>>

\* task.cancel() on main(), which passes it on to a task it awaits directly; a
\* second one can interrupt that task once more.
CancelMain ==
  /\ main \in Awaited
  /\ cancels < MaxCancels
  /\ cancelled' = TRUE /\ cancels' = cancels + 1
  /\ \/ main = "preparing" /\ CancelPreparation("cancel")
     \/ main # "preparing" /\ UNCHANGED preparationVars
  /\ UNCHANGED <<main, result, stop, serverVars, stdin, telemetry>>

-----------------------------------------------------------------------------
(* main(), from one await to the next *)

\* The finally clause of main(), reached with an outcome.
Leave(outcome) ==
  /\ main' = "closing" /\ telemetry' = "closing"
  /\ result' = outcome
  /\ cancelled' = FALSE

\* Fault: a stop during the last step of the preparation goes unnoticed.
StopRequestedByCancel == stop /\ preparation = "cancelled"

\* _serve() returns without having served.
StopRequested == stop /\ preparation \in {"done", "cancelled"}

PreparationError == IF preparation = "failed" THEN "preparation" ELSE "cancelled"

PreparationReturns ==
  /\ main = "preparing" /\ Prepared
  /\ \/ cancelled /\ Leave("cancelled") /\ UNCHANGED serverVars
     \/ /\ ~cancelled /\ StopRequested
        /\ Leave("returned") /\ UNCHANGED serverVars
     \/ /\ ~cancelled /\ ~StopRequested /\ preparation # "done"
        /\ Leave(PreparationError) /\ UNCHANGED serverVars
     \/ /\ ~cancelled /\ ~StopRequested /\ preparation = "done"  \* InstanceManager(), register_all()
        /\ Leave("setup") /\ UNCHANGED serverVars
     \/ /\ ~cancelled /\ ~StopRequested /\ preparation = "done"
        /\ main' = "serving"
        /\ server' = "running" /\ manager' = "live" /\ reaper' \in {"off", "running"}
        /\ UNCHANGED <<result, cancelled, telemetry>>
  /\ UNCHANGED <<stop, cancels, preparationVars, stdin>>

\* The client of a stdio server closes its end of the pipe.
ClientLeaves ==
  /\ stdin = "open" /\ stdin' = "closed"
  /\ UNCHANGED <<main, result, stop, cancelled, cancels, preparationVars, serverVars, telemetry>>

\* run_async() ends by itself, also with a CancelledError that nobody sent, or
\* because it was cancelled.
ServerEnds ==
  /\ \/ server = "running" /\ server' \in {"returned", "failed", "aborted"}
     \/ server = "cancelling" /\ server' \in {"returned", "failed", "cancelled"}
  /\ UNCHANGED <<main, result, stop, cancelled, cancels, preparationVars, stdin, reaper, manager, telemetry>>

\* The finally clause of _run_server(): both tasks are cancelled.
Unserve(outcome) ==
  /\ main' = "gathering"
  /\ result' = outcome
  /\ cancelled' = FALSE
  /\ server' = IF server = "running" THEN "cancelling" ELSE server

\* Fault: the server is given time to end by itself.
ServerStoppedGently ==
  /\ main' = "stopping"
  /\ UNCHANGED <<server, result, cancelled>>

ServerStopped ==
  /\ main' = "stopping"
  /\ server' = "cancelling"
  /\ UNCHANGED <<result, cancelled>>

\* `await server_task`, which raises what has ended the server.
ServerError == IF server = "failed" THEN "server" ELSE "cancelled"

\* Fault: once stopping, the server's end is not looked at.
ServerOutcomeUnlessStopping ==
  IF main = "stopping" \/ server = "returned" THEN "returned" ELSE ServerError

\* `return` of a server cancelled by the stop, otherwise `await server_task`.
ServerOutcome ==
  IF server \in {"returned", "cancelled"} THEN "returned" ELSE ServerError

ServingEnds ==
  /\ main \in {"serving", "stopping"}
  /\ \/ cancelled /\ Unserve("cancelled")
     \/ ~cancelled /\ ServerEnded /\ Unserve(ServerOutcome)
     \/ ~cancelled /\ ~ServerEnded /\ main = "serving" /\ stop /\ ServerStopped
  /\ UNCHANGED <<stop, cancels, preparationVars, stdin, reaper, manager, telemetry>>

\* gather() ends with its tasks, also when it is cancelled itself; then
\* _cleanup_manager() begins: stop_reaper(), or at once shutdown_all().
Gathered ==
  /\ main = "gathering" /\ ServerEnded
  /\ result' = IF cancelled THEN "cancelled" ELSE result
  /\ cancelled' = FALSE
  /\ \/ reaper = "running" /\ main' = "reaping" /\ UNCHANGED manager
     \/ reaper = "off" /\ main' = "draining" /\ manager' = "draining"
  /\ UNCHANGED <<stop, cancels, preparationVars, server, stdin, reaper, telemetry>>

\* An error of the cleanup does not replace an earlier outcome: preserve_error
\* and `failure is None`.
CleanupError(error) == IF result = "returned" THEN error ELSE result

\* stop_reaper() suppresses every CancelledError, also one meant for main(),
\* and raises what else has ended the reaper; the manager is shut down anyway.
ReaperStopped ==
  /\ main = "reaping"
  /\ \/ reaper' = "off" /\ UNCHANGED result
     \/ reaper' = "failed" /\ result' = CleanupError("reaper")
  /\ cancelled' = FALSE
  /\ main' = "draining" /\ manager' = "draining"
  /\ UNCHANGED <<stop, cancels, preparationVars, server, stdin, telemetry>>

\* shutdown_all() returns, fails or is cancelled; its task goes on then.
ManagerCleanedUp ==
  /\ main = "draining"
  /\ \/ cancelled /\ Leave("cancelled") /\ UNCHANGED manager
     \/ ~cancelled /\ Leave(result) /\ manager' = "drained"
     \/ ~cancelled /\ Leave(CleanupError("shutdown")) /\ manager' = "failed"
  /\ UNCHANGED <<stop, cancels, preparationVars, server, stdin, reaper>>

\* telemetry.shutdown() is bounded by its deadline; its task is shielded.
Exits ==
  /\ main = "closing"
  /\ main' = "exited"
  /\ \/ cancelled /\ result' = "cancelled" /\ UNCHANGED telemetry
     \/ ~cancelled /\ telemetry' = "closed" /\ UNCHANGED result
  /\ UNCHANGED <<stop, cancelled, cancels, preparationVars, serverVars, stdin>>

Next ==
  \/ PreparationStep \/ Signal \/ CancelMain
  \/ PreparationReturns \/ ClientLeaves \/ ServerEnds \/ ServingEnds \/ Gathered
  \/ ReaperStopped \/ ManagerCleanedUp \/ Exits

\* main() and the preparation run whenever they can, a killed process dies,
\* and the transport ends once it has been cancelled, over stdio only when its
\* blocking read has the client's EOF.  Nothing makes a worker end that was only
\* asked to, a server that was not, or a client leave.
Fairness ==
  /\ WF_vars(PreparationReturns) /\ WF_vars(ServingEnds) /\ WF_vars(Gathered)
  /\ WF_vars(ReaperStopped) /\ WF_vars(ManagerCleanedUp) /\ WF_vars(Exits)
  /\ WF_vars(PreparationStep /\ (WorkerKilled \/ WorkerReaped))
  /\ WF_vars(PreparationStep /\ worker = "killed" /\ WorkerExits)
  /\ WF_vars(server = "cancelling" /\ stdin # "open" /\ ServerEnds)

Spec     == Init /\ [][Next]_vars
FairSpec == Spec /\ Fairness

-----------------------------------------------------------------------------
(* Properties *)

\* Every variable has its type.
TypeOK ==
  /\ main \in Awaited \cup {"exited"}
  /\ result \in {"returned", "cancelled", "preparation", "setup", "server", "reaper", "shutdown"}
  /\ stop \in BOOLEAN /\ cancelled \in BOOLEAN /\ cancels \in Nat
  /\ preparation \in {"created", "spawning", "communicating", "terminating", "killing", "checking",
                      "done", "failed", "cancelled"}
  /\ interrupts \in Nat /\ causes \subseteq {"signal", "cancel", "timeout"}
  /\ worker \in {"none", "running", "terminated", "killed", "exited"}
  /\ server \in {"none", "running", "cancelling", "returned", "failed", "cancelled", "aborted"}
  /\ stdin \in {"unused", "open", "closed"}
  /\ reaper \in {"off", "running", "failed"}
  /\ manager \in {"none", "live", "draining", "drained", "failed"}
  /\ telemetry \in {"open", "closing", "closed"}

\* The process leaves nothing behind: the manager is shut down after the last
\* tool call, telemetry ends after both, and the worker has been waited for.
\* Only a second interruption that is not a repeated signal can leave a worker:
\* a signal or a cancellation during the cleanup that another one, or the
\* deadline of the preparation, has begun.
OrderlyExit ==
  /\ manager \in {"draining", "drained", "failed"} => ServerEnded
  /\ telemetry # "open" =>
       /\ server = "none" \/ ServerEnded
       /\ reaper # "running"
       /\ manager # "live"
       /\ WorkerGone \/ (interrupts >= 2 /\ causes # {"signal"})

\* A server that was asked to stop does not become ready any more.
NotServedAfterStop == [][main = "preparing" /\ main' = "serving" => ~stop]_vars

\* main() returns normally only if nothing failed, and raises CancelledError
\* only if it was cancelled or the server ended so by itself: a stop is not a
\* cancellation.  The first error is the one that is raised.
OutcomeReported ==
  /\ main = "exited" /\ result = "returned" =>
       /\ preparation # "failed" /\ server \notin {"failed", "aborted"}
       /\ reaper # "failed" /\ manager # "failed"
  /\ result = "cancelled" => cancels > 0 \/ server = "aborted"
  /\ result \in {"reaper", "shutdown"} => server \notin {"failed", "aborted"}
  /\ result = "shutdown" => reaper # "failed"

\* A stop ends the process, whatever it interrupts, unless the client of a stdio
\* server holds on to the pipe.
StopEnds == stop /\ stdin # "open" ~> main = "exited"
=============================================================================
