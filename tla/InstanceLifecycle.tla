------------------------- MODULE InstanceLifecycle -------------------------
(***************************************************************************)
(* instance_manager.py: the registry side of InstanceManager.  Each create *)
(* call runs two coroutines, the caller's create() and the launch task     *)
(* _launch_reserved; a failed launch adds a rollback task, a registered or *)
(* refused record a close task, and shutdown_all a shutdown task.  asyncio *)
(* interleaves them only at awaits, so one action is one run of one task   *)
(* between two awaits.  Critical sections under _registry_lock contain no  *)
(* await and are therefore single actions too.                             *)
(*                                                                         *)
(* The body of an operation on a record, its locks and the two phases of   *)
(* _safe_close are the subject of module InstanceOperations.               *)
(***************************************************************************)
EXTENDS FiniteSets, Integers

CONSTANTS
  Launch,        \* create() calls that reach admission, each with its arguments
  Name,          \* instance names
  NameOf,        \* NameOf[l]: the name argument of launch l
  ProfileOf,     \* ProfileOf[l]: its resolved profile directory, or NoProfile
  NoProfile,     \* profile_dir is None: an ephemeral browser
  Unreserved,    \* the name has no entry in _reservations
  None,          \* the name has no entry in a table of launches
  MaxInstances   \* config.max_instances

ASSUME LifecycleAssumption ==
  /\ IsFiniteSet(Name)
  /\ NameOf \in [Launch -> Name]
  /\ Unreserved \notin {ProfileOf[l] : l \in Launch}
  /\ Unreserved # NoProfile
  /\ None \notin Launch
  /\ MaxInstances \in Nat \ {0}

VARIABLES
  (* the tables of InstanceManager, keyed by name *)
  reservations,  \* _reservations: the profile reserved with the name
  pending,       \* _pending_creates: the launch task registered for the name
  instances,     \* _instances
  retired,       \* _retired
  launchCleanup, \* _launch_cleanup: status of a failed launch's rollback
  abandoned,     \* _abandoned_launches
  (* per launch *)
  call,          \* where create() is
  launch,        \* where the task _launch_reserved is
  cancelling,    \* task.cancel() was called on it and not delivered yet
  outcome,       \* how the launch task ends
  rollback,      \* the task _rollback_launch
  record,        \* status of the InstanceRecord; "closed" once its close task
                 \* has freed the name
  browser,       \* the browser behind the exit stack
  (* shutdown *)
  shutdown,      \* _shutting_down and the task _shutdown
  awaited        \* the tasks _shutdown waits for

tables == <<reservations, pending, instances, retired, launchCleanup, abandoned>>
tasks  == <<call, launch, cancelling, outcome, rollback, record, browser>>
vars   == <<tables, tasks, shutdown, awaited>>

Reserved == {n \in Name : reservations[n] # Unreserved}

ShuttingDown == shutdown # "none"

LaunchDone(l) == launch[l] \in {"ended", "finished"}

\* Fault: only a running close task counts.
CloseStartedOnlyWhileRunning(l) == record[l] = "closing"

\* Fault: a crashed record counts as being closed.
CloseStartedWhenCrashed(l) == record[l] \in {"crashed", "closing", "closed", "close_failed"}

\* close_task is not None
CloseStarted(l) == record[l] \in {"closing", "closed", "close_failed"}

\* Fault: a failed close is waited for as if it could still succeed.
SettledWhenClosed(l) == record[l] = "closed"

Settled(l) == record[l] \in {"closed", "close_failed"}

\* The browser of l may be running and may hold its profile directory.
MayRun(l) == browser[l] \in {"open", "closing", "stuck"}

TypeOK ==
  /\ reservations \in [Name -> {ProfileOf[l] : l \in Launch} \cup {Unreserved}]
  /\ pending \in [Name -> Launch \cup {None}]
  /\ instances \in [Name -> Launch \cup {None}]
  /\ retired \in [Name -> Launch \cup {None}]
  /\ launchCleanup \in [Name -> {"none", "closing", "close_failed"}]
  /\ abandoned \subseteq Launch
  /\ call \in [Launch -> {"idle", "waiting", "recovering", "closing", "returned", "raised"}]
  /\ launch \in [Launch -> {"none", "scheduled", "launching", "rollingBack",
                            "preparing", "unwinding", "ended", "finished"}]
  /\ cancelling \in [Launch -> BOOLEAN]
  /\ outcome \in [Launch -> {"none", "ok", "error", "cancelled"}]
  /\ rollback \in [Launch -> {"none", "closing", "done", "failed"}]
  /\ record \in [Launch -> {"none", "live", "crashed", "closing", "closed", "close_failed"}]
  /\ browser \in [Launch -> {"none", "open", "closing", "closed", "stuck"}]
  /\ shutdown \in {"none", "scheduled", "waiting", "drained", "timedOut"}
  /\ awaited \in [launches : SUBSET Launch, cleanups : SUBSET Launch]

Init ==
  /\ reservations = [n \in Name |-> Unreserved]
  /\ pending = [n \in Name |-> None]
  /\ instances = [n \in Name |-> None]
  /\ retired = [n \in Name |-> None]
  /\ launchCleanup = [n \in Name |-> "none"]
  /\ abandoned = {}
  /\ call = [l \in Launch |-> "idle"]
  /\ launch = [l \in Launch |-> "none"]
  /\ cancelling = [l \in Launch |-> FALSE]
  /\ outcome = [l \in Launch |-> "none"]
  /\ rollback = [l \in Launch |-> "none"]
  /\ record = [l \in Launch |-> "none"]
  /\ browser = [l \in Launch |-> "none"]
  /\ shutdown = "none"
  /\ awaited = [launches |-> {}, cleanups |-> {}]

-----------------------------------------------------------------------------
(* Helpers shared by several handlers *)

\* _start_close: nothing for a record that already has its close task;
\* otherwise the record leaves _instances, enters _retired, and its close task,
\* which begins by tearing down the exit stack, is scheduled.
StartClose(l) ==
  IF CloseStarted(l)
  THEN UNCHANGED <<instances, retired, record, browser>>
  ELSE /\ instances' = [instances EXCEPT ![NameOf[l]] = IF @ = l THEN None ELSE @]
       /\ retired' = [retired EXCEPT ![NameOf[l]] = l]
       /\ record' = [record EXCEPT ![l] = "closing"]
       /\ browser' = [browser EXCEPT ![l] = "closing"]

\* task.cancel() on the launch tasks in S: no effect on a task that is done.
Cancel(S) ==
  cancelling' = [l \in Launch |-> cancelling[l] \/ (l \in S /\ ~LaunchDone(l))]

\* The launch task of l runs into its last statement.
EndLaunch(l, result) ==
  /\ launch' = [launch EXCEPT ![l] = "ended"]
  /\ outcome' = [outcome EXCEPT ![l] = result]
  /\ cancelling' = [cancelling EXCEPT ![l] = FALSE]

-----------------------------------------------------------------------------
(* create(): admission, and the caller waiting for its launch task *)

\* Fault: the last slot is handed out twice.
HasRoomForOneMore == Cardinality(Reserved) <= MaxInstances

HasRoom == Cardinality(Reserved) < MaxInstances

\* Fault: profile directories are not compared.
ProfileUnchecked(p) == TRUE

ProfileFree(p) == p # NoProfile => \A m \in Name : reservations[m] # p

\* The body of the registry lock: _reserve and the launch task.
Create(l) ==
  LET n == NameOf[l] p == ProfileOf[l] IN
  /\ call[l] = "idle"
  /\ ~ShuttingDown
  /\ reservations[n] = Unreserved
  /\ HasRoom
  /\ ProfileFree(p)
  /\ reservations' = [reservations EXCEPT ![n] = p]
  /\ pending' = [pending EXCEPT ![n] = l]
  /\ call' = [call EXCEPT ![l] = "waiting"]
  /\ launch' = [launch EXCEPT ![l] = "scheduled"]
  /\ UNCHANGED <<instances, retired, launchCleanup, abandoned, cancelling,
                 outcome, rollback, record, browser, shutdown, awaited>>

\* shield(task) delivers the launch's result or error.
CreateReturns(l) ==
  /\ call[l] = "waiting"
  /\ launch[l] = "finished"
  /\ outcome[l] \in {"ok", "error"}
  /\ call' = [call EXCEPT ![l] = IF outcome[l] = "ok" THEN "returned" ELSE "raised"]
  /\ UNCHANGED <<tables, launch, cancelling, outcome, rollback, record, browser,
                 shutdown, awaited>>

\* CancelledError out of shield(task): the caller was cancelled, or the launch
\* task itself ended cancelled.
CreateCancelled(l) ==
  /\ call[l] = "waiting"
  /\ call' = [call EXCEPT ![l] = "recovering"]
  /\ abandoned' = abandoned \cup {l}
  /\ Cancel({l})
  /\ UNCHANGED <<reservations, pending, instances, retired, launchCleanup,
                 launch, outcome, rollback, record, browser, shutdown, awaited>>

\* The bounded wait for the cancelled launch saw it end; a launch that was
\* already successful is closed, because nobody will receive its record.
CreateRecovers(l) ==
  /\ call[l] = "recovering"
  /\ LaunchDone(l)
  /\ abandoned' = abandoned \ {l}
  /\ IF outcome[l] = "ok"
     THEN /\ StartClose(l)
          /\ call' = [call EXCEPT ![l] = "closing"]
     ELSE /\ call' = [call EXCEPT ![l] = "raised"]
          /\ UNCHANGED <<instances, retired, record, browser>>
  /\ UNCHANGED <<reservations, pending, launchCleanup, launch, cancelling,
                 outcome, rollback, shutdown, awaited>>

\* close_timeout_seconds passed, the close ended, or the caller was cancelled
\* once more while it waited; the original CancelledError is re-raised.
CreateGivesUp(l) ==
  /\ call[l] \in {"recovering", "closing"}
  /\ call' = [call EXCEPT ![l] = "raised"]
  /\ UNCHANGED <<tables, launch, cancelling, outcome, rollback, record, browser,
                 shutdown, awaited>>

-----------------------------------------------------------------------------
(* _launch_reserved *)

\* The launch task runs for the first time and calls launch_instance.
LaunchStarts(l) ==
  /\ launch[l] = "scheduled"
  /\ ~cancelling[l]
  /\ launch' = [launch EXCEPT ![l] = "launching"]
  /\ browser' = [browser EXCEPT ![l] = "open"]
  /\ UNCHANGED <<tables, call, cancelling, outcome, rollback, record, shutdown, awaited>>

\* A task cancelled before its first run never enters its coroutine.
LaunchNeverStarts(l) ==
  /\ launch[l] = "scheduled"
  /\ cancelling[l]
  /\ EndLaunch(l, "cancelled")
  /\ UNCHANGED <<tables, call, rollback, record, browser, shutdown, awaited>>

\* launch_instance raised, met the operation deadline or was cancelled: the
\* rollback task takes over whatever the launch had allocated.
LaunchFails(l) ==
  /\ launch[l] = "launching"
  /\ launch' = [launch EXCEPT ![l] = "rollingBack"]
  /\ outcome' = [outcome EXCEPT ![l] = IF cancelling[l] THEN "cancelled" ELSE "error"]
  /\ cancelling' = [cancelling EXCEPT ![l] = FALSE]
  /\ launchCleanup' = [launchCleanup EXCEPT ![NameOf[l]] = "closing"]
  /\ rollback' = [rollback EXCEPT ![l] = "closing"]
  /\ browser' = [browser EXCEPT ![l] = "closing"]
  /\ UNCHANGED <<reservations, pending, instances, retired, abandoned, call, record,
                 shutdown, awaited>>

\* Fault: the record is published although its caller has gone.
RefusedOnShutdownOnly(l) == ShuttingDown

Refused(l) == ShuttingDown \/ l \in abandoned

\* launch_instance returned, possibly in spite of a cancellation it swallowed.
\* _register_record publishes the record unless the server is shutting down or
\* the caller has gone; a refused record is closed.
LaunchSucceeds(l) ==
  /\ launch[l] = "launching"
  /\ cancelling' = [cancelling EXCEPT ![l] = FALSE]
  /\ IF Refused(l)
     THEN /\ StartClose(l)
          /\ launch' = [launch EXCEPT ![l] = "unwinding"]
          /\ outcome' = [outcome EXCEPT ![l] = "error"]
     ELSE /\ instances' = [instances EXCEPT ![NameOf[l]] = l]
          /\ record' = [record EXCEPT ![l] = "live"]
          /\ launch' = [launch EXCEPT ![l] = "preparing"]
          /\ UNCHANGED <<retired, browser, outcome>>
  /\ UNCHANGED <<reservations, pending, launchCleanup, abandoned, call, rollback,
                 shutdown, awaited>>

\* ensure_page_headers is done for every page.
PrepareSucceeds(l) ==
  /\ launch[l] = "preparing"
  /\ ~cancelling[l]
  /\ EndLaunch(l, "ok")
  /\ UNCHANGED <<tables, call, rollback, record, browser, shutdown, awaited>>

\* Page preparation raised, met the deadline or was cancelled: by
\* task.cancel(), or because a close task cancelled the page header task.
PrepareFails(l) ==
  /\ launch[l] = "preparing"
  /\ launch' = [launch EXCEPT ![l] = "unwinding"]
  /\ \E result \in {"error", "cancelled"} :
       /\ result = "cancelled" => cancelling[l] \/ CloseStarted(l)
       /\ outcome' = [outcome EXCEPT ![l] = result]
  /\ cancelling' = [cancelling EXCEPT ![l] = FALSE]
  /\ StartClose(l)
  /\ UNCHANGED <<reservations, pending, launchCleanup, abandoned, call, rollback,
                 shutdown, awaited>>

\* The launch task waits for its own cleanup, shielded; it stops waiting when
\* the cleanup ended or when it is cancelled (again), then re-raises.
LaunchUnwinds(l) ==
  /\ \/ launch[l] = "rollingBack" /\ (cancelling[l] \/ rollback[l] # "closing")
     \/ launch[l] = "unwinding" /\ (cancelling[l] \/ Settled(l))
  /\ EndLaunch(l, IF cancelling[l] THEN "cancelled" ELSE outcome[l])
  /\ UNCHANGED <<tables, call, rollback, record, browser, shutdown, awaited>>

\* Fault: a failed launch's rollback does not count.
NothingLeftButRollback(n) == instances[n] = None /\ retired[n] = None

\* Fault: a close in progress does not count.
NothingLeftButClose(n) == instances[n] = None /\ launchCleanup[n] = "none"

\* Only the launch itself still accounted for the name.
NothingLeft(n) == instances[n] = None /\ retired[n] = None /\ launchCleanup[n] = "none"

\* The done callback _launch_finished.
LaunchFinished(l) ==
  LET n == NameOf[l] IN
  /\ launch[l] = "ended"
  /\ launch' = [launch EXCEPT ![l] = "finished"]
  /\ abandoned' = abandoned \ {l}
  /\ IF pending[n] = l
     THEN /\ pending' = [pending EXCEPT ![n] = None]
          /\ IF NothingLeft(n)
             THEN reservations' = [reservations EXCEPT ![n] = Unreserved]
             ELSE UNCHANGED reservations
     ELSE UNCHANGED <<pending, reservations>>
  /\ UNCHANGED <<instances, retired, launchCleanup, call, cancelling, outcome,
                 rollback, record, browser, shutdown, awaited>>

-----------------------------------------------------------------------------
(* Cleanup: stack.aclose(), and the rollback and close tasks around it *)

\* stack.aclose() completed, in time or long after its deadline.
BrowserCloses(l) ==
  /\ browser[l] \in {"closing", "stuck"}
  /\ browser' = [browser EXCEPT ![l] = "closed"]
  /\ UNCHANGED <<tables, call, launch, cancelling, outcome, rollback, record,
                 shutdown, awaited>>

RollbackSucceeds(l) ==
  LET n == NameOf[l] IN
  /\ rollback[l] = "closing"
  /\ browser[l] = "closed"
  /\ rollback' = [rollback EXCEPT ![l] = "done"]
  /\ launchCleanup' = [launchCleanup EXCEPT ![n] = "none"]
  /\ reservations' = IF pending[n] = None THEN [reservations EXCEPT ![n] = Unreserved]
                                          ELSE reservations
  /\ UNCHANGED <<pending, instances, retired, abandoned, call, launch, cancelling,
                 outcome, record, browser, shutdown, awaited>>

\* aclose() raised, was cancelled or missed close_timeout_seconds.
RollbackFails(l) ==
  /\ rollback[l] = "closing"
  /\ browser[l] = "closing"
  /\ rollback' = [rollback EXCEPT ![l] = "failed"]
  /\ browser' = [browser EXCEPT ![l] = "stuck"]
  /\ launchCleanup' = [launchCleanup EXCEPT ![NameOf[l]] = "close_failed"]
  /\ UNCHANGED <<reservations, pending, instances, retired, abandoned, call, launch,
                 cancelling, outcome, record, shutdown, awaited>>

CloseSucceeds(l) ==
  LET n == NameOf[l] IN
  /\ record[l] = "closing"
  /\ browser[l] = "closed"
  /\ record' = [record EXCEPT ![l] = "closed"]
  /\ IF retired[n] = l
     THEN /\ retired' = [retired EXCEPT ![n] = None]
          /\ reservations' = [reservations EXCEPT ![n] = Unreserved]
     ELSE UNCHANGED <<retired, reservations>>
  /\ UNCHANGED <<pending, instances, launchCleanup, abandoned, call, launch, cancelling,
                 outcome, rollback, browser, shutdown, awaited>>

\* Teardown raised, was cancelled or missed its deadline: the record stays in
\* _retired and keeps its reservation.
CloseFails(l) ==
  /\ record[l] = "closing"
  /\ browser[l] = "closing"
  /\ record' = [record EXCEPT ![l] = "close_failed"]
  /\ browser' = [browser EXCEPT ![l] = "stuck"]
  /\ UNCHANGED <<tables, call, launch, cancelling, outcome, rollback, shutdown, awaited>>

-----------------------------------------------------------------------------
(* Who closes a registered record *)

\* The browser process disconnected; the listener only marks the record.
Crash(l) ==
  /\ record[l] = "live"
  /\ record' = [record EXCEPT ![l] = "crashed"]
  /\ UNCHANGED <<tables, call, launch, cancelling, outcome, rollback, browser,
                 shutdown, awaited>>

CloseRegistered(l) ==
  /\ instances[NameOf[l]] = l
  /\ StartClose(l)
  /\ UNCHANGED <<reservations, pending, launchCleanup, abandoned, call, launch,
                 cancelling, outcome, rollback, shutdown, awaited>>

\* destroy(), also of an instance whose create() is still preparing pages, and
\* reap_once() for a record that is idle beyond its TTL.
Destroy(l) == record[l] = "live" /\ CloseRegistered(l)

\* get() or reap_once() met the record of a crashed browser.
Evict(l) == record[l] = "crashed" /\ CloseRegistered(l)

-----------------------------------------------------------------------------
(* shutdown_all and _shutdown *)

ShutdownAll ==
  /\ shutdown = "none"
  /\ shutdown' = "scheduled"
  /\ UNCHANGED <<tables, tasks, awaited>>

\* The first run of _shutdown, up to its wait: cancel pending launches, close
\* every registered record and remember the cleanup tasks that exist now.
ShutdownStarts ==
  LET live == {l \in Launch : instances[NameOf[l]] = l} IN
  /\ shutdown = "scheduled"
  /\ shutdown' = "waiting"
  /\ Cancel({l \in Launch : pending[NameOf[l]] = l})
  /\ instances' = [n \in Name |-> None]
  /\ retired' = [n \in Name |-> IF instances[n] # None THEN instances[n] ELSE retired[n]]
  /\ record' = [l \in Launch |-> IF l \in live THEN "closing" ELSE record[l]]
  /\ browser' = [l \in Launch |-> IF l \in live THEN "closing" ELSE browser[l]]
  /\ awaited' = [launches |-> {l \in Launch : pending[NameOf[l]] = l},
                 cleanups |-> {l \in Launch : \/ record'[l] = "closing"
                                              \/ rollback[l] = "closing"
                                              \/ browser'[l] = "stuck"}]
  /\ UNCHANGED <<reservations, pending, launchCleanup, abandoned, call, launch,
                 outcome, rollback>>

\* Fault: pending launches are cancelled but not waited for.
AwaitedCleanupsDone ==
  \A l \in awaited.cleanups : record[l] # "closing" /\ rollback[l] # "closing"

AwaitedDone ==
  /\ \A l \in awaited.launches : LaunchDone(l)
  /\ \A l \in awaited.cleanups : record[l] # "closing" /\ rollback[l] # "closing"

ShutdownDrained ==
  /\ shutdown = "waiting"
  /\ AwaitedDone
  /\ shutdown' = "drained"
  /\ UNCHANGED <<tables, tasks, awaited>>

\* close_timeout_seconds passed with some task, at least a torn exit stack,
\* still unfinished.
ShutdownTimesOut ==
  /\ shutdown = "waiting"
  /\ ~AwaitedDone \/ \E l \in awaited.cleanups : browser[l] = "stuck"
  /\ shutdown' = "timedOut"
  /\ UNCHANGED <<tables, tasks, awaited>>

-----------------------------------------------------------------------------

CreateCall(l) == \/ Create(l) \/ CreateReturns(l) \/ CreateCancelled(l)
                 \/ CreateRecovers(l) \/ CreateGivesUp(l)

LaunchTask(l) == \/ LaunchStarts(l) \/ LaunchNeverStarts(l) \/ LaunchFails(l)
                 \/ LaunchSucceeds(l) \/ PrepareSucceeds(l) \/ PrepareFails(l)
                 \/ LaunchUnwinds(l) \/ LaunchFinished(l)

Cleanup(l) == \/ BrowserCloses(l) \/ RollbackSucceeds(l) \/ RollbackFails(l)
              \/ CloseSucceeds(l) \/ CloseFails(l)

Shutdown == \/ ShutdownAll \/ ShutdownStarts \/ ShutdownDrained \/ ShutdownTimesOut

Next ==
  \/ \E l \in Launch : \/ CreateCall(l) \/ LaunchTask(l) \/ Cleanup(l)
                       \/ Crash(l) \/ Destroy(l) \/ Evict(l)
  \/ Shutdown

Spec == Init /\ [][Next]_vars

\* What asyncio and the code's deadlines make happen: ready tasks run, a launch
\* ends by its operation deadline, page preparation by the same deadline, and
\* cleanup tasks and waits by close_timeout_seconds.  The reaper evicts crashed
\* records (idle_ttl_seconds > 0; by default it is off and only the next get()
\* evicts them).  Nothing makes callers cancel, destroy or shut down.
Fairness ==
  /\ \A l \in Launch :
       /\ WF_vars(LaunchStarts(l)) /\ WF_vars(LaunchNeverStarts(l))
       /\ WF_vars(LaunchFails(l) \/ LaunchSucceeds(l))
       /\ WF_vars(PrepareSucceeds(l) \/ PrepareFails(l))
       /\ WF_vars(LaunchUnwinds(l)) /\ WF_vars(LaunchFinished(l))
       /\ WF_vars(RollbackSucceeds(l) \/ RollbackFails(l))
       /\ WF_vars(CloseSucceeds(l) \/ CloseFails(l))
       /\ WF_vars(CreateReturns(l))
       /\ WF_vars(outcome[l] = "cancelled" /\ LaunchDone(l) /\ CreateCancelled(l))
       /\ WF_vars(CreateRecovers(l) \/ CreateGivesUp(l))
       /\ WF_vars(Evict(l))
  /\ WF_vars(ShutdownStarts)
  /\ WF_vars(ShutdownDrained \/ ShutdownTimesOut)

FairSpec == Spec /\ Fairness

-----------------------------------------------------------------------------
(* Safety *)

SameProfile(l, m) == ProfileOf[l] # NoProfile /\ ProfileOf[l] = ProfileOf[m]

\* Two browsers that may be running never share a name or a profile directory,
\* whatever order launches, rollbacks, closes and done callbacks run in.
\* (_reserve, _launch_finished, _rollback_launch and _safe_close all write
\* _reservations.)
BrowsersExclusive ==
  \A l, m \in Launch : l # m /\ MayRun(l) /\ MayRun(m) =>
    NameOf[l] # NameOf[m] /\ ~SameProfile(l, m)

\* "Names, capacity slots, and profile directories stay reserved until cleanup
\* is confirmed" (docs/concepts/instances-isolation.md): as long as a browser
\* may be running, its name is reserved together with its own profile.
ReservedWhileRunning ==
  \A l \in Launch : MayRun(l) => reservations[NameOf[l]] = ProfileOf[l]

\* At most max_instances browsers may be running, counting those of failed
\* launches and of failed or unfinished closes.
CapacityRespected == Cardinality({l \in Launch : MayRun(l)}) <= MaxInstances

\* A reservation is never leaked: while a name is reserved, a launch task, a
\* registered record, a retired record or a failed launch still accounts for it.
NoLeakedReservation ==
  \A n \in Reserved : \/ pending[n] # None \/ instances[n] # None
                      \/ retired[n] # None \/ launchCleanup[n] # "none"

\* A record is published only to a create() that is still waiting for it, and
\* never once the server is shutting down.
PublishedOnlyToCaller ==
  [][\A l \in Launch : record[l] = "none" /\ record'[l] = "live"
       => call[l] = "waiting" /\ ~ShuttingDown]_vars

\* A retired record is forgotten only by its own confirmed close: no second
\* launch of the same name, no rollback and no shutdown drops or replaces it.
RetiredUntilClosed ==
  [][\A n \in Name : retired[n] # None /\ retired'[n] # retired[n]
       => record'[retired[n]] = "closed" /\ ~MayRun(retired[n])]_vars

\* When shutdown_all returns in time, no instance is registered, no launch is
\* running and every browser that may be left belongs to a cleanup task.
DrainedLeavesOnlyCleanup ==
  shutdown = "drained" =>
    /\ \A n \in Name : instances[n] = None
    /\ \A l \in Launch : MayRun(l) =>
         record[l] \in {"closing", "close_failed"} \/ rollback[l] \in {"closing", "failed"}

\* "Stop admission and drain pending launches and teardown" (shutdown_all's
\* docstring): when it returns before its deadline no cleanup is in progress.
ShutdownDrains ==
  shutdown = "drained" =>
    \A l \in Launch : record[l] # "closing" /\ rollback[l] # "closing"

-----------------------------------------------------------------------------
(* Liveness, under FairSpec *)

\* Every create() call ends, whoever is cancelled and whatever fails.
CreateEnds ==
  \A l \in Launch : call[l] = "waiting" ~> call[l] \in {"returned", "raised"}

\* No name stays in limbo, crashed instances included: a reserved name becomes
\* free again, a live instance, or a failed cleanup that health_snapshot reports.
ReservationSettles ==
  \A n \in Name : n \in Reserved ~>
    \/ n \notin Reserved
    \/ instances[n] # None /\ record[instances[n]] = "live"
    \/ launchCleanup[n] = "close_failed"
    \/ retired[n] # None /\ record[retired[n]] = "close_failed"

-----------------------------------------------------------------------------
(* The refinement of InstanceOwnership *)

\* l has been admitted and its browser is not yet known to be gone.
Owns(l) ==
  \/ launch[l] \in {"scheduled", "launching"}
  \/ launch[l] = "ended" /\ record[l] = "none" /\ rollback[l] = "none"
  \/ rollback[l] \in {"closing", "failed"}
  \/ rollback[l] = "done" /\ pending[NameOf[l]] = l
  \/ record[l] \in {"live", "crashed", "closing", "close_failed"}

Phase == [l \in Launch |-> IF call[l] = "idle" THEN "new"
                           ELSE IF Owns(l) THEN "owning" ELSE "released"]

Ownership == INSTANCE InstanceOwnership WITH phase <- Phase

\* Whatever the tasks do, the registry behaves as an atomic ledger of names
\* and profiles in which a launch is admitted once and released once.
ImplementsOwnership == Ownership!Spec

-----------------------------------------------------------------------------
(* The inductive invariant behind the safety properties *)

\* How the tasks of one launch, its record and its browser relate.
PhasesAgree ==
  \A l \in Launch :
    /\ launch[l] = "none" <=> call[l] = "idle"
    /\ launch[l] \in {"none", "scheduled", "launching"}
         => record[l] = "none" /\ rollback[l] = "none"
    /\ launch[l] \in {"none", "scheduled"} => browser[l] = "none"
    /\ launch[l] = "launching" => browser[l] = "open"
    /\ launch[l] = "rollingBack" => rollback[l] # "none" /\ outcome[l] # "ok"
    /\ launch[l] \in {"preparing", "unwinding"} => record[l] # "none"
    /\ outcome[l] = "ok" => record[l] # "none"
    /\ rollback[l] # "none" => record[l] = "none"
    /\ LaunchDone(l) /\ record[l] = "none" /\ rollback[l] = "none" => browser[l] = "none"
    /\ rollback[l] = "closing" => browser[l] \in {"closing", "closed"}
    /\ rollback[l] = "failed" => browser[l] \in {"stuck", "closed"}
    /\ rollback[l] = "done" => browser[l] = "closed"
    /\ record[l] \in {"live", "crashed"} => browser[l] = "open"
    /\ record[l] = "closing" => browser[l] \in {"closing", "closed"}
    /\ record[l] = "close_failed" => browser[l] \in {"stuck", "closed"}
    /\ record[l] = "closed" => browser[l] = "closed"
    /\ launch[l] \in {"scheduled", "launching"} /\ call[l] # "waiting" => l \in abandoned

\* What the tables keyed by name say about the launches of that name.
TablesAgree ==
  \A n \in Name :
    /\ \A l \in Launch :
         /\ pending[n] = l => NameOf[l] = n /\ launch[l] \notin {"none", "finished"}
         /\ instances[n] = l <=> NameOf[l] = n /\ record[l] \in {"live", "crashed"}
         /\ retired[n] = l <=> NameOf[l] = n /\ record[l] \in {"closing", "close_failed"}
    /\ launchCleanup[n] # "none" <=>
         \E l \in Launch : NameOf[l] = n /\ rollback[l] \in {"closing", "failed"}

\* A launch that has no record yet is the pending one of its name.
PendingUntilRecord ==
  \A l \in Launch :
    \/ launch[l] \in {"scheduled", "launching", "rollingBack"}
    \/ launch[l] = "ended" /\ record[l] = "none"
    => pending[NameOf[l]] = l

\* Owners and reservations correspond, and no other launch of a name owns it
\* while one is pending.
OwnersReserved ==
  /\ \A l \in Launch : Owns(l) => reservations[NameOf[l]] = ProfileOf[l]
  /\ \A n \in Reserved : \E l \in Launch : Owns(l) /\ NameOf[l] = n
  /\ \A l, m \in Launch : Owns(l) /\ Owns(m) /\ NameOf[l] = NameOf[m] => l = m
  /\ \A l, m \in Launch : pending[NameOf[m]] = l /\ Owns(m) => l = m

\* _reserve hands a profile to one name only, and counts names.
ReservationsDistinct ==
  \A m, n \in Reserved : reservations[m] # NoProfile /\ reservations[m] = reservations[n] => m = n

ReservationsBounded == Cardinality(Reserved) <= MaxInstances

LifecycleInv ==
  /\ TypeOK
  /\ PhasesAgree
  /\ TablesAgree
  /\ PendingUntilRecord
  /\ OwnersReserved
  /\ ReservationsDistinct
  /\ ReservationsBounded

\* Behind the shutdown: once _shutdown has run, nothing is or will be registered,
\* and every launch that still has a browser to start is one it waits for.
ShutdownInv ==
  /\ shutdown \in {"waiting", "drained", "timedOut"} =>
       /\ \A n \in Name : instances[n] = None
       /\ \A l \in Launch : launch[l] \in {"scheduled", "launching"} => l \in awaited.launches
  /\ shutdown = "drained" => \A l \in awaited.launches : LaunchDone(l)
=============================================================================
