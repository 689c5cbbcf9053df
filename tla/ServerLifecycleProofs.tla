------------------------ MODULE ServerLifecycleProofs ------------------------
(***************************************************************************)
(* Proofs about ServerLifecycle, for any number of cancellations: an       *)
(* inductive invariant that ties the worker to what has interrupted the    *)
(* preparation, and the server, the manager and telemetry to what main()   *)
(* awaits; the safety properties follow from it.                           *)
(***************************************************************************)
EXTENDS ServerLifecycle, TLAPS

\* The worker is left alone only by a second interruption of the preparation,
\* one that is not a repeated signal.
PreparationInv ==
  /\ preparation \in {"created", "spawning"} => worker = "none" /\ interrupts = 0 /\ causes = {}
  /\ preparation = "communicating" => worker \in {"running", "exited"} /\ interrupts = 0 /\ causes = {}
  /\ preparation \in {"terminating", "killing"} =>
       /\ worker # "none"
       /\ interrupts = 1
       /\ \E cause \in {"signal", "cancel", "timeout"} : causes = {cause}
  /\ preparation \in {"checking", "done", "failed"} => WorkerGone
  /\ preparation = "cancelled" =>
       /\ WorkerGone \/ (interrupts >= 2 /\ causes # {"signal"})
       /\ "signal" \in causes \/ "cancel" \in causes
  /\ "signal" \in causes => stop
  /\ "cancel" \in causes => cancels > 0

\* What main() has left behind at each of its awaits.
StageInv ==
  /\ main = "preparing" =>
       server = "none" /\ manager = "none" /\ reaper = "off" /\ telemetry = "open" /\ result = "returned"
  /\ main # "preparing" => Prepared
  /\ main \in {"serving", "stopping"} =>
       server # "none" /\ manager = "live" /\ telemetry = "open" /\ result = "returned"
  /\ main \in {"gathering", "reaping"} => server # "none" /\ manager = "live" /\ telemetry = "open"
  /\ main \in {"preparing", "serving", "stopping", "gathering", "reaping"} => reaper # "failed"
  /\ main = "reaping" => ServerEnded
  /\ main = "draining" => ServerEnded /\ manager = "draining" /\ reaper # "running" /\ telemetry = "open"
  /\ main \in {"closing", "exited"} =>
       /\ reaper # "running"
       /\ \/ server = "none" /\ manager = "none"
          \/ ServerEnded /\ manager \in {"draining", "drained", "failed"}
  /\ server # "none" => preparation = "done"

\* The outcome that main() carries.
OutcomeInv ==
  /\ cancelled => cancels > 0
  /\ result = "cancelled" => cancels > 0 \/ server = "aborted"
  /\ main \in {"gathering", "reaping", "draining", "closing", "exited"} /\ result # "cancelled" =>
       server = "none" \/ ServerEnded
  /\ main # "preparing" /\ result = "returned" =>
       /\ preparation # "failed"
       /\ reaper # "failed" /\ manager # "failed"
       /\ main \notin {"serving", "stopping"} => server \notin {"failed", "aborted"}
  /\ result \in {"reaper", "shutdown"} => server \notin {"failed", "aborted"}
  /\ result = "shutdown" => reaper # "failed" /\ main \in {"closing", "exited"}

ServerInv == TypeOK /\ PreparationInv /\ StageInv /\ OutcomeInv

LEMMA InitServerInv == Init => ServerInv
<1> SUFFICES ASSUME Init PROVE ServerInv
  OBVIOUS
<1>1. TypeOK
  BY DEF Init, TypeOK, Awaited
<1>2. PreparationInv
  BY DEF Init, PreparationInv, WorkerGone
<1>3. StageInv
  BY DEF Init, StageInv, Prepared, ServerEnded
<1>4. OutcomeInv
  BY DEF Init, OutcomeInv
<1> QED
  BY <1>1, <1>2, <1>3, <1>4 DEF ServerInv

USE DEF Awaited, Prepared, WorkerGone, ServerEnded, preparationVars, serverVars

-----------------------------------------------------------------------------
(* The preparation *)

\* An interruption ends the preparation or begins to reap the worker; a worker
\* that is left alone was interrupted before, and not by the signal that counts.
LEMMA InterruptedInv ==
  ASSUME TypeOK, PreparationInv, ~Prepared,
         NEW cause \in {"signal", "cancel", "timeout"}, Interrupted(cause),
         cause = "timeout" => preparation = "communicating",
         stop' \in BOOLEAN, cancels' \in Nat, cancels' >= cancels, stop => stop',
         cause = "signal" => ~stop /\ stop',
         cause = "cancel" => cancels' > 0
  PROVE  /\ PreparationInv'
         /\ interrupts' \in Nat /\ causes' \subseteq {"signal", "cancel", "timeout"}
         /\ worker' \in {"none", "running", "terminated", "killed", "exited"}
         /\ preparation' \in {"terminating", "killing", "failed", "cancelled"}
<1>1. /\ interrupts' = interrupts + 1 /\ interrupts' \in Nat
      /\ causes' = causes \cup {cause} /\ causes' \subseteq {"signal", "cancel", "timeout"}
  BY DEF Interrupted, TypeOK
<1>2. ("signal" \in causes' => stop') /\ ("cancel" \in causes' => cancels' > 0)
  BY <1>1 DEF PreparationInv, TypeOK
<1>3. CASE preparation = "spawning"
  <2>1. preparation' = "killing" /\ worker' = "killed"
    BY <1>3 DEF Interrupted
  <2>2. causes' = {cause} /\ interrupts' = 1
    <3>1. causes = {} /\ interrupts = 0
      BY <1>3 DEF PreparationInv
    <3> QED
      BY <3>1, <1>1
  <2> QED
    BY <2>1, <2>2, <1>1, <1>2 DEF PreparationInv
<1>4. CASE preparation = "communicating"
  <2>1. causes' = {cause} /\ interrupts' = 1
    <3>1. causes = {} /\ interrupts = 0
      BY <1>4 DEF PreparationInv
    <3> QED
      BY <3>1, <1>1
  <2>2. \/ preparation' = "terminating" /\ worker' = "terminated"
        \/ preparation' = "failed" /\ worker' = "exited"
        \/ preparation' = "cancelled" /\ worker' = "exited" /\ cause # "timeout"
    BY <1>4 DEF Interrupted
  <2> QED
    BY <2>1, <2>2, <1>1, <1>2 DEF PreparationInv
<1>5. CASE preparation \in {"created", "terminating", "killing", "checking"}
  <2>1. preparation' = "cancelled" /\ worker' = worker
    BY <1>5 DEF Interrupted
  <2>2. cause \in {"signal", "cancel"} /\ cause \in causes'
    BY <1>1, <1>5
  <2>3. WorkerGone' \/ (interrupts' >= 2 /\ causes' # {"signal"})
    <3>1. CASE preparation \in {"created", "checking"}
      BY <3>1, <2>1 DEF PreparationInv
    <3>2. CASE preparation \in {"terminating", "killing"}
      <4>1. PICK first \in {"signal", "cancel", "timeout"} : causes = {first} /\ interrupts = 1
        BY <3>2 DEF PreparationInv
      <4>2. interrupts' >= 2
        BY <4>1, <1>1
      <4>3. causes' # {"signal"}
        BY <4>1, <1>1 DEF PreparationInv
      <4> QED
        BY <4>2, <4>3
    <3> QED
      BY <1>5, <3>1, <3>2
  <2> QED
    BY <2>1, <2>2, <2>3, <1>1, <1>2 DEF PreparationInv, TypeOK
<1> QED
  BY <1>3, <1>4, <1>5 DEF TypeOK, Prepared

\* A step of the preparation itself.
LEMMA PreparationStepInv == ServerInv /\ PreparationStep => ServerInv'
<1> SUFFICES ASSUME ServerInv, PreparationStep PROVE ServerInv'
  OBVIOUS
<1> USE DEF ServerInv
<1>1. UNCHANGED <<main, result, stop, cancelled, cancels, server, stdin, reaper, manager, telemetry>>
  BY DEF PreparationStep
<1>2. /\ PreparationInv'
      /\ interrupts' \in Nat /\ causes' \subseteq {"signal", "cancel", "timeout"}
      /\ worker' \in {"none", "running", "terminated", "killed", "exited"}
      /\ preparation' \in {"created", "spawning", "communicating", "terminating", "killing", "checking",
                           "done", "failed", "cancelled"}
      /\ Prepared => preparation' = preparation
  <2>1. CASE PreparationStarts
    BY <1>1, <2>1 DEF PreparationStarts, TypeOK, PreparationInv
  <2>2. CASE WorkerStarts
    BY <1>1, <2>2 DEF WorkerStarts, TypeOK, PreparationInv
  <2>3. CASE WorkerExits
    BY <1>1, <2>3 DEF WorkerExits, TypeOK, PreparationInv
  <2>4. CASE PreparationGoesOn
    BY <1>1, <2>4 DEF PreparationGoesOn, TypeOK, PreparationInv
  <2>5. CASE PreparationTimesOut
    BY <1>1, <2>5, InterruptedInv DEF PreparationTimesOut, TypeOK
  <2>6. CASE WorkerKilled
    BY <1>1, <2>6 DEF WorkerKilled, TypeOK, PreparationInv
  <2>7. CASE WorkerReaped
    BY <1>1, <2>7 DEF WorkerReaped, TypeOK, PreparationInv
  <2> QED
    BY <2>1, <2>2, <2>3, <2>4, <2>5, <2>6, <2>7 DEF PreparationStep
<1>3. TypeOK'
  BY <1>1, <1>2 DEF TypeOK
<1>4. StageInv'
  BY <1>1, <1>2 DEF StageInv
<1>5. OutcomeInv'
  <2>1. main # "preparing" => preparation' = preparation
    BY <1>2 DEF StageInv
  <2> QED
    BY <1>1, <2>1 DEF OutcomeInv
<1> QED
  BY <1>2, <1>3, <1>4, <1>5

-----------------------------------------------------------------------------
(* Signals and cancellations *)

\* preparation_task.cancel() of a task that runs or has ended.
LEMMA CancelPreparationInv ==
  ASSUME ServerInv, NEW cause \in {"signal", "cancel"}, CancelPreparation(cause),
         UNCHANGED <<main, result, server, stdin, reaper, manager, telemetry>>,
         main = "preparing",
         stop' \in BOOLEAN, cancels' \in Nat, cancels' >= cancels, stop => stop',
         cancelled' \in BOOLEAN, cancelled' => cancelled \/ cancels' > 0,
         cause = "signal" => ~stop /\ stop',
         cause = "cancel" => cancels' > 0
  PROVE  ServerInv'
<1> USE DEF ServerInv
<1>1. /\ PreparationInv'
      /\ interrupts' \in Nat /\ causes' \subseteq {"signal", "cancel", "timeout"}
      /\ worker' \in {"none", "running", "terminated", "killed", "exited"}
      /\ preparation' \in {"created", "spawning", "communicating", "terminating", "killing", "checking",
                           "done", "failed", "cancelled"}
      /\ preparation = "done" => preparation' = "done"
  <2>1. CASE ~Prepared /\ Interrupted(cause)
    BY <2>1, InterruptedInv
  <2>2. CASE Prepared /\ UNCHANGED preparationVars
    <3>1. UNCHANGED <<preparation, interrupts, causes, worker>>
      BY <2>2
    <3> QED
      BY <3>1 DEF TypeOK, PreparationInv
  <2> QED
    BY <2>1, <2>2 DEF CancelPreparation
<1>2. TypeOK'
  BY <1>1 DEF TypeOK
<1>3. StageInv'
  BY <1>1 DEF StageInv
<1>4. OutcomeInv'
  BY <1>1 DEF OutcomeInv, TypeOK
<1> QED
  BY <1>1, <1>2, <1>3, <1>4

LEMMA SignalInv == ServerInv /\ Signal => ServerInv'
<1> SUFFICES ASSUME ServerInv, Signal PROVE ServerInv'
  OBVIOUS
<1>1. UNCHANGED <<main, result, cancelled, cancels, server, stdin, reaper, manager, telemetry>> /\ ~stop /\ stop' = TRUE
  BY DEF Signal, Heeds
<1>2. cancels \in Nat /\ cancelled \in BOOLEAN
  BY DEF ServerInv, TypeOK
<1>3. CASE main = "preparing" /\ CancelPreparation("signal")
  BY <1>1, <1>2, <1>3, CancelPreparationInv
<1>4. CASE main # "preparing" /\ UNCHANGED preparationVars
  <2>1. UNCHANGED <<preparation, interrupts, causes, worker>>
    BY <1>4
  <2>2. TypeOK'
    BY <1>1, <2>1 DEF ServerInv, TypeOK
  <2>3. PreparationInv'
    BY <1>1, <2>1 DEF ServerInv, PreparationInv
  <2>4. StageInv' /\ OutcomeInv'
    BY <1>1, <2>1 DEF ServerInv, StageInv, OutcomeInv
  <2> QED
    BY <2>2, <2>3, <2>4 DEF ServerInv
<1> QED
  BY <1>3, <1>4 DEF Signal

LEMMA CancelMainInv == ServerInv /\ CancelMain => ServerInv'
<1> SUFFICES ASSUME ServerInv, CancelMain PROVE ServerInv'
  OBVIOUS
<1>1. /\ UNCHANGED <<main, result, stop, server, stdin, reaper, manager, telemetry>>
      /\ cancelled' = TRUE /\ cancels' = cancels + 1
  BY DEF CancelMain
<1>2. cancels \in Nat /\ cancels' \in Nat /\ cancels' > 0 /\ cancels' >= cancels /\ stop \in BOOLEAN
  BY <1>1 DEF ServerInv, TypeOK
<1>3. CASE main = "preparing" /\ CancelPreparation("cancel")
  BY <1>1, <1>2, <1>3, CancelPreparationInv
<1>4. CASE main # "preparing" /\ UNCHANGED preparationVars
  <2>1. UNCHANGED <<preparation, interrupts, causes, worker>>
    BY <1>4
  <2>2. TypeOK'
    BY <1>1, <1>2, <2>1 DEF ServerInv, TypeOK
  <2>3. PreparationInv'
    BY <1>1, <1>2, <2>1 DEF ServerInv, PreparationInv
  <2>4. StageInv' /\ OutcomeInv'
    BY <1>1, <1>2, <2>1 DEF ServerInv, StageInv, OutcomeInv
  <2> QED
    BY <2>2, <2>3, <2>4 DEF ServerInv
<1> QED
  BY <1>3, <1>4 DEF CancelMain

-----------------------------------------------------------------------------
(* main() *)

\* A step of main() or of the server leaves the preparation as it is.
LEMMA PreparationKept ==
  ASSUME PreparationInv, UNCHANGED <<preparation, interrupts, causes, worker, stop, cancels>>
  PROVE  PreparationInv'
BY DEF PreparationInv

\* What a step of main() may assign, and what it leaves alone.
LEMMA TypeKept ==
  ASSUME ServerInv, UNCHANGED <<stop, cancels, preparation, interrupts, causes, worker, stdin>>,
         main' \in Awaited \cup {"exited"}, cancelled' \in BOOLEAN,
         result' = result \/ result' \in {"returned", "cancelled", "server", "reaper", "shutdown"},
         server' = server \/ server' \in {"cancelling", "returned", "failed", "cancelled", "aborted"},
         reaper' = reaper \/ reaper' \in {"off", "failed"},
         manager' = manager \/ manager' \in {"draining", "drained", "failed"},
         telemetry' = telemetry \/ telemetry' \in {"closing", "closed"}
  PROVE  TypeOK'
<1> USE DEF ServerInv, TypeOK
<1>1. result' \in {"returned", "cancelled", "preparation", "setup", "server", "reaper", "shutdown"}
  OBVIOUS
<1>2. server' \in {"none", "running", "cancelling", "returned", "failed", "cancelled", "aborted"}
  OBVIOUS
<1>3. reaper' \in {"off", "running", "failed"}
  OBVIOUS
<1>4. manager' \in {"none", "live", "draining", "drained", "failed"} /\ telemetry' \in {"open", "closing", "closed"}
  OBVIOUS
<1>5. /\ main' \in Awaited \cup {"exited"} /\ cancelled' \in BOOLEAN
      /\ UNCHANGED <<stop, cancels, preparation, interrupts, causes, worker, stdin>>
  OBVIOUS
<1> QED
  BY <1>1, <1>2, <1>3, <1>4, <1>5

LEMMA PreparationReturnsInv == ServerInv /\ PreparationReturns => ServerInv'
<1> SUFFICES ASSUME ServerInv, PreparationReturns PROVE ServerInv'
  OBVIOUS
<1>1. UNCHANGED <<stop, cancels, preparation, interrupts, causes, worker, stdin>> /\ main = "preparing" /\ Prepared
  BY DEF PreparationReturns
<1>2. PreparationInv'
  BY <1>1, PreparationKept DEF ServerInv
<1>3. ~cancelled /\ ~StopRequested /\ preparation = "cancelled" => cancels > 0
  BY DEF ServerInv, PreparationInv, StopRequested
<1>4. CASE cancelled /\ Leave("cancelled") /\ UNCHANGED serverVars
  BY <1>1, <1>2, <1>4 DEF Leave, ServerInv, TypeOK, StageInv, OutcomeInv
<1>5. CASE ~cancelled /\ StopRequested /\ Leave("returned") /\ UNCHANGED serverVars
  BY <1>1, <1>2, <1>5 DEF StopRequested, Leave, ServerInv, TypeOK, StageInv, OutcomeInv
<1>6. CASE ~cancelled /\ ~StopRequested /\ preparation # "done" /\ Leave(PreparationError)
           /\ UNCHANGED serverVars
  BY <1>1, <1>2, <1>3, <1>6 DEF PreparationError, Leave, ServerInv, TypeOK, StageInv, OutcomeInv
<1>7. CASE /\ ~cancelled /\ preparation = "done"
           /\ main' = "serving"
           /\ server' = "running" /\ manager' = "live" /\ reaper' \in {"off", "running"}
           /\ UNCHANGED <<result, cancelled, telemetry>>
  BY <1>1, <1>2, <1>7 DEF ServerInv, TypeOK, StageInv, OutcomeInv
<1>8. CASE ~cancelled /\ preparation = "done" /\ Leave("setup") /\ UNCHANGED serverVars
  BY <1>1, <1>2, <1>8 DEF Leave, ServerInv, TypeOK, StageInv, OutcomeInv
<1> QED
  BY <1>4, <1>5, <1>6, <1>7, <1>8 DEF PreparationReturns

LEMMA ClientLeavesInv == ServerInv /\ ClientLeaves => ServerInv'
<1> SUFFICES ASSUME ServerInv, ClientLeaves PROVE ServerInv'
  OBVIOUS
<1>1. /\ UNCHANGED <<main, result, stop, cancelled, cancels, preparation, interrupts, causes, worker,
                     server, reaper, manager, telemetry>>
      /\ stdin' = "closed"
  BY DEF ClientLeaves
<1>2. PreparationInv'
  BY <1>1, PreparationKept DEF ServerInv
<1> QED
  BY <1>1, <1>2 DEF ServerInv, TypeOK, StageInv, OutcomeInv

LEMMA ServerEndsInv == ServerInv /\ ServerEnds => ServerInv'
<1> SUFFICES ASSUME ServerInv, ServerEnds PROVE ServerInv'
  OBVIOUS
<1>1. /\ UNCHANGED <<main, result, stop, cancelled, cancels, preparation, interrupts, causes, worker,
                     stdin, reaper, manager, telemetry>>
      /\ \/ server = "running" /\ server' \in {"returned", "failed", "aborted"}
         \/ server = "cancelling" /\ server' \in {"returned", "failed", "cancelled"}
  BY DEF ServerEnds
<1>2. PreparationInv'
  BY <1>1, PreparationKept DEF ServerInv
<1>3. TypeOK'
  BY <1>1, TypeKept DEF ServerInv, TypeOK
<1>4. StageInv'
  BY <1>1 DEF ServerInv, StageInv
<1>5. OutcomeInv'
  <2>1. server \in {"running", "cancelling"} /\ server \notin {"none", "failed", "aborted"} /\ ~ServerEnded
    BY <1>1
  <2>2. result \in {"returned", "cancelled"}
    BY <2>1 DEF ServerInv, StageInv, OutcomeInv, TypeOK
  <2>3. main \in {"preparing", "serving", "stopping"} \/ result = "cancelled"
    BY <2>1 DEF ServerInv, StageInv, OutcomeInv, TypeOK
  <2>4. result = "cancelled" => cancels > 0
    BY <2>1 DEF ServerInv, OutcomeInv
  <2> QED
    BY <1>1, <2>2, <2>3, <2>4 DEF ServerInv, StageInv, OutcomeInv
<1> QED
  BY <1>2, <1>3, <1>4, <1>5 DEF ServerInv

LEMMA ServingEndsInv == ServerInv /\ ServingEnds => ServerInv'
<1> SUFFICES ASSUME ServerInv, ServingEnds PROVE ServerInv'
  OBVIOUS
<1>1. /\ UNCHANGED <<stop, cancels, preparation, interrupts, causes, worker, stdin, reaper, manager, telemetry>>
      /\ main \in {"serving", "stopping"}
  BY DEF ServingEnds
<1>2. PreparationInv'
  BY <1>1, PreparationKept DEF ServerInv
<1>3. CASE cancelled /\ Unserve("cancelled")
  <2>1. TypeOK'
    BY <1>1, <1>3, TypeKept DEF Unserve
  <2>2. StageInv'
    BY <1>1, <1>3 DEF Unserve, ServerInv, StageInv
  <2>3. OutcomeInv'
    BY <1>1, <1>3 DEF Unserve, ServerInv, StageInv, OutcomeInv
  <2> QED
    BY <1>2, <2>1, <2>2, <2>3 DEF ServerInv
<1>4. CASE ~cancelled /\ ServerEnded /\ Unserve(ServerOutcome)
  <2>1. TypeOK'
    BY <1>1, <1>4, TypeKept DEF Unserve, ServerOutcome, ServerError
  <2>2. StageInv'
    BY <1>1, <1>4 DEF Unserve, ServerOutcome, ServerError, ServerInv, StageInv
  <2>3. OutcomeInv'
    BY <1>1, <1>4 DEF Unserve, ServerOutcome, ServerError, ServerInv, StageInv, OutcomeInv
  <2> QED
    BY <1>2, <2>1, <2>2, <2>3 DEF ServerInv
<1>5. CASE ~cancelled /\ ~ServerEnded /\ ServerStopped
  BY <1>1, <1>2, <1>5 DEF ServerStopped, ServerInv, TypeOK, StageInv, OutcomeInv
<1> QED
  BY <1>3, <1>4, <1>5 DEF ServingEnds

LEMMA GatheredInv == ServerInv /\ Gathered => ServerInv'
<1> SUFFICES ASSUME ServerInv, Gathered PROVE ServerInv'
  OBVIOUS
<1>1. /\ UNCHANGED <<stop, cancels, preparation, interrupts, causes, worker, server, stdin, reaper, telemetry>>
      /\ main = "gathering" /\ ServerEnded /\ cancelled' = FALSE
      /\ result' = IF cancelled THEN "cancelled" ELSE result
      /\ \/ reaper = "running" /\ main' = "reaping" /\ manager' = manager
         \/ reaper = "off" /\ main' = "draining" /\ manager' = "draining"
  BY DEF Gathered
<1>2. PreparationInv'
  BY <1>1, PreparationKept DEF ServerInv
<1>3. TypeOK'
  <2>1. main' \in Awaited \cup {"exited"}
    BY <1>1
  <2>2. result' \in {"returned", "cancelled", "preparation", "setup", "server", "reaper", "shutdown"}
    BY <1>1 DEF ServerInv, TypeOK
  <2>3. manager' \in {"none", "live", "draining", "drained", "failed"}
    BY <1>1 DEF ServerInv, TypeOK
  <2>4. cancelled' \in BOOLEAN
    BY <1>1
  <2>5. UNCHANGED <<stop, cancels, preparation, interrupts, causes, worker, server, stdin, reaper, telemetry>>
    BY <1>1
  <2> QED
    BY <2>1, <2>2, <2>3, <2>4, <2>5 DEF ServerInv, TypeOK
<1>4. StageInv'
  BY <1>1 DEF ServerInv, StageInv
<1>5. OutcomeInv'
  BY <1>1 DEF ServerInv, OutcomeInv
<1> QED
  BY <1>2, <1>3, <1>4, <1>5 DEF ServerInv

LEMMA ReaperStoppedInv == ServerInv /\ ReaperStopped => ServerInv'
<1> SUFFICES ASSUME ServerInv, ReaperStopped PROVE ServerInv'
  OBVIOUS
<1>1. /\ UNCHANGED <<stop, cancels, preparation, interrupts, causes, worker, server, stdin, telemetry>>
      /\ main = "reaping" /\ main' = "draining"
      /\ cancelled' = FALSE /\ manager' = "draining"
      /\ \/ reaper' = "off" /\ result' = result
         \/ reaper' = "failed" /\ result' = IF result = "returned" THEN "reaper" ELSE result
  BY DEF ReaperStopped, CleanupError
<1>2. PreparationInv'
  BY <1>1, PreparationKept DEF ServerInv
<1>3. TypeOK'
  BY <1>1, TypeKept
<1>4. StageInv'
  BY <1>1 DEF ServerInv, StageInv
<1>5. OutcomeInv'
  <2>1. /\ server # "none" /\ ServerEnded /\ preparation = "done" /\ manager = "live"
        /\ result # "shutdown"
    BY <1>1 DEF ServerInv, StageInv, OutcomeInv
  <2>2. CASE reaper' = "off" /\ result' = result
    BY <1>1, <2>1, <2>2 DEF ServerInv, OutcomeInv
  <2>3. CASE reaper' = "failed" /\ result = "returned" /\ result' = "reaper"
    BY <1>1, <2>1, <2>3 DEF ServerInv, OutcomeInv
  <2>4. CASE reaper' = "failed" /\ result # "returned" /\ result' = result
    BY <1>1, <2>1, <2>4 DEF ServerInv, OutcomeInv
  <2> QED
    BY <1>1, <2>2, <2>3, <2>4
<1> QED
  BY <1>2, <1>3, <1>4, <1>5 DEF ServerInv

LEMMA ManagerCleanedUpInv == ServerInv /\ ManagerCleanedUp => ServerInv'
<1> SUFFICES ASSUME ServerInv, ManagerCleanedUp PROVE ServerInv'
  OBVIOUS
<1>1. /\ UNCHANGED <<stop, cancels, preparation, interrupts, causes, worker, server, stdin, reaper>>
      /\ main = "draining"
  BY DEF ManagerCleanedUp
<1>2. PreparationInv'
  BY <1>1, PreparationKept DEF ServerInv
<1>3. CASE cancelled /\ Leave("cancelled") /\ UNCHANGED manager
  <2>1. TypeOK'
    BY <1>1, <1>3, TypeKept DEF Leave
  <2>2. StageInv'
    BY <1>1, <1>3 DEF Leave, ServerInv, StageInv
  <2>3. OutcomeInv'
    BY <1>1, <1>3 DEF Leave, ServerInv, StageInv, OutcomeInv
  <2> QED
    BY <1>2, <2>1, <2>2, <2>3 DEF ServerInv
<1>4. CASE ~cancelled /\ Leave(result) /\ manager' = "drained"
  <2>1. TypeOK'
    BY <1>1, <1>4, TypeKept DEF Leave
  <2>2. StageInv'
    BY <1>1, <1>4 DEF Leave, ServerInv, StageInv
  <2>3. OutcomeInv'
    BY <1>1, <1>4 DEF Leave, ServerInv, StageInv, OutcomeInv
  <2> QED
    BY <1>2, <2>1, <2>2, <2>3 DEF ServerInv
<1>5. CASE ~cancelled /\ Leave(CleanupError("shutdown")) /\ manager' = "failed"
  <2>1. TypeOK'
    BY <1>1, <1>5, TypeKept DEF Leave, CleanupError
  <2>2. StageInv'
    BY <1>1, <1>5 DEF Leave, CleanupError, ServerInv, StageInv
  <2>3. OutcomeInv'
    BY <1>1, <1>5 DEF Leave, CleanupError, ServerInv, StageInv, OutcomeInv
  <2> QED
    BY <1>2, <2>1, <2>2, <2>3 DEF ServerInv
<1> QED
  BY <1>3, <1>4, <1>5 DEF ManagerCleanedUp

LEMMA ExitsInv == ServerInv /\ Exits => ServerInv'
<1> SUFFICES ASSUME ServerInv, Exits PROVE ServerInv'
  OBVIOUS
<1>1. /\ UNCHANGED <<stop, cancelled, cancels, preparation, interrupts, causes, worker, server, stdin, reaper, manager>>
      /\ main = "closing" /\ main' = "exited"
      /\ \/ cancelled /\ result' = "cancelled" /\ telemetry' = telemetry
         \/ telemetry' = "closed" /\ result' = result
  BY DEF Exits
<1>2. PreparationInv'
  BY <1>1, PreparationKept DEF ServerInv
<1>3. TypeOK'
  BY <1>1 DEF ServerInv, TypeOK
<1>4. StageInv'
  BY <1>1 DEF ServerInv, StageInv
<1>5. OutcomeInv'
  <2>1. CASE cancelled /\ result' = "cancelled" /\ telemetry' = telemetry
    BY <1>1, <2>1 DEF ServerInv, OutcomeInv, StageInv
  <2>2. CASE telemetry' = "closed" /\ result' = result
    BY <1>1, <2>2 DEF ServerInv, OutcomeInv
  <2> QED
    BY <1>1, <2>1, <2>2
<1> QED
  BY <1>2, <1>3, <1>4, <1>5 DEF ServerInv

-----------------------------------------------------------------------------
(* The theorems *)

LEMMA NextServerInv == ServerInv /\ [Next]_vars => ServerInv'
<1> SUFFICES ASSUME ServerInv, [Next]_vars PROVE ServerInv'
  OBVIOUS
<1>1. CASE Next
  BY <1>1, PreparationStepInv, SignalInv, CancelMainInv, PreparationReturnsInv, ClientLeavesInv, ServerEndsInv,
     ServingEndsInv, GatheredInv, ReaperStoppedInv, ManagerCleanedUpInv, ExitsInv DEF Next
<1>2. CASE UNCHANGED vars
  <2>1. UNCHANGED <<main, result, stop, cancelled, cancels, preparation, interrupts, causes, worker,
                    server, stdin, reaper, manager, telemetry>>
    BY <1>2 DEF vars
  <2>2. PreparationInv'
    BY <2>1, PreparationKept DEF ServerInv
  <2>3. TypeOK' /\ StageInv' /\ OutcomeInv'
    BY <2>1 DEF ServerInv, TypeOK, StageInv, OutcomeInv
  <2> QED
    BY <2>2, <2>3 DEF ServerInv
<1> QED
  BY <1>1, <1>2

\* The inductive invariant holds in every reachable state.
THEOREM ServerInvariant == Spec => []ServerInv
BY InitServerInv, NextServerInv, PTL DEF Spec

\* Every variable of __main__.py's model stays in its type.
THEOREM TypeCorrect == Spec => []TypeOK
<1>1. ServerInv => TypeOK
  BY DEF ServerInv
<1> QED
  BY <1>1, ServerInvariant, PTL

\* The cleanup at exit runs in its order and leaves no worker behind, however
\* often main() is cancelled.
THEOREM Orderly == Spec => []OrderlyExit
<1>1. ASSUME ServerInv PROVE OrderlyExit
  <2>1. manager \in {"draining", "drained", "failed"} => ServerEnded
    BY <1>1 DEF ServerInv, TypeOK, StageInv
  <2>2. telemetry # "open" => main \in {"closing", "exited"}
    BY <1>1 DEF ServerInv, TypeOK, StageInv
  <2>3. telemetry # "open" => (server = "none" \/ ServerEnded) /\ reaper # "running" /\ manager # "live"
    BY <1>1, <2>2 DEF ServerInv, StageInv
  <2>4. Prepared => WorkerGone \/ (interrupts >= 2 /\ causes # {"signal"})
    BY <1>1 DEF ServerInv, PreparationInv
  <2>5. telemetry # "open" => Prepared
    BY <1>1, <2>2 DEF ServerInv, StageInv
  <2> QED
    BY <2>1, <2>3, <2>4, <2>5 DEF OrderlyExit
<1>2. ServerInv => OrderlyExit
  BY <1>1
<1> QED
  BY <1>2, ServerInvariant, PTL

\* A failure of the preparation, the server or the cleanup is not hidden, the
\* first error is the one that is raised, and a stop is not reported as a
\* cancellation.
THEOREM Reported == Spec => []OutcomeReported
<1>1. ServerInv => OutcomeReported
  BY DEF ServerInv, OutcomeInv, OutcomeReported
<1> QED
  BY <1>1, ServerInvariant, PTL

\* A server that was asked to stop never becomes ready.
THEOREM NotServed == Spec => NotServedAfterStop
<1>1. ASSUME ServerInv, [Next]_vars PROVE main = "preparing" /\ main' = "serving" => ~stop
  <2> SUFFICES ASSUME main = "preparing", main' = "serving" PROVE ~stop
    OBVIOUS
  <2>1. CASE PreparationReturns
    BY <2>1 DEF PreparationReturns, Leave, StopRequested
  <2>2. CASE PreparationStep \/ Signal \/ CancelMain \/ ClientLeaves \/ ServerEnds \/ ServingEnds \/ Gathered
             \/ ReaperStopped \/ ManagerCleanedUp \/ Exits \/ UNCHANGED vars
    BY <2>2 DEF PreparationStep, Signal, CancelMain, ClientLeaves, ServerEnds, ServingEnds, Gathered,
                ReaperStopped, ManagerCleanedUp, Exits, vars
  <2> QED
    BY <1>1, <2>1, <2>2 DEF Next
<1>2. ServerInv /\ [Next]_vars => [main = "preparing" /\ main' = "serving" => ~stop]_vars
  BY <1>1
<1> QED
  BY <1>2, ServerInvariant, PTL DEF Spec, NotServedAfterStop
=============================================================================
