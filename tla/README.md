# Verification of justpen-browser-mcp

TLA+ modules, TLC runs and TLAPS proofs about the server in `src/src/justpen_browser_mcp`.
The server is one asyncio process.  Its core is `InstanceManager`
(`instance_manager.py`), a registry of Camoufox browsers that many MCP tool calls
use, create and destroy at the same time, with deadlines and cancellation at
every await.

## 1. The system

| Component | State | Operations | Talks to |
|---|---|---|---|
| Registry and lifecycle (`instance_manager.py`, `instance.py`) | `_reservations`, `_pending_creates`, `_instances`, `_retired`, `_launch_cleanup`, `_abandoned_launches`, `_shutting_down`; per launch: the caller, the launch task, the rollback task, the record, its browser | `create`, `_launch_reserved`, `_launch_finished`, `_rollback_launch`, `_start_close`, `_safe_close`, `get`, `destroy`, `reap_once`, `shutdown_all` | asyncio tasks and their cancellation; Playwright/Camoufox through an `AsyncExitStack` |
| Operations of one instance (`_operation`, `_close_resources`) | `rec.lock`, `rec.modal_lock`, `rec.operation_tasks`, `rec.state.status`, `rec.close_task` | `lock_for`, `modal_lock_for`, `_validate_record`, the two phases of `_safe_close` | every tool; the registry |
| Modal states | `state.modal_states` | dialog and file chooser listeners, `browser_handle_dialog`, `browser_file_upload`, `assert_no_modal` | pages; both locks of the instance |
| Event buffers (`events.py`) and network evidence | the deque, its sequence counter, the last evicted sequence number; `network_request_index` | `append`, `update`, `page`; request, response and failure listeners | page listeners; clients that follow cursors |
| Downloads (`downloads.py`, `tools/downloads.py`) | `_records`, pins, `_events`, `_event_by_id` | `register`, `pin`, `finish`, `unpin`, `clear` | page listeners, `browser_download_save`, teardown |
| Page, frame and header identity | `page_ids`, `frame_ids`, `active_page`, `page_header_tasks` | `active_page`, `target_page`, `ensure_page_headers`, `set_active_page`, close and attach listeners; `browser_close`, `browser_tabs`, the temporary tabs of the storage tools | every tool that acts on a page |
| Action observation (`observations.py`) | listeners, a future, a postcondition task | `arm`, `wait`, `aclose` | page events during an action |
| Operation metadata (`operations.py`, `operation_context.py`) | `execution_started`, `artifact_write_started`, `action_result` | `on_call_tool`, `_metadata` | the manager marks what has started |
| Server process (`__main__.py`, `browser_runtime.py`) | stop event, preparation task, server task, worker process | `_serve`, `_run_server`, `_cleanup_manager` | signals; the manager |
| Telemetry | exporters, shutdown task | `initialize`, `shutdown` | OpenTelemetry |
| Browser tools (`tools/*.py`) | none that outlives a call | 46 tools: look the instance up, take a lock, ask for modals, find the page and the frame, act, wait, write a file | all of the above, Playwright |
| Configuration, command line, references, scripts | none that outlives a call | one function each | |

What is hard in this code is asyncio concurrency: every `await` is a point where
another task may run, and where the task itself may be cancelled by its client,
by a deadline, by a close or by shutdown.  The tables keyed by name are written
by five different tasks (`create`, the launch task's done callback, its
rollback, the close of a record, shutdown), and the profile directory of a
browser is only safe as long as all five agree on who owns the name.  Nothing is
persisted, so there is no crash recovery; a restart begins empty.

What makes each component correct:

- *Registry*: two browsers never share a name or a profile directory, the limit
  counts browsers that may still be running, no reservation is lost or leaked,
  nothing becomes reachable after its caller has gone, every call ends.
- *Operations*: bodies run one at a time per lock, none starts on a record that
  is not live, none runs while its browser is torn down, and a close does not
  wait for ever.
- *Modal states*: a modal that is open in the browser is never forgotten, and a
  page's modals are resolved in the order they opened.
- *Events*: a client that follows its cursor receives everything or is told that
  something was lost; a response settles the request it belongs to.
- *Downloads*: a handle is not evicted under its save, and the evidence says what
  the registry knows.
- *Pages*: the page a client has chosen stays selected, a call reports what became of its
  page, and a tab that a call opens for itself does not outlive it.
- *Tool calls*: a client that follows the advice of an error does not repeat what was
  done; a completed action is reported as completed, an event is not reported as
  missing; every call ends.
- *Server process*: the cleanup at exit is in order and complete, whatever interrupts it,
  and the first failure is the one that is reported.

`PROJECT.json` lists the components and, under `hazards`, each place where this
can go wrong, with the properties that would notice.

## 2. Modules

| Module | Models | Implements |
|---|---|---|
| `InstanceOwnership` | the promise of the registry: a launch is admitted once, owns its name and profile, is released once | |
| `InstanceLifecycle` | the registry, the launch, rollback, close and shutdown tasks | `InstanceOwnership` |
| `InstanceLifecycleProofs` | theorems about it | |
| `OperationGate` | the promise of the locks: a gate that is shut once and torn down behind the last operation | |
| `InstanceOperations` | one record: tool calls, its two locks, crash, reaper, the two-phase close | `OperationGate` |
| `InstanceOperationsProofs` | theorems about it | |
| `ModalStates` | `modal_states` of one instance, its listeners, the two recovery tools and the guard of actions | |
| `ModalStatesProofs` | theorems about it | |
| `EventBuffer` | `events.py` as operators on a value | |
| `NetworkEvents` | `EventBuffer` with the request index and clients that page | |
| `NetworkEventsProofs` | lemmas about `EventBuffer`, theorems about `NetworkEvents` | |
| `DownloadRegistry` | `EventBuffer` with handles, pins and saves | |
| `DownloadRegistryProofs` | lemmas about `EventBuffer`, theorems about `DownloadRegistry` | |
| `PageSelection` | the pages of one instance, the selected page, header tasks, and the tools that open, close and select pages | |
| `PageSelectionProofs` | theorems about it | |
| `BrowserTools` | each tool as a set of paths, the sequences of steps of its body | |
| `ToolCalls` | calls of tools with the middleware, the marks, the observer, interruptions and the reply | |
| `ToolCallsProofs` | theorems about it | |
| `ServerLifecycle` | `main()`, the preparation of the browser and its worker, signals, the cleanup | |
| `ServerLifecycleProofs` | theorems about it | |
| `MC...` | constants of the runs | |

How they compose: `ToolCalls` runs the paths of `BrowserTools` (its constant `Bodies`, which
the run sets to `Tools`, all 46 of them) on one instance whose locks,
teardown, launches, modals, tabs and downloads are the concern of `InstanceOperations`,
`InstanceLifecycle`, `ModalStates`, `PageSelection` and `DownloadRegistry`; in it each of
them may succeed, fail or not answer.  `ServerLifecycle` treats `shutdown_all` the same way.

**Granularity.**  One action is one run of one task between two awaits; that is
the atomicity asyncio gives.  Critical sections under `_registry_lock` contain no
await in `create`, `destroy` and `shutdown_all`, so the lock itself needs no
variable.  In `reap_once` the await inside it takes `rec.lock`, which was just
seen free, and does not yield.

**`InstanceLifecycle`.**  A *launch* is one `create()` call with its name and
profile.  `call` is where the caller is (`waiting` is `await shield(task)`,
`recovering` the bounded wait after its cancellation, `closing` the wait for the
close of a record nobody will receive).  `launch` is where `_launch_reserved` is:
phase one is `launching` (the `launch` call) and `rollingBack`, phase two is
`preparing` (page headers) and `unwinding`; `ended` is a finished task whose
done callback `_launch_finished` has yet to run, `finished` the time after it.
`cancelling` is a `task.cancel()` that has not been delivered: it is delivered at
the next await, may be swallowed by a launch that returns anyway
(`LaunchSucceeds`), and prevents a task that never ran from entering its body
(`LaunchNeverStarts`).  `browser` is the process behind the exit stack: `stuck`
means that `aclose()` failed or missed its deadline, and it may still be running.
The exit stack is taken to have something to close as soon as the launch starts,
and closing can fail, or succeed after its deadline.

**`InstanceOperations`.**  The asyncio locks are FIFO queues in which a waiter
that is being cancelled is passed over.  `_operation` enters `operation_tasks`
before it waits, validates the record after, and leaves on every path (`Leave`).  A task
that is tracked already stays tracked (`already_tracked`); no tool takes a second lock of its
instance inside the first, so that case does not arise and is left out.
`_safe_close` runs `_close_resources` as a task of its own, waits half its time,
cancels what is tracked, waits the other half and gives up.

**`ModalStates`.**  `fate` is what the browser knows of a modal; the list is what
the server knows.  A recovery pops an entry, awaits Playwright, and on failure
puts the entry back in front.  The call may fail before or after the browser
acted, the page may close, the user of a headed browser may answer first.

**`EventBuffer`, `NetworkEvents`, `DownloadRegistry`.**  Entries carry the
sequence number the code gives them; `update` removes and appends, as in the
code; `IsBuffer` is what every buffer satisfies.  `id(request)` is reused: `Id` is a
small set, and every capture is a new request with a number of its own.  `got` (the
sequence numbers a reader has received), `lossSeen` and `evicted` are history variables
for the properties; `emitted` bounds the downloads.

**`PageSelection`.**  One tool holds the instance lock and one the modal lock, so two
tools run at a time; between their awaits pages open and close by themselves.  A tool
is a record with the page it acts on (`page`), the page whose headers it awaits
(`awaits`) and what it will select afterwards.  `new_page()` is two steps: the page is
there (its event is handled), and the caller goes on.  Frames are left out: a frame is
looked up and used without an await in between, and its closing page is what matters.
The instance is live and `metadata_headers_enabled`: otherwise no tool waits for a header
task, and there is nothing to go wrong.  `chosen` is a history variable: the page that
was last selected or opened by a call that succeeded.  So is a tool's `cleanup`, which says
how the close of its own page ended: its shield is AnyIO's and stops the cancellation of a
client, not `task.cancel()` of a deadline or of a close of the instance (`CleanupCancelled`).

**`BrowserTools`, `ToolCalls`.**  A path is one way through the body of a tool that
does not fail: `lookup`, `lock`, `guard`, `page`, `lookup`, `frame`, `read`, `arm`, `input`,
`observe` for an observed click on a reference.  `++` concatenates sets of paths.
Synchronous steps are executed together with the await they lead to; a path may end at
any step that can fail, and `Owed` says what the `finally` and `except` clauses await
then.  `page` stands for `target_page()` with all its awaits and is taken to open a page
possibly; a second `lookup` follows because `page_id()`, `frame_id()` and
`mark_operation_started(mgr.get(...))` look the instance up again after it.  An observed
action ends with one of two waits: `observe`, which takes an event that has come already
without waiting, and `expect`, whose `asyncio.wait` always suspends, so that the timeout of
the observation can come before an event that is there.  `did`, `acted`, `waits` and `event`
are history variables: what the call may have changed, whether the observed action has
returned, which of the waits it reached, the first event of the page during it.  A call can be interrupted by
the deadline of the middleware, by that of its lock (which starts later and has the same
length), by its client (AnyIO, which respects shields) and by the forced phase of a close.
Abstracted: the order in which locks are granted and the phases of the teardown
(`InstanceOperations`), and the one turn of the loop in which `aclose()` drains the
postcondition task.

**`ServerLifecycle`.**  `main` is what `main()` awaits, `preparation` and `worker` the task
and the process of `ensure_camoufox_binary()`, `server` the task of the transport.
`cancelled` is a `CancelledError` on its way to `main()`, which an embedding caller may
send any number of times; two that arrive together count as one, and each can interrupt the
preparation again.  A signal sets `stop` and cancels the preparation once.  The server can
end with a `CancelledError` of its own (`aborted`), the reaper with an error, which
`stop_reaper` raises, and `result` names the step whose error `main()` is going to raise.
`stdin` is the pipe of the default transport, which its client may close at any time.  A
failure between the start of the reaper and the task of the server (lines 130-140) is left
out.

Definitions that begin with the comment `Fault:` are not part of the model.  Each
is a plausible bug in the definition that follows it; the properties are checked
to fail when it takes that definition's place.

## 3. Runs

| Run | Bounds | Shows |
|---|---|---|
| `lifecycle_capacity` | two slots; either two names and one profile directory with every caller cancelled at any wait, or three names and no cancellation; no shutdown (`Competition`) | the limit holds for browsers, not only for reservations; refinement of `InstanceOwnership` |
| `lifecycle_shutdown` | two launches of one name and profile, all callers cancelled at any wait, shutdown at any time | the inductive invariant, exclusive names and profiles, what shutdown leaves behind, retired records, publication; liveness |
| `operations` | three actions, two modal tools | the inductive invariant, the gate, the teardown, look-ups, liveness of the close |
| `modal_safety` | two pages, three dialogs, one chooser | the inductive invariant, no modal forgotten, duplicated or reordered on its page |
| `network_events` | two ids, two readers (one filters), pages of one or two, capacities 1 and 3, five sequence numbers | the inductive invariant, index, cursors and loss reports |
| `download_registry` | four downloads, capacities 1 and 2, nine sequence numbers | the inductive invariant, pins, evidence, failed and cancelled saves |
| `tool_calls` | two calls: any of the 46 tools against `browser_mouse_up` or `browser_destroy_instance`; one instance, which may also crash or be closed by others | the inductive invariant, the advice of errors, truthful completion and observation, the release of the mouse button; liveness |
| `page_selection` | three pages (symmetric), two concurrent tools, any number of calls | the inductive invariant, the registry of pages, the selection, truthful outcomes, the temporary tabs |
| `server_lifecycle` | either transport, three cancellations of `main()`, one signal that counts, repeated ones that do not | order and completeness of the cleanup, reported outcomes, no serving after a stop; liveness |

Why the bounds are enough: a conflict over a name or a profile needs an owner
that is going and one that is coming, which `lifecycle_shutdown` has for a name and
`lifecycle_capacity` for a profile; a conflict over capacity needs one name more than slots.  A cancelled waiter between two others needs three actions
on one lock, and the close needs a holder on each lock.  Putting an entry back in
the wrong place needs two modals of one kind on one page and one on another.
Eviction of a reused id needs two ids and more captures than entries; a capacity
of one makes every download that arrives during a save one that finds no room.
What a call has done concerns nobody but itself, so one call of every tool needs only one
other call that can hold its lock or end its instance.  Losing a selection needs the
chosen page, the one being closed and one that moves into its place.  A worker is lost by
the second interruption of its preparation; three cancellations reach every await of the
cleanup after one has ended the preparation or the serving.
`CHECK_DEADLOCK FALSE` is in every configuration: each launch, tool call, modal, page and
download happens once, and `main()` exits, so every model comes to rest, as an idle server
does.

**Fairness** (`lifecycle_shutdown`, `operations`, `tool_calls`, `server_lifecycle`).  Weak fairness of the task steps
is what the event loop provides, and deadlines bound the waits: a launch by
`operation_timeout_seconds`, cleanup and shutdown by `close_timeout_seconds`, an
operation including its wait for the lock by `operation_timeout_seconds`.  A
cancelled body is taken to be cooperative.  No fairness is assumed of callers,
clients, crashes, the browser's teardown or of a body finishing by itself.
`ReservationSettles` assumes that the reaper runs (`idle_ttl_seconds > 0`); by
default it does not, and a crashed instance keeps its slot until the next `get()`
of its name, or `destroy()`.  `CallsEnd` assumes the deadline of the middleware and the
bounded cleanup (two seconds for a button or a tab, `close_timeout_seconds` for an abandoned
launch), and nothing of the browser.  `StopEnds` assumes that `main()` and the preparation
run, that a killed process dies and that the transport ends once it has been cancelled; that
`shutdown_all` ends is `ReservationSettles`' business and its own deadline.  A stdio server
that was cancelled ends only with the EOF of its client: the SDK reads stdin in a thread that
cannot be interrupted (`tests/telemetry/harness.py:329`).  Nothing makes a client leave, so
`StopEnds` speaks of servers whose client has left or which serve HTTP.  While
the client of a stdio server keeps the pipe open, `main()` waits at line 151 without a
deadline, and no instance is closed, although `__main__.py:4` says "SIGTERM / SIGINT trigger a
graceful shutdown that closes every live instance".

**What is true only with an exception.**  Some properties are stated with the exception the
code has:

- `OrderlyExit`: `ensure_camoufox_binary` reaps its worker in an `except` clause, and repeated
  signals do not interrupt that.  A cancellation of `main()` does, and so does the first signal
  when the reaping was begun by the 300-second deadline: then the worker can outlive `main()`.
- `ReleasedUnderLock`: `_release_drag_button` waits once more after a `CancelledError`, so one
  `task.cancel()` leaves the lock in place until the button is up.  A second one (the
  middleware's deadline and then that of the lock, or a close) ends that wait too, although the
  comment at `tools/mouse.py:36` says "Keep the instance lock until the release finishes".
- `AdviceSafe`: a read that may be repeated (`read_only`) may have opened the default page, or
  have started the close of a crashed instance.
- `CompletionTruthful`: a completed action whose postcondition raises a Playwright error is
  reported as `internal_error` without completion data (`observations.py:205` catches three
  kinds of error), and a result that is too large drops its data.  When the deadline of the
  middleware falls into `aclose()` after a match, the reply says `matched: False`.
- `SelectionKept` and `PageSelectionInv`: a page that closes while `active_page` awaits
  `new_page()` gets entries in `page_ids` and `page_header_tasks` after its close event, which
  are never removed, and is selected until the next look-up.  They are harmless: look-ups ask
  the context as well.  A cancelled `new_page()` may leave its tab open, and a page whose
  header task has failed cannot be used any more.
- `OwnTabClosed`: a tab that a call opened for itself stays when the call was cancelled before
  `new_page()` returned it, when `page.close()` fails or misses its deadline, and when
  `task.cancel()` goes through the shield of that close.
- `ActionEventsObserved`: a page that closes or crashes during an action can be reported as
  `observation_timeout` by a wait for an element or a text (`observations.py:159`).
- `OutcomeReported`: `stop_reaper` suppresses every `CancelledError`, also one that is meant for
  `main()`; such a cancellation is lost.  A server that ends with a `CancelledError` nobody has
  sent makes `main()` raise it.

**What the code does not do.**  Three runs end in a counterexample to something the
repository says:

- `lifecycle_drain`: `shutdown_all` promises to "drain pending launches and teardown",
  but waits only for the tasks that existed when `_shutdown` started.  A launch it
  cancels starts its rollback later; if that launch's own caller is cancelled too,
  the launch ends without waiting for the rollback, and `shutdown_all` returns,
  before its deadline, with the rollback in progress.  `DrainedLeavesOnlyCleanup` is
  what holds instead.
- `modal_order`: a recovery that targets a page and fails re-queues its entry in
  front of older entries of other pages, so the "oldest-instance-modal" rule for calls
  without `page_id` does not hold.  `OldestFirstPerPage` is what holds.
- `modal_guard`: the entry is popped before the dialog is resolved, and actions use
  another lock, so an action can pass `assert_no_modal` under an open dialog while a
  recovery of it is in progress.

## 4. Proofs

Every safety property that a passing run checks, invariant or action property, and both
refinements are proved for every value of the constants.  What the runs check beyond that is
liveness.  A theorem about a component rests on the assumptions that its module states about
its constants, which TLC evaluates on every run:

| Module | Assumes |
|---|---|
| `InstanceLifecycle` | `LifecycleAssumption`: a finite set of names, any launches with any names and profiles, any limit |
| `InstanceOperations` | `OperationsAssumption`: any operations, each on one of the two locks |
| `ModalStates` | `ModalAssumption`: any modals, each of one kind and on one page |
| `EventBuffer` | `CapacityAssumption`: capacities are positive, as `__init__` demands |
| `NetworkEvents` | `NetworkAssumption`: any ids, readers and filters; page sizes are positive, as `page()` demands; the bound on events is any natural number |
| `DownloadRegistry` | `DownloadAssumption`: the same of its bound; `NoEventAssumption`: `None` is not an entry |
| `PageSelection` | `PageSelectionAssumption`: `None` is not a page |
| `ToolCalls` | `MenuAssumption`: calls name tools; `BodiesAssumption`: see below |
| `ServerLifecycle` | `ServerAssumption`: any number of cancellations |

None of these properties is inductive by itself.  Each component has an inductive invariant,
which is the first theorem of its module and which its run checks too (that of
`ServerLifecycle` is stated with its proof).  Below it there is a lemma per
action or family of actions, with one step per conjunct that the action can disturb, and a
lemma that combines them.

### The registry (`InstanceLifecycleProofs`)

| Theorem | States |
|---|---|
| `LifecycleInvariant` | `LifecycleInv` is an invariant |
| `TypeCorrect` | `TypeOK` |
| `Exclusive` | `BrowsersExclusive` |
| `ReservedUntilClosed` | `ReservedWhileRunning` |
| `Capacity` | `CapacityRespected` |
| `NoLeak` | `NoLeakedReservation` |
| `Published` | `PublishedOnlyToCaller` (action property) |
| `Retired` | `RetiredUntilClosed` (action property) |
| `Drained` | `DrainedLeavesOnlyCleanup` |
| `Implementation` | `InstanceLifecycle` implements `InstanceOwnership` |

Exclusiveness, say, holds because the name
of a browser that may run is reserved, and that survives `_launch_finished` only because
of what the tables say about the name's other tasks.  `LifecycleInv` adds

- `PhasesAgree`: how caller, launch task, rollback, record and browser of one launch
  relate (a rollback exists only without a record, a closed record has a closed browser,
  a launch without a waiting caller is abandoned until it registers, ...);
- `TablesAgree`: what an entry in each table says about the launch it names;
- `PendingUntilRecord`: a launch without a record is the pending one of its name, so
  that nobody else's callback can free the name;
- `OwnersReserved`: launches that own a browser and reservations correspond one to one;
- `ReservationsDistinct` and `ReservationsBounded`: what `_reserve` checks.

`Owns(l)` is also the refinement mapping's notion of ownership, so that the ledger's
`Admit` is `Create` and its `Release` is whichever of the launch callback, the rollback or
the close comes last.  `Capacity` maps each running browser to its reserved name,
injectively, and cites the library's facts about cardinality.

`Drained` needs a second invariant, `ShutdownInv`: once `_shutdown` has collected its tasks
no instance is registered again, and every launch that can still start a browser is among
the tasks it waits for.

### The operations of one instance (`InstanceOperationsProofs`)

| Theorem | States |
|---|---|
| `OperationsInvariant` | `OperationsInv` is an invariant |
| `Exclusive` | `TeardownExclusive` |
| `Resolves` | `ResolvesOwnRecord` |
| `StartsLive` | `StartsOnlyLive` (action property) |
| `Implementation` | `InstanceOperations` implements `OperationGate` |

`OperationsInv` says who holds each lock and that `operation_tasks` is exactly the set of
operations that have not ended (`LocksAgree`), how far the close has come by what it wrote
to the record (`CloseAgrees`), and that a close which was not given up leaves no body behind
(`QuietBehindTeardown`).  `TeardownExclusive` follows from the first: whoever tears down holds
both locks.  `ResolvesOwnRecord` needs the last, because `_retired` forgets the record when a
close has succeeded.  In the refinement, `TearDown` of the gate is the step in which the close
gets its second lock, and the lemmas `ToolCallImplements`, `ResourcesImplement` and
`SafeCloseImplements` map each step to one of the gate or to none.

### Modal states (`ModalStatesProofs`)

| Theorem | States |
|---|---|
| `ModalInvariant` | `ModalInv` is an invariant |
| `OpenModals` | `OpenModalsKnown` |
| `OldestFirstOnPage` | `OldestFirstPerPage` |

A recovery that fails puts its entry in front of the list.  That keeps the order of a page
only because the entry that is being resolved is older than every listed one of its kind
and page, which `ModalInv` says next to the order of the list; `HistoryAgrees` says that a
modal opens once.  What removing, requeueing, appending and pruning do to the list is stated in
lemmas about the order of two listed entries (`RemoveAtKeeps`, `FrontKeeps`, `AppendKeeps`,
`PrunedKeeps`).  `Pruned` is a recursive function; `AllNumbers`, derived from the library's
fact that the order of the naturals is well-founded, takes the place of induction.

### Evidence (`NetworkEventsProofs`, `DownloadRegistryProofs`)

| Theorem | States |
|---|---|
| `NetworkInvariant` | `NetworkInv` is an invariant |
| `IndexLeadsToNewest` | `IndexNewest` |
| `ReadersMissNothing` | `NothingMissed` |
| `LossIsReported` | `LossReported` |
| `DownloadInvariant` | `DownloadInv` is an invariant |
| `SavingIsRetained` | `SavingRetained` |
| `EvidenceIsTruthful` | `EvidenceTruthful` |

Both modules begin with the same lemmas about a buffer (`AppendedIs`, `UpdatedIs` and those
they rest on): from `IsBuffer(b, E)`, what `append` and `update` retain, evict and
number, as sets of entries, for entries of any kind that carry their sequence number
(`Stamped`).  `PageIs` does the same for `page()`: the items are retained entries, the cursor
never goes back, and it passes no wanted entry that was not returned.  The
lemmas stand in both modules so that each proof can be read by itself.

`IndexNewest` survives an eviction because entries of one id are in the order of their
requests (`RequestsAgree`); that holds although updates reorder the stream, since only the
newest request of an id is ever updated.  `LossReported` needs that the last eviction is the
highest evicted number (`EvictionsAgree`): `update` can evict nothing, because it removes
the entry before it appends.  `SavingRetained` and `EvidenceTruthful` need that the references of
`_event_by_id` are exactly the listed entries (`EvidenceIndexed`), and that handles and
evidence belong to announced downloads (`DownloadsAgree`).

### Pages (`PageSelectionProofs`)

| Theorem | States |
|---|---|
| `PageSelectionInvariant` | `PageSelectionInv` is an invariant |
| `Selection` | `SelectionKept` |
| `Truthful` | `OutcomeTruthful` |
| `OwnTabs` | `OwnTabClosed` |

The invariant says of the registry that an open page has a header task that was not
cancelled (`RegistryAgrees`), and of each of the two tools what it remembers at each of its awaits
(`ToolAgrees`): a tool never waits for a page that is yet to open, and what it would
re-select after closing a tab is what the client chose, and which calls owe the close of
their own page.

### Tool calls (`ToolCallsProofs`)

| Theorem | States |
|---|---|
| `ToolCallsInvariant` | `ToolCallsInv` is an invariant |
| `Advice` | `AdviceSafe` |
| `Completion` | `CompletionTruthful` |
| `ActionEvents` | `ActionEventsObserved` |
| `ButtonReleased` | `ReleasedUnderLock` |

The theorems are about calls of any tools whose bodies respect `BodiesAssumption`: on each of its
paths a body holds a lock or has called `mark_operation_started` before it acts on the
instance, a tool that may be repeated neither acts on a page nor launches or consumes
anything, and an observed action is the only one of its call and runs between `arm()` and
`wait()`.  TLC evaluates the assumption for all paths of all 46 tools, so the theorems hold for them;
a new tool has to keep to it.  `ToolCallsInv` carries it along: `Ahead` says it of the
steps that a running call has still to take, `Agrees` that what was done is what the
metadata says, `Over` that the reply is one that `Replies` allows for it.

### The server process (`ServerLifecycleProofs`)

| Theorem | States |
|---|---|
| `ServerInvariant` | `ServerInv` is an invariant |
| `TypeCorrect` | `TypeOK` |
| `Orderly` | `OrderlyExit` |
| `Reported` | `OutcomeReported` |
| `NotServed` | `NotServedAfterStop` (action property) |

`OrderlyExit` says nothing before telemetry closes.  `ServerInv` adds
`PreparationInv` (which process state each await of the preparation goes with, and that a
preparation which is over has lost its worker only to a second interruption), `StageInv`
(what has begun and ended when `main()` is at each of its awaits) and `OutcomeInv` (what the
result on its way may be, and what must not have failed before it).  The interruption of the preparation
is a lemma of its own (`InterruptedInv`), because signals, cancellations and the deadline
share it.

### Only model-checked

Liveness under fairness is outside the reach of the prover: `CreateEnds`,
`ReservationSettles`, `CloseReleasesLocks`, `OperationsEnd`, `CallsEnd` and `StopEnds`
hold on the instances of section 3 and are proved for no others.  That the bodies in `BrowserTools` respect `BodiesAssumption` is evaluated by
TLC; it is a statement about constants, complete for the 46 tools, and no proof adds to it.

## 5. Not modelled, and what comes next

Left out for good: parsing and validation of configuration and arguments, the syntax of
element references and stable selectors, export of telemetry, file system and network
access of the browser installation (the worker is a process that exits), the repository's
scripts.  In the modelled parts: the data tools read and return, which event matches a
`wait_for`, truncation of long fields, the text form of a cursor, the path of a saved
download, identifiers (objects stand for their ids), the identities of frames, the console
stream (a buffer without an index), pages without metadata headers.

What is left is to say more with what is proved: abstract specifications of the
evidence stream (a log of which a reader receives a prefix or is told of a gap) and of the
modal states (a set of queues, one per kind and page), with their refinements; an action property
for `update` (an entry that a reader has not seen is not lost by being moved); that a
settled reservation is not taken back without a new `create()`.
