-------------------------- MODULE DownloadRegistry --------------------------
(***************************************************************************)
(* downloads.py with its users: the page listener registers downloads, and *)
(* browser_download_save pins one, awaits save_as() under the instance     *)
(* lock, records the result and unpins.  Registrations happen at any time, *)
(* also while a save is awaited; the registry is cleared by the teardown,  *)
(* which holds the same lock.  Handles are kept in an OrderedDict, their   *)
(* evidence in an EventBuffer of the same capacity.                        *)
(***************************************************************************)
EXTENDS EventBuffer

CONSTANTS
  Download,    \* Playwright download objects
  NoEvent,     \* _event_by_id has no entry
  MaxSequence  \* bound of the model: sequence numbers of the evidence

ASSUME DownloadAssumption == MaxSequence \in Nat

VARIABLES
  order,     \* _records: the retained downloads, oldest first
  status,    \* status[d]: record.status
  pinned,    \* the downloads whose record is pinned
  events,    \* _events, whose capacity is the registry's
  eventOf,   \* _event_by_id
  emitted,   \* downloads the browser has announced
  saving     \* the save that is awaiting save_as(), if any

vars == <<order, status, pinned, events, eventOf, emitted, saving>>

Status == {"detected", "saving", "saved", "failed"}

Retained == ToSet(order)

\* What a client sees of a download; "failure" is the error of the last save.
Evidence == [download : Download, status : Status, failure : BOOLEAN]

Entry == [seq : Nat, item : Evidence]

ASSUME NoEventAssumption == NoEvent \notin Entry

Listed == Records(events)

TypeOK ==
  /\ order \in Seq(Download)
  /\ status \in [Download -> Status]
  /\ pinned \subseteq Download
  /\ IsBuffer(events, Entry)
  /\ eventOf \in [Download -> Entry \cup {NoEvent}]
  /\ emitted \subseteq Download
  /\ saving \subseteq Download

Init ==
  /\ order = <<>>
  /\ status = [d \in Download |-> "detected"]
  /\ pinned = {}
  /\ events \in {EmptyBuffer(c) : c \in Capacity}
  /\ eventOf = [d \in Download |-> NoEvent]
  /\ emitted = {}
  /\ saving = {}

-----------------------------------------------------------------------------
(* Helpers *)

\* Fault: references to evicted evidence are kept.
UnprunedReferences(d) == eventOf' = [eventOf EXCEPT ![d] = Newest(events')]

\* _prune_event_references, after d got its newest event: a reference stays as
\* long as some entry is about its download.
PrunedReferences(d) ==
  eventOf' = [x \in Download |->
                IF x = d THEN Newest(events')
                ELSE IF \E e \in Records(events') : e.item.download = x
                     THEN eventOf[x] ELSE NoEvent]

\* Fault: the failure of an earlier save is carried along.
UpdateEventKeepsFailure(d, newStatus, failure) ==
  IF eventOf[d] = NoEvent
  THEN UNCHANGED <<events, eventOf>>
  ELSE /\ events' = Updated(events, eventOf[d],
                            [download |-> d, status |-> newStatus,
                             failure |-> failure \/ eventOf[d].item.failure])
       /\ PrunedReferences(d)

\* _update_event; evidence that was evicted is not brought back.
UpdateEvent(d, newStatus, failure) ==
  IF eventOf[d] = NoEvent
  THEN UNCHANGED <<events, eventOf>>
  ELSE /\ events' = Updated(events, eventOf[d],
                            [download |-> d, status |-> newStatus, failure |-> failure])
       /\ PrunedReferences(d)

-----------------------------------------------------------------------------
(* The listener _capture_download *)

\* Fault: the oldest handle goes, pinned or not.
AnyHandle == DOMAIN order

Room == Len(order) < events.capacity

Unpinned == {i \in DOMAIN order : order[i] \notin pinned}

\* register(): the oldest handle that is not being saved gives way.
Register(d) ==
  /\ d \notin emitted
  /\ events.sequence < MaxSequence
  /\ emitted' = emitted \cup {d}
  /\ \/ Room /\ order' = Append(order, d)
     \/ /\ ~Room
        /\ \E i \in Unpinned : /\ \A j \in Unpinned : i <= j
                               /\ order' = Append(RemoveAt(order, i), d)
  /\ status' = [status EXCEPT ![d] = "detected"]
  /\ events' = Appended(events, [download |-> d, status |-> "detected", failure |-> FALSE])
  /\ PrunedReferences(d)
  /\ UNCHANGED <<pinned, saving>>

\* Every handle is pinned: the download is only counted.
RegisterRefused(d) ==
  /\ d \notin emitted
  /\ ~Room
  /\ Unpinned = {}
  /\ emitted' = emitted \cup {d}
  /\ events' = [events EXCEPT !.dropped = @ + 1]
  /\ UNCHANGED <<order, status, pinned, eventOf, saving>>

-----------------------------------------------------------------------------
(* browser_download_save, holding the instance lock *)

\* pin() and the start of save_as(); any earlier failure is forgotten.
Pin(d) ==
  /\ saving = {}
  /\ d \in Retained
  /\ d \notin pinned
  /\ events.sequence < MaxSequence
  /\ saving' = {d}
  /\ pinned' = pinned \cup {d}
  /\ status' = [status EXCEPT ![d] = "saving"]
  /\ UpdateEvent(d, "saving", FALSE)
  /\ UNCHANGED <<order, emitted>>

\* save_as() returned or raised: finish(), then unpin(), without an await.
Finish(d, failed) ==
  /\ d \in saving
  /\ d \in Retained
  /\ events.sequence < MaxSequence
  /\ saving' = {}
  /\ status' = [status EXCEPT ![d] = IF failed THEN "failed" ELSE "saved"]
  /\ UpdateEvent(d, IF failed THEN "failed" ELSE "saved", failed)
  /\ pinned' = pinned \ {d}
  /\ UNCHANGED <<order, emitted>>

StatusReset(d) == IF status[d] = "saving" THEN "detected" ELSE status[d]

\* The save was cancelled or met its deadline: unpin() alone.
CancelSave(d) ==
  /\ d \in saving
  /\ events.sequence < MaxSequence
  /\ saving' = {}
  /\ pinned' = pinned \ {d}
  /\ status' = [status EXCEPT ![d] = StatusReset(d)]
  /\ UpdateEvent(d, StatusReset(d), FALSE)
  /\ UNCHANGED <<order, emitted>>

\* clear(), from _close_resources; listeners no longer register anything.
Clear ==
  /\ saving = {}
  /\ order' = <<>>
  /\ emitted' = Download
  /\ UNCHANGED <<status, pinned, events, eventOf, saving>>

Next == \/ \E d \in Download : \/ Register(d) \/ RegisterRefused(d)
                               \/ Pin(d) \/ CancelSave(d)
                               \/ \E failed \in BOOLEAN : Finish(d, failed)
        \/ Clear

Spec == Init /\ [][Next]_vars

-----------------------------------------------------------------------------
(* Safety *)

\* "Saving pins its handle against eviction" (docs/tools-reference/inspection.md):
\* the handle of a save in progress is retained until the save ends, so that
\* finish() finds it, the registry makes do with its capacity meanwhile, and a
\* save that is over leaves no record in "saving", whatever ended it.
SavingRetained ==
  /\ saving = pinned /\ saving \subseteq Retained
  /\ Len(order) <= events.capacity
  /\ \A d \in Retained : status[d] = "saving" <=> d \in saving

\* What a client can list of a retained download is what the registry knows:
\* the newest status, and a failure exactly if the last save failed.
EvidenceTruthful ==
  \A e \in Listed : e.item.download \in Retained =>
    /\ e.item.status = status[e.item.download]
    /\ e.item.failure <=> status[e.item.download] = "failed"

-----------------------------------------------------------------------------
(* The inductive invariant behind them *)

\* The references kept for updates are exactly the listed entries, one for each
\* download that has evidence.
EvidenceIndexed ==
  /\ \A e \in Listed : eventOf[e.item.download] = e
  /\ \A d \in Download :
       eventOf[d] # NoEvent => eventOf[d] \in Listed /\ eventOf[d].item.download = d

\* What is retained or listed has been announced, and saves exclude each other.
DownloadsAgree ==
  /\ Retained \subseteq emitted
  /\ \A e \in Listed : e.item.download \in emitted
  /\ \A d, x \in saving : d = x

DownloadInv == TypeOK /\ EvidenceIndexed /\ DownloadsAgree /\ SavingRetained /\ EvidenceTruthful
=============================================================================
