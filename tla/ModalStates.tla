---------------------------- MODULE ModalStates ----------------------------
(***************************************************************************)
(* The modal_states list of one instance: dialogs and file choosers are    *)
(* appended by page listeners, popped by browser_handle_dialog and         *)
(* browser_file_upload, and looked at by assert_no_modal before an action. *)
(* Recovery holds modal_lock and an action holds lock (InstanceOperations),*)
(* so there is at most one of each at a time and both may be in progress.  *)
(* The browser, its user and its pages act between any two awaits.         *)
(***************************************************************************)
EXTENDS Integers, SequencesExt

CONSTANTS
  Modal,    \* dialogs and file choosers that may open
  Page,
  KindOf,   \* KindOf[m]: "dialog" or "filechooser"
  PageOf    \* PageOf[m]: the page m opens on

Kind == {"dialog", "filechooser"}

ASSUME ModalAssumption == KindOf \in [Modal -> Kind] /\ PageOf \in [Modal -> Page]

VARIABLES
  modals,    \* state.modal_states, by object
  fate,      \* fate[m]: what the browser knows of m
  opened,    \* the modals in the order they opened
  closed,    \* pages that have closed
  recovery,  \* the recovery tool call that holds modal_lock
  acting     \* an action tool has passed assert_no_modal and still runs

vars == <<modals, fate, opened, closed, recovery, acting>>

Idle == [stage |-> "idle"]
Targeting(k, p) == [stage |-> "targeting", kind |-> k, page |-> p]
Resolving(m) == [stage |-> "resolving", modal |-> m]

TypeOK ==
  /\ modals \in Seq(Modal)
  /\ fate \in [Modal -> {"unopened", "open", "gone"}]
  /\ opened \in Seq(Modal)
  /\ closed \subseteq Page
  /\ recovery \in {Idle} \cup {Targeting(k, p) : k \in Kind, p \in Page}
                         \cup {Resolving(m) : m \in Modal}
  /\ acting \in BOOLEAN

Init ==
  /\ modals = <<>>
  /\ fate = [m \in Modal |-> "unopened"]
  /\ opened = <<>>
  /\ closed = {}
  /\ recovery = Idle
  /\ acting = FALSE

Alive(m) == PageOf[m] \notin closed

-----------------------------------------------------------------------------
(* The browser *)

\* The listener appends the new modal.  An open dialog blocks its page, so
\* nothing else opens there.
Opens(m) ==
  /\ fate[m] = "unopened"
  /\ Alive(m)
  /\ \A d \in Modal : KindOf[d] = "dialog" /\ PageOf[d] = PageOf[m] => fate[d] # "open"
  /\ fate' = [fate EXCEPT ![m] = "open"]
  /\ opened' = Append(opened, m)
  /\ modals' = Append(modals, m)
  /\ UNCHANGED <<closed, recovery, acting>>

PageCloses(p) ==
  /\ p \notin closed
  /\ closed' = closed \cup {p}
  /\ fate' = [m \in Modal |-> IF PageOf[m] = p THEN "gone" ELSE fate[m]]
  /\ UNCHANGED <<modals, opened, recovery, acting>>

\* The user of a visible browser answers it.
AnsweredByUser(m) ==
  /\ fate[m] = "open"
  /\ fate' = [fate EXCEPT ![m] = "gone"]
  /\ UNCHANGED <<modals, opened, closed, recovery, acting>>

-----------------------------------------------------------------------------
(* browser_handle_dialog and browser_file_upload *)

\* consume_modal_state: the first entry of kind k on one of the pages leaves
\* the list; an entry of a closed page is dropped with an error.
Consume(k, pages) ==
  LET matches == {i \in DOMAIN modals : KindOf[modals[i]] = k /\ PageOf[modals[i]] \in pages}
  IN IF matches = {}
     THEN recovery' = Idle /\ UNCHANGED modals
     ELSE \E i \in matches :
            /\ \A j \in matches : i <= j
            /\ modals' = RemoveAt(modals, i)
            /\ recovery' = IF Alive(modals[i]) THEN Resolving(modals[i]) ELSE Idle

\* Without page_id nothing is awaited before the entry is consumed.
RecoverAny(k) ==
  /\ recovery = Idle
  /\ Consume(k, Page)
  /\ UNCHANGED <<fate, opened, closed, acting>>

\* With page_id the page is resolved first, awaiting its headers.
RecoverOn(k, p) ==
  /\ recovery = Idle
  /\ p \notin closed
  /\ recovery' = Targeting(k, p)
  /\ UNCHANGED <<modals, fate, opened, closed, acting>>

Targeted ==
  /\ recovery.stage = "targeting"
  /\ IF recovery.page \in closed
     THEN recovery' = Idle /\ UNCHANGED modals
     ELSE Consume(recovery.kind, {recovery.page})
  /\ UNCHANGED <<fate, opened, closed, acting>>

\* accept(), dismiss() or set_files() did its work; without paths a chooser is
\* abandoned on the spot.  (A page is then given up to a second to stabilize,
\* still under modal_lock; nothing of this state changes meanwhile.)
RecoverySucceeds ==
  /\ recovery.stage = "resolving"
  /\ fate[recovery.modal] = "open"
  /\ fate' = [fate EXCEPT ![recovery.modal] = "gone"]
  /\ recovery' = Idle
  /\ UNCHANGED <<modals, opened, closed, acting>>

\* Fault: a failed recovery forgets its entry.
RequeuedNever(m) == modals

\* Fault: a failed recovery goes to the end of the list.
RequeuedLast(m) == IF Alive(m) THEN Append(modals, m) ELSE modals

\* Fault: what is re-queued is the recovery and not its entry.
RequeuedWrapped(m) == IF Alive(m) THEN <<recovery>> \o modals ELSE modals

Requeued(m) == IF Alive(m) THEN <<m>> \o modals ELSE modals

\* The call raised or was cancelled, before or after the browser acted on it:
\* the entry returns to the front of the list if its page is alive.
RecoveryFails ==
  /\ recovery.stage = "resolving"
  /\ LET m == recovery.modal IN
       /\ \/ UNCHANGED fate
          \/ fate[m] = "open" /\ fate' = [fate EXCEPT ![m] = "gone"]
       /\ modals' = Requeued(m)
  /\ recovery' = Idle
  /\ UNCHANGED <<opened, closed, acting>>

\* "Cannot accept dialog which is already handled!"; a chooser is abandoned, or
\* given its files, whatever has become of it.
AlreadyHandled ==
  /\ recovery.stage = "resolving"
  /\ fate[recovery.modal] = "gone"
  /\ recovery' = Idle
  /\ UNCHANGED <<modals, fate, opened, closed, acting>>

-----------------------------------------------------------------------------
(* Actions *)

\* get_modal_states drops the entries of closed pages; the rest blocks.
Pruned ==
  LET kept[n \in 0 .. Len(modals)] ==
        IF n = 0 THEN <<>>
        ELSE IF Alive(modals[n]) THEN Append(kept[n - 1], modals[n]) ELSE kept[n - 1]
  IN kept[Len(modals)]

PruneClosed == modals' = Pruned

ActionStarts ==
  /\ ~acting
  /\ PruneClosed
  /\ modals' = <<>>
  /\ acting' = TRUE
  /\ UNCHANGED <<fate, opened, closed, recovery>>

ActionBlocked ==
  /\ ~acting
  /\ PruneClosed
  /\ modals' # <<>>
  /\ UNCHANGED <<fate, opened, closed, recovery, acting>>

ActionEnds ==
  /\ acting
  /\ acting' = FALSE
  /\ UNCHANGED <<modals, fate, opened, closed, recovery>>

-----------------------------------------------------------------------------

Browser == \/ \E m \in Modal : Opens(m) \/ AnsweredByUser(m)
           \/ \E p \in Page : PageCloses(p)

Recovery == \/ \E k \in Kind : RecoverAny(k) \/ \E p \in Page : RecoverOn(k, p)
            \/ Targeted \/ RecoverySucceeds \/ RecoveryFails \/ AlreadyHandled

Action == ActionStarts \/ ActionBlocked \/ ActionEnds

Next == Browser \/ Recovery \/ Action

Spec == Init /\ [][Next]_vars

-----------------------------------------------------------------------------
(* Properties *)

\* The entries the server still knows, the one being resolved in front.
Entries == IF recovery.stage = "resolving" THEN <<recovery.modal>> \o modals ELSE modals

Listed(s, m) == \E i \in DOMAIN s : s[i] = m

Before(s, m, d) == \E i, j \in DOMAIN s : i < j /\ s[i] = m /\ s[j] = d

Older(m, d) == Before(opened, m, d)

\* "Recoverable failures or cancellation retain the entry while its page is
\* alive" (docs/concepts/modal-state.md): a modal that is open in the browser is
\* never forgotten, however recoveries fail and whatever closes meanwhile.
OpenModalsKnown ==
  \A m \in Modal : fate[m] = "open" => Listed(Entries, m)

\* "They consume the oldest pending modal of the requested kind on that page":
\* entries of one kind and page stay in the order they opened, without
\* duplicates, however recoveries fail.
OldestFirstPerPage ==
  \A i, j \in DOMAIN Entries :
    i < j /\ KindOf[Entries[i]] = KindOf[Entries[j]] /\ PageOf[Entries[i]] = PageOf[Entries[j]]
      => Older(Entries[i], Entries[j])

\* "Omission preserves the oldest-instance-modal behavior": without page_id the
\* entry consumed is the oldest of its kind in the instance.
OldestFirst ==
  \A i, j \in DOMAIN modals :
    i < j /\ KindOf[modals[i]] = KindOf[modals[j]] => Older(modals[i], modals[j])

\* "If any modal state is pending, the tool short-circuits": no action passes
\* the guard while a modal that the listener captured is unanswered.
NoActionUnderModal ==
  [][~acting /\ acting' => \A m \in Modal : fate[m] # "open"]_vars

-----------------------------------------------------------------------------
(* The inductive invariant behind them *)

\* What the server knows: its list and the entry that is being resolved.
Known(m) == recovery = Resolving(m) \/ Listed(modals, m)

\* Each modal opens once, on a page that is open.
HistoryAgrees ==
  /\ \A i, j \in DOMAIN opened : opened[i] = opened[j] => i = j
  /\ \A m \in Modal : Listed(opened, m) => fate[m] # "unopened"
  /\ \A m \in Modal : ~Alive(m) => fate[m] = "gone"

\* What is open is known, what is known has opened, and of two known modals of
\* one kind and page the older one comes first.
ModalInv ==
  /\ TypeOK
  /\ HistoryAgrees
  /\ \A m \in Modal : /\ fate[m] = "open" => Known(m)
                      /\ Known(m) => Listed(opened, m)
  /\ \A m, d \in Modal : KindOf[m] = KindOf[d] /\ PageOf[m] = PageOf[d] =>
       /\ Before(modals, m, d) => Older(m, d)
       /\ recovery = Resolving(m) /\ Listed(modals, d) => Older(m, d)
=============================================================================
