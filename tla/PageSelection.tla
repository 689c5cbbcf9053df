---------------------------- MODULE PageSelection ----------------------------
(***************************************************************************)
(* The pages of one instance: their identities, the selected page and the  *)
(* task that sets the headers of each page before a tool uses it           *)
(* (instance_manager.py), and the tools that open, close and select pages  *)
(* (tools/utility.py, tools/page.py, tools/cookies.py).  Pages also open   *)
(* and close by themselves while a tool awaits the browser.                *)
(*                                                                         *)
(* One tool holds the instance lock and one the modal lock, as granted by  *)
(* InstanceOperations; the instance is live and metadata headers are       *)
(* enabled, without them no tool waits for a header task.  A tab index is  *)
(* counted from 1.                                                         *)
(***************************************************************************)
EXTENDS Naturals, Sequences, SequencesExt

CONSTANTS
  Page,  \* the pages of the context, each opened at most once
  None   \* no page

ASSUME PageSelectionAssumption == None \notin Page

VARIABLES
  pages,            \* context.pages, in the order of the tabs
  page_ids,         \* the pages that have an identity
  active_page,      \* the selected page, or None
  active_page_index,
  header_tasks,     \* page_header_tasks: the pages that have an entry
  headers,          \* headers[p]: the header task of a page, "none" before it opens
  tool,             \* tool[t]: what holds the instance lock and the modal lock
  chosen            \* history: the page the client selected or opened last

registry == <<page_ids, active_page, active_page_index, header_tasks, headers>>
vars == <<pages, registry, tool, chosen>>

Open  == ToSet(pages)
Fresh == {p \in Page : headers[p] = "none"}

IndexIn(s, p) == CHOOSE i \in DOMAIN s : s[i] = p

Locks == {"lock", "modalLock"}
NoTool == [kind |-> "none", phase |-> "idle", page |-> None, awaits |-> None, selected |-> None,
           index |-> 1, cancelled |-> FALSE, outcome |-> "none",
           cleanup |-> "none"]  \* history: how page.close() of its own page has ended

Init ==
  /\ pages = <<>>
  /\ page_ids = {} /\ header_tasks = {}
  /\ active_page = None /\ active_page_index = 1
  /\ headers = [p \in Page |-> "none"]
  /\ tool = [t \in Locks |-> NoTool]
  /\ chosen = None

-----------------------------------------------------------------------------
(* The registry of pages *)

\* _existing_active_page(), of the tabs s: the selected page or, when that has
\* gone, the tab in its place.
ExistingActivePage(s, active) ==
  CASE s = <<>>          -> None
    [] active \in ToSet(s) -> active
    [] OTHER             -> s[IF active_page_index <= Len(s) THEN active_page_index ELSE Len(s)]

\* _schedule_page_headers(): one task for each page in the table.
Schedule(p) ==
  /\ header_tasks' = header_tasks \cup {p}
  /\ headers' = IF p \in header_tasks THEN headers ELSE [headers EXCEPT ![p] = "pending"]

\* set_active_page(), and the same lines of active_page() for a page that may
\* have closed.
Activate(p) ==
  /\ active_page' = p
  /\ active_page_index' = IF p \in Open THEN IndexIn(pages, p) ELSE 1
  /\ page_ids' = page_ids \cup {p}

\* Fault: only a page the tools open gets its headers.
AttachUnscheduled(p) ==
  /\ pages' = Append(pages, p)
  /\ page_ids' = page_ids \cup {p}
  /\ headers' = [headers EXCEPT ![p] = "pending"]
  /\ active_page' = IF active_page = None THEN p ELSE active_page
  /\ UNCHANGED <<active_page_index, header_tasks>>

\* attach(): the context has a new page.
Attach(p) ==
  /\ pages' = Append(pages, p)
  /\ page_ids' = page_ids \cup {p}
  /\ Schedule(p)
  /\ active_page' = IF active_page = None THEN p ELSE active_page
  /\ UNCHANGED active_page_index

\* A popup, or a page that new_page() opens after its caller was cancelled.
PageOpens(p) ==
  /\ p \in Fresh
  /\ Attach(p)
  /\ UNCHANGED <<tool, chosen>>

\* closed(): the page closes, on demand of a tool or by itself.
PageCloses(p) ==
  LET rest == RemoveAt(pages, IndexIn(pages, p))
      selected == ExistingActivePage(rest, IF active_page = p THEN None ELSE active_page)
  IN /\ p \in Open
     /\ pages' = rest
     /\ page_ids' = page_ids \ {p}
     /\ header_tasks' = header_tasks \ {p}
     /\ headers' = [headers EXCEPT ![p] = IF @ = "pending" THEN "cancelled" ELSE @]
     /\ active_page' = selected
     /\ active_page_index' = IF selected = None THEN 1 ELSE IndexIn(rest, selected)
     /\ UNCHANGED <<tool, chosen>>

\* set_extra_http_headers() returns, or fails.
HeadersEnd(p) ==
  /\ headers[p] = "pending"
  /\ \E result \in IF p \in Open THEN {"done", "failed"} ELSE {"failed"} :
       headers' = [headers EXCEPT ![p] = result]
  /\ UNCHANGED <<pages, page_ids, active_page, active_page_index, header_tasks, tool, chosen>>

-----------------------------------------------------------------------------
(* How a tool goes on *)

Becomes(t, r) == tool' = [tool EXCEPT ![t] = r]

Ended(r, outcome) == [r EXCEPT !.phase = "idle", !.outcome = outcome, !.selected = None, !.index = 1]

\* Fault: the page is closed after an error, but not after a cancellation.
FailedUnlessCancelled(r, outcome) ==
  IF r.kind \in {"new", "storage"} /\ r.phase \in {"opened", "headers", "acting"} /\ outcome # "cancelled"
  THEN [r EXCEPT !.phase = "cleanup", !.outcome = outcome]
  ELSE Ended(r, outcome)

\* The tool fails; the page it has opened for itself is closed first.
Failed(r, outcome) ==
  IF r.kind \in {"new", "storage"} /\ r.phase \in {"opened", "headers", "acting"}
  THEN [r EXCEPT !.phase = "cleanup", !.outcome = outcome]
  ELSE Ended(r, outcome)

\* ensure_page_headers() for p, up to its await.
AwaitHeaders(t, r, p) ==
  /\ Schedule(p)
  /\ Becomes(t, [r EXCEPT !.phase = "headers", !.awaits = p])

\* active_page(), once it has its page.
UseActive(t, r, p) ==
  /\ Activate(p)
  /\ AwaitHeaders(t, r, p)

\* active_page(): a page is opened when there is none.
ActivePage(t, r) ==
  LET p == ExistingActivePage(pages, active_page) IN
  \/ /\ p # None
     /\ UseActive(t, [r EXCEPT !.page = IF @ = None THEN p ELSE @], p)
  \/ /\ p = None
     /\ Becomes(t, [r EXCEPT !.phase = "opening"])
     /\ UNCHANGED registry

\* target_page() of an explicit page_id.
TargetPage(t, r, p) ==
  \/ /\ p \in page_ids \cap Open
     /\ AwaitHeaders(t, [r EXCEPT !.page = p], p)
     /\ UNCHANGED <<page_ids, active_page, active_page_index>>
  \/ /\ p \notin page_ids \cap Open
     /\ Becomes(t, [Ended(r, "page_not_found") EXCEPT !.page = p, !.awaits = p])
     /\ UNCHANGED registry

Starts(t) == tool[t].phase = "idle" /\ UNCHANGED <<pages, chosen>>

-----------------------------------------------------------------------------
(* The tools, from one await to the next *)

\* A tool that acts on a page, or browser_close, without page_id ...
UsesActivePage(kind) ==
  /\ Starts("lock")
  /\ kind = "close" => pages # <<>>
  /\ ActivePage("lock", [NoTool EXCEPT !.kind = kind])

\* ... and with it; the modal tools take a page_id.
UsesPage(t, kind, p) ==
  /\ Starts(t)
  /\ t = "modalLock" => kind = "act"
  /\ p \notin Fresh
  /\ TargetPage(t, [NoTool EXCEPT !.kind = kind], p)

\* browser_tabs "close", of the tab at an index: active_page() comes first.
TabsClose(i) ==
  /\ Starts("lock")
  /\ i \in DOMAIN pages
  /\ ActivePage("lock", [NoTool EXCEPT !.kind = "tabClose", !.page = pages[i], !.index = i])

\* browser_tabs "select": bring_to_front() of the page at an index.
TabsSelect(i) ==
  /\ Starts("lock")
  /\ i \in DOMAIN pages
  /\ Becomes("lock", [NoTool EXCEPT !.kind = "select", !.phase = "acting", !.page = pages[i], !.index = i])
  /\ UNCHANGED registry

\* browser_tabs "new", or a storage tool that visits an origin.
OpensTab(kind) ==
  /\ Starts("lock")
  /\ Becomes("lock", [NoTool EXCEPT !.kind = kind, !.phase = "opening"])
  /\ UNCHANGED registry

\* new_page(): the page is there ...
NewPage(t, p) ==
  /\ tool[t].phase = "opening" /\ p \in Fresh
  /\ Attach(p)
  /\ Becomes(t, [tool[t] EXCEPT !.phase = "opened", !.page = p])
  /\ UNCHANGED chosen

\* ... and its caller goes on, maybe after other events of the browser.
NewPageReturns(t) ==
  LET r == tool[t] IN
  /\ r.phase = "opened" /\ ~r.cancelled
  /\ \/ r.kind = "act" /\ UseActive(t, r, r.page)
     \/ /\ r.kind \in {"new", "storage"}
        /\ r.page \in Open \cup {active_page}
        /\ AwaitHeaders(t, r, r.page)
        /\ page_ids' = page_ids \cup {r.page}
        /\ UNCHANGED <<active_page, active_page_index>>
     \/ /\ r.kind \in {"new", "storage"}
        /\ r.page \notin Open \cup {active_page}
        /\ Becomes(t, Failed(r, "error"))
        /\ UNCHANGED registry
  /\ UNCHANGED <<pages, chosen>>

\* Fault: every cancellation is taken for that of the header task.
HeadersOutcomeOfPage(r) ==
  CASE headers[r.awaits] = "failed" /\ ~r.cancelled -> "error"
    [] r.awaits \notin Open -> "page_not_found"
    [] r.awaits \in Open /\ (r.cancelled \/ headers[r.awaits] = "cancelled") -> "cancelled"
    [] OTHER -> "ready"

\* ensure_page_headers() after its await.
HeadersOutcome(r) ==
  CASE r.cancelled -> "cancelled"
    [] ~r.cancelled /\ headers[r.awaits] = "cancelled" ->
         IF r.awaits \in Open THEN "cancelled" ELSE "page_not_found"
    [] ~r.cancelled /\ headers[r.awaits] = "failed" -> "error"
    [] ~r.cancelled /\ headers[r.awaits] = "done" ->
         IF r.awaits \in Open THEN "ready" ELSE "page_not_found"

\* The tool acts on its page, or closes it and remembers the selected one.
HeadersReturn(t) ==
  LET r == tool[t]
      outcome == HeadersOutcome(r)
  IN /\ r.phase = "headers"
     /\ r.cancelled \/ headers[r.awaits] # "pending"
     /\ Becomes(t, CASE outcome # "ready"    -> Failed(r, outcome)
                     [] outcome = "ready" /\ r.kind = "close" ->
                          [r EXCEPT !.phase = "closing", !.selected = active_page,
                                    !.index = IndexIn(pages, r.page)]
                     [] outcome = "ready" /\ r.kind = "tabClose" ->
                          [r EXCEPT !.phase = "closing", !.selected = r.awaits]
                     [] OTHER                -> [r EXCEPT !.phase = "acting"])
     /\ UNCHANGED <<pages, registry, chosen>>

\* The browser has done what the tool asked for.
Acts(t) ==
  LET r == tool[t]
      selects == r.kind \in {"new", "select"} /\ r.page \in Open
  IN /\ r.phase = "acting" /\ ~r.cancelled
     /\ \/ selects /\ Activate(r.page) /\ chosen' = r.page
        \/ ~selects /\ UNCHANGED <<page_ids, active_page, active_page_index, chosen>>
     /\ Becomes(t, CASE r.kind = "storage" -> [r EXCEPT !.phase = "cleanup", !.outcome = "ok"]
                     [] r.kind = "act" \/ selects -> Ended(r, "ok")
                     [] OTHER -> Failed(r, "error"))
     /\ UNCHANGED <<pages, header_tasks, headers>>

\* Fault: the tab that has moved into the place of the closed one is selected.
ReselectedByIndex(r) == pages[IF r.index <= Len(pages) THEN r.index ELSE Len(pages)]

\* What browser_close and browser_tabs "close" select afterwards.
Reselected(r) ==
  CASE r.selected \in Open -> r.selected
    [] r.selected \notin Open -> pages[IF r.index <= Len(pages) THEN r.index ELSE Len(pages)]

\* page.close() returns: the page has gone.
CloseReturns(t) ==
  LET r == tool[t] IN
  /\ r.phase = "closing" /\ ~r.cancelled
  /\ r.page \notin Open
  /\ \/ pages = <<>> /\ UNCHANGED <<page_ids, active_page, active_page_index>>
     \/ pages # <<>> /\ Activate(Reselected(r))
  /\ Becomes(t, Ended(r, "ok"))
  /\ UNCHANGED <<pages, header_tasks, headers, chosen>>

\* What the tool awaits fails.
Fails(t) ==
  LET r == tool[t] IN
  /\ r.phase \in {"opening", "acting", "closing"} /\ ~r.cancelled
  /\ Becomes(t, Failed(r, "error"))
  /\ UNCHANGED <<pages, registry, chosen>>

\* task.cancel(), by the client or a deadline; another one before the task runs
\* changes nothing.
Cancel(t) ==
  /\ tool[t].phase \in {"opening", "opened", "headers", "acting", "closing"}
  /\ ~tool[t].cancelled
  /\ tool' = [tool EXCEPT ![t].cancelled = TRUE]
  /\ UNCHANGED <<pages, registry, chosen>>

\* A page that new_page() has not returned yet is not closed.
Unwinds(t) ==
  LET r == tool[t] IN
  /\ r.cancelled /\ r.phase \in {"opening", "opened", "acting", "closing"}
  /\ Becomes(t, IF r.phase = "opened" THEN Ended(r, "cancelled") ELSE Failed(r, "cancelled"))
  /\ UNCHANGED <<pages, registry, chosen>>

\* The close of the tool's own page, which may fail or take too long; a storage
\* tool that has succeeded reports that.
CleanupEnds(t) ==
  LET r == tool[t]
      outcome == IF r.page \in Open /\ r.outcome = "ok" THEN "error" ELSE r.outcome
  IN /\ r.phase = "cleanup"
     /\ Becomes(t, [Ended(r, outcome) EXCEPT !.cleanup = IF r.page \in Open THEN "failed" ELSE "closed"])
     /\ UNCHANGED <<pages, registry, chosen>>

\* The shield of that close is AnyIO's: task.cancel() of a deadline or of a close
\* of the instance goes through it, and the page may stay.
CleanupCancelled(t) ==
  LET r == tool[t] IN
  /\ r.phase = "cleanup"
  /\ Becomes(t, [Ended(r, "cancelled") EXCEPT !.cancelled = TRUE, !.cleanup = "cut"])
  /\ UNCHANGED <<pages, registry, chosen>>

Next ==
  \/ \E p \in Page : PageOpens(p) \/ PageCloses(p) \/ HeadersEnd(p)
  \/ \E kind \in {"act", "close"} : UsesActivePage(kind)
  \/ \E t \in Locks, kind \in {"act", "close"}, p \in Page : UsesPage(t, kind, p)
  \/ \E i \in DOMAIN pages : TabsClose(i) \/ TabsSelect(i)
  \/ \E kind \in {"new", "storage"} : OpensTab(kind)
  \/ \E t \in Locks :
       \/ \E p \in Page : NewPage(t, p)
       \/ NewPageReturns(t) \/ HeadersReturn(t) \/ Acts(t) \/ CloseReturns(t)
       \/ Fails(t) \/ Cancel(t) \/ Unwinds(t) \/ CleanupEnds(t) \/ CleanupCancelled(t)

Spec == Init /\ [][Next]_vars

-----------------------------------------------------------------------------
(* Properties *)

Tool == [kind      : {"none", "act", "close", "tabClose", "select", "new", "storage"},
         phase     : {"idle", "opening", "opened", "headers", "acting", "closing", "cleanup"},
         page      : Page \cup {None},
         awaits    : Page \cup {None},
         selected  : Page \cup {None},
         index     : Nat \ {0},
         cancelled : BOOLEAN,
         outcome   : {"none", "ok", "error", "cancelled", "page_not_found"},
         cleanup   : {"none", "closed", "failed", "cut"}]

\* The registry and the browser agree: an open page has an identity and an
\* entry for its header task, no header task of a closed page keeps running
\* outside the table, and the index is one of a tab.
TypeOK ==
  /\ pages \in Seq(Page) /\ IsInjective(pages)
  /\ Open \subseteq page_ids \cap header_tasks
  /\ page_ids \subseteq Page /\ header_tasks \subseteq Page
  /\ active_page \in Page \cup {None} /\ chosen \in Page \cup {None}
  /\ active_page_index \in 1 .. Len(pages) + 1
  /\ headers \in [Page -> {"none", "pending", "done", "failed", "cancelled"}]
  /\ \A p \in Page : headers[p] = "pending" => p \in header_tasks
  /\ tool \in [Locks -> Tool]

\* The page that the client selected or opened last stays selected while it is
\* open, whatever popups, other tabs, temporary tabs and failing calls do.
SelectionKept == chosen \in Open => active_page = chosen

\* The page that a call opens for itself, or a new tab until it is the client's,
\* is closed on every way out.  It stays open only if the call was cancelled before
\* new_page() had returned it, or page.close() failed, took too long or was
\* itself cancelled; and no new tab that is reported has been closed by its call.
OwnTab(r) ==
  /\ r.kind = "storage" \/ (r.kind = "new" /\ r.outcome # "ok") =>
       \/ r.page \notin Open
       \/ r.cleanup \in {"failed", "cut"}
       \/ r.cancelled /\ r.awaits = None
  /\ r.kind = "new" /\ r.outcome = "ok" => r.cleanup = "none"
OwnTabClosed == \A t \in Locks : tool[t].phase = "idle" => OwnTab(tool[t])

\* A call ends as cancelled if and only if it was cancelled itself, although it
\* shares header tasks with another call and closing a page cancels them; it
\* reports page_not_found only of a page that has gone, and a storage tool that
\* succeeds has left no tab behind.
OutcomeTruthful == \A t \in Locks : LET r == tool[t] IN
  r.phase = "idle" =>
    /\ (r.outcome = "cancelled") = r.cancelled
    /\ r.outcome = "page_not_found" => r.awaits \notin Open
    /\ r.kind = "storage" /\ r.outcome = "ok" => r.page \notin Open

-----------------------------------------------------------------------------
(* The inductive invariant behind them *)

\* A page gets its entry for a header task when it opens, and none of an open
\* page is cancelled.
RegistryAgrees ==
  /\ \A p \in header_tasks : headers[p] # "none"
  /\ \A p \in Open : headers[p] # "cancelled"
  /\ chosen # None => chosen \notin Fresh

\* What the tool r that holds lock t has come to, and what it remembers of the
\* pages: it never waits for or reports on a page that is yet to open, and until
\* it has re-selected a page what it would select is what the client chose.
ToolAgrees(t, r) ==
  /\ t = "modalLock" => r.kind \in {"none", "act"} /\ r.phase \notin {"opening", "opened"}
  /\ r.page \notin Fresh /\ r.awaits \notin Fresh
  /\ r.phase \in {"opening", "opened"} => r.kind \in {"act", "new", "storage"}
  /\ r.phase = "opened" => r.page # None
  /\ r.phase = "headers" => r.kind \notin {"none", "select"} /\ r.awaits # None
  /\ r.phase = "headers" /\ r.kind = "close" => r.page = r.awaits
  /\ r.phase = "acting" => r.kind \in {"act", "select", "new", "storage"}
  /\ r.phase = "closing" => r.kind \in {"close", "tabClose"}
  /\ r.phase = "cleanup" => r.kind \in {"new", "storage"}
  /\ r.phase \in {"idle", "cleanup"} =>
       /\ (r.outcome = "cancelled") = r.cancelled
       /\ r.outcome = "page_not_found" => r.awaits \notin Open
  /\ r.phase = "idle" /\ r.kind = "storage" /\ r.outcome = "ok" => r.page \notin Open
  /\ r.phase = "idle" => OwnTab(r)
  /\ r.phase \in {"opening", "opened"} => r.awaits = None
  /\ r.phase = "opening" => r.page = None \/ r.kind = "act"
  /\ r.phase # "idle" => r.cleanup = "none"
  /\ r.phase = "cleanup" /\ r.kind = "new" => r.outcome # "ok"
  /\ chosen \in Open =>
       /\ r.kind = "act" => r.phase \notin {"opening", "opened"}
       /\ r.kind = "tabClose" /\ r.phase = "headers" => r.awaits = chosen
       /\ r.phase = "closing" => r.selected = chosen

PageSelectionInv ==
  /\ TypeOK
  /\ RegistryAgrees
  /\ SelectionKept
  /\ \A t \in Locks : ToolAgrees(t, tool[t])
=============================================================================
