------------------------- MODULE PageSelectionProofs -------------------------
(***************************************************************************)
(* Proofs about PageSelection, for every set of pages: the registry of     *)
(* pages and what each tool remembers of them stay consistent, from which  *)
(* it follows that the client's selection is kept, that tools act on       *)
(* prepared pages and that they report truthfully.                         *)
(***************************************************************************)
EXTENDS PageSelection, SequenceTheorems, TLAPS

USE PageSelectionAssumption

-----------------------------------------------------------------------------
(* Tabs: sequences without repetition *)

LEMMA IndexProperties ==
  ASSUME NEW s, NEW p \in ToSet(s)
  PROVE  IndexIn(s, p) \in DOMAIN s /\ s[IndexIn(s, p)] = p
BY DEF IndexIn, ToSet

LEMMA AppendTab ==
  ASSUME NEW s \in Seq(Page), IsInjective(s), NEW p \in Page, p \notin ToSet(s)
  PROVE  /\ Append(s, p) \in Seq(Page) /\ IsInjective(Append(s, p))
         /\ Len(Append(s, p)) = Len(s) + 1
         /\ ToSet(Append(s, p)) = ToSet(s) \cup {p}
<1> DEFINE t == Append(s, p)
<1>1. /\ t \in Seq(Page) /\ Len(t) = Len(s) + 1 /\ t[Len(s) + 1] = p
      /\ \A i \in 1 .. Len(s) : t[i] = s[i]
  BY AppendProperties
<1>2. DOMAIN s = 1 .. Len(s) /\ DOMAIN t = 1 .. Len(s) + 1 /\ Len(s) \in Nat
  BY <1>1, LenProperties
<1> HIDE DEF t
<1>3. ToSet(t) = ToSet(s) \cup {p}
  <2>1. \A i \in 1 .. Len(s) + 1 : i \in 1 .. Len(s) \/ i = Len(s) + 1
    BY <1>2
  <2>2. ToSet(t) \subseteq ToSet(s) \cup {p}
    BY <1>1, <1>2, <2>1 DEF ToSet
  <2>3. ToSet(s) \subseteq ToSet(t)
    BY <1>1, <1>2 DEF ToSet
  <2>4. p \in ToSet(t)
    BY <1>1, <1>2 DEF ToSet
  <2> QED
    BY <2>2, <2>3, <2>4
<1>4. IsInjective(t)
  <2> SUFFICES ASSUME NEW i \in 1 .. Len(s) + 1, NEW j \in 1 .. Len(s) + 1, t[i] = t[j]
               PROVE  i = j
    BY <1>2 DEF IsInjective
  <2>1. \A k \in 1 .. Len(s) : s[k] # p
    BY <1>2 DEF ToSet
  <2> QED
    BY <1>1, <1>2, <2>1 DEF IsInjective
<1> QED
  BY <1>1, <1>3, <1>4 DEF t

LEMMA RemoveTab ==
  ASSUME NEW s \in Seq(Page), IsInjective(s), NEW n \in DOMAIN s
  PROVE  /\ RemoveAt(s, n) \in Seq(Page) /\ IsInjective(RemoveAt(s, n))
         /\ Len(RemoveAt(s, n)) = Len(s) - 1
         /\ ToSet(RemoveAt(s, n)) = ToSet(s) \ {s[n]}
<1> DEFINE t == RemoveAt(s, n)
           a == SubSeq(s, 1, n - 1)
           b == SubSeq(s, n + 1, Len(s))
<1>1. DOMAIN s = 1 .. Len(s) /\ Len(s) \in Nat /\ n \in 1 .. Len(s)
      /\ \A i \in 1 .. Len(s) : s[i] \in Page
  BY LenProperties, ElementOfSeq
<1>2. a \in Seq(Page) /\ Len(a) = n - 1 /\ \A i \in 1 .. n - 1 : a[i] = s[i]
  <2>1. \A i \in 1 .. n - 1 : s[i] \in Page
    BY <1>1
  <2>2. /\ a \in Seq(Page)
        /\ Len(a) = IF 1 <= n - 1 THEN n - 1 - 1 + 1 ELSE 0
        /\ \A i \in 1 .. n - 1 - 1 + 1 : a[i] = s[1 + i - 1]
    BY <1>1, <2>1, SubSeqProperties
  <2> QED
    BY <1>1, <2>2
<1>3. b \in Seq(Page) /\ Len(b) = Len(s) - n /\ \A i \in 1 .. Len(s) - n : b[i] = s[n + i]
  <2>1. \A i \in n + 1 .. Len(s) : s[i] \in Page
    BY <1>1
  <2>2. /\ b \in Seq(Page)
        /\ Len(b) = IF n + 1 <= Len(s) THEN Len(s) - (n + 1) + 1 ELSE 0
        /\ \A i \in 1 .. Len(s) - (n + 1) + 1 : b[i] = s[n + 1 + i - 1]
    BY <1>1, <2>1, SubSeqProperties
  <2> HIDE DEF b
  <2>3. Len(b) = Len(s) - n /\ Len(s) - (n + 1) + 1 = Len(s) - n
    BY <1>1, <2>2
  <2>4. ASSUME NEW i \in 1 .. Len(s) - n PROVE b[i] = s[n + i]
    <3>1. n + 1 + i - 1 = n + i
      BY <1>1
    <3> QED
      BY <2>2, <2>3, <3>1
  <2> QED
    BY <2>2, <2>3, <2>4
<1> HIDE DEF a, b
<1>4. /\ t \in Seq(Page) /\ Len(t) = Len(s) - 1
      /\ \A i \in 1 .. Len(s) - 1 : t[i] = IF i < n THEN s[i] ELSE s[i + 1]
  <2>1. t = a \o b
    BY DEF RemoveAt, a, b
  <2>2. /\ a \o b \in Seq(Page) /\ Len(a \o b) = Len(a) + Len(b)
        /\ \A i \in 1 .. Len(a) + Len(b) :
             (a \o b)[i] = IF i <= Len(a) THEN a[i] ELSE b[i - Len(a)]
    BY <1>2, <1>3, ConcatProperties
  <2> HIDE DEF t
  <2>3. t \in Seq(Page) /\ Len(t) = Len(s) - 1
    BY <1>1, <1>2, <1>3, <2>1, <2>2
  <2>4. ASSUME NEW i \in 1 .. Len(s) - 1, i < n PROVE t[i] = s[i]
    BY <1>1, <1>2, <1>3, <2>1, <2>2, <2>4
  <2>5. ASSUME NEW i \in 1 .. Len(s) - 1, ~(i < n) PROVE t[i] = s[i + 1]
    <3>0. i \in 1 .. Len(a) + Len(b) /\ ~(i <= Len(a)) /\ Len(a) = n - 1
      BY <1>1, <1>2, <1>3, <2>5
    <3>1. t[i] = b[i - (n - 1)] /\ i - (n - 1) \in 1 .. Len(s) - n
      <4>1. t[i] = b[i - Len(a)]
        BY <2>1, <2>2, <3>0
      <4>2. i - (n - 1) \in 1 .. Len(s) - n
        BY <1>1, <2>5
      <4> QED
        BY <3>0, <4>1, <4>2
    <3>2. n + (i - (n - 1)) = i + 1
      BY <1>1
    <3> QED
      BY <1>3, <3>1, <3>2
  <2> QED
    BY <2>3, <2>4, <2>5
<1>5. DOMAIN t = 1 .. Len(s) - 1
  BY <1>4, LenProperties
<1> HIDE DEF t
<1>6. IsInjective(t)
  BY SMTT(30), <1>1, <1>4, <1>5 DEF IsInjective
<1>7. ToSet(t) = ToSet(s) \ {s[n]}
  <2>1. ASSUME NEW i \in 1 .. Len(s) - 1 PROVE t[i] \in ToSet(s) \ {s[n]}
    <3> DEFINE j == IF i < n THEN i ELSE i + 1
    <3>1. j \in 1 .. Len(s) /\ j # n /\ t[i] = s[j]
      BY <1>1, <1>4
    <3> HIDE DEF j
    <3> QED
      BY <1>1, <3>1 DEF IsInjective, ToSet
  <2>2. ASSUME NEW i \in 1 .. Len(s), s[i] # s[n] PROVE s[i] \in ToSet(t)
    <3>1. CASE i < n
      BY <1>1, <1>4, <1>5, <3>1 DEF ToSet
    <3>2. CASE i > n
      <4>1. i - 1 \in 1 .. Len(s) - 1 /\ t[i - 1] = s[i]
        BY <1>1, <1>4, <3>2
      <4> QED
        BY <1>5, <4>1 DEF ToSet
    <3> QED
      BY <1>1, <2>2, <3>1, <3>2
  <2>3. ToSet(t) \subseteq ToSet(s) \ {s[n]}
    BY <1>5, <2>1 DEF ToSet
  <2>4. ToSet(s) \ {s[n]} \subseteq ToSet(t)
    BY <1>1, <2>2 DEF ToSet
  <2> QED
    BY <2>3, <2>4
<1> QED
  BY <1>4, <1>6, <1>7 DEF t

\* The page that takes over from a selected one is a tab, if there is any.
LEMMA ExistingIsTab ==
  ASSUME NEW s \in Seq(Page), active_page_index \in Nat \ {0}, NEW active
  PROVE  /\ s = <<>> => ExistingActivePage(s, active) = None
         /\ s # <<>> => ExistingActivePage(s, active) \in ToSet(s)
         /\ active \in ToSet(s) => ExistingActivePage(s, active) = active
<1>1. CASE s = <<>>
  <2>1. ToSet(s) = {}
    BY <1>1 DEF ToSet
  <2> QED
    BY <1>1, <2>1 DEF ExistingActivePage
<1>2. CASE s # <<>> /\ active \in ToSet(s)
  BY <1>2 DEF ExistingActivePage
<1>3. CASE s # <<>> /\ active \notin ToSet(s)
  <2> DEFINE i == IF active_page_index <= Len(s) THEN active_page_index ELSE Len(s)
  <2>1. i \in DOMAIN s
    BY <1>3, EmptySeq, LenProperties
  <2>2. ExistingActivePage(s, active) = s[i]
    BY <1>3 DEF ExistingActivePage
  <2> QED
    BY <1>3, <2>1, <2>2 DEF ToSet
<1> QED
  BY <1>1, <1>2, <1>3

-----------------------------------------------------------------------------
(* The registry *)

\* The only pages that open are new ones.
Settled == \A p \in Page : headers[p] # "none" =>
  headers'[p] # "none" /\ (p \in Open' => p \in Open)

LEMMA OpenIsPage ==
  ASSUME TypeOK
  PROVE  Open \subseteq Page /\ Len(pages) \in Nat
BY LenProperties, ElementOfSeq DEF TypeOK, Open, ToSet

\* A page that gets its entry for a header task.
LEMMA ScheduleKeeps ==
  ASSUME TypeOK, RegistryAgrees, NEW p \in Page, Schedule(p),
         Open' \subseteq Open \cup {p}, p \in header_tasks => Open' = Open
  PROVE  /\ header_tasks' \subseteq Page /\ Open' \subseteq header_tasks'
         /\ headers' \in [Page -> {"none", "pending", "done", "failed", "cancelled"}]
         /\ \A q \in Page : headers'[q] = "pending" => q \in header_tasks'
         /\ \A q \in Page : headers[q] # "none" => headers'[q] # "none"
         /\ \A q \in header_tasks' : headers'[q] # "none"
         /\ \A q \in Open' : headers'[q] # "cancelled"
<1>1. CASE p \in header_tasks
  BY <1>1 DEF TypeOK, RegistryAgrees, Schedule
<1>2. CASE p \notin header_tasks
  <2>1. header_tasks' = header_tasks \cup {p} /\ headers' = [headers EXCEPT ![p] = "pending"]
    BY <1>2 DEF Schedule
  <2>2. /\ headers' \in [Page -> {"none", "pending", "done", "failed", "cancelled"}]
        /\ headers'[p] = "pending" /\ \A q \in Page \ {p} : headers'[q] = headers[q]
    BY <2>1 DEF TypeOK
  <2>3. header_tasks' \subseteq Page /\ Open' \subseteq header_tasks'
    BY <2>1 DEF TypeOK
  <2>4. \A q \in Open' : headers'[q] # "cancelled"
    BY <2>2, OpenIsPage DEF TypeOK, RegistryAgrees
  <2>5. \A q \in header_tasks' : headers'[q] # "none"
    BY <2>1, <2>2, <2>3 DEF RegistryAgrees
  <2>6. \A q \in Page : headers'[q] = "pending" => q \in header_tasks'
    BY <2>1, <2>2 DEF TypeOK
  <2> QED
    BY <2>2, <2>3, <2>4, <2>5, <2>6
<1> QED
  BY <1>1, <1>2

LEMMA ActivateKeeps ==
  ASSUME TypeOK, NEW p \in Page, Activate(p), pages' = pages
  PROVE  /\ page_ids' \subseteq Page /\ Open' \subseteq page_ids' /\ active_page' = p
         /\ active_page_index' \in 1 .. Len(pages') + 1
<1>1. Len(pages) \in Nat /\ DOMAIN pages = 1 .. Len(pages)
  BY LenProperties DEF TypeOK
<1>2. p \in Open => IndexIn(pages, p) \in 1 .. Len(pages)
  BY <1>1, IndexProperties DEF Open
<1> QED
  BY <1>1, <1>2 DEF TypeOK, Activate, Open

\* A page that opens, with whatever the tools do.
LEMMA AttachKeeps ==
  ASSUME PageSelectionInv, NEW p \in Fresh, Attach(p), chosen' = chosen,
         tool' \in [Locks -> Tool]
  PROVE  TypeOK' /\ RegistryAgrees' /\ SelectionKept' /\ Settled
<1> USE DEF PageSelectionInv
<1>1. p \in Page /\ p \notin Open /\ p \notin header_tasks
  BY DEF TypeOK, RegistryAgrees, Fresh
<1>2. /\ pages' \in Seq(Page) /\ IsInjective(pages') /\ Len(pages') = Len(pages) + 1
      /\ Open' = Open \cup {p}
  BY <1>1, AppendTab DEF Attach, Open, TypeOK
<1>3. Schedule(p)
  BY DEF Attach
<1>4. /\ header_tasks' \subseteq Page /\ Open' \subseteq header_tasks'
      /\ headers' \in [Page -> {"none", "pending", "done", "failed", "cancelled"}]
      /\ \A q \in Page : headers'[q] = "pending" => q \in header_tasks'
      /\ \A q \in Page : headers[q] # "none" => headers'[q] # "none"
      /\ \A q \in header_tasks' : headers'[q] # "none"
      /\ \A q \in Open' : headers'[q] # "cancelled"
  BY <1>1, <1>2, <1>3, ScheduleKeeps
<1>5. /\ page_ids' = page_ids \cup {p} /\ active_page' \in {active_page, p}
      /\ active_page_index' = active_page_index
      /\ active_page # None => active_page' = active_page
  BY DEF Attach
<1>6. TypeOK'
  <2>0. TypeOK
    OBVIOUS
  <2>1. active_page_index' \in 1 .. Len(pages') + 1
    <3>1. active_page_index \in 1 .. Len(pages) + 1
      BY DEF TypeOK
    <3>2. Len(pages) \in Nat
      BY <2>0, OpenIsPage
    <3> QED
      BY <1>2, <1>5, <3>1, <3>2
  <2>2. Open' \subseteq page_ids' \cap header_tasks' /\ page_ids' \subseteq Page
    BY <1>1, <1>2, <1>4, <1>5 DEF TypeOK
  <2>3. active_page' \in Page \cup {None} /\ chosen' \in Page \cup {None}
    BY <1>1, <1>5 DEF TypeOK
  <2> QED
    BY <1>2, <1>4, <2>1, <2>2, <2>3 DEF TypeOK
<1>7. chosen # None => chosen \in Page /\ headers[chosen] # "none" /\ headers'[chosen] # "none"
  BY <1>4 DEF TypeOK, RegistryAgrees, Fresh
<1>8. RegistryAgrees'
  BY <1>4, <1>7 DEF RegistryAgrees, Fresh
<1>9. SelectionKept'
  <2>1. ASSUME chosen \in Open' PROVE active_page' = chosen
    <3>1. chosen # None /\ chosen \in Open
      BY <1>1, <1>2, <1>7, <2>1, OpenIsPage DEF Fresh
    <3> QED
      BY <1>5, <3>1 DEF SelectionKept
  <2> QED
    BY <2>1 DEF SelectionKept
<1>10. Settled
  BY <1>1, <1>2, <1>4 DEF Settled, Fresh
<1> QED
  BY <1>6, <1>8, <1>9, <1>10

\* A tool that waits for the headers of a page, without or with selecting it.
LEMMA AwaitKeeps ==
  ASSUME PageSelectionInv, NEW p \in Page, headers[p] # "none",
         Schedule(p), UNCHANGED <<pages, chosen>>, tool' \in [Locks -> Tool],
         page_ids' \in {page_ids, page_ids \cup {p}},
         UNCHANGED <<active_page, active_page_index>> \/ Activate(p),
         chosen \in Open => active_page' = chosen
  PROVE  TypeOK' /\ RegistryAgrees' /\ SelectionKept' /\ Settled
<1> USE DEF PageSelectionInv
<1>1. Open' = Open
  BY DEF Open
<1>2. /\ header_tasks' \subseteq Page /\ Open' \subseteq header_tasks'
      /\ headers' \in [Page -> {"none", "pending", "done", "failed", "cancelled"}]
      /\ \A q \in Page : headers'[q] = "pending" => q \in header_tasks'
      /\ \A q \in Page : headers[q] # "none" => headers'[q] # "none"
      /\ \A q \in header_tasks' : headers'[q] # "none"
      /\ \A q \in Open' : headers'[q] # "cancelled"
  BY <1>1, ScheduleKeeps
<1>3. TypeOK'
  <2>1. active_page' \in Page \cup {None} /\ active_page_index' \in 1 .. Len(pages') + 1
    BY ActivateKeeps DEF TypeOK
  <2>2. Open' \subseteq page_ids' \cap header_tasks' /\ page_ids' \subseteq Page
    BY <1>1, <1>2 DEF TypeOK
  <2> QED
    BY <1>2, <2>1, <2>2 DEF TypeOK
<1>4. RegistryAgrees'
  BY <1>2 DEF TypeOK, RegistryAgrees, Fresh
<1> QED
  BY <1>1, <1>2, <1>3, <1>4 DEF SelectionKept, Settled

\* A step that leaves the tabs and the registry alone.
LEMMA RegistryUnchanged ==
  ASSUME PageSelectionInv, UNCHANGED <<pages, registry, chosen>>, tool' \in [Locks -> Tool]
  PROVE  TypeOK' /\ RegistryAgrees' /\ SelectionKept' /\ Settled
BY DEF PageSelectionInv, TypeOK, RegistryAgrees, SelectionKept, Settled, registry, Open, Fresh

-----------------------------------------------------------------------------
(* The tools *)

\* A tool that does not move still agrees with the pages.
LEMMA ToolKept ==
  ASSUME PageSelectionInv, TypeOK', Settled, NEW t \in Locks, tool'[t] = tool[t],
         chosen' = chosen \/ t = "modalLock"
  PROVE  ToolAgrees(t, tool[t])'
<1> USE DEF PageSelectionInv
<1>1. Open \subseteq Page /\ Open' \subseteq Page
  BY OpenIsPage, LenProperties, ElementOfSeq DEF TypeOK, Open, ToSet
<1> DEFINE r == tool[t]
<1>2. ToolAgrees(t, r) /\ r \in Tool
  BY DEF TypeOK
<1>3. r.page \notin Fresh' /\ r.awaits \notin Fresh'
  BY <1>2 DEF ToolAgrees, Settled, Fresh
<1>4. /\ r.awaits \in Open' => r.awaits \in Open
      /\ r.page \in Open' => r.page \in Open
      /\ chosen \in Open' => chosen \in Open
  BY <1>1, <1>2 DEF ToolAgrees, Settled, Fresh, RegistryAgrees, TypeOK
<1> HIDE DEF r
<1>5. tool'[t] = r
  BY DEF r
<1>6. OwnTab(r) => OwnTab(tool[t])'
  BY <1>4, <1>5 DEF OwnTab
<1> QED
  BY <1>2, <1>3, <1>4, <1>5, <1>6 DEF ToolAgrees

\* A step of one tool, and of the pages with it.
LEMMA ToolStep ==
  ASSUME PageSelectionInv, NEW t \in Locks,
         TypeOK', RegistryAgrees', SelectionKept', Settled,
         \A u \in Locks \ {t} : tool'[u] = tool[u],
         chosen' = chosen \/ t = "lock",
         ToolAgrees(t, tool[t])'
  PROVE  PageSelectionInv'
<1>1. ASSUME NEW u \in Locks PROVE ToolAgrees(u, tool[u])'
  <2>1. CASE u = t
    BY <2>1
  <2>2. CASE u # t
    BY <2>2, ToolKept DEF Locks
  <2> QED
    BY <2>1, <2>2
<1> QED
  BY <1>1 DEF PageSelectionInv

\* A step of the browser.
LEMMA PagesStep ==
  ASSUME PageSelectionInv, TypeOK', RegistryAgrees', SelectionKept', Settled,
         UNCHANGED <<tool, chosen>>
  PROVE  PageSelectionInv'
<1>1. ASSUME NEW u \in Locks PROVE ToolAgrees(u, tool[u])'
  BY ToolKept
<1> QED
  BY <1>1 DEF PageSelectionInv

Outcome == {"none", "ok", "error", "cancelled", "page_not_found"}

LEMMA EndedIs ==
  ASSUME NEW r \in Tool, NEW o \in Outcome
  PROVE  LET n == Ended(r, o) IN
         /\ n \in Tool
         /\ n.kind = r.kind /\ n.page = r.page /\ n.awaits = r.awaits /\ n.cancelled = r.cancelled
         /\ n.phase = "idle" /\ n.outcome = o /\ n.cleanup = r.cleanup
<1> DEFINE a == [r EXCEPT !.phase = "idle", !.outcome = o]
           n == [a EXCEPT !.selected = None, !.index = 1]
<1>1. /\ a \in Tool
      /\ a.kind = r.kind /\ a.page = r.page /\ a.awaits = r.awaits /\ a.cancelled = r.cancelled
      /\ a.phase = "idle" /\ a.outcome = o /\ a.cleanup = r.cleanup
  <2>1. /\ DOMAIN a = DOMAIN r
        /\ a.kind = r.kind /\ a.page = r.page /\ a.awaits = r.awaits
        /\ a.selected = r.selected /\ a.index = r.index /\ a.cancelled = r.cancelled
        /\ a.phase = "idle" /\ a.outcome = o /\ a.cleanup = r.cleanup
    BY DEF Tool, Outcome
  <2> QED
    BY <2>1 DEF Tool, Outcome
<1>2. Ended(r, o) = n
  BY DEF Ended, Tool
<1> HIDE DEF a
<1>3. n \in Tool
  <2>1. [a EXCEPT !.selected = None] \in Tool
    BY <1>1 DEF Tool
  <2>2. 1 \in Nat \ {0}
    OBVIOUS
  <2> QED
    BY <1>1, <2>1, <2>2 DEF Tool
<1>4. /\ n.kind = a.kind /\ n.page = a.page /\ n.awaits = a.awaits /\ n.cancelled = a.cancelled
      /\ n.phase = a.phase /\ n.outcome = a.outcome /\ n.cleanup = a.cleanup
  BY <1>1 DEF Tool
<1> QED
  BY <1>1, <1>2, <1>3, <1>4

LEMMA FailedIs ==
  ASSUME NEW r \in Tool, NEW o \in Outcome
  PROVE  LET n == Failed(r, o) IN
         /\ n \in Tool
         /\ n.kind = r.kind /\ n.page = r.page /\ n.awaits = r.awaits /\ n.cancelled = r.cancelled
         /\ n.phase \in {"idle", "cleanup"} /\ n.outcome = o /\ n.cleanup = r.cleanup
         /\ n.phase = "cleanup" <=>
              r.kind \in {"new", "storage"} /\ r.phase \in {"opened", "headers", "acting"}
<1>1. CASE r.kind \in {"new", "storage"} /\ r.phase \in {"opened", "headers", "acting"}
  <2> DEFINE n == [r EXCEPT !.phase = "cleanup", !.outcome = o]
  <2>1. Failed(r, o) = n
    BY <1>1 DEF Failed
  <2>2. n \in Tool
    BY DEF Tool, Outcome
  <2>3. n.kind = r.kind /\ n.page = r.page /\ n.awaits = r.awaits /\ n.cancelled = r.cancelled
    BY DEF Tool
  <2>4. n.phase = "cleanup" /\ n.outcome = o /\ n.cleanup = r.cleanup
    BY DEF Tool
  <2> HIDE DEF n
  <2> QED
    BY <1>1, <2>1, <2>2, <2>3, <2>4
<1>2. CASE ~(r.kind \in {"new", "storage"} /\ r.phase \in {"opened", "headers", "acting"})
  <2> DEFINE n == Ended(r, o)
  <2>1. Failed(r, o) = n
    BY <1>2 DEF Failed
  <2>2. /\ n \in Tool
        /\ n.kind = r.kind /\ n.page = r.page /\ n.awaits = r.awaits /\ n.cancelled = r.cancelled
        /\ n.phase = "idle" /\ n.outcome = o /\ n.cleanup = r.cleanup
    BY EndedIs
  <2> HIDE DEF n
  <2> QED
    BY <1>2, <2>1, <2>2
<1> QED
  BY <1>1, <1>2

\* A tool that fails has no page of its own, or closes it.
LEMMA FailedOwn ==
  ASSUME PageSelectionInv, NEW t \in Locks, tool[t].phase \notin {"idle", "cleanup"},
         NEW o \in Outcome
  PROVE  LET n == Failed(tool[t], o) IN
         /\ n.phase = "cleanup" => n.cleanup = "none"
         /\ n.phase = "idle" => OwnTab(n)
<1> DEFINE r == tool[t]
           n == Failed(r, o)
<1>1. r \in Tool /\ ToolAgrees(t, r) /\ None \notin Open
  BY OpenIsPage, PageSelectionAssumption DEF PageSelectionInv, TypeOK
<1>2. /\ n.kind = r.kind /\ n.page = r.page /\ n.cleanup = r.cleanup
      /\ n.phase = "cleanup" <=>
           r.kind \in {"new", "storage"} /\ r.phase \in {"opened", "headers", "acting"}
  BY <1>1, FailedIs
<1> HIDE DEF n
<1>3. r.cleanup = "none"
  BY <1>1 DEF ToolAgrees
<1>4. r.kind \notin {"new", "storage"} \/ r.phase \in {"opening", "opened", "headers", "acting"}
  BY <1>1 DEF ToolAgrees, Tool
<1>5. r.kind \in {"new", "storage"} /\ r.phase = "opening" => r.page = None
  BY <1>1 DEF ToolAgrees
<1>6. n.phase # "cleanup" => OwnTab(n)
  BY <1>1, <1>2, <1>3, <1>4, <1>5 DEF OwnTab
<1> QED
  BY <1>2, <1>3, <1>6 DEF n

\* A tool that stops, or has only its own page left to close.
LEMMA StopAgrees ==
  ASSUME PageSelectionInv, TypeOK', Settled, NEW t \in Locks, NEW n \in Tool,
         tool' = [tool EXCEPT ![t] = n], UNCHANGED <<pages, headers>>,
         n.kind = tool[t].kind, n.page = tool[t].page,
         n.awaits = tool[t].awaits,
         n.phase \in {"idle", "cleanup"}, n.phase = "cleanup" => n.kind \in {"new", "storage"},
         (n.outcome = "cancelled") = n.cancelled,
         n.outcome = "page_not_found" => n.awaits \notin Open,
         n.phase = "idle" /\ n.kind = "storage" /\ n.outcome = "ok" => n.page \notin Open,
         n.phase = "idle" => OwnTab(n),
         n.phase = "cleanup" => n.cleanup = "none" /\ (n.kind = "new" => n.outcome # "ok")
  PROVE  ToolAgrees(t, tool[t])' /\ \A u \in Locks \ {t} : tool'[u] = tool[u]
<1>1. tool'[t] = n /\ \A u \in Locks \ {t} : tool'[u] = tool[u]
  BY DEF PageSelectionInv, TypeOK
<1>2. Open' = Open /\ Fresh' = Fresh
  BY DEF Open, Fresh
<1>3. ToolAgrees(t, tool[t])
  BY DEF PageSelectionInv
<1>4. n.phase = "idle" => OwnTab(tool[t])'
  BY <1>1, <1>2 DEF OwnTab
<1> QED
  BY <1>1, <1>2, <1>3, <1>4 DEF ToolAgrees

-----------------------------------------------------------------------------
(* Events of the browser *)

LEMMA InitInv == Init => PageSelectionInv
<1> SUFFICES ASSUME Init PROVE PageSelectionInv
  OBVIOUS
<1>1. /\ Open = {} /\ pages \in Seq(Page) /\ Len(pages) = 0 /\ IsInjective(pages)
  BY EmptySeq DEF Init, Open, ToSet, IsInjective
<1>2. NoTool \in Tool
  BY DEF NoTool, Tool
<1>3. TypeOK
  BY <1>1, <1>2 DEF Init, TypeOK
<1>4. RegistryAgrees /\ SelectionKept
  BY <1>1 DEF Init, RegistryAgrees, SelectionKept
<1>5. ASSUME NEW t \in Locks PROVE ToolAgrees(t, tool[t])
  <2>1. tool[t] = NoTool /\ None \notin Fresh
    BY DEF Init, Fresh
  <2>2. /\ NoTool.kind = "none" /\ NoTool.phase = "idle" /\ NoTool.page = None
        /\ NoTool.awaits = None /\ NoTool.cancelled = FALSE /\ NoTool.outcome = "none"
    BY DEF NoTool
  <2> QED
    BY <1>1, <2>1, <2>2 DEF ToolAgrees, OwnTab
<1> QED
  BY <1>3, <1>4, <1>5 DEF PageSelectionInv

LEMMA PageOpensInv ==
  ASSUME PageSelectionInv, NEW p \in Page, PageOpens(p)
  PROVE  PageSelectionInv'
<1>1. p \in Fresh /\ Attach(p) /\ UNCHANGED <<tool, chosen>>
  BY DEF PageOpens
<1>2. tool' \in [Locks -> Tool]
  BY <1>1 DEF PageSelectionInv, TypeOK
<1> QED
  BY <1>1, <1>2, AttachKeeps, PagesStep

LEMMA PageClosesInv ==
  ASSUME PageSelectionInv, NEW p \in Page, PageCloses(p)
  PROVE  PageSelectionInv'
<1> USE DEF PageSelectionInv
<1> DEFINE n == IndexIn(pages, p)
           rest == RemoveAt(pages, n)
           active == IF active_page = p THEN None ELSE active_page
           selected == ExistingActivePage(rest, active)
<1>1. /\ p \in Open /\ pages' = rest
      /\ page_ids' = page_ids \ {p} /\ header_tasks' = header_tasks \ {p}
      /\ headers' = [headers EXCEPT ![p] = IF @ = "pending" THEN "cancelled" ELSE @]
      /\ active_page' = selected
      /\ active_page_index' = IF selected = None THEN 1 ELSE IndexIn(rest, selected)
      /\ UNCHANGED <<tool, chosen>>
  BY DEF PageCloses
<1>2. n \in DOMAIN pages /\ pages[n] = p
  BY <1>1, IndexProperties DEF Open
<1>3. /\ rest \in Seq(Page) /\ IsInjective(rest) /\ Len(rest) = Len(pages) - 1
      /\ ToSet(rest) = Open \ {p}
  BY <1>2, RemoveTab DEF TypeOK, Open
<1>4. Open' = Open \ {p} /\ Open' \subseteq Page /\ Len(rest) \in Nat /\ DOMAIN rest = 1 .. Len(rest)
  BY <1>1, <1>3, OpenIsPage, LenProperties DEF Open
<1>5. active_page_index \in Nat \ {0}
  BY OpenIsPage DEF TypeOK
<1>6. /\ rest = <<>> => selected = None
      /\ rest # <<>> => selected \in ToSet(rest)
      /\ active \in ToSet(rest) => selected = active
  BY <1>3, <1>5, ExistingIsTab
<1> HIDE DEF selected, rest, n
<1>7. selected \in Page \cup {None} /\ active_page_index' \in 1 .. Len(rest) + 1
  <2>1. CASE selected = None
    BY <1>1, <1>4, <2>1
  <2>2. CASE selected # None
    <3>1. selected \in ToSet(rest)
      BY <1>6, <2>2
    <3>2. IndexIn(rest, selected) \in DOMAIN rest
      BY <3>1, IndexProperties
    <3> QED
      BY <1>1, <1>3, <1>4, <2>2, <3>1, <3>2
  <2> QED
    BY <2>1, <2>2
<1>8. /\ headers' \in [Page -> {"none", "pending", "done", "failed", "cancelled"}]
      /\ headers'[p] # "pending"
      /\ headers[p] # "none" => headers'[p] # "none"
      /\ \A q \in Page \ {p} : headers'[q] = headers[q]
  BY <1>1 DEF TypeOK
<1>9. TypeOK'
  <2>1. Open' \subseteq page_ids' \cap header_tasks'
    BY <1>1, <1>4 DEF TypeOK
  <2>2. page_ids' \subseteq Page /\ header_tasks' \subseteq Page /\ chosen' \in Page \cup {None}
        /\ tool' \in [Locks -> Tool]
    BY <1>1 DEF TypeOK
  <2>3. \A q \in Page : headers'[q] = "pending" => q \in header_tasks'
    BY <1>1, <1>8 DEF TypeOK
  <2> QED
    BY <1>1, <1>3, <1>7, <1>8, <2>1, <2>2, <2>3 DEF TypeOK
<1>10. RegistryAgrees'
  <2>1. \A q \in header_tasks' : headers'[q] # "none"
    BY <1>1, <1>8 DEF RegistryAgrees, TypeOK
  <2>2. \A q \in Open' : headers'[q] # "cancelled"
    BY <1>4, <1>8 DEF RegistryAgrees
  <2>3. chosen # None => chosen \notin Fresh'
    BY <1>8 DEF RegistryAgrees, TypeOK, Fresh
  <2> QED
    BY <1>1, <2>1, <2>2, <2>3 DEF RegistryAgrees
<1>11. SelectionKept'
  <2>1. ASSUME chosen \in Open' PROVE active_page' = chosen
    <3>1. active = chosen /\ chosen \in ToSet(rest)
      BY <1>3, <1>4, <2>1 DEF SelectionKept
    <3> QED
      BY <1>1, <1>6, <3>1
  <2> QED
    BY <1>1, <2>1 DEF SelectionKept
<1>12. Settled
  BY <1>4, <1>8 DEF Settled
<1> QED
  BY <1>1, <1>9, <1>10, <1>11, <1>12, PagesStep

LEMMA HeadersEndInv ==
  ASSUME PageSelectionInv, NEW p \in Page, HeadersEnd(p)
  PROVE  PageSelectionInv'
<1> USE DEF PageSelectionInv
<1>1. /\ headers[p] = "pending"
      /\ UNCHANGED <<pages, page_ids, active_page, active_page_index, header_tasks, tool, chosen>>
  BY DEF HeadersEnd
<1>2. PICK result \in {"done", "failed"} : headers' = [headers EXCEPT ![p] = result]
  BY DEF HeadersEnd
<1>3. /\ headers' \in [Page -> {"none", "pending", "done", "failed", "cancelled"}]
      /\ headers'[p] \in {"done", "failed"}
      /\ \A q \in Page \ {p} : headers'[q] = headers[q]
  BY <1>2 DEF TypeOK
<1>4. Open' = Open /\ Fresh' = Fresh
  BY <1>1, <1>3 DEF Open, Fresh
<1>5. TypeOK'
  BY <1>1, <1>3, <1>4 DEF TypeOK
<1>6. RegistryAgrees' /\ SelectionKept'
  BY <1>1, <1>3, <1>4, OpenIsPage DEF RegistryAgrees, SelectionKept, TypeOK
<1>7. Settled
  BY <1>1, <1>3, <1>4 DEF Settled
<1> QED
  BY <1>1, <1>5, <1>6, <1>7, PagesStep

-----------------------------------------------------------------------------
(* Steps of a tool that leave the registry alone *)

\* A tool fails or ends with an outcome that it may report.
LEMMA StopStep ==
  ASSUME PageSelectionInv, NEW t \in Locks, NEW n \in Tool,
         tool' = [tool EXCEPT ![t] = n], UNCHANGED <<pages, registry, chosen>>,
         n.kind = tool[t].kind, n.page = tool[t].page,
         n.awaits = tool[t].awaits,
         n.phase \in {"idle", "cleanup"}, n.phase = "cleanup" => n.kind \in {"new", "storage"},
         (n.outcome = "cancelled") = n.cancelled,
         n.outcome = "page_not_found" => n.awaits \notin Open,
         n.phase = "idle" /\ n.kind = "storage" /\ n.outcome = "ok" => n.page \notin Open,
         n.phase = "idle" => OwnTab(n),
         n.phase = "cleanup" => n.cleanup = "none" /\ (n.kind = "new" => n.outcome # "ok")
  PROVE  PageSelectionInv'
<1>1. tool' \in [Locks -> Tool]
  BY DEF PageSelectionInv, TypeOK
<1>2. TypeOK' /\ RegistryAgrees' /\ SelectionKept' /\ Settled
  BY <1>1, RegistryUnchanged
<1>3. ToolAgrees(t, tool[t])' /\ \A u \in Locks \ {t} : tool'[u] = tool[u]
  <2>1. UNCHANGED <<pages, headers>>
    BY DEF registry
  <2> QED
    BY <1>2, <2>1, StopAgrees
<1> QED
  BY <1>2, <1>3, ToolStep

LEMMA FailsInv ==
  ASSUME PageSelectionInv, NEW t \in Locks, Fails(t)
  PROVE  PageSelectionInv'
<1> DEFINE n == Failed(tool[t], "error")
<1>1. tool[t] \in Tool /\ "error" \in Outcome
  BY DEF PageSelectionInv, TypeOK, Outcome
<1>2. /\ n \in Tool
      /\ n.kind = tool[t].kind /\ n.page = tool[t].page
      /\ n.awaits = tool[t].awaits /\ n.cancelled = tool[t].cancelled
      /\ n.phase \in {"idle", "cleanup"} /\ n.outcome = "error"
      /\ n.phase = "cleanup" => tool[t].kind \in {"new", "storage"}
  BY <1>1, FailedIs
<1>3. /\ tool' = [tool EXCEPT ![t] = n] /\ UNCHANGED <<pages, registry, chosen>> /\ ~tool[t].cancelled
      /\ tool[t].phase \notin {"idle", "cleanup"}
  BY DEF Fails, Becomes
<1>5. (n.phase = "cleanup" => n.cleanup = "none") /\ (n.phase = "idle" => OwnTab(n))
  BY <1>1, <1>3, FailedOwn
<1> HIDE DEF n
<1>4. n.cancelled = FALSE
  BY <1>1, <1>2, <1>3 DEF Tool
<1> QED
  BY <1>2, <1>3, <1>4, <1>5, StopStep

LEMMA UnwindsInv ==
  ASSUME PageSelectionInv, NEW t \in Locks, Unwinds(t)
  PROVE  PageSelectionInv'
<1> DEFINE r == tool[t]
           n == IF r.phase = "opened" THEN Ended(r, "cancelled") ELSE Failed(r, "cancelled")
<1>1. r \in Tool /\ "cancelled" \in Outcome
  BY DEF PageSelectionInv, TypeOK, Outcome
<1>2. /\ n \in Tool
      /\ n.kind = r.kind /\ n.page = r.page /\ n.awaits = r.awaits /\ n.cancelled = r.cancelled
      /\ n.phase \in {"idle", "cleanup"} /\ n.outcome = "cancelled"
      /\ n.phase = "cleanup" => r.kind \in {"new", "storage"}
  <2>1. CASE r.phase = "opened"
    BY <1>1, <2>1, EndedIs
  <2>2. CASE r.phase # "opened"
    BY <1>1, <2>2, FailedIs
  <2> QED
    BY <2>1, <2>2
<1>3. tool' = [tool EXCEPT ![t] = n] /\ UNCHANGED <<pages, registry, chosen>> /\ tool[t].cancelled
  BY DEF Unwinds, Becomes
<1>4. n.cancelled = TRUE
  BY <1>1, <1>2, <1>3 DEF Tool
<1>5. (n.phase = "cleanup" => n.cleanup = "none") /\ (n.phase = "idle" => OwnTab(n))
  <2>1. CASE r.phase = "opened"
    <3>1. n.cleanup = "none" /\ n.awaits = None /\ n.phase = "idle" /\ n.outcome = "cancelled"
      <4>1. n.cleanup = r.cleanup /\ n.phase = "idle"
        BY <1>1, <2>1, EndedIs
      <4> QED
        BY <1>2, <2>1, <4>1 DEF PageSelectionInv, ToolAgrees
    <3> HIDE DEF n
    <3> QED
      BY <1>4, <3>1 DEF OwnTab
  <2>2. CASE r.phase # "opened"
    <3>1. r.phase \notin {"idle", "cleanup"}
      BY DEF Unwinds
    <3> QED
      BY <1>1, <2>2, <3>1, FailedOwn
  <2> QED
    BY <2>1, <2>2
<1> HIDE DEF n
<1> QED
  BY <1>2, <1>3, <1>4, <1>5, StopStep

LEMMA CleanupEndsInv ==
  ASSUME PageSelectionInv, NEW t \in Locks, CleanupEnds(t)
  PROVE  PageSelectionInv'
<1> DEFINE r == tool[t]
           o == IF r.page \in Open /\ r.outcome = "ok" THEN "error" ELSE r.outcome
           m == Ended(r, o)
           c == IF r.page \in Open THEN "failed" ELSE "closed"
           n == [m EXCEPT !.cleanup = c]
<1>1. r \in Tool /\ o \in Outcome
  BY DEF PageSelectionInv, TypeOK, Outcome, Tool
<1>2. /\ m \in Tool
      /\ m.kind = r.kind /\ m.page = r.page /\ m.awaits = r.awaits /\ m.cancelled = r.cancelled
      /\ m.phase = "idle" /\ m.outcome = o
  BY <1>1, EndedIs
<1>3. tool' = [tool EXCEPT ![t] = n] /\ UNCHANGED <<pages, registry, chosen>> /\ r.phase = "cleanup"
  BY DEF CleanupEnds, Becomes
<1>4. /\ (r.outcome = "cancelled") = r.cancelled
      /\ r.outcome = "page_not_found" => r.awaits \notin Open
      /\ r.kind = "new" => r.outcome # "ok"
  BY <1>3 DEF PageSelectionInv, ToolAgrees
<1>5. /\ (o = "cancelled") = r.cancelled
      /\ o = "page_not_found" => r.awaits \notin Open
      /\ o = "ok" => r.page \notin Open
      /\ r.kind = "new" => o # "ok"
  <2>1. CASE r.page \in Open /\ r.outcome = "ok"
    BY <1>4, <2>1
  <2>2. CASE ~(r.page \in Open /\ r.outcome = "ok")
    BY <1>4, <2>2
  <2> QED
    BY <2>1, <2>2
<1> HIDE DEF m, o
<1>6. /\ n \in Tool
      /\ n.kind = r.kind /\ n.page = r.page /\ n.awaits = r.awaits /\ n.cancelled = r.cancelled
      /\ n.phase = "idle" /\ n.outcome = o /\ n.cleanup = c
  BY <1>2 DEF Tool
<1> HIDE DEF n
<1>7. OwnTab(n)
  BY <1>5, <1>6 DEF OwnTab
<1> QED
  BY <1>3, <1>5, <1>6, <1>7, StopStep

LEMMA CleanupCancelledInv ==
  ASSUME PageSelectionInv, NEW t \in Locks, CleanupCancelled(t)
  PROVE  PageSelectionInv'
<1> DEFINE r == tool[t]
           m == Ended(r, "cancelled")
           n == [m EXCEPT !.cancelled = TRUE, !.cleanup = "cut"]
<1>1. r \in Tool /\ "cancelled" \in Outcome
  BY DEF PageSelectionInv, TypeOK, Outcome
<1>2. /\ m \in Tool
      /\ m.kind = r.kind /\ m.page = r.page /\ m.awaits = r.awaits
      /\ m.phase = "idle" /\ m.outcome = "cancelled"
  BY <1>1, EndedIs
<1>3. tool' = [tool EXCEPT ![t] = n] /\ UNCHANGED <<pages, registry, chosen>>
  BY DEF CleanupCancelled, Becomes
<1> HIDE DEF m
<1>4. /\ n \in Tool
      /\ n.kind = r.kind /\ n.page = r.page /\ n.awaits = r.awaits /\ n.cancelled = TRUE
      /\ n.phase = "idle" /\ n.outcome = "cancelled" /\ n.cleanup = "cut"
  BY <1>2 DEF Tool
<1> HIDE DEF n
<1>5. OwnTab(n)
  BY <1>4 DEF OwnTab
<1> QED
  BY <1>3, <1>4, <1>5, StopStep

\* A tool that goes on while the registry stays as it is.
LEMMA MoveStep ==
  ASSUME PageSelectionInv, NEW t \in Locks, NEW n \in Tool,
         tool' = [tool EXCEPT ![t] = n], UNCHANGED <<pages, registry, chosen>>,
         ToolAgrees(t, n)
  PROVE  PageSelectionInv'
<1>1. /\ tool' \in [Locks -> Tool] /\ tool'[t] = n
      /\ \A u \in Locks \ {t} : tool'[u] = tool[u]
  BY DEF PageSelectionInv, TypeOK
<1>2. TypeOK' /\ RegistryAgrees' /\ SelectionKept' /\ Settled
  BY <1>1, RegistryUnchanged
<1>3. ToolAgrees(t, tool[t])'
  <2>1. Open' = Open /\ Fresh' = Fresh /\ chosen' = chosen
    BY DEF registry, Open, Fresh
  <2> QED
    BY <1>1, <2>1 DEF ToolAgrees, OwnTab
<1> QED
  BY <1>1, <1>2, <1>3, ToolStep

LEMMA CancelInv ==
  ASSUME PageSelectionInv, NEW t \in Locks, Cancel(t)
  PROVE  PageSelectionInv'
<1> DEFINE r == tool[t]
           n == [r EXCEPT !.cancelled = TRUE]
<1>1. r \in Tool /\ ToolAgrees(t, r)
  BY DEF PageSelectionInv, TypeOK
<1>2. /\ n \in Tool
      /\ n.kind = r.kind /\ n.phase = r.phase /\ n.page = r.page /\ n.awaits = r.awaits
      /\ n.selected = r.selected /\ n.outcome = r.outcome /\ n.cleanup = r.cleanup
  BY <1>1 DEF Tool
<1>3. r.phase \notin {"idle", "cleanup"} /\ UNCHANGED <<pages, registry, chosen>>
  BY DEF Cancel
<1>4. tool' = [tool EXCEPT ![t] = n]
  BY <1>1 DEF Cancel
<1> HIDE DEF n
<1>5. ToolAgrees(t, n)
  BY <1>1, <1>2, <1>3 DEF ToolAgrees
<1> QED
  BY <1>2, <1>3, <1>4, <1>5, MoveStep

\* A tool that begins, before it knows its page.
LEMMA OnlyKind ==
  ASSUME NEW kind \in {"act", "close", "new", "storage"}
  PROVE  LET n == [NoTool EXCEPT !.kind = kind] IN
         /\ n \in Tool /\ n.kind = kind /\ n.page = None /\ n.awaits = None
         /\ n.cancelled = FALSE /\ n.outcome = "none" /\ n.cleanup = "none"
<1>1. /\ NoTool \in Tool /\ NoTool.page = None /\ NoTool.awaits = None
      /\ NoTool.cancelled = FALSE /\ NoTool.outcome = "none" /\ NoTool.cleanup = "none"
  BY DEF NoTool, Tool
<1> QED
  BY <1>1 DEF Tool

LEMMA TabsSelectInv ==
  ASSUME PageSelectionInv, NEW i \in DOMAIN pages, TabsSelect(i)
  PROVE  PageSelectionInv'
<1> DEFINE n == [NoTool EXCEPT !.kind = "select", !.phase = "acting", !.page = pages[i], !.index = i]
<1>1. i \in Nat \ {0} /\ pages[i] \in Open /\ pages[i] \in Page
  BY LenProperties, ElementOfSeq DEF PageSelectionInv, TypeOK, Open, ToSet
<1>2. /\ n.kind = "select" /\ n.phase = "acting" /\ n.page = pages[i] /\ n.awaits = None
      /\ n.cleanup = "none" /\ n \in Tool
  BY <1>1 DEF NoTool, Tool
<1>3. tool' = [tool EXCEPT !["lock"] = n] /\ UNCHANGED <<pages, registry, chosen>>
  BY DEF TabsSelect, Starts, Becomes
<1> HIDE DEF n
<1>4. pages[i] \notin Fresh /\ None \notin Fresh
  BY <1>1 DEF PageSelectionInv, TypeOK, RegistryAgrees, Fresh
<1>5. ToolAgrees("lock", n)
  BY <1>2, <1>4 DEF ToolAgrees
<1> QED
  BY <1>2, <1>3, <1>5, MoveStep DEF Locks

LEMMA OpensTabInv ==
  ASSUME PageSelectionInv, NEW kind \in {"new", "storage"}, OpensTab(kind)
  PROVE  PageSelectionInv'
<1> DEFINE m == [NoTool EXCEPT !.kind = kind]
           n == [m EXCEPT !.phase = "opening"]
<1>1. m \in Tool /\ m.kind = kind /\ m.page = None /\ m.awaits = None /\ m.cleanup = "none"
  BY OnlyKind
<1>5. /\ n.kind = kind /\ n.phase = "opening" /\ n.page = None /\ n.awaits = None
      /\ n.cleanup = "none" /\ n \in Tool
  <2> HIDE DEF m
  <2> QED
    BY <1>1 DEF Tool
<1>2. tool' = [tool EXCEPT !["lock"] = n] /\ UNCHANGED <<pages, registry, chosen>>
  BY DEF OpensTab, Starts, Becomes
<1> HIDE DEF n
<1>3. None \notin Fresh
  BY DEF Fresh
<1>4. ToolAgrees("lock", n)
  BY <1>3, <1>5 DEF ToolAgrees
<1> QED
  BY <1>2, <1>4, <1>5, MoveStep DEF Locks

\* What ensure_page_headers() may conclude after its await.
LEMMA HeadersOutcomeIs ==
  ASSUME PageSelectionInv, NEW t \in Locks, tool[t].phase = "headers",
         tool[t].cancelled \/ headers[tool[t].awaits] # "pending"
  PROVE  LET r == tool[t]
             o == HeadersOutcome(r)
         IN /\ o \in {"ready", "error", "cancelled", "page_not_found"}
            /\ (o = "cancelled") = r.cancelled
            /\ o = "page_not_found" => r.awaits \notin Open
            /\ o = "ready" => r.awaits \in Open /\ headers[r.awaits] = "done"
<1> DEFINE r == tool[t]
           h == headers[r.awaits]
<1>1. r \in Tool /\ ToolAgrees(t, r)
  BY DEF PageSelectionInv, TypeOK
<1>2. r.awaits \in Page /\ r.cancelled \in BOOLEAN
  BY <1>1 DEF Tool, ToolAgrees
<1>3. h \in {"pending", "done", "failed", "cancelled"}
  BY <1>1, <1>2 DEF ToolAgrees, Fresh, PageSelectionInv, TypeOK
<1>4. r.awaits \in Open => h # "cancelled"
  BY DEF PageSelectionInv, RegistryAgrees
<1>5. CASE r.cancelled
  <2>1. HeadersOutcome(r) = "cancelled"
    BY <1>5 DEF HeadersOutcome
  <2> QED
    BY <1>2, <1>5, <2>1
<1>6. CASE ~r.cancelled /\ h = "cancelled"
  <2>1. HeadersOutcome(r) = "page_not_found"
    BY <1>4, <1>6 DEF HeadersOutcome
  <2> QED
    BY <1>2, <1>4, <1>6, <2>1
<1>7. CASE ~r.cancelled /\ h = "failed"
  <2>1. HeadersOutcome(r) = "error"
    BY <1>7 DEF HeadersOutcome
  <2> QED
    BY <1>2, <1>7, <2>1
<1>8. CASE ~r.cancelled /\ h = "done"
  <2>1. HeadersOutcome(r) = IF r.awaits \in Open THEN "ready" ELSE "page_not_found"
    BY <1>8 DEF HeadersOutcome
  <2> QED
    BY <1>2, <1>8, <2>1
<1> QED
  BY <1>2, <1>3, <1>5, <1>6, <1>7, <1>8

\* The tool after that await.
LEMMA HeadersReturnIs ==
  ASSUME PageSelectionInv, NEW t \in Locks, HeadersReturn(t)
  PROVE  LET r == tool[t]
             o == HeadersOutcome(r)
         IN /\ r.phase = "headers" /\ (r.cancelled \/ headers[r.awaits] # "pending")
            /\ UNCHANGED <<pages, registry, chosen>>
            /\ \/ o # "ready" /\ tool' = [tool EXCEPT ![t] = Failed(r, o)]
               \/ /\ o = "ready" /\ r.kind = "close"
                  /\ tool' = [tool EXCEPT ![t] = [r EXCEPT !.phase = "closing", !.selected = active_page,
                                                          !.index = IndexIn(pages, r.page)]]
               \/ /\ o = "ready" /\ r.kind = "tabClose"
                  /\ tool' = [tool EXCEPT ![t] = [r EXCEPT !.phase = "closing", !.selected = r.awaits]]
               \/ /\ o = "ready" /\ r.kind \notin {"close", "tabClose"}
                  /\ tool' = [tool EXCEPT ![t] = [r EXCEPT !.phase = "acting"]]
<1> DEFINE o == HeadersOutcome(tool[t])
<1>1. tool[t].phase = "headers" /\ (tool[t].cancelled \/ headers[tool[t].awaits] # "pending")
      /\ UNCHANGED <<pages, registry, chosen>>
  BY DEF HeadersReturn
<1>2. CASE o # "ready"
  BY <1>1, <1>2 DEF HeadersReturn, Becomes
<1>3. CASE o = "ready" /\ tool[t].kind = "close"
  BY <1>1, <1>3 DEF HeadersReturn, Becomes
<1>4. CASE o = "ready" /\ tool[t].kind = "tabClose"
  BY <1>1, <1>4 DEF HeadersReturn, Becomes
<1>5. CASE o = "ready" /\ tool[t].kind \notin {"close", "tabClose"}
  BY <1>1, <1>5 DEF HeadersReturn, Becomes
<1> QED
  BY <1>2, <1>3, <1>4, <1>5

LEMMA HeadersReturnInv ==
  ASSUME PageSelectionInv, NEW t \in Locks, HeadersReturn(t)
  PROVE  PageSelectionInv'
<1> DEFINE r == tool[t]
           o == HeadersOutcome(r)
<1>1. /\ r.phase = "headers" /\ (r.cancelled \/ headers[r.awaits] # "pending")
      /\ UNCHANGED <<pages, registry, chosen>>
  BY HeadersReturnIs
<1>2. r \in Tool /\ ToolAgrees(t, r)
  BY DEF PageSelectionInv, TypeOK
<1>3. /\ o \in {"ready", "error", "cancelled", "page_not_found"}
      /\ (o = "cancelled") = r.cancelled
      /\ o = "page_not_found" => r.awaits \notin Open
      /\ o = "ready" => r.awaits \in Open /\ headers[r.awaits] = "done"
  BY <1>1, HeadersOutcomeIs
<1> HIDE DEF o
<1>4. CASE o # "ready" /\ tool' = [tool EXCEPT ![t] = Failed(r, o)]
  <2> DEFINE n == Failed(r, o)
  <2>1. /\ n \in Tool
        /\ n.kind = r.kind /\ n.page = r.page /\ n.awaits = r.awaits /\ n.cancelled = r.cancelled
        /\ n.phase \in {"idle", "cleanup"} /\ n.outcome = o
        /\ n.phase = "cleanup" => r.kind \in {"new", "storage"}
    BY <1>2, <1>3, <1>4, FailedIs DEF Outcome
  <2>2. tool' = [tool EXCEPT ![t] = n]
    BY <1>4
  <2>3. o # "ok"
    BY <1>3
  <2>4. (n.phase = "cleanup" => n.cleanup = "none") /\ (n.phase = "idle" => OwnTab(n))
    BY <1>1, <1>3, <1>4, FailedOwn DEF Outcome
  <2> HIDE DEF n
  <2> QED
    BY <1>1, <1>3, <2>1, <2>2, <2>3, <2>4, StopStep
<1>5. CASE /\ o = "ready" /\ r.kind = "close"
           /\ tool' = [tool EXCEPT ![t] = [r EXCEPT !.phase = "closing", !.selected = active_page,
                                                   !.index = IndexIn(pages, r.page)]]
  <2> DEFINE i == IndexIn(pages, r.page)
             n == [r EXCEPT !.phase = "closing", !.selected = active_page, !.index = i]
  <2>1. r.page \in Open
    BY <1>1, <1>2, <1>3, <1>5 DEF ToolAgrees
  <2>2. i \in Nat \ {0}
    BY <2>1, IndexProperties, LenProperties DEF Open, PageSelectionInv, TypeOK
  <2>3. active_page \in Page \cup {None} /\ (chosen \in Open => active_page = chosen)
    BY DEF PageSelectionInv, TypeOK, SelectionKept
  <2>4. tool' = [tool EXCEPT ![t] = n]
    BY <1>5
  <2> HIDE DEF i
  <2>5. n \in Tool /\ n.kind = r.kind /\ n.phase = "closing" /\ n.selected = active_page
        /\ n.page = r.page /\ n.awaits = r.awaits /\ n.cleanup = r.cleanup
    BY <1>2, <2>2, <2>3 DEF Tool
  <2> HIDE DEF n
  <2>6. ToolAgrees(t, n)
    BY <1>1, <1>2, <1>5, <2>3, <2>5 DEF ToolAgrees
  <2> QED
    BY <1>1, <2>4, <2>5, <2>6, MoveStep
<1>6. CASE /\ o = "ready" /\ r.kind = "tabClose"
           /\ tool' = [tool EXCEPT ![t] = [r EXCEPT !.phase = "closing", !.selected = r.awaits]]
  <2> DEFINE n == [r EXCEPT !.phase = "closing", !.selected = r.awaits]
  <2>1. tool' = [tool EXCEPT ![t] = n]
    BY <1>6
  <2>2. n \in Tool /\ n.kind = r.kind /\ n.phase = "closing" /\ n.selected = r.awaits
        /\ n.page = r.page /\ n.awaits = r.awaits /\ n.cleanup = r.cleanup
    BY <1>2 DEF Tool
  <2> HIDE DEF n
  <2>3. ToolAgrees(t, n)
    BY <1>1, <1>2, <1>6, <2>2 DEF ToolAgrees
  <2> QED
    BY <1>1, <2>1, <2>2, <2>3, MoveStep
<1>7. CASE /\ o = "ready" /\ r.kind \notin {"close", "tabClose"}
           /\ tool' = [tool EXCEPT ![t] = [r EXCEPT !.phase = "acting"]]
  <2> DEFINE n == [r EXCEPT !.phase = "acting"]
  <2>1. tool' = [tool EXCEPT ![t] = n]
    BY <1>7
  <2>2. /\ n \in Tool /\ n.kind = r.kind /\ n.phase = "acting"
        /\ n.page = r.page /\ n.awaits = r.awaits /\ n.cleanup = r.cleanup
    BY <1>2 DEF Tool
  <2> HIDE DEF n
  <2>3. r.kind \in {"act", "new", "storage"}
    BY <1>1, <1>2, <1>7 DEF ToolAgrees, Tool
  <2>4. ToolAgrees(t, n)
    BY <1>1, <1>2, <2>2, <2>3 DEF ToolAgrees
  <2> QED
    BY <1>1, <2>1, <2>2, <2>4, MoveStep
<1> QED
  BY <1>4, <1>5, <1>6, <1>7, HeadersReturnIs DEF o

-----------------------------------------------------------------------------
(* Steps of a tool that change the registry *)

LEMMA NewPageInv ==
  ASSUME PageSelectionInv, NEW t \in Locks, NEW p \in Page, NewPage(t, p)
  PROVE  PageSelectionInv'
<1> DEFINE r == tool[t]
           n == [r EXCEPT !.phase = "opened", !.page = p]
<1>1. /\ r.phase = "opening" /\ p \in Fresh /\ Attach(p)
      /\ tool' = [tool EXCEPT ![t] = n] /\ chosen' = chosen
  BY DEF NewPage, Becomes
<1>2. r \in Tool /\ ToolAgrees(t, r)
  BY DEF PageSelectionInv, TypeOK
<1>3. /\ n \in Tool /\ n.kind = r.kind /\ n.phase = "opened" /\ n.page = p
      /\ n.awaits = r.awaits /\ n.cleanup = r.cleanup
  BY <1>2 DEF Tool
<1> HIDE DEF n
<1>4. /\ tool' \in [Locks -> Tool] /\ tool'[t] = n
      /\ \A u \in Locks \ {t} : tool'[u] = tool[u]
  BY <1>1, <1>3 DEF PageSelectionInv, TypeOK
<1>5. TypeOK' /\ RegistryAgrees' /\ SelectionKept' /\ Settled
  BY <1>1, <1>4, AttachKeeps
<1>6. ToolAgrees(t, tool[t])'
  <2>1. p \notin Fresh'
    BY <1>1, <1>5 DEF TypeOK, RegistryAgrees, Fresh, Attach, Schedule
  <2>2. r.awaits \notin Fresh'
    BY <1>2, <1>5 DEF ToolAgrees, Settled, Fresh
  <2>3. ~(chosen' \in Open') \/ r.kind # "act"
    <3>1. chosen \in Open' => chosen \in Open
      BY <1>5, OpenIsPage DEF Settled, PageSelectionInv, RegistryAgrees, TypeOK, Fresh
    <3> QED
      BY <1>1, <1>2, <3>1 DEF ToolAgrees
  <2> QED
    BY <1>1, <1>2, <1>3, <1>4, <2>1, <2>2, <2>3 DEF ToolAgrees
<1> QED
  BY <1>1, <1>4, <1>5, <1>6, ToolStep

\* A tool that begins to wait for the headers of the page p.
LEMMA AwaitHeadersStep ==
  ASSUME PageSelectionInv, NEW t \in Locks, NEW r \in Tool, NEW p \in Page, headers[p] # "none",
         AwaitHeaders(t, r, p), UNCHANGED <<pages, chosen>>,
         page_ids' \in {page_ids, page_ids \cup {p}},
         UNCHANGED <<active_page, active_page_index>> \/ Activate(p),
         chosen \in Open => active_page' = chosen,
         t = "modalLock" => r.kind = "act",
         r.kind \in {"act", "close", "tabClose", "new", "storage"}, r.page \notin Fresh,
         r.cleanup = "none",
         r.kind = "close" => r.page = p,
         r.kind = "tabClose" /\ chosen \in Open => p = chosen
  PROVE  PageSelectionInv'
<1> DEFINE n == [r EXCEPT !.phase = "headers", !.awaits = p]
<1>1. /\ n \in Tool /\ n.kind = r.kind /\ n.phase = "headers" /\ n.page = r.page /\ n.awaits = p
      /\ n.cleanup = "none"
  BY DEF Tool
<1>2. tool' = [tool EXCEPT ![t] = n] /\ Schedule(p)
  BY DEF AwaitHeaders, Becomes
<1> HIDE DEF n
<1>3. /\ tool' \in [Locks -> Tool] /\ tool'[t] = n
      /\ \A u \in Locks \ {t} : tool'[u] = tool[u]
  BY <1>1, <1>2 DEF PageSelectionInv, TypeOK
<1>4. TypeOK' /\ RegistryAgrees' /\ SelectionKept' /\ Settled
  BY <1>2, <1>3, AwaitKeeps
<1>5. ToolAgrees(t, tool[t])'
  <2>1. Open' = Open /\ p \notin Fresh' /\ r.page \notin Fresh'
    BY <1>4 DEF Open, Settled, Fresh
  <2> QED
    BY <1>1, <1>3, <2>1 DEF ToolAgrees
<1> QED
  BY <1>3, <1>4, <1>5, ToolStep

LEMMA OpenHasHeaders ==
  ASSUME PageSelectionInv
  PROVE  \A p \in Open : p \in Page /\ headers[p] # "none" /\ p \notin Fresh
BY OpenIsPage DEF PageSelectionInv, TypeOK, RegistryAgrees, Fresh

\* active_page(), for the tools that begin with it.
LEMMA ActivePageStep ==
  ASSUME PageSelectionInv, NEW kind \in {"act", "close", "tabClose"}, NEW page \in Open \cup {None},
         NEW r \in Tool, r.kind = kind, r.page = page,
         r.awaits = None, r.cancelled = FALSE, r.outcome = "none", r.cleanup = "none",
         ActivePage("lock", r), UNCHANGED <<pages, chosen>>,
         kind # "act" => pages # <<>>, kind # "tabClose" => page = None
  PROVE  PageSelectionInv'
<1> DEFINE p == ExistingActivePage(pages, active_page)
<1>1. /\ r \in Tool /\ r.kind = kind /\ r.page = page
      /\ r.awaits = None /\ r.cancelled = FALSE /\ r.outcome = "none" /\ r.cleanup = "none"
  OBVIOUS
<1>2. /\ pages = <<>> => p = None
      /\ pages # <<>> => p \in Open
      /\ active_page \in Open => p = active_page
  BY OpenIsPage, ExistingIsTab DEF PageSelectionInv, TypeOK, Open
<1>3. chosen \in Open => p = chosen
  BY <1>2 DEF PageSelectionInv, SelectionKept
<1> HIDE DEF p
<1>4. CASE p # None /\ UseActive("lock", [r EXCEPT !.page = IF @ = None THEN p ELSE @], p)
  <2> DEFINE q == IF r.page = None THEN p ELSE r.page
             n == [r EXCEPT !.page = q]
  <2>1. p \in Open /\ q \in Open
    BY <1>1, <1>2, <1>4
  <2>2. p \in Page /\ q \in Page /\ headers[p] # "none" /\ q \notin Fresh
    BY <2>1, OpenHasHeaders
  <2>3. UseActive("lock", n, p)
    <3>1. n = [r EXCEPT !.page = IF @ = None THEN p ELSE @]
      BY <1>1 DEF Tool
    <3> QED
      BY <1>4, <3>1
  <2>4. kind # "tabClose" => q = p
    BY <1>1
  <2> HIDE DEF q
  <2>5. n \in Tool /\ n.kind = kind /\ n.page = q /\ n.cleanup = "none"
    BY <1>1, <2>2 DEF Tool
  <2> HIDE DEF n
  <2>6. Activate(p) /\ AwaitHeaders("lock", n, p)
    BY <2>3 DEF UseActive
  <2>7. page_ids' = page_ids \cup {p} /\ active_page' = p
    BY <2>6 DEF Activate
  <2> QED
    BY <1>3, <2>2, <2>4, <2>5, <2>6, <2>7, AwaitHeadersStep DEF Locks
<1>5. CASE p = None /\ Becomes("lock", [r EXCEPT !.phase = "opening"]) /\ UNCHANGED registry
  <2> DEFINE n == [r EXCEPT !.phase = "opening"]
  <2>1. pages = <<>> /\ Open = {} /\ kind = "act" /\ page = None
    <3>1. pages = <<>> /\ Open = {}
      BY <1>2, <1>5, OpenHasHeaders DEF Open, ToSet
    <3> QED
      BY <3>1
  <2>2. tool' = [tool EXCEPT !["lock"] = n]
    BY <1>5 DEF Becomes
  <2>3. /\ n \in Tool /\ n.kind = "act" /\ n.phase = "opening" /\ n.page = None /\ n.awaits = None
        /\ n.cleanup = "none"
    BY <1>1, <2>1 DEF Tool
  <2> HIDE DEF n
  <2>4. ToolAgrees("lock", n)
    BY <2>1, <2>3 DEF ToolAgrees, Fresh
  <2> QED
    BY <1>5, <2>2, <2>3, <2>4, MoveStep DEF Locks
<1> QED
  BY <1>4, <1>5 DEF ActivePage, p

LEMMA UsesActivePageInv ==
  ASSUME PageSelectionInv, NEW kind \in {"act", "close"}, UsesActivePage(kind)
  PROVE  PageSelectionInv'
<1> DEFINE r == [NoTool EXCEPT !.kind = kind]
<1>1. /\ r \in Tool /\ r.kind = kind /\ r.page = None
      /\ r.awaits = None /\ r.cancelled = FALSE /\ r.outcome = "none" /\ r.cleanup = "none"
  BY OnlyKind
<1>2. ActivePage("lock", r) /\ UNCHANGED <<pages, chosen>> /\ (kind = "close" => pages # <<>>)
  BY DEF UsesActivePage, Starts
<1> HIDE DEF r
<1> QED
  BY <1>1, <1>2, ActivePageStep

LEMMA TabsCloseInv ==
  ASSUME PageSelectionInv, NEW i \in DOMAIN pages, TabsClose(i)
  PROVE  PageSelectionInv'
<1> DEFINE r == [NoTool EXCEPT !.kind = "tabClose", !.page = pages[i], !.index = i]
<1>1. i \in Nat \ {0} /\ pages[i] \in Open /\ pages # <<>>
  BY LenProperties, EmptySeq DEF PageSelectionInv, TypeOK, Open, ToSet
<1>2. pages[i] \in Page \cup {None}
  BY <1>1, OpenHasHeaders
<1>3. /\ r \in Tool /\ r.kind = "tabClose" /\ r.page = pages[i]
      /\ r.awaits = None /\ r.cancelled = FALSE /\ r.outcome = "none" /\ r.cleanup = "none"
  BY <1>1, <1>2 DEF NoTool, Tool
<1>4. ActivePage("lock", r) /\ UNCHANGED <<pages, chosen>>
  BY DEF TabsClose, Starts
<1> HIDE DEF r
<1> QED
  BY <1>1, <1>3, <1>4, ActivePageStep

LEMMA UsesPageInv ==
  ASSUME PageSelectionInv, NEW t \in Locks, NEW kind \in {"act", "close"}, NEW p \in Page,
         UsesPage(t, kind, p)
  PROVE  PageSelectionInv'
<1> DEFINE s == [NoTool EXCEPT !.kind = kind]
           r == [s EXCEPT !.page = p]
<1>1. /\ t = "modalLock" => kind = "act"
      /\ p \notin Fresh /\ UNCHANGED <<pages, chosen>> /\ TargetPage(t, s, p)
  BY DEF UsesPage, Starts
<1>2. /\ s \in Tool /\ s.kind = kind /\ s.page = None /\ s.awaits = None
      /\ s.cancelled = FALSE /\ s.outcome = "none" /\ s.cleanup = "none"
  BY OnlyKind
<1> HIDE DEF s
<1>3. CASE /\ p \in page_ids \cap Open /\ AwaitHeaders(t, r, p)
           /\ UNCHANGED <<page_ids, active_page, active_page_index>>
  <2>1. r \in Tool /\ r.kind = kind /\ r.page = p /\ r.cleanup = "none"
    BY <1>2 DEF Tool
  <2>2. headers[p] # "none"
    BY <1>1 DEF Fresh
  <2>3. chosen \in Open => active_page' = chosen
    BY <1>3 DEF PageSelectionInv, SelectionKept
  <2> HIDE DEF r
  <2> QED
    BY <1>1, <1>3, <2>1, <2>2, <2>3, AwaitHeadersStep
<1>4. CASE /\ p \notin page_ids \cap Open /\ UNCHANGED registry
           /\ Becomes(t, [Ended(s, "page_not_found") EXCEPT !.page = p, !.awaits = p])
  <2> DEFINE m == Ended(s, "page_not_found")
             n == [m EXCEPT !.page = p, !.awaits = p]
  <2>1. /\ m \in Tool /\ m.kind = kind /\ m.phase = "idle" /\ m.outcome = "page_not_found"
        /\ m.cancelled = FALSE
    BY <1>2, EndedIs DEF Outcome
  <2>2. tool' = [tool EXCEPT ![t] = n]
    BY <1>4 DEF Becomes
  <2> HIDE DEF m
  <2>3. /\ n \in Tool /\ n.kind = kind /\ n.phase = "idle" /\ n.outcome = "page_not_found"
        /\ n.cancelled = FALSE /\ n.page = p /\ n.awaits = p
    BY <2>1 DEF Tool
  <2>4. p \notin Open
    BY <1>4 DEF PageSelectionInv, TypeOK
  <2> HIDE DEF n
  <2>5. ToolAgrees(t, n)
    BY <1>1, <2>3, <2>4 DEF ToolAgrees, OwnTab
  <2> QED
    BY <1>1, <1>4, <2>2, <2>3, <2>5, MoveStep
<1> QED
  BY <1>1, <1>3, <1>4 DEF TargetPage

LEMMA NewPageReturnsInv ==
  ASSUME PageSelectionInv, NEW t \in Locks, NewPageReturns(t)
  PROVE  PageSelectionInv'
<1> DEFINE r == tool[t]
<1>1. r \in Tool /\ ToolAgrees(t, r)
  BY DEF PageSelectionInv, TypeOK
<1>2. /\ r.phase = "opened" /\ ~r.cancelled /\ UNCHANGED <<pages, chosen>>
      /\ r.kind \in {"act", "new", "storage"} /\ t # "modalLock"
      /\ r.page \in Page /\ r.page \notin Fresh /\ headers[r.page] # "none"
      /\ r.kind = "act" => chosen \notin Open
      /\ r.cleanup = "none"
  BY <1>1 DEF NewPageReturns, ToolAgrees, Tool, Fresh
<1>3. CASE r.kind = "act" /\ UseActive(t, r, r.page)
  <2>1. Activate(r.page) /\ AwaitHeaders(t, r, r.page)
    BY <1>3 DEF UseActive
  <2>2. page_ids' = page_ids \cup {r.page}
    BY <2>1 DEF Activate
  <2> QED
    BY <1>1, <1>2, <1>3, <2>1, <2>2, AwaitHeadersStep
<1>4. CASE /\ r.kind \in {"new", "storage"} /\ AwaitHeaders(t, r, r.page)
           /\ page_ids' = page_ids \cup {r.page} /\ UNCHANGED <<active_page, active_page_index>>
  <2>1. chosen \in Open => active_page' = chosen
    BY <1>4 DEF PageSelectionInv, SelectionKept
  <2> QED
    BY <1>1, <1>2, <1>4, <2>1, AwaitHeadersStep
<1>5. CASE Becomes(t, Failed(r, "error")) /\ UNCHANGED registry
  <2> DEFINE n == Failed(r, "error")
  <2>1. /\ n \in Tool
        /\ n.kind = r.kind /\ n.page = r.page /\ n.awaits = r.awaits /\ n.cancelled = r.cancelled
        /\ n.phase \in {"idle", "cleanup"} /\ n.outcome = "error"
        /\ n.phase = "cleanup" => r.kind \in {"new", "storage"}
    BY <1>1, FailedIs DEF Outcome
  <2>2. tool' = [tool EXCEPT ![t] = n]
    BY <1>5 DEF Becomes
  <2>4. (n.phase = "cleanup" => n.cleanup = "none") /\ (n.phase = "idle" => OwnTab(n))
    BY <1>2, FailedOwn DEF Outcome
  <2> HIDE DEF n
  <2>3. n.cancelled = FALSE
    BY <1>1, <1>2, <2>1 DEF Tool
  <2> QED
    BY <1>2, <1>5, <2>1, <2>2, <2>3, <2>4, StopStep
<1> QED
  BY <1>3, <1>4, <1>5 DEF NewPageReturns

\* The registry after a step that may select a page.
LEMMA SelectKeeps ==
  ASSUME PageSelectionInv, tool' \in [Locks -> Tool], UNCHANGED <<pages, header_tasks, headers>>,
         \/ UNCHANGED <<page_ids, active_page, active_page_index>>
         \/ \E p \in Page : Activate(p),
         chosen' \in Page \cup {None}, chosen' # None => chosen' \notin Fresh,
         chosen' \in Open => active_page' = chosen'
  PROVE  TypeOK' /\ RegistryAgrees' /\ SelectionKept' /\ Settled
<1> USE DEF PageSelectionInv
<1>1. Open' = Open /\ Fresh' = Fresh
  BY DEF Open, Fresh
<1>2. /\ page_ids' \subseteq Page /\ Open' \subseteq page_ids' /\ active_page' \in Page \cup {None}
      /\ active_page_index' \in 1 .. Len(pages') + 1
  <2>1. CASE UNCHANGED <<page_ids, active_page, active_page_index>>
    BY <1>1, <2>1 DEF TypeOK
  <2>2. CASE \E p \in Page : Activate(p)
    BY <2>2, ActivateKeeps
  <2> QED
    BY <2>1, <2>2
<1>3. TypeOK'
  BY <1>1, <1>2 DEF TypeOK
<1>4. RegistryAgrees' /\ SelectionKept' /\ Settled
  BY <1>1 DEF RegistryAgrees, SelectionKept, Settled, TypeOK
<1> QED
  BY <1>3, <1>4

LEMMA ActsInv ==
  ASSUME PageSelectionInv, NEW t \in Locks, Acts(t)
  PROVE  PageSelectionInv'
<1> DEFINE r == tool[t]
           selects == r.kind \in {"new", "select"} /\ r.page \in Open
           n == CASE r.kind = "storage" -> [r EXCEPT !.phase = "cleanup", !.outcome = "ok"]
                  [] r.kind = "act" \/ selects -> Ended(r, "ok")
                  [] OTHER -> Failed(r, "error")
<1>1. r \in Tool /\ ToolAgrees(t, r) /\ r.phase = "acting" /\ ~r.cancelled
  BY DEF PageSelectionInv, TypeOK, Acts
<1>2. UNCHANGED <<pages, header_tasks, headers>> /\ tool' = [tool EXCEPT ![t] = n]
  BY DEF Acts, Becomes
<1>3. \/ selects /\ Activate(r.page) /\ chosen' = r.page
      \/ ~selects /\ UNCHANGED <<page_ids, active_page, active_page_index, chosen>>
  BY DEF Acts
<1>4. r.kind \in {"act", "select", "new", "storage"} /\ (t = "modalLock" => r.kind = "act")
  BY <1>1 DEF ToolAgrees
<1>5. /\ n \in Tool
      /\ n.kind = r.kind /\ n.page = r.page /\ n.awaits = r.awaits /\ n.cancelled = r.cancelled
      /\ n.phase \in {"idle", "cleanup"} /\ n.outcome \in {"ok", "error"}
      /\ n.phase = "cleanup" => r.kind \in {"new", "storage"}
      /\ n.kind = "storage" => n.phase = "cleanup"
      /\ n.phase = "cleanup" => n.cleanup = "none" /\ (n.kind = "new" => n.outcome # "ok")
      /\ n.phase = "idle" => OwnTab(n)
  <2>0. r.cleanup = "none"
    BY <1>1 DEF ToolAgrees
  <2>1. CASE r.kind = "storage"
    <3>1. n = [r EXCEPT !.phase = "cleanup", !.outcome = "ok"]
      BY <2>1
    <3> HIDE DEF n
    <3> QED
      BY <1>1, <2>0, <2>1, <3>1 DEF Tool
  <2>2. CASE r.kind # "storage" /\ (r.kind = "act" \/ selects)
    <3>1. n = Ended(r, "ok")
      BY <2>2
    <3> HIDE DEF n
    <3>2. /\ n \in Tool
          /\ n.kind = r.kind /\ n.page = r.page /\ n.awaits = r.awaits /\ n.cancelled = r.cancelled
          /\ n.phase = "idle" /\ n.outcome = "ok" /\ n.cleanup = "none"
      BY <1>1, <2>0, <3>1, EndedIs DEF Outcome
    <3>3. OwnTab(n)
      BY <2>2, <3>2 DEF OwnTab
    <3> QED
      BY <2>2, <3>2, <3>3
  <2>3. CASE r.kind # "storage" /\ ~(r.kind = "act" \/ selects)
    <3>1. n = Failed(r, "error")
      BY <2>3
    <3>2. (n.phase = "cleanup" => n.cleanup = "none") /\ (n.phase = "idle" => OwnTab(n))
      BY <1>1, <3>1, FailedOwn DEF Outcome
    <3> HIDE DEF n
    <3>3. /\ n \in Tool
          /\ n.kind = r.kind /\ n.page = r.page /\ n.awaits = r.awaits /\ n.cancelled = r.cancelled
          /\ n.phase \in {"idle", "cleanup"} /\ n.outcome = "error"
          /\ n.phase = "cleanup" => r.kind \in {"new", "storage"}
      BY <1>1, <3>1, FailedIs DEF Outcome
    <3> QED
      BY <2>3, <3>2, <3>3
  <2> QED
    BY <2>1, <2>2, <2>3
<1> HIDE DEF n
<1>6. tool' \in [Locks -> Tool]
  BY <1>2, <1>5 DEF PageSelectionInv, TypeOK
<1>7. TypeOK' /\ RegistryAgrees' /\ SelectionKept' /\ Settled
  <2>1. CASE selects /\ Activate(r.page) /\ chosen' = r.page
    <3>1. r.page \in Page /\ r.page \notin Fresh
      BY <2>1, OpenHasHeaders
    <3>2. active_page' = r.page
      BY <2>1 DEF Activate
    <3> QED
      BY <1>2, <1>6, <2>1, <3>1, <3>2, SelectKeeps
  <2>2. CASE UNCHANGED <<page_ids, active_page, active_page_index, chosen>>
    BY <1>2, <1>6, <2>2, SelectKeeps DEF PageSelectionInv, TypeOK, RegistryAgrees, SelectionKept
  <2> QED
    BY <1>3, <2>1, <2>2
<1>8. ToolAgrees(t, tool[t])' /\ \A u \in Locks \ {t} : tool'[u] = tool[u]
  <2>1. n.cancelled = FALSE
    BY <1>1, <1>5 DEF Tool
  <2> QED
    BY <1>2, <1>5, <1>7, <2>1, StopAgrees
<1>9. chosen' = chosen \/ t = "lock"
  BY <1>3, <1>4 DEF Locks
<1> QED
  BY <1>7, <1>8, <1>9, ToolStep

LEMMA CloseReturnsInv ==
  ASSUME PageSelectionInv, NEW t \in Locks, CloseReturns(t)
  PROVE  PageSelectionInv'
<1> DEFINE r == tool[t]
           n == Ended(r, "ok")
           p == Reselected(r)
<1>1. r \in Tool /\ ToolAgrees(t, r)
  BY DEF PageSelectionInv, TypeOK
<1>2. /\ r.phase = "closing" /\ ~r.cancelled /\ r.page \notin Open
      /\ UNCHANGED <<pages, header_tasks, headers, chosen>> /\ tool' = [tool EXCEPT ![t] = n]
      /\ \/ pages = <<>> /\ UNCHANGED <<page_ids, active_page, active_page_index>>
         \/ pages # <<>> /\ Activate(p)
  BY DEF CloseReturns, Becomes
<1>3. /\ n \in Tool
      /\ n.kind = r.kind /\ n.page = r.page /\ n.awaits = r.awaits /\ n.cancelled = r.cancelled
      /\ n.phase = "idle" /\ n.outcome = "ok"
  BY <1>1, EndedIs DEF Outcome
<1> HIDE DEF n
<1>4. tool' \in [Locks -> Tool]
  BY <1>2, <1>3 DEF PageSelectionInv, TypeOK
<1>5. chosen \in Open => r.selected = chosen
  BY <1>1, <1>2 DEF ToolAgrees
<1>6. pages # <<>> => p \in Open
  <2>1. CASE r.selected \in Open
    BY <2>1 DEF Reselected
  <2>2. CASE pages # <<>> /\ r.selected \notin Open
    <3> DEFINE i == IF r.index <= Len(pages) THEN r.index ELSE Len(pages)
    <3>1. p = pages[i]
      BY <2>2 DEF Reselected
    <3>2. r.index \in Nat \ {0}
      BY <1>1 DEF Tool
    <3>3. i \in DOMAIN pages
      BY <2>2, <3>2, EmptySeq, LenProperties DEF PageSelectionInv, TypeOK
    <3> QED
      BY <3>1, <3>3 DEF Open, ToSet
  <2> QED
    BY <2>1, <2>2
<1>7. chosen \in Open => p = chosen
  BY <1>5 DEF Reselected
<1> HIDE DEF p
<1>8. TypeOK' /\ RegistryAgrees' /\ SelectionKept' /\ Settled
  <2>1. /\ chosen' \in Page \cup {None} /\ (chosen' # None => chosen' \notin Fresh)
    BY <1>2 DEF PageSelectionInv, TypeOK, RegistryAgrees
  <2>2. CASE UNCHANGED <<page_ids, active_page, active_page_index>>
    BY <1>2, <1>4, <2>1, <2>2, SelectKeeps DEF PageSelectionInv, SelectionKept
  <2>3. CASE pages # <<>> /\ Activate(p)
    <3>1. p \in Page /\ active_page' = p
      BY <1>6, <2>3, OpenHasHeaders DEF Activate
    <3> QED
      BY <1>2, <1>4, <1>7, <2>1, <2>3, <3>1, SelectKeeps
  <2> QED
    BY <1>2, <2>2, <2>3
<1>9. ToolAgrees(t, tool[t])' /\ \A u \in Locks \ {t} : tool'[u] = tool[u]
  <2>1. n.cancelled = FALSE /\ n.kind \in {"close", "tabClose"}
    BY <1>1, <1>2, <1>3 DEF Tool, ToolAgrees
  <2>2. OwnTab(n)
    BY <2>1 DEF OwnTab
  <2> QED
    BY <1>2, <1>3, <1>8, <2>1, <2>2, StopAgrees
<1> QED
  BY <1>2, <1>8, <1>9, ToolStep

-----------------------------------------------------------------------------
(* Theorems *)

LEMMA StepInv == PageSelectionInv /\ [Next]_vars => PageSelectionInv'
<1> SUFFICES ASSUME PageSelectionInv, [Next]_vars PROVE PageSelectionInv'
  OBVIOUS
<1>1. ASSUME NEW p \in Page, PageOpens(p) \/ PageCloses(p) \/ HeadersEnd(p) PROVE PageSelectionInv'
  BY <1>1, PageOpensInv, PageClosesInv, HeadersEndInv
<1>2. ASSUME NEW kind \in {"act", "close"}, UsesActivePage(kind) PROVE PageSelectionInv'
  BY <1>2, UsesActivePageInv
<1>3. ASSUME NEW t \in Locks, NEW kind \in {"act", "close"}, NEW p \in Page, UsesPage(t, kind, p)
      PROVE  PageSelectionInv'
  BY <1>3, UsesPageInv
<1>4. ASSUME NEW i \in DOMAIN pages, TabsClose(i) \/ TabsSelect(i) PROVE PageSelectionInv'
  BY <1>4, TabsCloseInv, TabsSelectInv
<1>5. ASSUME NEW kind \in {"new", "storage"}, OpensTab(kind) PROVE PageSelectionInv'
  BY <1>5, OpensTabInv
<1>6. ASSUME NEW t \in Locks, NEW p \in Page, NewPage(t, p) PROVE PageSelectionInv'
  BY <1>6, NewPageInv
<1>7. ASSUME NEW t \in Locks,
             NewPageReturns(t) \/ HeadersReturn(t) \/ Acts(t) \/ CloseReturns(t)
      PROVE  PageSelectionInv'
  BY <1>7, NewPageReturnsInv, HeadersReturnInv, ActsInv, CloseReturnsInv
<1>8. ASSUME NEW t \in Locks, Fails(t) \/ Cancel(t) \/ Unwinds(t) \/ CleanupEnds(t) \/ CleanupCancelled(t)
      PROVE  PageSelectionInv'
  BY <1>8, FailsInv, CancelInv, UnwindsInv, CleanupEndsInv, CleanupCancelledInv
<1>9. CASE UNCHANGED vars
  <2>1. TypeOK' /\ RegistryAgrees' /\ SelectionKept' /\ Settled
    BY <1>9, RegistryUnchanged DEF vars, PageSelectionInv, TypeOK
  <2> QED
    BY <1>9, <2>1, PagesStep DEF vars
<1> QED
  BY <1>1, <1>2, <1>3, <1>4, <1>5, <1>6, <1>7, <1>8, <1>9 DEF Next

\* The registry of pages, the header tasks and the tools stay consistent.
THEOREM PageSelectionInvariant == Spec => []PageSelectionInv
<1> QED
  BY InitInv, StepInv, PTL DEF Spec

\* The page that the client selected or opened last stays selected while it is
\* open, however many other pages open and close and tools fail meanwhile.
THEOREM Selection == Spec => []SelectionKept
<1>1. PageSelectionInv => SelectionKept
  BY DEF PageSelectionInv
<1> QED
  BY <1>1, PageSelectionInvariant, PTL

\* What a call reports of its own cancellation and of its page is so.
THEOREM Truthful == Spec => []OutcomeTruthful
<1>1. PageSelectionInv => OutcomeTruthful
  BY DEF PageSelectionInv, ToolAgrees, OutcomeTruthful
<1> QED
  BY <1>1, PageSelectionInvariant, PTL

\* The tab that a call opens for itself does not outlive the call, unless its
\* page.close() has failed or a cancellation has kept the call from it.
THEOREM OwnTabs == Spec => []OwnTabClosed
<1>1. PageSelectionInv => OwnTabClosed
  BY DEF PageSelectionInv, ToolAgrees, OwnTabClosed
<1> QED
  BY <1>1, PageSelectionInvariant, PTL
=============================================================================
