--------------------------- MODULE NetworkEvents ---------------------------
(***************************************************************************)
(* instance_manager.py: the network evidence of one instance.  Listeners   *)
(* append requests, responses and failures update them through an index    *)
(* keyed by id(request), which Python reuses, and clients page through the *)
(* stream with the cursors they were given.                                *)
(***************************************************************************)
EXTENDS EventBuffer

CONSTANTS
  Id,          \* values of id(request)
  Reader,      \* clients that follow next_cursor
  Wants,       \* Wants[r]: the ids whose requests pass the filter of r
  Limit,       \* page sizes they ask for
  NotIndexed,  \* network_request_index has no entry for the id
  MaxSequence  \* bound of the model: events of a run

ASSUME NetworkAssumption ==
  /\ Wants \in [Reader -> SUBSET Id]
  /\ Limit \subseteq Nat \ {0}
  /\ MaxSequence \in Nat

VARIABLES
  network,  \* state.network_requests
  index,    \* state.network_request_index
  cursor,   \* cursor[r]: next_cursor of the last page r read
  got,      \* got[r]: the sequence numbers r has received
  lossSeen, \* lossSeen[r]: retention_lost was ever set on a page of r
  evicted   \* history: the entries dropped from the buffer

vars == <<network, index, cursor, got, lossSeen, evicted>>

\* A captured request: its id(), a number of its own and whether it is settled.
Request == [id : Id, request : 1 .. MaxSequence, settled : BOOLEAN]
Entry   == [seq : 1 .. MaxSequence, item : Request]

Retained == Records(network)

\* Every variable has its type, the buffer is ordered and no reader is ahead of it.
TypeOK ==
  /\ IsBuffer(network, Entry) /\ network.sequence <= MaxSequence
  /\ index \in [Id -> Entry \cup {NotIndexed}]
  /\ cursor \in [Reader -> 0 .. network.sequence]
  /\ got \in [Reader -> SUBSET (1 .. MaxSequence)]
  /\ lossSeen \in [Reader -> BOOLEAN]
  /\ evicted \subseteq Entry

Init ==
  /\ network \in {EmptyBuffer(c) : c \in Capacity}
  /\ index = [k \in Id |-> NotIndexed]
  /\ cursor = [r \in Reader |-> 0]
  /\ got = [r \in Reader |-> {}]
  /\ lossSeen = [r \in Reader |-> FALSE]
  /\ evicted = {}

\* Fault: the id of the evicted request is dropped, whoever uses it now.
IndexPrunedById ==
  IF Full(network) THEN [index EXCEPT ![Head(network.entries).item.id] = NotIndexed] ELSE index

IndexPruned ==
  LET oldest == Head(network.entries)
  IN IF Full(network) /\ index[oldest.item.id] = oldest
     THEN [index EXCEPT ![oldest.item.id] = NotIndexed]
     ELSE index

\* _capture_request: before a full buffer drops its oldest entry, the index
\* forgets it, unless the id already belongs to a newer request.
CaptureRequest(k) ==
  /\ network.sequence < MaxSequence
  /\ network' = Appended(network, [id |-> k, request |-> network.sequence + 1, settled |-> FALSE])
  /\ index' = [IndexPruned EXCEPT ![k] = Newest(network')]
  /\ evicted' = IF Full(network) THEN evicted \cup {Head(network.entries)} ELSE evicted
  /\ UNCHANGED <<cursor, got, lossSeen>>

\* _on_response and _on_requestfailed; a request that was evicted is ignored.
Settle(k) ==
  /\ network.sequence < MaxSequence
  /\ index[k] # NotIndexed
  /\ network' = Updated(network, index[k], [index[k].item EXCEPT !.settled = TRUE])
  /\ index' = [index EXCEPT ![k] = Newest(network')]
  /\ UNCHANGED <<cursor, got, lossSeen, evicted>>

\* browser_network_requests with the cursor of the previous page.
Read(r) ==
  \E limit \in Limit :
    LET page == PageAfter(network, cursor[r], limit, {item \in Request : item.id \in Wants[r]})
    IN /\ cursor' = [cursor EXCEPT ![r] = page.cursor]
       /\ got' = [got EXCEPT ![r] = @ \cup {e.seq : e \in page.items}]
       /\ lossSeen' = [lossSeen EXCEPT ![r] = @ \/ page.lost]
       /\ UNCHANGED <<network, index, evicted>>

Next == \/ \E k \in Id : CaptureRequest(k) \/ Settle(k)
        \/ \E r \in Reader : Read(r)

Spec == Init /\ [][Next]_vars

-----------------------------------------------------------------------------
(* Safety *)

\* Whatever ids Python reuses and whatever is evicted, the index leads from an
\* id to the newest retained request with that id, the one its response settles
\* and update() finds in the deque; an id without one is not in the index.
IndexNewest ==
  \A k \in Id :
    LET requests == {e \in Retained : e.item.id = k}
    IN IF requests = {}
       THEN index[k] = NotIndexed
       ELSE /\ index[k] \in requests
            /\ \A e \in requests : e.item.request <= index[k].item.request

Received(r, e) == e.seq \in got[r]

\* A reader that follows next_cursor with an unchanged filter has received every
\* matching entry its cursor has passed, except entries that were evicted first,
\* and then some page told it so (retention_lost).
NothingMissed ==
  \A r \in Reader : \A e \in Retained \cup evicted :
    e.item.id \in Wants[r] /\ e.seq <= cursor[r] =>
      Received(r, e) \/ (e \in evicted /\ lossSeen[r])

\* "retention_lost means records after the requested cursor have already been
\* evicted" (docs/tools-reference/inspection.md): the next page says so exactly then.
LossReported ==
  \A r \in Reader : (cursor[r] < network.lastEvicted) <=> \E e \in evicted : e.seq > cursor[r]

-----------------------------------------------------------------------------
(* The inductive invariant behind them *)

\* Every retained entry is about a request of its own, and entries with one id
\* are in the order of their requests: only the newest is ever updated.
RequestsAgree ==
  /\ \A e \in Retained : e.item.request <= e.seq
  /\ \A e, f \in Retained :
       /\ e.item.request = f.item.request => e = f
       /\ e.item.id = f.item.id /\ e.seq < f.seq => e.item.request < f.item.request

\* The last eviction is the highest sequence number that was evicted.
EvictionsAgree ==
  /\ \A e \in evicted : e.seq <= network.lastEvicted
  /\ network.lastEvicted > 0 => \E e \in evicted : e.seq = network.lastEvicted

NetworkInv == /\ TypeOK /\ RequestsAgree /\ EvictionsAgree
              /\ IndexNewest /\ NothingMissed /\ LossReported
=============================================================================
