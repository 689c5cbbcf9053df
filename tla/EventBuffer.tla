---------------------------- MODULE EventBuffer ----------------------------
(***************************************************************************)
(* events.py: the bounded event stream behind console, network and         *)
(* download evidence, as operators on a value.  A buffer is a record of    *)
(* the deque, its counters and its last evicted sequence number; an entry  *)
(* is an item stamped with its sequence number.                            *)
(***************************************************************************)
EXTENDS Integers, SequencesExt

CONSTANT Capacity  \* configured capacities

ASSUME CapacityAssumption == Capacity \subseteq Nat \ {0}

EmptyBuffer(capacity) ==
  [capacity |-> capacity, entries |-> <<>>, sequence |-> 0, lastEvicted |-> 0, dropped |-> 0]

\* The retained entries.
Records(b) == ToSet(b.entries)

\* A buffer of entries from a set: never above its capacity, in strictly
\* increasing sequence order, and newer than all it has evicted.
IsBuffer(b, E) ==
  /\ b \in [capacity : Capacity, entries : Seq(E), sequence : Nat, lastEvicted : Nat, dropped : Nat]
  /\ Len(b.entries) <= b.capacity /\ b.lastEvicted <= b.sequence
  /\ \A i, j \in DOMAIN b.entries : i < j => b.entries[i].seq < b.entries[j].seq
  /\ \A e \in Records(b) : b.lastEvicted < e.seq /\ e.seq <= b.sequence

Full(b) == Len(b.entries) >= b.capacity

\* Fault: evictions are numbered by their count.
EvictionCount(b) == b.dropped + 1

EvictionMark(b) == Head(b.entries).seq

\* append(): the oldest entry of a full buffer gives way.
Appended(b, item) ==
  LET entry == [seq |-> b.sequence + 1, item |-> item]
  IN IF Full(b)
     THEN [capacity    |-> b.capacity,
           entries     |-> Append(Tail(b.entries), entry),
           sequence    |-> b.sequence + 1,
           lastEvicted |-> EvictionMark(b),
           dropped     |-> b.dropped + 1]
     ELSE [b EXCEPT !.entries = Append(@, entry), !.sequence = @ + 1]

Newest(b) == b.entries[Len(b.entries)]

\* Fault: the outdated entry stays where it was.
UpdatedCopy(b, entry, item) == Appended(b, item)

PlaceOf(b, entry) == CHOOSE i \in DOMAIN b.entries : b.entries[i] = entry

\* update(): the entry leaves its place and comes back as the newest.
Updated(b, entry, item) ==
  Appended([b EXCEPT !.entries = RemoveAt(@, PlaceOf(b, entry))], item)

\* Fault: the cursor always points behind the newest record.
CursorAtEnd(b, selected, more) == b.sequence

NextCursor(b, selected, more) ==
  IF more THEN b.entries[Max(selected)].seq ELSE b.sequence

\* page(): the first wanted entries (those that satisfy the predicate) after a
\* sequence number, at most limit of them, and the cursor to continue from.
PageAfter(b, after, limit, wanted) ==
  LET matches  == {i \in DOMAIN b.entries : b.entries[i].seq > after /\ b.entries[i].item \in wanted}
      selected == {i \in matches : Cardinality({j \in matches : j <= i}) <= limit}
  IN [items  |-> {b.entries[i] : i \in selected},
      cursor |-> NextCursor(b, selected, Cardinality(matches) > limit),
      lost   |-> after < b.lastEvicted]
=============================================================================
