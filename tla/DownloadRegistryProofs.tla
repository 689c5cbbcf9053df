------------------------ MODULE DownloadRegistryProofs ------------------------
(***************************************************************************)
(* Proofs about DownloadRegistry, for any downloads and a registry of any  *)
(* capacity: a handle that is being saved is never evicted, and what a     *)
(* client can list of a retained download is what the registry knows.      *)
(***************************************************************************)
EXTENDS DownloadRegistry, SequenceTheorems, TLAPS

-----------------------------------------------------------------------------
(* The buffer, as in NetworkEventsProofs *)

Stamped(E) == \A e \in E : e.seq \in Nat

\* t is s without its n-th entry.
Drops(s, n, t) ==
  /\ Len(t) = Len(s) - 1
  /\ \A i \in 1 .. Len(t) : t[i] = IF i < n THEN s[i] ELSE s[i + 1]

LEMMA RemoveAtIs ==
  ASSUME NEW E, NEW s \in Seq(E), NEW n \in DOMAIN s
  PROVE  LET t == RemoveAt(s, n) IN
         t \in Seq(E) /\ Len(t) = Len(s) - 1 /\ Drops(s, n, t)
<1> DEFINE t == RemoveAt(s, n)
           a == SubSeq(s, 1, n - 1)
           b == SubSeq(s, n + 1, Len(s))
<1>1. DOMAIN s = 1 .. Len(s) /\ Len(s) \in Nat /\ n \in 1 .. Len(s)
      /\ \A i \in 1 .. Len(s) : s[i] \in E
  BY LenProperties, ElementOfSeq
<1>2. a \in Seq(E) /\ Len(a) = n - 1 /\ \A i \in 1 .. n - 1 : a[i] = s[i]
  <2>1. \A i \in 1 .. n - 1 : s[i] \in E
    BY <1>1
  <2>2. /\ a \in Seq(E)
        /\ Len(a) = IF 1 <= n - 1 THEN n - 1 - 1 + 1 ELSE 0
        /\ \A i \in 1 .. n - 1 - 1 + 1 : a[i] = s[1 + i - 1]
    BY <1>1, <2>1, SubSeqProperties
  <2> QED
    BY <1>1, <2>2
<1>3. b \in Seq(E) /\ Len(b) = Len(s) - n /\ \A i \in 1 .. Len(s) - n : b[i] = s[n + i]
  <2>1. \A i \in n + 1 .. Len(s) : s[i] \in E
    BY <1>1
  <2>2. /\ b \in Seq(E)
        /\ Len(b) = IF n + 1 <= Len(s) THEN Len(s) - (n + 1) + 1 ELSE 0
        /\ \A i \in 1 .. Len(s) - (n + 1) + 1 : b[i] = s[n + 1 + i - 1]
    BY <1>1, <2>1, SubSeqProperties
  <2> HIDE DEF b
  <2>3. Len(b) = Len(s) - n /\ Len(s) - (n + 1) + 1 = Len(s) - n
    BY <1>1, <2>2
  <2>4. ASSUME NEW i \in 1 .. Len(s) - n PROVE b[i] = s[n + i]
    <3>1. n + 1 + i - 1 = n + i
      BY <1>1
    <3> QED
      BY <2>2, <2>3, <3>1
  <2> QED
    BY <2>2, <2>3, <2>4
<1> HIDE DEF a, b
<1>4. /\ t = a \o b /\ a \o b \in Seq(E) /\ Len(a \o b) = Len(a) + Len(b)
      /\ \A i \in 1 .. Len(a) + Len(b) :
           (a \o b)[i] = IF i <= Len(a) THEN a[i] ELSE b[i - Len(a)]
  BY <1>2, <1>3, ConcatProperties DEF RemoveAt, a, b
<1> HIDE DEF t
<1>5. Len(t) = Len(s) - 1 /\ DOMAIN t = 1 .. Len(s) - 1
  <2>1. Len(t) = Len(a) + Len(b) /\ DOMAIN t = 1 .. Len(a) + Len(b)
    BY <1>4, LenProperties
  <2> QED
    BY <1>1, <1>2, <1>3, <2>1
<1>6. ASSUME NEW i \in DOMAIN t PROVE t[i] = IF i < n THEN s[i] ELSE s[i + 1]
  <2>0. i \in 1 .. Len(a) + Len(b) /\ Len(a) = n - 1
    BY <1>1, <1>2, <1>3, <1>5
  <2>1. CASE i < n
    BY <1>1, <1>2, <1>4, <2>0, <2>1
  <2>2. CASE ~(i < n)
    <3>1. t[i] = b[i - (n - 1)]
      BY <1>1, <1>4, <2>0, <2>2
    <3>2. i - (n - 1) \in 1 .. Len(s) - n /\ n + (i - (n - 1)) = i + 1
      BY <1>1, <1>5, <2>2
    <3> QED
      BY <1>3, <2>2, <3>1, <3>2
  <2> QED
    BY <2>1, <2>2
<1> QED
  BY <1>4, <1>5, <1>6 DEF t, Drops

Increasing(s) == \A i, j \in DOMAIN s : i < j => s[i].seq < s[j].seq

LEMMA BufferIs ==
  ASSUME NEW E, NEW b, IsBuffer(b, E)
  PROVE  /\ b.capacity \in Nat \ {0} /\ b.capacity \in Capacity
         /\ b.entries \in Seq(E) /\ Increasing(b.entries) /\ Len(b.entries) <= b.capacity
         /\ b.sequence \in Nat /\ b.lastEvicted \in Nat /\ b.dropped \in Nat
         /\ \A e \in Records(b) : e \in E /\ b.lastEvicted < e.seq /\ e.seq <= b.sequence
<1>1. /\ b.capacity \in Capacity /\ b.entries \in Seq(E)
      /\ b.sequence \in Nat /\ b.lastEvicted \in Nat /\ b.dropped \in Nat
  BY DEF IsBuffer
<1>2. \A i \in DOMAIN b.entries : b.entries[i] \in E
  BY <1>1, ElementOfSeq, LenProperties
<1> QED
  BY <1>1, <1>2, CapacityAssumption DEF IsBuffer, Increasing, Records, ToSet

\* What is left when one entry goes, whichever it is.
LEMMA RemovedIs ==
  ASSUME NEW E, Stamped(E), NEW s \in Seq(E), Increasing(s), NEW n \in DOMAIN s,
         NEW t \in Seq(E), Drops(s, n, t)
  PROVE  /\ Increasing(t)
         /\ ToSet(t) = ToSet(s) \ {s[n]}
<1> DEFINE from(i) == IF i < n THEN i ELSE i + 1
<1>1. /\ DOMAIN t = 1 .. Len(s) - 1
      /\ \A i \in DOMAIN t : t[i] = IF i < n THEN s[i] ELSE s[i + 1]
  BY LenProperties DEF Drops
<1>2. DOMAIN s = 1 .. Len(s) /\ Len(s) \in Nat /\ \A i \in DOMAIN s : s[i] \in E
  BY LenProperties, ElementOfSeq
<1>3. \A i \in DOMAIN t : from(i) \in DOMAIN s /\ from(i) # n /\ t[i] = s[from(i)]
  BY <1>1, <1>2
<1>4. \A i, j \in DOMAIN t : i < j => from(i) < from(j)
  BY <1>1, <1>2
<1>5. ASSUME NEW i \in DOMAIN s, i # n PROVE \E j \in DOMAIN t : t[j] = s[i]
  <2>1. CASE i < n
    BY <1>1, <1>2, <2>1
  <2>2. CASE n < i
    <3>1. i - 1 \in DOMAIN t /\ ~(i - 1 < n) /\ (i - 1) + 1 = i
      BY <1>1, <1>2, <2>2
    <3> QED
      BY <1>1, <3>1
  <2> QED
    BY <1>2, <1>5, <2>1, <2>2
<1> HIDE DEF from
<1>6. Increasing(t)
  BY <1>3, <1>4 DEF Increasing
<1>7. \A i \in DOMAIN s : i # n => s[i] # s[n]
  <2> SUFFICES ASSUME NEW i \in DOMAIN s, i # n PROVE s[i].seq # s[n].seq
    OBVIOUS
  <2>1. s[i].seq \in Nat /\ s[n].seq \in Nat
    BY <1>2 DEF Stamped
  <2>2. i < n \/ n < i
    BY <1>2
  <2> QED
    BY <2>1, <2>2 DEF Increasing
<1>8. ToSet(t) = ToSet(s) \ {s[n]}
  <2>1. ASSUME NEW i \in DOMAIN t PROVE t[i] \in ToSet(s) \ {s[n]}
    <3>1. from(i) \in DOMAIN s /\ from(i) # n /\ t[i] = s[from(i)]
      BY <1>3
    <3> QED
      BY <1>7, <3>1 DEF ToSet
  <2>2. ASSUME NEW i \in DOMAIN s, s[i] # s[n] PROVE s[i] \in ToSet(t)
    <3>1. PICK j \in DOMAIN t : t[j] = s[i]
      BY <1>5, <2>2
    <3> QED
      BY <3>1 DEF ToSet
  <2> QED
    BY <2>1, <2>2 DEF ToSet
<1> QED
  BY <1>6, <1>8

\* A newer entry comes to the end.
LEMMA AppendIs ==
  ASSUME NEW E, NEW s \in Seq(E), Increasing(s), NEW x \in E,
         \A i \in DOMAIN s : s[i].seq < x.seq
  PROVE  LET t == Append(s, x) IN
         /\ t \in Seq(E) /\ Len(t) = Len(s) + 1 /\ Increasing(t) /\ t[Len(t)] = x
         /\ ToSet(t) = ToSet(s) \cup {x}
<1> DEFINE t == Append(s, x)
<1>1. /\ DOMAIN s = 1 .. Len(s) /\ Len(s) \in Nat
      /\ t \in Seq(E) /\ Len(t) = Len(s) + 1
      /\ \A i \in 1 .. Len(s) : t[i] = s[i]
      /\ t[Len(s) + 1] = x
  BY LenProperties, AppendProperties
<1>2. DOMAIN t = 1 .. Len(s) + 1
  BY <1>1, LenProperties
<1> HIDE DEF t
<1>3. \A i \in DOMAIN t : i \in DOMAIN s \/ i = Len(s) + 1
  BY <1>1, <1>2
<1>4. DOMAIN s \subseteq DOMAIN t /\ Len(s) + 1 \in DOMAIN t
  BY <1>1, <1>2
<1>5. \A i, j \in DOMAIN t : i < j => i \in DOMAIN s
  BY <1>1, <1>2
<1>6. Increasing(t)
  BY <1>1, <1>3, <1>5 DEF Increasing
<1>7. ToSet(t) = ToSet(s) \cup {x}
  BY <1>1, <1>3, <1>4 DEF ToSet
<1> QED
  BY <1>1, <1>6, <1>7 DEF t

\* append(): the oldest entry of a full buffer gives way to the newest.
LEMMA AppendedIs ==
  ASSUME NEW E, Stamped(E), NEW b, IsBuffer(b, E), NEW item,
         [seq |-> b.sequence + 1, item |-> item] \in E
  PROVE  LET n == Appended(b, item)
             x == [seq |-> b.sequence + 1, item |-> item]
             oldest == Head(b.entries) IN
         /\ IsBuffer(n, E) /\ Newest(n) = x
         /\ n.capacity = b.capacity /\ n.sequence = b.sequence + 1
         /\ ~Full(b) => Records(n) = Records(b) \cup {x} /\ n.lastEvicted = b.lastEvicted
         /\ Full(b) => /\ oldest \in Records(b)
                       /\ \A e \in Records(b) : e # oldest => oldest.seq < e.seq
                       /\ Records(n) = (Records(b) \ {oldest}) \cup {x}
                       /\ n.lastEvicted = oldest.seq
<1> DEFINE n == Appended(b, item)
           x == [seq |-> b.sequence + 1, item |-> item]
           s == b.entries
           t == IF Full(b) THEN Tail(s) ELSE s
           gone == IF Full(b) THEN {Head(s)} ELSE {}
<1>1. /\ b.capacity \in Nat \ {0} /\ b.capacity \in Capacity
      /\ s \in Seq(E) /\ Increasing(s) /\ Len(s) <= b.capacity
      /\ b.sequence \in Nat /\ b.lastEvicted \in Nat /\ b.dropped \in Nat
      /\ \A e \in Records(b) : e \in E /\ b.lastEvicted < e.seq /\ e.seq <= b.sequence
  BY BufferIs
<1>2. DOMAIN s = 1 .. Len(s) /\ Len(s) \in Nat /\ \A i \in DOMAIN s : s[i] \in Records(b)
  BY <1>1, LenProperties DEF Records, ToSet
<1>3. Full(b) => /\ Head(s) \in Records(b) /\ \A e \in Records(b) : Head(s).seq <= e.seq
                 /\ \A e \in Records(b) : e # Head(s) => Head(s).seq < e.seq
  <2> SUFFICES ASSUME Full(b)
               PROVE  /\ Head(s) \in Records(b) /\ \A e \in Records(b) : Head(s).seq <= e.seq
                      /\ \A e \in Records(b) : e # Head(s) => Head(s).seq < e.seq
    OBVIOUS
  <2>1. 1 \in DOMAIN s /\ Head(s) = s[1]
    BY <1>1, <1>2 DEF Full
  <2>2. \A i \in DOMAIN s : i = 1 \/ 1 < i
    BY <1>2
  <2>3. ASSUME NEW i \in DOMAIN s PROVE s[1].seq <= s[i].seq /\ (s[i] # s[1] => s[1].seq < s[i].seq)
    <3>1. s[1].seq \in Nat /\ s[i].seq \in Nat
      BY <1>1, <1>2, <2>1 DEF Stamped
    <3> QED
      BY <1>1, <2>1, <2>2, <3>1 DEF Increasing
  <2> QED
    BY <1>2, <2>1, <2>3 DEF Records, ToSet
<1>4. /\ t \in Seq(E) /\ Len(t) < b.capacity /\ Increasing(t)
      /\ ToSet(t) = Records(b) \ gone
  <2>1. CASE Full(b)
    <3>1. 1 \in DOMAIN s /\ s # <<>> /\ Head(s) = s[1]
      BY <1>1, <1>2, <2>1 DEF Full
    <3>2. /\ Tail(s) \in Seq(E) /\ Len(Tail(s)) = Len(s) - 1
          /\ \A i \in 1 .. Len(Tail(s)) : Tail(s)[i] = s[i + 1]
      BY <1>1, <3>1, HeadTailProperties
    <3>3. \A i \in 1 .. Len(Tail(s)) : ~(i < 1)
      OBVIOUS
    <3>4. \A i \in 1 .. Len(Tail(s)) : Tail(s)[i] = IF i < 1 THEN s[i] ELSE s[i + 1]
      BY <3>2, <3>3
    <3>5. /\ Increasing(Tail(s))
          /\ ToSet(Tail(s)) = ToSet(s) \ {s[1]}
      <4> DEFINE l == Tail(s)
      <4>1. l \in Seq(E) /\ Drops(s, 1, l)
        BY <3>2, <3>4 DEF Drops
      <4> HIDE DEF l, s
      <4>2. Increasing(l) /\ ToSet(l) = ToSet(s) \ {s[1]}
        BY <1>1, <3>1, <4>1, RemovedIs
      <4> QED
        BY <4>2 DEF l, s
    <3> QED
      BY <1>1, <1>2, <2>1, <3>1, <3>2, <3>5 DEF Records
  <2>2. CASE ~Full(b)
    BY <1>1, <1>2, <2>2 DEF Full, Records
  <2> QED
    BY <2>1, <2>2
<1> HIDE DEF t, gone, x
<1>5. x \in E /\ x.seq = b.sequence + 1 /\ x.item = item
  BY DEF x
<1>6. \A i \in DOMAIN t : t[i].seq < x.seq
  <2> SUFFICES ASSUME NEW i \in DOMAIN t PROVE t[i].seq < x.seq
    OBVIOUS
  <2>1. t[i] \in Records(b)
    BY <1>4 DEF ToSet
  <2>2. t[i].seq \in Nat
    BY <1>1, <2>1 DEF Stamped
  <2> QED
    BY <1>1, <1>5, <2>1, <2>2
<1> DEFINE u == Append(t, x)
<1>7. /\ u \in Seq(E) /\ Len(u) = Len(t) + 1 /\ Increasing(u) /\ u[Len(u)] = x
      /\ ToSet(u) = (Records(b) \ gone) \cup {x}
  BY <1>4, <1>5, <1>6, AppendIs
<1> HIDE DEF u
<1>8. n = [capacity |-> b.capacity, entries |-> u, sequence |-> b.sequence + 1,
           lastEvicted |-> IF Full(b) THEN Head(s).seq ELSE b.lastEvicted,
           dropped |-> IF Full(b) THEN b.dropped + 1 ELSE b.dropped]
  <2>1. CASE Full(b)
    BY <2>1 DEF Appended, EvictionMark, t, u, x
  <2>2. CASE ~Full(b)
    <3>1. b = [capacity |-> b.capacity, entries |-> s, sequence |-> b.sequence,
               lastEvicted |-> b.lastEvicted, dropped |-> b.dropped]
      BY DEF IsBuffer
    <3>2. n = [b EXCEPT !.entries = u, !.sequence = b.sequence + 1]
      BY <2>2 DEF Appended, t, u, x
    <3> QED
      BY <2>2, <3>1, <3>2
  <2> QED
    BY <2>1, <2>2
<1> HIDE DEF n
<1>9. /\ n.capacity = b.capacity /\ n.entries = u /\ n.sequence = b.sequence + 1
      /\ n.lastEvicted = IF Full(b) THEN Head(s).seq ELSE b.lastEvicted
      /\ Records(n) = (Records(b) \ gone) \cup {x} /\ Newest(n) = x
  BY <1>7, <1>8 DEF Records, Newest
<1>10. Head(s).seq \in Nat \/ ~Full(b)
  BY <1>1, <1>3 DEF Stamped
<1>11. IsBuffer(n, E)
  <2> DEFINE mark == IF Full(b) THEN Head(s).seq ELSE b.lastEvicted
             count == IF Full(b) THEN b.dropped + 1 ELSE b.dropped
  <2>0. /\ b.capacity \in Capacity /\ b.sequence \in Nat /\ b.sequence + 1 \in Nat
        /\ b.lastEvicted \in Nat /\ b.dropped \in Nat
    BY DEF IsBuffer
  <2>1a. mark \in Nat
    BY <1>10, <2>0
  <2>1b. count \in Nat
    BY <2>0
  <2>1c. n = [capacity |-> b.capacity, entries |-> u, sequence |-> b.sequence + 1,
              lastEvicted |-> mark, dropped |-> count]
    BY <1>8
  <2> HIDE DEF mark, count
  <2>1. n \in [capacity : Capacity, entries : Seq(E), sequence : Nat, lastEvicted : Nat, dropped : Nat]
    BY <1>7, <2>0, <2>1a, <2>1b, <2>1c
  <2> USE DEF mark, count
  <2>2. Len(n.entries) <= n.capacity /\ n.lastEvicted <= b.sequence
    <3>1. Len(n.entries) <= n.capacity
      BY <1>1, <1>4, <1>7, <1>9, LenProperties
    <3>2. b.lastEvicted <= b.sequence
      BY DEF IsBuffer
    <3>3. CASE Full(b)
      BY <1>1, <1>3, <1>9, <3>1, <3>3
    <3>4. CASE ~Full(b)
      BY <1>9, <3>1, <3>2, <3>4
    <3> QED
      BY <3>3, <3>4
  <2>3. ASSUME NEW e \in Records(n) PROVE n.lastEvicted < e.seq /\ e.seq <= n.sequence
    <3>1. CASE e = x
      <4>1. n.lastEvicted \in Nat /\ n.lastEvicted <= b.sequence
        BY <2>1, <2>2
      <4>2. e.seq = b.sequence + 1 /\ n.sequence = b.sequence + 1
        BY <1>5, <1>9, <3>1
      <4> QED
        BY <2>0, <4>1, <4>2
    <3>2. CASE e \in Records(b) \ gone
      <4>1. e.seq \in Nat /\ b.lastEvicted < e.seq /\ e.seq <= b.sequence
        BY <1>1, <3>2 DEF Stamped
      <4>2. Full(b) => Head(s).seq < e.seq
        BY <1>3, <3>2 DEF gone
      <4> QED
        BY <1>1, <1>9, <4>1, <4>2
    <3> QED
      BY <1>9, <3>1, <3>2
  <2> QED
    <3>1. \A i, j \in DOMAIN n.entries : i < j => n.entries[i].seq < n.entries[j].seq
      BY <1>7, <1>9 DEF Increasing
    <3>2. n.lastEvicted <= n.sequence
      BY <1>1, <1>9, <2>1, <2>2
    <3> QED
      BY <2>1, <2>2, <2>3, <3>1, <3>2 DEF IsBuffer
<1> QED
  BY <1>3, <1>9, <1>11 DEF n, x, gone

\* update(): an entry comes back as the newest, and nothing is evicted.
LEMMA UpdatedIs ==
  ASSUME NEW E, Stamped(E), NEW b, IsBuffer(b, E), NEW item,
         [seq |-> b.sequence + 1, item |-> item] \in E, NEW old \in Records(b)
  PROVE  LET n == Updated(b, old, item)
             x == [seq |-> b.sequence + 1, item |-> item] IN
         /\ IsBuffer(n, E) /\ Newest(n) = x
         /\ n.capacity = b.capacity /\ n.sequence = b.sequence + 1
         /\ n.lastEvicted = b.lastEvicted
         /\ Records(n) = (Records(b) \ {old}) \cup {x}
<1> DEFINE s == b.entries
           p == PlaceOf(b, old)
           t == RemoveAt(s, p)
           c == [b EXCEPT !.entries = t]
<1>1. /\ b.capacity \in Nat \ {0} /\ b.capacity \in Capacity
      /\ s \in Seq(E) /\ Increasing(s) /\ Len(s) <= b.capacity
      /\ b.sequence \in Nat /\ b.lastEvicted \in Nat /\ b.dropped \in Nat
      /\ \A e \in Records(b) : e \in E /\ b.lastEvicted < e.seq /\ e.seq <= b.sequence
  BY BufferIs
<1>2. p \in DOMAIN s /\ s[p] = old
  BY DEF PlaceOf, Records, ToSet
<1> HIDE DEF p, s
<1>3. t \in Seq(E) /\ Len(t) = Len(s) - 1 /\ Drops(s, p, t)
  BY <1>1, <1>2, RemoveAtIs
<1> HIDE DEF t
<1>4. Increasing(t) /\ ToSet(t) = Records(b) \ {old}
  <2>1. Records(b) = ToSet(s)
    BY DEF Records, s
  <2> QED
    BY <1>1, <1>2, <1>3, <2>1, RemovedIs
<1>5. /\ c = [capacity |-> b.capacity, entries |-> t, sequence |-> b.sequence,
              lastEvicted |-> b.lastEvicted, dropped |-> b.dropped]
      /\ Updated(b, old, item) = Appended(c, item)
  <2>1. b = [capacity |-> b.capacity, entries |-> s, sequence |-> b.sequence,
             lastEvicted |-> b.lastEvicted, dropped |-> b.dropped]
    BY DEF IsBuffer, s
  <2>2. c = [capacity |-> b.capacity, entries |-> t, sequence |-> b.sequence,
             lastEvicted |-> b.lastEvicted, dropped |-> b.dropped]
    BY <2>1
  <2> QED
    BY <2>2 DEF Updated, t, p, s
<1> HIDE DEF c
<1>6. /\ c.capacity = b.capacity /\ c.sequence = b.sequence /\ c.lastEvicted = b.lastEvicted
      /\ c.entries = t /\ Records(c) = Records(b) \ {old}
  BY <1>4, <1>5 DEF Records
<1>7. Len(s) \in Nat /\ Len(t) \in Nat
  BY <1>1, <1>3, LenProperties
<1>8. IsBuffer(c, E)
  <2>1. c \in [capacity : Capacity, entries : Seq(E), sequence : Nat, lastEvicted : Nat, dropped : Nat]
    BY <1>1, <1>3, <1>5
  <2>2. Len(c.entries) <= c.capacity /\ c.lastEvicted <= c.sequence
    <3>1. b.lastEvicted <= b.sequence
      BY DEF IsBuffer
    <3> QED
      BY <1>1, <1>3, <1>6, <1>7, <3>1
  <2> QED
    BY <1>1, <1>4, <1>6, <2>1, <2>2 DEF IsBuffer, Increasing
<1>9. ~Full(c)
  BY <1>1, <1>3, <1>6, <1>7 DEF Full
<1>10. [seq |-> c.sequence + 1, item |-> item] \in E
  BY <1>6
<1> QED
  BY <1>5, <1>6, <1>8, <1>9, <1>10, AppendedIs

-----------------------------------------------------------------------------
(* The steps *)

LEMMA EntryStamped == Stamped(Entry)
BY DEF Stamped, Entry

LEMMA EntryIs ==
  ASSUME NEW e \in Entry
  PROVE  /\ e.item.download \in Download /\ e.item.status \in Status /\ e.item.failure \in BOOLEAN
         /\ e # NoEvent
BY NoEventAssumption DEF Entry, Evidence

LEMMA InvIs ==
  ASSUME DownloadInv
  PROVE  /\ IsBuffer(events, Entry) /\ events.sequence \in Nat
         /\ \A e \in Listed : e \in Entry /\ e # NoEvent /\ e.item.download \in Download
         /\ order \in Seq(Download) /\ Retained \subseteq Download
         /\ status \in [Download -> Status] /\ eventOf \in [Download -> Entry \cup {NoEvent}]
         /\ saving = pinned /\ saving \subseteq Retained /\ saving \subseteq Download
         /\ Len(order) <= events.capacity /\ events.capacity \in Nat
<1>1. IsBuffer(events, Entry) /\ order \in Seq(Download)
  BY DEF DownloadInv, TypeOK
<1>2. \A i \in DOMAIN order : order[i] \in Download
  BY <1>1, ElementOfSeq, LenProperties
<1>3. Retained \subseteq Download
  BY <1>2 DEF Retained, ToSet
<1>4. /\ events.sequence \in Nat /\ events.capacity \in Nat
      /\ \A e \in Listed : e \in Entry
  BY <1>1, BufferIs DEF Listed
<1> QED
  BY <1>1, <1>3, <1>4, EntryIs DEF DownloadInv, TypeOK, SavingRetained

\* A new entry about d, which replaces the old one about d if there was one,
\* keeps the references and the entries together.
LEMMA ReferencesKept ==
  ASSUME DownloadInv, NEW d \in Download, NEW x \in Entry, x.item.download = d,
         NEW left \in SUBSET Listed, \A e \in left : e.item.download # d,
         IsBuffer(events', Entry), Listed' = left \cup {x}, Newest(events') = x,
         PrunedReferences(d)
  PROVE  /\ eventOf' \in [Download -> Entry \cup {NoEvent}] /\ EvidenceIndexed'
<1>1. /\ \A e \in Listed : e \in Entry /\ e # NoEvent /\ e.item.download \in Download
      /\ eventOf \in [Download -> Entry \cup {NoEvent}]
      /\ \A e \in Listed : eventOf[e.item.download] = e
      /\ \A y \in Download : eventOf[y] # NoEvent =>
            eventOf[y] \in Listed /\ eventOf[y].item.download = y
  BY InvIs DEF DownloadInv, EvidenceIndexed
<1>2. eventOf' = [y \in Download |->
                   IF y = d THEN x
                   ELSE IF \E e \in Listed' : e.item.download = y THEN eventOf[y] ELSE NoEvent]
  BY DEF PrunedReferences, Listed
<1>3. eventOf' \in [Download -> Entry \cup {NoEvent}]
  BY <1>1, <1>2
<1>4. ASSUME NEW e \in Listed' PROVE eventOf'[e.item.download] = e
  <2>1. CASE e = x
    BY <1>2, <2>1
  <2>2. CASE e \in left
    BY <1>1, <1>2, <2>2
  <2> QED
    BY <2>1, <2>2
<1>5. ASSUME NEW y \in Download, eventOf'[y] # NoEvent
      PROVE  eventOf'[y] \in Listed' /\ eventOf'[y].item.download = y
  <2>1. CASE y = d
    BY <1>2, <2>1
  <2>2. CASE y # d
    <3>1. PICK e \in Listed' : e.item.download = y
      BY <1>2, <1>5, <2>2
    <3>2. eventOf'[y] = eventOf[y]
      BY <1>2, <2>2, <3>1
    <3>3. e \in left /\ eventOf[y] = e
      BY <1>1, <2>2, <3>1
    <3> QED
      BY <3>1, <3>2, <3>3
  <2> QED
    BY <2>1, <2>2
<1> QED
  BY <1>3, <1>4, <1>5 DEF EvidenceIndexed

\* _update_event: the evidence of d follows its status; evidence that was
\* evicted stays so.
LEMMA UpdateEventKeeps ==
  ASSUME DownloadInv, NEW d \in Download, NEW newStatus \in Status, NEW failure \in BOOLEAN,
         UpdateEvent(d, newStatus, failure)
  PROVE  /\ IsBuffer(events', Entry) /\ events'.capacity = events.capacity
         /\ eventOf' \in [Download -> Entry \cup {NoEvent}] /\ EvidenceIndexed'
         /\ \A e \in Listed' : \/ e \in Listed /\ e.item.download # d
                               \/ /\ e.item = [download |-> d, status |-> newStatus, failure |-> failure]
                                  /\ \E f \in Listed : f.item.download = d
<1>1. /\ IsBuffer(events, Entry) /\ events.sequence \in Nat
      /\ \A e \in Listed : e \in Entry /\ e # NoEvent
      /\ eventOf \in [Download -> Entry \cup {NoEvent}]
      /\ \A e \in Listed : eventOf[e.item.download] = e
      /\ \A y \in Download : eventOf[y] # NoEvent =>
            eventOf[y] \in Listed /\ eventOf[y].item.download = y
  BY InvIs DEF DownloadInv, EvidenceIndexed
<1>2. CASE eventOf[d] = NoEvent
  <2>1. UNCHANGED <<events, eventOf>>
    BY <1>2 DEF UpdateEvent
  <2>2. \A e \in Listed : e.item.download # d
    BY <1>1, <1>2
  <2> QED
    BY <1>1, <2>1, <2>2 DEF DownloadInv, EvidenceIndexed, Listed
<1>3. CASE eventOf[d] # NoEvent
  <2> DEFINE item == [download |-> d, status |-> newStatus, failure |-> failure]
             x == [seq |-> events.sequence + 1, item |-> item]
             old == eventOf[d]
  <2>1. events' = Updated(events, old, item) /\ PrunedReferences(d)
    BY <1>3 DEF UpdateEvent
  <2>2. old \in Listed /\ old.item.download = d
    BY <1>1, <1>3
  <2>3. x \in Entry /\ x.item = item /\ x.item.download = d
    BY <1>1 DEF Entry, Evidence
  <2>4. /\ IsBuffer(events', Entry) /\ Newest(events') = x /\ events'.capacity = events.capacity
        /\ Listed' = (Listed \ {old}) \cup {x}
    <3> HIDE DEF item, old
    <3> QED
      BY <1>1, <2>1, <2>2, <2>3, EntryStamped, UpdatedIs DEF Listed
  <2>5. \A e \in Listed \ {old} : e.item.download # d
    BY <1>1
  <2> HIDE DEF x, item
  <2>6. /\ eventOf' \in [Download -> Entry \cup {NoEvent}] /\ EvidenceIndexed'
    <3> HIDE DEF old
    <3> QED
      BY <2>1, <2>3, <2>4, <2>5, ReferencesKept
  <2> QED
    BY <2>2, <2>3, <2>4, <2>5, <2>6 DEF item
<1> QED
  BY <1>2, <1>3

\* A save starts or ends: status, pin and evidence change together.
LEMMA StatusChanges ==
  ASSUME DownloadInv, NEW d \in Retained, NEW s \in Status, NEW f \in BOOLEAN, f <=> s = "failed",
         UpdateEvent(d, s, f), status' = [status EXCEPT ![d] = s],
         UNCHANGED <<order, emitted>>, saving' = pinned',
         \/ saving = {} /\ saving' = {d} /\ s = "saving"
         \/ d \in saving /\ saving' = {} /\ s # "saving"
  PROVE  DownloadInv'
<1>1. /\ IsBuffer(events, Entry) /\ order \in Seq(Download) /\ Retained \subseteq Download
      /\ status \in [Download -> Status]
      /\ saving = pinned /\ saving \subseteq Retained /\ saving \subseteq Download
      /\ Len(order) <= events.capacity /\ d \in Download
      /\ \A e \in Listed : e.item.download \in Download
  BY InvIs
<1>2. /\ IsBuffer(events', Entry) /\ events'.capacity = events.capacity
      /\ eventOf' \in [Download -> Entry \cup {NoEvent}] /\ EvidenceIndexed'
      /\ \A e \in Listed' : \/ e \in Listed /\ e.item.download # d
                            \/ /\ e.item = [download |-> d, status |-> s, failure |-> f]
                               /\ \E g \in Listed : g.item.download = d
  BY <1>1, UpdateEventKeeps
<1>3. Retained' = Retained /\ emitted' = emitted /\ order' = order
  BY DEF Retained
<1>4. saving \subseteq {d} /\ saving' \subseteq {d}
  BY DEF DownloadInv, DownloadsAgree
<1>5. TypeOK'
  BY <1>1, <1>2, <1>3, <1>4 DEF DownloadInv, TypeOK
<1>6. DownloadsAgree'
  <2>1. \A e \in Listed' : e.item.download \in emitted
    BY <1>2 DEF DownloadInv, DownloadsAgree
  <2> QED
    BY <1>3, <1>4, <2>1 DEF DownloadInv, DownloadsAgree
<1>7. SavingRetained'
  <2>1. \A y \in Retained : status'[y] = "saving" <=> y \in saving'
    <3> SUFFICES ASSUME NEW y \in Retained PROVE status'[y] = "saving" <=> y \in saving'
      OBVIOUS
    <3>1. CASE y = d
      BY <1>1, <3>1
    <3>2. CASE y # d
      BY <1>1, <1>4, <3>2 DEF DownloadInv, SavingRetained
    <3> QED
      BY <3>1, <3>2
  <2> QED
    BY <1>1, <1>2, <1>3, <1>4, <2>1 DEF SavingRetained
<1>8. EvidenceTruthful'
  <2> SUFFICES ASSUME NEW e \in Listed', e.item.download \in Retained
               PROVE  /\ e.item.status = status'[e.item.download]
                      /\ e.item.failure <=> status'[e.item.download] = "failed"
    BY <1>3 DEF EvidenceTruthful
  <2>1. CASE e \in Listed /\ e.item.download # d
    BY <1>1, <2>1 DEF DownloadInv, EvidenceTruthful
  <2>2. CASE e.item = [download |-> d, status |-> s, failure |-> f]
    <3>1. e.item.download = d /\ e.item.status = s /\ e.item.failure = f /\ status'[d] = s
      BY <1>1, <2>2
    <3> QED
      BY <3>1
  <2> QED
    BY <1>2, <2>1, <2>2
<1> QED
  BY <1>2, <1>5, <1>6, <1>7, <1>8 DEF DownloadInv

LEMMA PinInv ==
  ASSUME DownloadInv, NEW d \in Download, Pin(d)
  PROVE  DownloadInv'
<1>1. /\ d \in Retained /\ saving = {} /\ saving' = {d} /\ pinned' = pinned \cup {d}
      /\ status' = [status EXCEPT ![d] = "saving"] /\ UNCHANGED <<order, emitted>>
      /\ UpdateEvent(d, "saving", FALSE)
  BY DEF Pin
<1>2. pinned = saving
  BY InvIs
<1>3. "saving" \in Status /\ (FALSE <=> "saving" = "failed")
  BY DEF Status
<1> QED
  BY <1>1, <1>2, <1>3, StatusChanges

LEMMA FinishInv ==
  ASSUME DownloadInv, NEW d \in Download, NEW failed \in BOOLEAN, Finish(d, failed)
  PROVE  DownloadInv'
<1> DEFINE s == IF failed THEN "failed" ELSE "saved"
<1>1. /\ d \in Retained /\ d \in saving /\ saving' = {} /\ pinned' = pinned \ {d}
      /\ status' = [status EXCEPT ![d] = s] /\ UNCHANGED <<order, emitted>>
      /\ UpdateEvent(d, s, failed)
  BY DEF Finish
<1>2. pinned = saving /\ \A y \in saving : y = d
  BY <1>1, InvIs DEF DownloadInv, DownloadsAgree
<1>3. s \in Status /\ s # "saving" /\ (failed <=> s = "failed")
  BY DEF Status
<1>4. saving' = pinned'
  BY <1>1, <1>2
<1> HIDE DEF s
<1> QED
  BY <1>1, <1>3, <1>4, StatusChanges

LEMMA CancelSaveInv ==
  ASSUME DownloadInv, NEW d \in Download, CancelSave(d)
  PROVE  DownloadInv'
<1>1. /\ d \in saving /\ saving' = {} /\ pinned' = pinned \ {d}
      /\ status' = [status EXCEPT ![d] = StatusReset(d)] /\ UNCHANGED <<order, emitted>>
      /\ UpdateEvent(d, StatusReset(d), FALSE)
  BY DEF CancelSave
<1>2. /\ pinned = saving /\ d \in Retained /\ status[d] = "saving"
      /\ \A y \in saving : y = d
  BY <1>1, InvIs DEF DownloadInv, SavingRetained, DownloadsAgree
<1>3. StatusReset(d) = "detected"
  BY <1>2 DEF StatusReset
<1>4. "detected" \in Status /\ "detected" # "saving" /\ (FALSE <=> "detected" = "failed")
  BY DEF Status
<1>5. saving' = pinned'
  BY <1>1, <1>2
<1> QED
  BY <1>1, <1>2, <1>3, <1>4, <1>5, StatusChanges

\* register(): the handle that gives way is not one that is being saved.
LEMMA RegisterInv ==
  ASSUME DownloadInv, NEW d \in Download, Register(d)
  PROVE  DownloadInv'
<1> DEFINE item == [download |-> d, status |-> "detected", failure |-> FALSE]
           x == [seq |-> events.sequence + 1, item |-> item]
           gone == IF Full(events) THEN {Head(events.entries)} ELSE {}
<1>1. /\ IsBuffer(events, Entry) /\ events.sequence \in Nat
      /\ \A e \in Listed : e \in Entry /\ e.item.download \in Download
      /\ order \in Seq(Download) /\ Retained \subseteq Download
      /\ status \in [Download -> Status]
      /\ saving = pinned /\ saving \subseteq Retained /\ saving \subseteq Download
      /\ Len(order) <= events.capacity /\ events.capacity \in Nat
  BY InvIs
<1>2. /\ d \notin emitted /\ emitted' = emitted \cup {d}
      /\ status' = [status EXCEPT ![d] = "detected"]
      /\ events' = Appended(events, item) /\ PrunedReferences(d)
      /\ UNCHANGED <<pinned, saving>>
  BY DEF Register
<1>3. d \notin Retained /\ d \notin saving /\ \A e \in Listed : e.item.download # d
  BY <1>1, <1>2 DEF DownloadInv, DownloadsAgree
<1>4. x \in Entry /\ x.item = item /\ item.download = d
      /\ item.status = "detected" /\ item.failure = FALSE
  BY <1>1 DEF Entry, Evidence, Status
<1> HIDE DEF item
<1>5. /\ IsBuffer(events', Entry) /\ Newest(events') = x /\ events'.capacity = events.capacity
      /\ Listed' = (Listed \ gone) \cup {x}
  BY <1>1, <1>2, <1>4, EntryStamped, AppendedIs DEF Listed
<1> HIDE DEF x, gone
<1>6. eventOf' \in [Download -> Entry \cup {NoEvent}] /\ EvidenceIndexed'
  <2> DEFINE left == Listed \ gone
  <2>1. left \in SUBSET Listed /\ \A e \in left : e.item.download # d
    BY <1>3
  <2>2. Listed' = left \cup {x}
    BY <1>5
  <2> HIDE DEF left
  <2> QED
    BY <1>2, <1>4, <1>5, <2>1, <2>2, ReferencesKept
<1>7. /\ order' \in Seq(Download) /\ Len(order') <= events.capacity
      /\ Retained' \subseteq Retained \cup {d} /\ saving \subseteq Retained'
  <2>1. ASSUME NEW t \in Seq(Download), Len(t) < events.capacity, ToSet(t) \subseteq Retained,
               saving \subseteq ToSet(t), order' = Append(t, d)
        PROVE  /\ order' \in Seq(Download) /\ Len(order') <= events.capacity
               /\ Retained' \subseteq Retained \cup {d} /\ saving \subseteq Retained'
    <3>1. /\ DOMAIN t = 1 .. Len(t) /\ Len(t) \in Nat
          /\ order' \in Seq(Download) /\ Len(order') = Len(t) + 1
          /\ DOMAIN order' = 1 .. Len(order')
          /\ \A i \in 1 .. Len(t) : order'[i] = t[i]
          /\ order'[Len(t) + 1] = d
      BY <2>1, LenProperties, AppendProperties
    <3>2. \A i \in DOMAIN order' : i \in DOMAIN t \/ i = Len(t) + 1
      BY <3>1
    <3>3. DOMAIN t \subseteq DOMAIN order'
      BY <3>1
    <3>4. Retained' \subseteq ToSet(t) \cup {d} /\ ToSet(t) \subseteq Retained'
      BY <3>1, <3>2, <3>3 DEF Retained, ToSet
    <3> QED
      BY <1>1, <2>1, <3>1, <3>4
  <2>2. CASE Room /\ order' = Append(order, d)
    <3>1. Len(order) < events.capacity
      BY <2>2 DEF Room
    <3> QED
      BY <1>1, <2>1, <2>2, <3>1 DEF Retained
  <2>3. CASE \E i \in Unpinned : order' = Append(RemoveAt(order, i), d)
    <3>1. PICK i \in Unpinned : order' = Append(RemoveAt(order, i), d)
      BY <2>3
    <3> DEFINE t == RemoveAt(order, i)
    <3>2. i \in DOMAIN order /\ order[i] \notin saving
      BY <1>1 DEF Unpinned
    <3>3. /\ t \in Seq(Download) /\ Len(t) = Len(order) - 1 /\ DOMAIN t = 1 .. Len(order) - 1
          /\ \A j \in DOMAIN t : t[j] = IF j < i THEN order[j] ELSE order[j + 1]
          /\ DOMAIN order = 1 .. Len(order) /\ Len(order) \in Nat
      <4>1. t \in Seq(Download) /\ Len(t) = Len(order) - 1 /\ Drops(order, i, t)
        BY <1>1, <3>2, RemoveAtIs
      <4> QED
        BY <1>1, <4>1, LenProperties DEF Drops
    <3> HIDE DEF t
    <3>4. ToSet(t) \subseteq Retained
      <4> SUFFICES ASSUME NEW j \in DOMAIN t PROVE t[j] \in Retained
        BY DEF ToSet
      <4>1. j \in DOMAIN order /\ j + 1 \in DOMAIN order
        BY <3>3
      <4> QED
        BY <3>3, <4>1 DEF Retained, ToSet
    <3>5. saving \subseteq ToSet(t)
      <4> SUFFICES ASSUME NEW j \in DOMAIN order, order[j] \in saving PROVE order[j] \in ToSet(t)
        BY <1>1 DEF Retained, ToSet
      <4>1. CASE j < i
        <5>1. j \in DOMAIN t /\ t[j] = order[j]
          BY <3>2, <3>3, <4>1
        <5> QED
          BY <5>1 DEF ToSet
      <4>2. CASE i < j
        <5>1. j - 1 \in DOMAIN t /\ ~(j - 1 < i) /\ (j - 1) + 1 = j
          BY <3>2, <3>3, <4>2
        <5>2. t[j - 1] = order[j]
          BY <3>3, <5>1
        <5> QED
          BY <5>1, <5>2 DEF ToSet
      <4> QED
        BY <3>2, <3>3, <4>1, <4>2
    <3>6. Len(t) < events.capacity
      BY <1>1, <3>3
    <3> QED
      BY <2>1, <3>1, <3>3, <3>4, <3>5, <3>6 DEF t
  <2> QED
    BY <2>2, <2>3 DEF Register
<1>8. TypeOK'
  <2>1. status' \in [Download -> Status]
    BY <1>1, <1>2 DEF Status
  <2> QED
    BY <1>2, <1>5, <1>6, <1>7, <2>1 DEF DownloadInv, TypeOK
<1>9. DownloadsAgree'
  BY <1>2, <1>4, <1>5, <1>7 DEF DownloadInv, DownloadsAgree
<1>10. SavingRetained'
  <2>1. \A y \in Retained' : status'[y] = "saving" <=> y \in saving'
    <3> SUFFICES ASSUME NEW y \in Retained' PROVE status'[y] = "saving" <=> y \in saving'
      OBVIOUS
    <3>1. CASE y = d
      BY <1>1, <1>2, <1>3, <3>1
    <3>2. CASE y # d
      <4>1. y \in Retained
        BY <1>7, <3>2
      <4> QED
        BY <1>1, <1>2, <3>2, <4>1 DEF DownloadInv, SavingRetained
    <3> QED
      BY <3>1, <3>2
  <2> QED
    BY <1>1, <1>2, <1>5, <1>7, <2>1 DEF SavingRetained
<1>11. EvidenceTruthful'
  <2> SUFFICES ASSUME NEW e \in Listed', e.item.download \in Retained'
               PROVE  /\ e.item.status = status'[e.item.download]
                      /\ e.item.failure <=> status'[e.item.download] = "failed"
    BY DEF EvidenceTruthful
  <2>1. CASE e \in Listed
    <3>1. e.item.download # d /\ e.item.download \in Retained
      BY <1>3, <1>7, <2>1
    <3> QED
      BY <1>1, <1>2, <2>1, <3>1 DEF DownloadInv, EvidenceTruthful
  <2>2. CASE e = x
    BY <1>1, <1>2, <1>4, <2>2
  <2> QED
    BY <1>5, <2>1, <2>2
<1> QED
  BY <1>6, <1>8, <1>9, <1>10, <1>11 DEF DownloadInv

\* A download that finds every handle pinned is only counted.
LEMMA RefusedInv ==
  ASSUME DownloadInv, NEW d \in Download, RegisterRefused(d)
  PROVE  DownloadInv'
<1>1. /\ IsBuffer(events, Entry) /\ events' = [events EXCEPT !.dropped = @ + 1]
      /\ emitted' = emitted \cup {d}
      /\ order' = order /\ status' = status /\ pinned' = pinned /\ eventOf' = eventOf /\ saving' = saving
  BY InvIs DEF RegisterRefused
<1>2. /\ events'.capacity = events.capacity /\ events'.entries = events.entries
      /\ events'.sequence = events.sequence /\ events'.lastEvicted = events.lastEvicted
      /\ events' \in [capacity : Capacity, entries : Seq(Entry), sequence : Nat,
                     lastEvicted : Nat, dropped : Nat]
  BY <1>1 DEF IsBuffer
<1>3. Listed' = Listed /\ Retained' = Retained
  BY <1>1, <1>2 DEF Listed, Records, Retained
<1>4. IsBuffer(events', Entry)
  BY <1>1, <1>2, <1>3 DEF IsBuffer, Listed
<1>5. TypeOK' /\ DownloadsAgree'
  BY <1>1, <1>3, <1>4 DEF DownloadInv, TypeOK, DownloadsAgree
<1>6. EvidenceIndexed' /\ EvidenceTruthful' /\ SavingRetained'
  BY <1>1, <1>2, <1>3 DEF DownloadInv, EvidenceIndexed, EvidenceTruthful, SavingRetained
<1> QED
  BY <1>5, <1>6 DEF DownloadInv

LEMMA ClearInv ==
  ASSUME DownloadInv, Clear
  PROVE  DownloadInv'
<1>1. /\ saving = {} /\ order' = <<>> /\ emitted' = Download
      /\ UNCHANGED <<status, pinned, events, eventOf, saving>>
  BY DEF Clear
<1>2. order' \in Seq(Download) /\ Len(order') = 0 /\ Retained' = {}
  BY <1>1, EmptySeq DEF Retained, ToSet
<1>3. events.capacity \in Nat /\ pinned = saving /\ \A e \in Listed : e.item.download \in Download
  BY InvIs
<1>4. Listed' = Listed
  BY <1>1 DEF Listed
<1>5. TypeOK' /\ DownloadsAgree'
  BY <1>1, <1>2, <1>3, <1>4 DEF DownloadInv, TypeOK, DownloadsAgree
<1>6. EvidenceIndexed' /\ EvidenceTruthful' /\ SavingRetained'
  BY <1>1, <1>2, <1>3, <1>4 DEF DownloadInv, EvidenceIndexed, EvidenceTruthful, SavingRetained
<1> QED
  BY <1>5, <1>6 DEF DownloadInv

LEMMA InitInv == Init => DownloadInv
<1> SUFFICES ASSUME Init PROVE DownloadInv
  OBVIOUS
<1>1. PICK c \in Capacity : events = EmptyBuffer(c)
  BY DEF Init
<1>2. /\ events.capacity = c /\ events.entries = <<>> /\ events.sequence = 0
      /\ events.lastEvicted = 0 /\ c \in Nat \ {0}
      /\ events \in [capacity : Capacity, entries : Seq(Entry), sequence : Nat,
                      lastEvicted : Nat, dropped : Nat]
  BY <1>1, CapacityAssumption, EmptySeq DEF EmptyBuffer
<1>3. Listed = {} /\ Len(events.entries) = 0 /\ DOMAIN events.entries = {}
  BY <1>2, EmptySeq DEF Listed, Records, ToSet
<1>4. IsBuffer(events, Entry)
  BY <1>2, <1>3 DEF IsBuffer, Listed
<1>5. order = <<>> /\ order \in Seq(Download) /\ Len(order) = 0 /\ Retained = {}
  BY EmptySeq DEF Init, Retained, ToSet
<1>6. TypeOK
  BY <1>4, <1>5 DEF Init, TypeOK, Status
<1>7. EvidenceIndexed /\ DownloadsAgree
  BY <1>3, <1>5 DEF Init, EvidenceIndexed, DownloadsAgree
<1>8. SavingRetained /\ EvidenceTruthful
  BY <1>2, <1>3, <1>5 DEF Init, SavingRetained, EvidenceTruthful
<1> QED
  BY <1>6, <1>7, <1>8 DEF DownloadInv

LEMMA NextInv ==
  ASSUME DownloadInv, [Next]_vars
  PROVE  DownloadInv'
<1>1. CASE UNCHANGED vars
  BY <1>1 DEF vars, DownloadInv, TypeOK, EvidenceIndexed, DownloadsAgree, SavingRetained,
              EvidenceTruthful, Listed, Retained
<1> QED
  BY <1>1, RegisterInv, RefusedInv, PinInv, FinishInv, CancelSaveInv, ClearInv DEF Next

-----------------------------------------------------------------------------
(* The theorems *)

\* The tables of DownloadRegistry stay consistent: handles, pins, evidence and
\* the references update() relies on agree in every state.
THEOREM DownloadInvariant == Spec => []DownloadInv
<1> QED
  BY InitInv, NextInv, PTL DEF Spec

\* A handle that is being saved is not evicted, and no save leaves its record
\* in "saving" (pin, finish and unpin).
THEOREM SavingIsRetained == Spec => []SavingRetained
<1>1. DownloadInv => SavingRetained
  BY DEF DownloadInv
<1> QED
  BY <1>1, DownloadInvariant, PTL

\* The listed status and failure of a retained download are those of its record
\* (_update_event).
THEOREM EvidenceIsTruthful == Spec => []EvidenceTruthful
<1>1. DownloadInv => EvidenceTruthful
  BY DEF DownloadInv
<1> QED
  BY <1>1, DownloadInvariant, PTL
=============================================================================
