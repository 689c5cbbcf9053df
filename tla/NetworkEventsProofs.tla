-------------------------- MODULE NetworkEventsProofs --------------------------
(***************************************************************************)
(* Proofs about NetworkEvents, for any ids, readers, filters and page      *)
(* sizes and a buffer of any capacity: the index keeps leading to the      *)
(* newest request of an id, and no reader misses an entry unannounced.     *)
(***************************************************************************)
EXTENDS NetworkEvents, SequenceTheorems, FiniteSetTheorems, NaturalsInduction,
        WellFoundedInduction, TLAPS

-----------------------------------------------------------------------------
(* The buffer *)

Stamped(E) == \A e \in E : e.seq \in Nat

\* t is s without its n-th entry.
Drops(s, n, t) ==
  /\ Len(t) = Len(s) - 1
  /\ \A i \in 1 .. Len(t) : t[i] = IF i < n THEN s[i] ELSE s[i + 1]

LEMMA RemoveAtIs ==
  ASSUME NEW E, NEW s \in Seq(E), NEW n \in DOMAIN s
  PROVE  LET t == RemoveAt(s, n) IN
         t \in Seq(E) /\ Len(t) = Len(s) - 1 /\ Drops(s, n, t)
<1> DEFINE t == RemoveAt(s, n)
           a == SubSeq(s, 1, n - 1)
           b == SubSeq(s, n + 1, Len(s))
<1>1. DOMAIN s = 1 .. Len(s) /\ Len(s) \in Nat /\ n \in 1 .. Len(s)
      /\ \A i \in 1 .. Len(s) : s[i] \in E
  BY LenProperties, ElementOfSeq
<1>2. a \in Seq(E) /\ Len(a) = n - 1 /\ \A i \in 1 .. n - 1 : a[i] = s[i]
  <2>1. \A i \in 1 .. n - 1 : s[i] \in E
    BY <1>1
  <2>2. /\ a \in Seq(E)
        /\ Len(a) = IF 1 <= n - 1 THEN n - 1 - 1 + 1 ELSE 0
        /\ \A i \in 1 .. n - 1 - 1 + 1 : a[i] = s[1 + i - 1]
    BY <1>1, <2>1, SubSeqProperties
  <2> QED
    BY <1>1, <2>2
<1>3. b \in Seq(E) /\ Len(b) = Len(s) - n /\ \A i \in 1 .. Len(s) - n : b[i] = s[n + i]
  <2>1. \A i \in n + 1 .. Len(s) : s[i] \in E
    BY <1>1
  <2>2. /\ b \in Seq(E)
        /\ Len(b) = IF n + 1 <= Len(s) THEN Len(s) - (n + 1) + 1 ELSE 0
        /\ \A i \in 1 .. Len(s) - (n + 1) + 1 : b[i] = s[n + 1 + i - 1]
    BY <1>1, <2>1, SubSeqProperties
  <2> HIDE DEF b
  <2>3. Len(b) = Len(s) - n /\ Len(s) - (n + 1) + 1 = Len(s) - n
    BY <1>1, <2>2
  <2>4. ASSUME NEW i \in 1 .. Len(s) - n PROVE b[i] = s[n + i]
    <3>1. n + 1 + i - 1 = n + i
      BY <1>1
    <3> QED
      BY <2>2, <2>3, <3>1
  <2> QED
    BY <2>2, <2>3, <2>4
<1> HIDE DEF a, b
<1>4. /\ t = a \o b /\ a \o b \in Seq(E) /\ Len(a \o b) = Len(a) + Len(b)
      /\ \A i \in 1 .. Len(a) + Len(b) :
           (a \o b)[i] = IF i <= Len(a) THEN a[i] ELSE b[i - Len(a)]
  BY <1>2, <1>3, ConcatProperties DEF RemoveAt, a, b
<1> HIDE DEF t
<1>5. Len(t) = Len(s) - 1 /\ DOMAIN t = 1 .. Len(s) - 1
  <2>1. Len(t) = Len(a) + Len(b) /\ DOMAIN t = 1 .. Len(a) + Len(b)
    BY <1>4, LenProperties
  <2> QED
    BY <1>1, <1>2, <1>3, <2>1
<1>6. ASSUME NEW i \in DOMAIN t PROVE t[i] = IF i < n THEN s[i] ELSE s[i + 1]
  <2>0. i \in 1 .. Len(a) + Len(b) /\ Len(a) = n - 1
    BY <1>1, <1>2, <1>3, <1>5
  <2>1. CASE i < n
    BY <1>1, <1>2, <1>4, <2>0, <2>1
  <2>2. CASE ~(i < n)
    <3>1. t[i] = b[i - (n - 1)]
      BY <1>1, <1>4, <2>0, <2>2
    <3>2. i - (n - 1) \in 1 .. Len(s) - n /\ n + (i - (n - 1)) = i + 1
      BY <1>1, <1>5, <2>2
    <3> QED
      BY <1>3, <2>2, <3>1, <3>2
  <2> QED
    BY <2>1, <2>2
<1> QED
  BY <1>4, <1>5, <1>6 DEF t, Drops

Increasing(s) == \A i, j \in DOMAIN s : i < j => s[i].seq < s[j].seq

LEMMA BufferIs ==
  ASSUME NEW E, NEW b, IsBuffer(b, E)
  PROVE  /\ b.capacity \in Nat \ {0} /\ b.capacity \in Capacity
         /\ b.entries \in Seq(E) /\ Increasing(b.entries) /\ Len(b.entries) <= b.capacity
         /\ b.sequence \in Nat /\ b.lastEvicted \in Nat /\ b.dropped \in Nat
         /\ \A e \in Records(b) : e \in E /\ b.lastEvicted < e.seq /\ e.seq <= b.sequence
<1>1. /\ b.capacity \in Capacity /\ b.entries \in Seq(E)
      /\ b.sequence \in Nat /\ b.lastEvicted \in Nat /\ b.dropped \in Nat
  BY DEF IsBuffer
<1>2. \A i \in DOMAIN b.entries : b.entries[i] \in E
  BY <1>1, ElementOfSeq, LenProperties
<1> QED
  BY <1>1, <1>2, CapacityAssumption DEF IsBuffer, Increasing, Records, ToSet

\* What is left when one entry goes, whichever it is.
LEMMA RemovedIs ==
  ASSUME NEW E, Stamped(E), NEW s \in Seq(E), Increasing(s), NEW n \in DOMAIN s,
         NEW t \in Seq(E), Drops(s, n, t)
  PROVE  /\ Increasing(t)
         /\ ToSet(t) = ToSet(s) \ {s[n]}
<1> DEFINE from(i) == IF i < n THEN i ELSE i + 1
<1>1. /\ DOMAIN t = 1 .. Len(s) - 1
      /\ \A i \in DOMAIN t : t[i] = IF i < n THEN s[i] ELSE s[i + 1]
  BY LenProperties DEF Drops
<1>2. DOMAIN s = 1 .. Len(s) /\ Len(s) \in Nat /\ \A i \in DOMAIN s : s[i] \in E
  BY LenProperties, ElementOfSeq
<1>3. \A i \in DOMAIN t : from(i) \in DOMAIN s /\ from(i) # n /\ t[i] = s[from(i)]
  BY <1>1, <1>2
<1>4. \A i, j \in DOMAIN t : i < j => from(i) < from(j)
  BY <1>1, <1>2
<1>5. ASSUME NEW i \in DOMAIN s, i # n PROVE \E j \in DOMAIN t : t[j] = s[i]
  <2>1. CASE i < n
    BY <1>1, <1>2, <2>1
  <2>2. CASE n < i
    <3>1. i - 1 \in DOMAIN t /\ ~(i - 1 < n) /\ (i - 1) + 1 = i
      BY <1>1, <1>2, <2>2
    <3> QED
      BY <1>1, <3>1
  <2> QED
    BY <1>2, <1>5, <2>1, <2>2
<1> HIDE DEF from
<1>6. Increasing(t)
  BY <1>3, <1>4 DEF Increasing
<1>7. \A i \in DOMAIN s : i # n => s[i] # s[n]
  <2> SUFFICES ASSUME NEW i \in DOMAIN s, i # n PROVE s[i].seq # s[n].seq
    OBVIOUS
  <2>1. s[i].seq \in Nat /\ s[n].seq \in Nat
    BY <1>2 DEF Stamped
  <2>2. i < n \/ n < i
    BY <1>2
  <2> QED
    BY <2>1, <2>2 DEF Increasing
<1>8. ToSet(t) = ToSet(s) \ {s[n]}
  <2>1. ASSUME NEW i \in DOMAIN t PROVE t[i] \in ToSet(s) \ {s[n]}
    <3>1. from(i) \in DOMAIN s /\ from(i) # n /\ t[i] = s[from(i)]
      BY <1>3
    <3> QED
      BY <1>7, <3>1 DEF ToSet
  <2>2. ASSUME NEW i \in DOMAIN s, s[i] # s[n] PROVE s[i] \in ToSet(t)
    <3>1. PICK j \in DOMAIN t : t[j] = s[i]
      BY <1>5, <2>2
    <3> QED
      BY <3>1 DEF ToSet
  <2> QED
    BY <2>1, <2>2 DEF ToSet
<1> QED
  BY <1>6, <1>8

\* A newer entry comes to the end.
LEMMA AppendIs ==
  ASSUME NEW E, NEW s \in Seq(E), Increasing(s), NEW x \in E,
         \A i \in DOMAIN s : s[i].seq < x.seq
  PROVE  LET t == Append(s, x) IN
         /\ t \in Seq(E) /\ Len(t) = Len(s) + 1 /\ Increasing(t) /\ t[Len(t)] = x
         /\ ToSet(t) = ToSet(s) \cup {x}
<1> DEFINE t == Append(s, x)
<1>1. /\ DOMAIN s = 1 .. Len(s) /\ Len(s) \in Nat
      /\ t \in Seq(E) /\ Len(t) = Len(s) + 1
      /\ \A i \in 1 .. Len(s) : t[i] = s[i]
      /\ t[Len(s) + 1] = x
  BY LenProperties, AppendProperties
<1>2. DOMAIN t = 1 .. Len(s) + 1
  BY <1>1, LenProperties
<1> HIDE DEF t
<1>3. \A i \in DOMAIN t : i \in DOMAIN s \/ i = Len(s) + 1
  BY <1>1, <1>2
<1>4. DOMAIN s \subseteq DOMAIN t /\ Len(s) + 1 \in DOMAIN t
  BY <1>1, <1>2
<1>5. \A i, j \in DOMAIN t : i < j => i \in DOMAIN s
  BY <1>1, <1>2
<1>6. Increasing(t)
  BY <1>1, <1>3, <1>5 DEF Increasing
<1>7. ToSet(t) = ToSet(s) \cup {x}
  BY <1>1, <1>3, <1>4 DEF ToSet
<1> QED
  BY <1>1, <1>6, <1>7 DEF t

\* append(): the oldest entry of a full buffer gives way to the newest.
LEMMA AppendedIs ==
  ASSUME NEW E, Stamped(E), NEW b, IsBuffer(b, E), NEW item,
         [seq |-> b.sequence + 1, item |-> item] \in E
  PROVE  LET n == Appended(b, item)
             x == [seq |-> b.sequence + 1, item |-> item]
             oldest == Head(b.entries) IN
         /\ IsBuffer(n, E) /\ Newest(n) = x
         /\ n.capacity = b.capacity /\ n.sequence = b.sequence + 1
         /\ ~Full(b) => Records(n) = Records(b) \cup {x} /\ n.lastEvicted = b.lastEvicted
         /\ Full(b) => /\ oldest \in Records(b)
                       /\ \A e \in Records(b) : e # oldest => oldest.seq < e.seq
                       /\ Records(n) = (Records(b) \ {oldest}) \cup {x}
                       /\ n.lastEvicted = oldest.seq
<1> DEFINE n == Appended(b, item)
           x == [seq |-> b.sequence + 1, item |-> item]
           s == b.entries
           t == IF Full(b) THEN Tail(s) ELSE s
           gone == IF Full(b) THEN {Head(s)} ELSE {}
<1>1. /\ b.capacity \in Nat \ {0} /\ b.capacity \in Capacity
      /\ s \in Seq(E) /\ Increasing(s) /\ Len(s) <= b.capacity
      /\ b.sequence \in Nat /\ b.lastEvicted \in Nat /\ b.dropped \in Nat
      /\ \A e \in Records(b) : e \in E /\ b.lastEvicted < e.seq /\ e.seq <= b.sequence
  BY BufferIs
<1>2. DOMAIN s = 1 .. Len(s) /\ Len(s) \in Nat /\ \A i \in DOMAIN s : s[i] \in Records(b)
  BY <1>1, LenProperties DEF Records, ToSet
<1>3. Full(b) => /\ Head(s) \in Records(b) /\ \A e \in Records(b) : Head(s).seq <= e.seq
                 /\ \A e \in Records(b) : e # Head(s) => Head(s).seq < e.seq
  <2> SUFFICES ASSUME Full(b)
               PROVE  /\ Head(s) \in Records(b) /\ \A e \in Records(b) : Head(s).seq <= e.seq
                      /\ \A e \in Records(b) : e # Head(s) => Head(s).seq < e.seq
    OBVIOUS
  <2>1. 1 \in DOMAIN s /\ Head(s) = s[1]
    BY <1>1, <1>2 DEF Full
  <2>2. \A i \in DOMAIN s : i = 1 \/ 1 < i
    BY <1>2
  <2>3. ASSUME NEW i \in DOMAIN s PROVE s[1].seq <= s[i].seq /\ (s[i] # s[1] => s[1].seq < s[i].seq)
    <3>1. s[1].seq \in Nat /\ s[i].seq \in Nat
      BY <1>1, <1>2, <2>1 DEF Stamped
    <3> QED
      BY <1>1, <2>1, <2>2, <3>1 DEF Increasing
  <2> QED
    BY <1>2, <2>1, <2>3 DEF Records, ToSet
<1>4. /\ t \in Seq(E) /\ Len(t) < b.capacity /\ Increasing(t)
      /\ ToSet(t) = Records(b) \ gone
  <2>1. CASE Full(b)
    <3>1. 1 \in DOMAIN s /\ s # <<>> /\ Head(s) = s[1]
      BY <1>1, <1>2, <2>1 DEF Full
    <3>2. /\ Tail(s) \in Seq(E) /\ Len(Tail(s)) = Len(s) - 1
          /\ \A i \in 1 .. Len(Tail(s)) : Tail(s)[i] = s[i + 1]
      BY <1>1, <3>1, HeadTailProperties
    <3>3. \A i \in 1 .. Len(Tail(s)) : ~(i < 1)
      OBVIOUS
    <3>4. \A i \in 1 .. Len(Tail(s)) : Tail(s)[i] = IF i < 1 THEN s[i] ELSE s[i + 1]
      BY <3>2, <3>3
    <3>5. /\ Increasing(Tail(s))
          /\ ToSet(Tail(s)) = ToSet(s) \ {s[1]}
      <4> DEFINE l == Tail(s)
      <4>1. l \in Seq(E) /\ Drops(s, 1, l)
        BY <3>2, <3>4 DEF Drops
      <4> HIDE DEF l, s
      <4>2. Increasing(l) /\ ToSet(l) = ToSet(s) \ {s[1]}
        BY <1>1, <3>1, <4>1, RemovedIs
      <4> QED
        BY <4>2 DEF l, s
    <3> QED
      BY <1>1, <1>2, <2>1, <3>1, <3>2, <3>5 DEF Records
  <2>2. CASE ~Full(b)
    BY <1>1, <1>2, <2>2 DEF Full, Records
  <2> QED
    BY <2>1, <2>2
<1> HIDE DEF t, gone, x
<1>5. x \in E /\ x.seq = b.sequence + 1 /\ x.item = item
  BY DEF x
<1>6. \A i \in DOMAIN t : t[i].seq < x.seq
  <2> SUFFICES ASSUME NEW i \in DOMAIN t PROVE t[i].seq < x.seq
    OBVIOUS
  <2>1. t[i] \in Records(b)
    BY <1>4 DEF ToSet
  <2>2. t[i].seq \in Nat
    BY <1>1, <2>1 DEF Stamped
  <2> QED
    BY <1>1, <1>5, <2>1, <2>2
<1> DEFINE u == Append(t, x)
<1>7. /\ u \in Seq(E) /\ Len(u) = Len(t) + 1 /\ Increasing(u) /\ u[Len(u)] = x
      /\ ToSet(u) = (Records(b) \ gone) \cup {x}
  BY <1>4, <1>5, <1>6, AppendIs
<1> HIDE DEF u
<1>8. n = [capacity |-> b.capacity, entries |-> u, sequence |-> b.sequence + 1,
           lastEvicted |-> IF Full(b) THEN Head(s).seq ELSE b.lastEvicted,
           dropped |-> IF Full(b) THEN b.dropped + 1 ELSE b.dropped]
  <2>1. CASE Full(b)
    BY <2>1 DEF Appended, EvictionMark, t, u, x
  <2>2. CASE ~Full(b)
    <3>1. b = [capacity |-> b.capacity, entries |-> s, sequence |-> b.sequence,
               lastEvicted |-> b.lastEvicted, dropped |-> b.dropped]
      BY DEF IsBuffer
    <3>2. n = [b EXCEPT !.entries = u, !.sequence = b.sequence + 1]
      BY <2>2 DEF Appended, t, u, x
    <3> QED
      BY <2>2, <3>1, <3>2
  <2> QED
    BY <2>1, <2>2
<1> HIDE DEF n
<1>9. /\ n.capacity = b.capacity /\ n.entries = u /\ n.sequence = b.sequence + 1
      /\ n.lastEvicted = IF Full(b) THEN Head(s).seq ELSE b.lastEvicted
      /\ Records(n) = (Records(b) \ gone) \cup {x} /\ Newest(n) = x
  BY <1>7, <1>8 DEF Records, Newest
<1>10. Head(s).seq \in Nat \/ ~Full(b)
  BY <1>1, <1>3 DEF Stamped
<1>11. IsBuffer(n, E)
  <2> DEFINE mark == IF Full(b) THEN Head(s).seq ELSE b.lastEvicted
             count == IF Full(b) THEN b.dropped + 1 ELSE b.dropped
  <2>0. /\ b.capacity \in Capacity /\ b.sequence \in Nat /\ b.sequence + 1 \in Nat
        /\ b.lastEvicted \in Nat /\ b.dropped \in Nat
    BY DEF IsBuffer
  <2>1a. mark \in Nat
    BY <1>10, <2>0
  <2>1b. count \in Nat
    BY <2>0
  <2>1c. n = [capacity |-> b.capacity, entries |-> u, sequence |-> b.sequence + 1,
              lastEvicted |-> mark, dropped |-> count]
    BY <1>8
  <2> HIDE DEF mark, count
  <2>1. n \in [capacity : Capacity, entries : Seq(E), sequence : Nat, lastEvicted : Nat, dropped : Nat]
    BY <1>7, <2>0, <2>1a, <2>1b, <2>1c
  <2> USE DEF mark, count
  <2>2. Len(n.entries) <= n.capacity /\ n.lastEvicted <= b.sequence
    <3>1. Len(n.entries) <= n.capacity
      BY <1>1, <1>4, <1>7, <1>9, LenProperties
    <3>2. b.lastEvicted <= b.sequence
      BY DEF IsBuffer
    <3>3. CASE Full(b)
      BY <1>1, <1>3, <1>9, <3>1, <3>3
    <3>4. CASE ~Full(b)
      BY <1>9, <3>1, <3>2, <3>4
    <3> QED
      BY <3>3, <3>4
  <2>3. ASSUME NEW e \in Records(n) PROVE n.lastEvicted < e.seq /\ e.seq <= n.sequence
    <3>1. CASE e = x
      <4>1. n.lastEvicted \in Nat /\ n.lastEvicted <= b.sequence
        BY <2>1, <2>2
      <4>2. e.seq = b.sequence + 1 /\ n.sequence = b.sequence + 1
        BY <1>5, <1>9, <3>1
      <4> QED
        BY <2>0, <4>1, <4>2
    <3>2. CASE e \in Records(b) \ gone
      <4>1. e.seq \in Nat /\ b.lastEvicted < e.seq /\ e.seq <= b.sequence
        BY <1>1, <3>2 DEF Stamped
      <4>2. Full(b) => Head(s).seq < e.seq
        BY <1>3, <3>2 DEF gone
      <4> QED
        BY <1>1, <1>9, <4>1, <4>2
    <3> QED
      BY <1>9, <3>1, <3>2
  <2> QED
    <3>1. \A i, j \in DOMAIN n.entries : i < j => n.entries[i].seq < n.entries[j].seq
      BY <1>7, <1>9 DEF Increasing
    <3>2. n.lastEvicted <= n.sequence
      BY <1>1, <1>9, <2>1, <2>2
    <3> QED
      BY <2>1, <2>2, <2>3, <3>1, <3>2 DEF IsBuffer
<1> QED
  BY <1>3, <1>9, <1>11 DEF n, x, gone

\* update(): an entry comes back as the newest, and nothing is evicted.
LEMMA UpdatedIs ==
  ASSUME NEW E, Stamped(E), NEW b, IsBuffer(b, E), NEW item,
         [seq |-> b.sequence + 1, item |-> item] \in E, NEW old \in Records(b)
  PROVE  LET n == Updated(b, old, item)
             x == [seq |-> b.sequence + 1, item |-> item] IN
         /\ IsBuffer(n, E) /\ Newest(n) = x
         /\ n.capacity = b.capacity /\ n.sequence = b.sequence + 1
         /\ n.lastEvicted = b.lastEvicted
         /\ Records(n) = (Records(b) \ {old}) \cup {x}
<1> DEFINE s == b.entries
           p == PlaceOf(b, old)
           t == RemoveAt(s, p)
           c == [b EXCEPT !.entries = t]
<1>1. /\ b.capacity \in Nat \ {0} /\ b.capacity \in Capacity
      /\ s \in Seq(E) /\ Increasing(s) /\ Len(s) <= b.capacity
      /\ b.sequence \in Nat /\ b.lastEvicted \in Nat /\ b.dropped \in Nat
      /\ \A e \in Records(b) : e \in E /\ b.lastEvicted < e.seq /\ e.seq <= b.sequence
  BY BufferIs
<1>2. p \in DOMAIN s /\ s[p] = old
  BY DEF PlaceOf, Records, ToSet
<1> HIDE DEF p, s
<1>3. t \in Seq(E) /\ Len(t) = Len(s) - 1 /\ Drops(s, p, t)
  BY <1>1, <1>2, RemoveAtIs
<1> HIDE DEF t
<1>4. Increasing(t) /\ ToSet(t) = Records(b) \ {old}
  <2>1. Records(b) = ToSet(s)
    BY DEF Records, s
  <2> QED
    BY <1>1, <1>2, <1>3, <2>1, RemovedIs
<1>5. /\ c = [capacity |-> b.capacity, entries |-> t, sequence |-> b.sequence,
              lastEvicted |-> b.lastEvicted, dropped |-> b.dropped]
      /\ Updated(b, old, item) = Appended(c, item)
  <2>1. b = [capacity |-> b.capacity, entries |-> s, sequence |-> b.sequence,
             lastEvicted |-> b.lastEvicted, dropped |-> b.dropped]
    BY DEF IsBuffer, s
  <2>2. c = [capacity |-> b.capacity, entries |-> t, sequence |-> b.sequence,
             lastEvicted |-> b.lastEvicted, dropped |-> b.dropped]
    BY <2>1
  <2> QED
    BY <2>2 DEF Updated, t, p, s
<1> HIDE DEF c
<1>6. /\ c.capacity = b.capacity /\ c.sequence = b.sequence /\ c.lastEvicted = b.lastEvicted
      /\ c.entries = t /\ Records(c) = Records(b) \ {old}
  BY <1>4, <1>5 DEF Records
<1>7. Len(s) \in Nat /\ Len(t) \in Nat
  BY <1>1, <1>3, LenProperties
<1>8. IsBuffer(c, E)
  <2>1. c \in [capacity : Capacity, entries : Seq(E), sequence : Nat, lastEvicted : Nat, dropped : Nat]
    BY <1>1, <1>3, <1>5
  <2>2. Len(c.entries) <= c.capacity /\ c.lastEvicted <= c.sequence
    <3>1. b.lastEvicted <= b.sequence
      BY DEF IsBuffer
    <3> QED
      BY <1>1, <1>3, <1>6, <1>7, <3>1
  <2> QED
    BY <1>1, <1>4, <1>6, <2>1, <2>2 DEF IsBuffer, Increasing
<1>9. ~Full(c)
  BY <1>1, <1>3, <1>6, <1>7 DEF Full
<1>10. [seq |-> c.sequence + 1, item |-> item] \in E
  BY <1>6
<1> QED
  BY <1>5, <1>6, <1>8, <1>9, <1>10, AppendedIs

-----------------------------------------------------------------------------
(* Reading a page *)

LEMMA SmallestOf ==
  ASSUME NEW S \in SUBSET Nat, S # {}
  PROVE  \E n \in S : \A m \in S : n <= m
<1>1. PICK n \in S : \A m \in S : ~(<<m, n>> \in OpToRel(<, Nat))
  BY WFMin, NatLessThanWellFounded
<1>2. \A m \in S : <<m, n>> \in Nat \X Nat
  OBVIOUS
<1>3. \A m \in S : ~(m < n)
  BY <1>1, <1>2 DEF OpToRel
<1> QED
  BY <1>3

LEMMA LargestOf ==
  ASSUME NEW k \in Nat, NEW S \in SUBSET (1 .. k), S # {}
  PROVE  Max(S) \in S /\ \A m \in S : m <= Max(S)
<1> DEFINE T == {n \in Nat : \E m \in S : n = k - m}
<1>1. PICK n \in T : \A m \in T : n <= m
  <2>1. PICK m \in S : TRUE
    OBVIOUS
  <2>2. k - m \in Nat /\ k - m \in T
    OBVIOUS
  <2>3. T # {} /\ T \in SUBSET Nat
    BY <2>2
  <2> HIDE DEF T
  <2> QED
    BY <2>3, SmallestOf
<1>2. PICK i \in S : n = k - i
  BY <1>1
<1>3. \A m \in S : m <= i
  <2> SUFFICES ASSUME NEW m \in S PROVE m <= i
    OBVIOUS
  <2>1. k - m \in T
    OBVIOUS
  <2> QED
    BY <1>1, <1>2, <2>1
<1>4. \E x \in S : \A y \in S : x >= y
  BY <1>3
<1>5. Max(S) \in S /\ \A y \in S : Max(S) >= y
  BY <1>4 DEF Max
<1> QED
  BY <1>5

\* page(): between its cursors a page leaves nothing out that the client wants.
LEMMA PageIs ==
  ASSUME NEW E, Stamped(E), NEW b, IsBuffer(b, E),
         NEW after \in Nat, after <= b.sequence, NEW limit \in Nat \ {0}, NEW wanted
  PROVE  LET page == PageAfter(b, after, limit, wanted) IN
         /\ page.cursor \in Nat /\ after <= page.cursor /\ page.cursor <= b.sequence
         /\ page.items \subseteq Records(b)
         /\ \A e \in Records(b) :
              e.item \in wanted /\ after < e.seq /\ e.seq <= page.cursor => e \in page.items
         /\ page.lost = (after < b.lastEvicted)
<1> DEFINE page == PageAfter(b, after, limit, wanted)
           s == b.entries
           matches == {i \in DOMAIN s : s[i].seq > after /\ s[i].item \in wanted}
           upTo(i) == {j \in matches : j <= i}
           selected == {i \in matches : Cardinality(upTo(i)) <= limit}
           more == Cardinality(matches) > limit
<1>1. /\ s \in Seq(E) /\ Increasing(s) /\ b.sequence \in Nat
      /\ DOMAIN s = 1 .. Len(s) /\ Len(s) \in Nat
      /\ \A e \in Records(b) : e \in E /\ e.seq <= b.sequence
  BY BufferIs, LenProperties
<1>2. /\ page.items = {s[i] : i \in selected}
      /\ page.cursor = IF more THEN s[Max(selected)].seq ELSE b.sequence
      /\ page.lost = (after < b.lastEvicted)
  BY DEF PageAfter, NextCursor
<1>3. \A i \in DOMAIN s : s[i] \in Records(b) /\ s[i].seq \in Nat
  BY <1>1 DEF Records, ToSet, Stamped
<1> HIDE DEF page
<1>4. /\ IsFiniteSet(matches) /\ matches \subseteq 1 .. Len(s)
      /\ \A i \in matches : IsFiniteSet(upTo(i)) /\ upTo(i) \subseteq matches
  <2>0. IsFiniteSet(1 .. Len(s))
    BY <1>1, FS_Interval
  <2>1. IsFiniteSet(1 .. Len(s)) /\ matches \subseteq 1 .. Len(s)
    BY <1>1, <2>0
  <2>2. IsFiniteSet(matches)
    BY <2>1, FS_Subset
  <2> HIDE DEF matches
  <2> QED
    BY <2>1, <2>2, FS_Subset
<1>5. page.items \subseteq Records(b)
  BY <1>2, <1>3
<1>6. CASE ~more
  <2>1. ASSUME NEW i \in matches PROVE i \in selected
    <3>1. /\ Cardinality(upTo(i)) \in Nat /\ Cardinality(matches) \in Nat
          /\ Cardinality(upTo(i)) <= Cardinality(matches)
      BY <1>4, FS_Subset, FS_CardinalityType
    <3> HIDE DEF matches, upTo
    <3> QED
      BY <1>6, <2>1, <3>1
  <2>2. \A e \in Records(b) : e.item \in wanted /\ after < e.seq => e \in page.items
    <3> SUFFICES ASSUME NEW i \in DOMAIN s, s[i].item \in wanted, after < s[i].seq
                 PROVE  s[i] \in page.items
      BY DEF Records, ToSet
    <3>1. i \in matches
      BY <1>3
    <3> QED
      BY <1>2, <2>1, <3>1
  <2>3. page.cursor = b.sequence
    BY <1>2, <1>6
  <2> HIDE DEF more, selected, matches
  <2> QED
    BY <1>1, <1>2, <1>5, <2>2, <2>3 DEF page
<1>7. CASE more
  <2>1. matches # {}
    <3>1. Cardinality({}) = 0 /\ ~(0 > limit)
      BY FS_EmptySet
    <3> HIDE DEF matches
    <3> QED
      BY <1>7, <3>1
  <2>2. PICK f \in matches : \A j \in matches : f <= j
    <3>1. matches \in SUBSET Nat
      BY <1>1
    <3> HIDE DEF matches
    <3> QED
      BY <2>1, <3>1, SmallestOf
  <2>3. f \in selected
    <3>1. upTo(f) = {f}
      BY <1>1, <2>2
    <3>2. Cardinality(upTo(f)) = 1
      BY <3>1, FS_Singleton
    <3> HIDE DEF matches, upTo
    <3> QED
      BY <2>2, <3>2
  <2> DEFINE l == Max(selected)
  <2>4. l \in selected /\ \A i \in selected : i <= l
    <3>1. selected \in SUBSET (1 .. Len(s)) /\ selected # {}
      BY <1>4, <2>3
    <3> HIDE DEF selected
    <3> QED
      BY <1>1, <3>1, LargestOf
  <2>5. /\ page.cursor = s[l].seq /\ l \in matches /\ Cardinality(upTo(l)) <= limit
        /\ s[l].seq \in Nat /\ after < s[l].seq /\ s[l].seq <= b.sequence
    BY <1>1, <1>2, <1>3, <1>7, <2>4
  <2> HIDE DEF l
  <2>6. ASSUME NEW i \in DOMAIN s, s[i].item \in wanted, after < s[i].seq, s[i].seq <= s[l].seq
        PROVE  s[i] \in page.items
    <3>1. i \in matches
      BY <1>3, <2>6
    <3>2. i <= l
      <4> SUFFICES ASSUME l < i PROVE FALSE
        BY <1>1, <2>5, <3>1
      <4>1. s[l].seq < s[i].seq
        BY <1>1, <2>5 DEF Increasing
      <4> QED
        BY <1>3, <2>5, <2>6, <4>1
    <3>3. upTo(i) \subseteq upTo(l)
      BY <1>1, <2>5, <3>1, <3>2
    <3>4. /\ Cardinality(upTo(i)) \in Nat /\ Cardinality(upTo(l)) \in Nat
          /\ Cardinality(upTo(i)) <= Cardinality(upTo(l))
      <4> HIDE DEF upTo, matches
      <4> QED
        BY <1>4, <2>5, <3>1, <3>3, FS_Subset, FS_CardinalityType
    <3>5. i \in selected
      <4> HIDE DEF upTo, matches
      <4> QED
        BY <2>5, <3>1, <3>4
    <3> QED
      BY <1>2, <3>5
  <2>7. \A e \in Records(b) :
          e.item \in wanted /\ after < e.seq /\ e.seq <= page.cursor => e \in page.items
    BY <2>5, <2>6 DEF Records, ToSet
  <2> HIDE DEF more, selected, matches
  <2> QED
    BY <1>1, <1>2, <1>5, <2>5, <2>7 DEF page
<1> QED
  BY <1>6, <1>7

-----------------------------------------------------------------------------
(* The steps *)

LEMMA EntryStamped == Stamped(Entry)
BY NetworkAssumption DEF Stamped, Entry

LEMMA EntryIs ==
  ASSUME NEW e \in Entry
  PROVE  e.seq \in Nat /\ e.item \in Request /\ e.item.id \in Id /\ e.item.request \in Nat
BY NetworkAssumption DEF Entry, Request

LEMMA InvIs ==
  ASSUME NetworkInv
  PROVE  /\ IsBuffer(network, Entry) /\ network.sequence \in Nat /\ network.sequence <= MaxSequence
         /\ network.lastEvicted \in Nat
         /\ \A e \in Retained : e \in Entry /\ network.lastEvicted < e.seq /\ e.seq <= network.sequence
         /\ \A r \in Reader : cursor[r] \in Nat /\ cursor[r] <= network.sequence
BY BufferIs DEF NetworkInv, TypeOK, Retained

\* The next page of a reader reports a loss exactly when something newer than
\* its cursor was evicted.
LEMMA LossIs ==
  ASSUME NEW c \in Nat, NEW l \in Nat, NEW V, Stamped(V),
         \A e \in V : e.seq <= l, l > 0 => \E e \in V : e.seq = l
  PROVE  c < l <=> \E e \in V : e.seq > c
<1>1. ASSUME c < l PROVE \E e \in V : e.seq > c
  <2>1. PICK e \in V : e.seq = l
    BY <1>1
  <2> QED
    BY <1>1, <2>1
<1>2. ASSUME NEW e \in V, e.seq > c PROVE c < l
  BY <1>2 DEF Stamped
<1> QED
  BY <1>1, <1>2

LEMMA InitInv == Init => NetworkInv
<1> SUFFICES ASSUME Init PROVE NetworkInv
  OBVIOUS
<1>1. PICK c \in Capacity : network = EmptyBuffer(c)
  BY DEF Init
<1>2. /\ network.capacity = c /\ network.entries = <<>> /\ network.sequence = 0
      /\ network.lastEvicted = 0 /\ c \in Nat \ {0}
      /\ network \in [capacity : Capacity, entries : Seq(Entry), sequence : Nat,
                       lastEvicted : Nat, dropped : Nat]
  BY <1>1, CapacityAssumption, EmptySeq DEF EmptyBuffer
<1>3. Retained = {} /\ Len(network.entries) = 0 /\ DOMAIN network.entries = {}
  BY <1>2, EmptySeq DEF Retained, Records, ToSet
<1>4. IsBuffer(network, Entry)
  BY <1>2, <1>3 DEF IsBuffer, Retained
<1>5. TypeOK
  BY <1>2, <1>4, NetworkAssumption DEF Init, TypeOK
<1>6. RequestsAgree /\ EvictionsAgree
  BY <1>2, <1>3 DEF Init, RequestsAgree, EvictionsAgree
<1>7. IndexNewest /\ NothingMissed /\ LossReported
  BY <1>2, <1>3 DEF Init, IndexNewest, NothingMissed, LossReported
<1> QED
  BY <1>5, <1>6, <1>7 DEF NetworkInv

\* A captured request is the newest of its id; if the buffer was full, the index
\* has forgotten the evicted one.
LEMMA CaptureInv ==
  ASSUME NetworkInv, NEW k \in Id, CaptureRequest(k)
  PROVE  NetworkInv'
<1> DEFINE item == [id |-> k, request |-> network.sequence + 1, settled |-> FALSE]
           x == [seq |-> network.sequence + 1, item |-> item]
           oldest == Head(network.entries)
           gone == IF Full(network) THEN {oldest} ELSE {}
<1>1. /\ IsBuffer(network, Entry) /\ network.sequence \in Nat /\ network.lastEvicted \in Nat
      /\ \A e \in Retained : e \in Entry /\ network.lastEvicted < e.seq /\ e.seq <= network.sequence
      /\ \A r \in Reader : cursor[r] \in Nat /\ cursor[r] <= network.sequence
  BY InvIs
<1>2. /\ network.sequence < MaxSequence /\ network' = Appended(network, item)
      /\ UNCHANGED <<cursor, got, lossSeen>>
      /\ evicted' = evicted \cup gone
      /\ index' = [IndexPruned EXCEPT ![k] = Newest(network')]
  BY DEF CaptureRequest
<1>3. /\ x \in Entry /\ x.seq = network.sequence + 1
      /\ x.item.id = k /\ x.item.request = network.sequence + 1
  BY <1>1, <1>2, NetworkAssumption DEF Entry, Request
<1> HIDE DEF item
<1>4. /\ IsBuffer(network', Entry) /\ Newest(network') = x
      /\ network'.sequence = network.sequence + 1
      /\ Retained' = (Retained \ gone) \cup {x}
      /\ ~Full(network) => network'.lastEvicted = network.lastEvicted
      /\ Full(network) => /\ oldest \in Retained
                          /\ \A e \in Retained : e # oldest => oldest.seq < e.seq
                          /\ network'.lastEvicted = oldest.seq
  BY <1>1, <1>2, <1>3, EntryStamped, AppendedIs DEF Retained
<1> HIDE DEF x, oldest
<1>5. gone \subseteq Retained /\ (Full(network) => gone = {oldest}) /\ (~Full(network) => gone = {})
  BY <1>4
<1> HIDE DEF gone
<1>6. TypeOK'
  <2>1. IndexPruned \in [Id -> Entry \cup {NotIndexed}]
    BY DEF IndexPruned, NetworkInv, TypeOK
  <2>2. network'.sequence <= MaxSequence
    BY <1>1, <1>2, <1>4, NetworkAssumption
  <2>3. index' \in [Id -> Entry \cup {NotIndexed}]
    BY <1>2, <1>3, <1>4, <2>1
  <2>4. cursor' \in [Reader -> 0 .. network'.sequence]
    BY <1>1, <1>2, <1>4 DEF NetworkInv, TypeOK
  <2> QED
    BY <1>1, <1>2, <1>4, <1>5, <2>2, <2>3, <2>4 DEF NetworkInv, TypeOK
<1>7. RequestsAgree'
  <2>1. \A e \in Retained : e.item.request <= e.seq /\ e.item.request < x.item.request /\ e.seq < x.seq
    <3> SUFFICES ASSUME NEW e \in Retained
                 PROVE  e.item.request <= e.seq /\ e.item.request < x.item.request /\ e.seq < x.seq
      OBVIOUS
    <3>1. e.seq \in Nat /\ e.item.request \in Nat /\ e.seq <= network.sequence
      BY <1>1, EntryIs
    <3>2. e.item.request <= e.seq
      BY DEF NetworkInv, RequestsAgree
    <3> QED
      BY <1>1, <1>3, <3>1, <3>2
  <2>2. \A e \in Retained' : e \in Retained \/ e = x
    BY <1>4
  <2>3. x.seq \in Nat /\ x.item.request \in Nat /\ x.item.request <= x.seq
    BY <1>1, <1>3
  <2>4. \A e \in Retained' : e.item.request <= e.seq
    BY <2>1, <2>2, <2>3
  <2>5. \A e \in Retained : ~(x.seq < e.seq) /\ x.item.request # e.item.request
    <3> SUFFICES ASSUME NEW e \in Retained PROVE ~(x.seq < e.seq) /\ x.item.request # e.item.request
      OBVIOUS
    <3>1. e.seq \in Nat /\ e.item.request \in Nat
      BY <1>1, EntryIs
    <3> QED
      BY <2>1, <2>3, <3>1
  <2>6. \A e, f \in Retained' :
          /\ e.item.request = f.item.request => e = f
          /\ e.item.id = f.item.id /\ e.seq < f.seq => e.item.request < f.item.request
    <3> SUFFICES ASSUME NEW e \in Retained', NEW f \in Retained'
                 PROVE  /\ e.item.request = f.item.request => e = f
                        /\ e.item.id = f.item.id /\ e.seq < f.seq => e.item.request < f.item.request
      OBVIOUS
    <3>1. CASE e \in Retained /\ f \in Retained
      BY <3>1 DEF NetworkInv, RequestsAgree
    <3>2. CASE e = x
      BY <2>2, <2>3, <2>5, <3>2
    <3>3. CASE e \in Retained /\ f = x
      BY <2>1, <2>5, <3>3
    <3> QED
      BY <2>2, <3>1, <3>2, <3>3
  <2> QED
    BY <2>4, <2>6 DEF RequestsAgree
<1>8. EvictionsAgree'
  <2>1. /\ \A e \in evicted : e \in Entry /\ e.seq <= network.lastEvicted
        /\ network.lastEvicted > 0 => \E e \in evicted : e.seq = network.lastEvicted
    BY DEF NetworkInv, TypeOK, EvictionsAgree
  <2>2. CASE Full(network)
    <3>1. evicted' = evicted \cup {oldest} /\ network'.lastEvicted = oldest.seq
          /\ network.lastEvicted < oldest.seq /\ oldest.seq \in Nat
      BY <1>1, <1>2, <1>4, <1>5, <2>2, EntryIs
    <3>2. ASSUME NEW e \in evicted PROVE e.seq <= oldest.seq
      <4>1. e.seq \in Nat /\ e.seq <= network.lastEvicted
        BY <2>1, EntryIs
      <4> QED
        BY <1>1, <3>1, <4>1
    <3> QED
      BY <3>1, <3>2 DEF EvictionsAgree
  <2>3. CASE ~Full(network)
    BY <1>2, <1>4, <1>5, <2>1, <2>3 DEF EvictionsAgree
  <2> QED
    BY <2>2, <2>3
<1>9. IndexNewest'
  <2> SUFFICES ASSUME NEW j \in Id
               PROVE  LET requests == {e \in Retained' : e.item.id = j}
                      IN IF requests = {} THEN index'[j] = NotIndexed
                         ELSE /\ index'[j] \in requests
                              /\ \A e \in requests : e.item.request <= index'[j].item.request
    BY DEF IndexNewest
  <2> DEFINE before == {e \in Retained : e.item.id = j}
  <2>1. IF before = {} THEN index[j] = NotIndexed
        ELSE index[j] \in before /\ \A e \in before : e.item.request <= index[j].item.request
    BY DEF NetworkInv, IndexNewest
  <2>2. index \in [Id -> Entry \cup {NotIndexed}]
    BY DEF NetworkInv, TypeOK
  <2>3. CASE j = k
    <3>1. index'[j] = x
      BY <1>2, <1>4, <2>2, <2>3 DEF IndexPruned
    <3>2. x \in Retained' /\ x.item.id = j
      BY <1>3, <1>4, <2>3
    <3>3. ASSUME NEW e \in Retained' PROVE e.item.request <= x.item.request
      <4>1. CASE e \in Retained
        <5>1. e.seq \in Nat /\ e.item.request \in Nat /\ e.seq <= network.sequence
              /\ e.item.request <= e.seq
          BY <1>1, <4>1, EntryIs DEF NetworkInv, RequestsAgree
        <5> QED
          BY <1>1, <1>3, <5>1
      <4>2. CASE e = x
        BY <1>1, <1>3, <4>2
      <4> QED
        BY <1>4, <4>1, <4>2
    <3> QED
      BY <3>1, <3>2, <3>3
  <2>4. CASE j # k
    <3>1. {e \in Retained' : e.item.id = j} = before \ gone
      BY <1>3, <1>4, <2>4
    <3>2. index'[j] = IndexPruned[j]
      BY <1>2, <2>2, <2>4 DEF IndexPruned
    <3>3. CASE Full(network) /\ index[oldest.item.id] = oldest /\ oldest.item.id = j
      <4>1. index'[j] = NotIndexed
        BY <2>2, <3>2, <3>3 DEF IndexPruned, oldest
      <4>2. oldest \in before
        BY <1>4, <3>3
      <4>3. ASSUME NEW e \in before, e # oldest PROVE FALSE
        <5>1. e.item.request <= oldest.item.request
          BY <2>1, <3>3
        <5>2. oldest.item.request < e.item.request
          BY <1>4, <3>3, <4>2, <4>3 DEF NetworkInv, RequestsAgree
        <5>3. e.item.request \in Nat /\ oldest.item.request \in Nat
          BY <1>1, <4>2, EntryIs
        <5> QED
          BY <5>1, <5>2, <5>3
      <4>4. before \ gone = {}
        BY <1>5, <3>3, <4>3
      <4> QED
        BY <3>1, <4>1, <4>4
    <3>4. CASE ~(Full(network) /\ index[oldest.item.id] = oldest /\ oldest.item.id = j)
      <4>1. index'[j] = index[j]
        BY <2>2, <3>2, <3>4 DEF IndexPruned, oldest
      <4>2. CASE before = {}
        BY <2>1, <3>1, <4>1, <4>2
      <4>3. CASE before # {}
        <5>1. index[j] \in before /\ \A e \in before : e.item.request <= index[j].item.request
          BY <2>1, <4>3
        <5>2. index[j] \notin gone
          BY <1>5, <3>4, <5>1
        <5> QED
          BY <3>1, <4>1, <5>1, <5>2
      <4> QED
        BY <4>2, <4>3
    <3> QED
      BY <3>3, <3>4
  <2> QED
    BY <2>3, <2>4
<1>10. NothingMissed'
  <2> SUFFICES ASSUME NEW r \in Reader, NEW e \in Retained' \cup evicted',
                      e.item.id \in Wants[r], e.seq <= cursor'[r]
               PROVE  Received(r, e)' \/ (e \in evicted' /\ lossSeen'[r])
    BY DEF NothingMissed
  <2>1. e # x
    BY <1>1, <1>2, <1>3
  <2>2. e \in Retained \cup evicted
    BY <1>2, <1>4, <1>5, <2>1
  <2> QED
    BY <1>2, <2>2 DEF NetworkInv, NothingMissed, Received
<1>11. LossReported'
  <2>1. network'.lastEvicted \in Nat /\ Stamped(evicted')
    BY <1>4, <1>6, BufferIs, EntryStamped DEF TypeOK, Stamped
  <2>2. ASSUME NEW r \in Reader
        PROVE  (cursor'[r] < network'.lastEvicted) <=> \E e \in evicted' : e.seq > cursor'[r]
    <3>1. cursor'[r] \in Nat
      BY <1>1, <1>2
    <3> QED
      BY <1>8, <2>1, <3>1, LossIs DEF EvictionsAgree
  <2> QED
    BY <2>2 DEF LossReported
<1> QED
  BY <1>6, <1>7, <1>8, <1>9, <1>10, <1>11 DEF NetworkInv

\* A settled request keeps its number and comes back as the newest entry.
LEMMA SettleInv ==
  ASSUME NetworkInv, NEW k \in Id, Settle(k)
  PROVE  NetworkInv'
<1> DEFINE old == index[k]
           item == [old.item EXCEPT !.settled = TRUE]
           x == [seq |-> network.sequence + 1, item |-> item]
<1>1. /\ IsBuffer(network, Entry) /\ network.sequence \in Nat /\ network.lastEvicted \in Nat
      /\ \A e \in Retained : e \in Entry /\ network.lastEvicted < e.seq /\ e.seq <= network.sequence
      /\ \A r \in Reader : cursor[r] \in Nat /\ cursor[r] <= network.sequence
  BY InvIs
<1>2. /\ network.sequence < MaxSequence /\ network' = Updated(network, old, item)
      /\ old # NotIndexed
      /\ UNCHANGED <<cursor, got, lossSeen, evicted>>
      /\ index' = [index EXCEPT ![k] = Newest(network')]
  BY DEF Settle
<1>3. /\ old \in Retained /\ old.item.id = k /\ old \in Entry /\ old.item \in Request
      /\ \A e \in Retained : e.item.id = k => e.item.request <= old.item.request
  <2>1. LET requests == {e \in Retained : e.item.id = k}
        IN IF requests = {} THEN index[k] = NotIndexed
           ELSE index[k] \in requests /\ \A e \in requests : e.item.request <= index[k].item.request
    BY DEF NetworkInv, IndexNewest
  <2>2. /\ old \in Retained /\ old.item.id = k
        /\ \A e \in Retained : e.item.id = k => e.item.request <= old.item.request
    BY <1>2, <2>1
  <2> QED
    BY <1>1, <2>2, EntryIs
<1>4. item \in Request /\ item.id = k /\ item.request = old.item.request
  BY <1>3 DEF Request
<1> HIDE DEF item
<1>5. x \in Entry /\ x.seq = network.sequence + 1 /\ x.item = item
  BY <1>1, <1>2, <1>4, NetworkAssumption DEF Entry
<1> HIDE DEF old
<1>6. /\ IsBuffer(network', Entry) /\ Newest(network') = x
      /\ network'.sequence = network.sequence + 1
      /\ network'.lastEvicted = network.lastEvicted
      /\ Retained' = (Retained \ {old}) \cup {x}
  BY <1>1, <1>2, <1>3, <1>5, EntryStamped, UpdatedIs DEF Retained
<1> HIDE DEF x
<1>7. TypeOK'
  <2>1. network'.sequence <= MaxSequence
    BY <1>1, <1>2, <1>6, NetworkAssumption
  <2>2. index' \in [Id -> Entry \cup {NotIndexed}]
    BY <1>2, <1>5, <1>6 DEF NetworkInv, TypeOK
  <2>3. cursor' \in [Reader -> 0 .. network'.sequence]
    BY <1>1, <1>2, <1>6 DEF NetworkInv, TypeOK
  <2> QED
    BY <1>2, <1>6, <2>1, <2>2, <2>3 DEF NetworkInv, TypeOK
<1>8. \A e \in Retained : e # old =>
        e.item.request # x.item.request /\ (e.item.id = k => e.item.request < x.item.request)
  <2> SUFFICES ASSUME NEW e \in Retained, e # old
               PROVE  e.item.request # x.item.request /\ (e.item.id = k => e.item.request < x.item.request)
    OBVIOUS
  <2>1. e.item.request # old.item.request
    BY <1>3 DEF NetworkInv, RequestsAgree
  <2>2. e.item.request \in Nat /\ old.item.request \in Nat
    BY <1>1, <1>3, EntryIs
  <2> QED
    BY <1>3, <1>4, <1>5, <2>1, <2>2
<1>9. RequestsAgree'
  <2>1. \A e \in Retained' : (e \in Retained /\ e # old) \/ e = x
    BY <1>6
  <2>2. \A e \in Retained' : e.item.request <= e.seq
    <3>1. x.item.request <= x.seq
      <4>1. /\ old.item.request \in Nat /\ old.seq \in Nat
            /\ old.item.request <= old.seq /\ old.seq <= network.sequence
        BY <1>1, <1>3, EntryIs DEF NetworkInv, RequestsAgree
      <4> QED
        BY <1>1, <1>4, <1>5, <4>1
    <3> QED
      BY <2>1, <3>1 DEF NetworkInv, RequestsAgree
  <2>3. \A e \in Retained : ~(x.seq < e.seq)
    <3> SUFFICES ASSUME NEW e \in Retained PROVE ~(x.seq < e.seq)
      OBVIOUS
    <3>1. e.seq \in Nat /\ e.seq <= network.sequence
      BY <1>1, EntryIs
    <3> QED
      BY <1>1, <1>5, <3>1
  <2>4. \A e, f \in Retained' :
          /\ e.item.request = f.item.request => e = f
          /\ e.item.id = f.item.id /\ e.seq < f.seq => e.item.request < f.item.request
    <3> SUFFICES ASSUME NEW e \in Retained', NEW f \in Retained'
                 PROVE  /\ e.item.request = f.item.request => e = f
                        /\ e.item.id = f.item.id /\ e.seq < f.seq => e.item.request < f.item.request
      OBVIOUS
    <3>1. CASE e \in Retained /\ f \in Retained
      BY <3>1 DEF NetworkInv, RequestsAgree
    <3>2. CASE e = x /\ f = x
      <4>1. ~(x.seq < x.seq)
        BY <1>1, <1>5
      <4> QED
        BY <3>2, <4>1
    <3>3. CASE e = x /\ f \in Retained /\ f # old
      BY <1>8, <2>3, <3>3
    <3>4. CASE e \in Retained /\ e # old /\ f = x
      BY <1>4, <1>5, <1>8, <3>4
    <3> QED
      BY <2>1, <3>1, <3>2, <3>3, <3>4
  <2> QED
    BY <2>2, <2>4 DEF RequestsAgree
<1>10. EvictionsAgree'
  BY <1>2, <1>6 DEF NetworkInv, EvictionsAgree
<1>11. IndexNewest'
  <2> SUFFICES ASSUME NEW j \in Id
               PROVE  LET requests == {e \in Retained' : e.item.id = j}
                      IN IF requests = {} THEN index'[j] = NotIndexed
                         ELSE /\ index'[j] \in requests
                              /\ \A e \in requests : e.item.request <= index'[j].item.request
    BY DEF IndexNewest
  <2>1. index \in [Id -> Entry \cup {NotIndexed}]
    BY DEF NetworkInv, TypeOK
  <2>2. CASE j = k
    <3>1. index'[j] = x /\ x \in Retained' /\ x.item.id = j
      BY <1>2, <1>4, <1>5, <1>6, <2>1, <2>2
    <3>2. ASSUME NEW e \in Retained', e.item.id = j PROVE e.item.request <= x.item.request
      <4>1. CASE e = x
        <5>1. x.item.request \in Nat
          BY <1>5, EntryIs
        <5> QED
          BY <4>1, <5>1
      <4>2. CASE e \in Retained
        BY <1>3, <1>4, <1>5, <2>2, <3>2, <4>2
      <4> QED
        BY <1>6, <4>1, <4>2
    <3> QED
      BY <3>1, <3>2
  <2>3. CASE j # k
    <3>1. {e \in Retained' : e.item.id = j} = {e \in Retained : e.item.id = j}
      BY <1>3, <1>4, <1>5, <1>6, <2>3
    <3>2. index'[j] = index[j]
      BY <1>2, <2>1, <2>3
    <3> QED
      BY <3>1, <3>2 DEF NetworkInv, IndexNewest
  <2> QED
    BY <2>2, <2>3
<1>12. NothingMissed'
  <2> SUFFICES ASSUME NEW r \in Reader, NEW e \in Retained' \cup evicted',
                      e.item.id \in Wants[r], e.seq <= cursor'[r]
               PROVE  Received(r, e)' \/ (e \in evicted' /\ lossSeen'[r])
    BY DEF NothingMissed
  <2>1. e # x
    BY <1>1, <1>2, <1>5
  <2>2. e \in Retained \cup evicted
    BY <1>2, <1>6, <2>1
  <2> QED
    BY <1>2, <2>2 DEF NetworkInv, NothingMissed, Received
<1>13. LossReported'
  BY <1>2, <1>6 DEF NetworkInv, LossReported
<1> QED
  BY <1>7, <1>9, <1>10, <1>11, <1>12, <1>13 DEF NetworkInv

\* A page gives its reader everything up to the new cursor, or says that
\* something is lost.
LEMMA ReadInv ==
  ASSUME NetworkInv, NEW r \in Reader, Read(r)
  PROVE  NetworkInv'
<1> DEFINE wanted == {item \in Request : item.id \in Wants[r]}
<1>1. /\ IsBuffer(network, Entry) /\ network.sequence \in Nat /\ network.lastEvicted \in Nat
      /\ \A e \in Retained : e \in Entry /\ network.lastEvicted < e.seq /\ e.seq <= network.sequence
      /\ \A q \in Reader : cursor[q] \in Nat /\ cursor[q] <= network.sequence
  BY InvIs
<1>2. PICK limit \in Limit :
        LET page == PageAfter(network, cursor[r], limit, wanted)
        IN /\ cursor' = [cursor EXCEPT ![r] = page.cursor]
           /\ got' = [got EXCEPT ![r] = @ \cup {e.seq : e \in page.items}]
           /\ lossSeen' = [lossSeen EXCEPT ![r] = @ \/ page.lost]
           /\ UNCHANGED <<network, index, evicted>>
  BY DEF Read
<1> DEFINE page == PageAfter(network, cursor[r], limit, wanted)
<1>3. /\ page.cursor \in Nat /\ cursor[r] <= page.cursor /\ page.cursor <= network.sequence
      /\ page.items \subseteq Retained
      /\ \A e \in Retained :
           e.item \in wanted /\ cursor[r] < e.seq /\ e.seq <= page.cursor => e \in page.items
      /\ page.lost = (cursor[r] < network.lastEvicted)
  <2>1. limit \in Nat \ {0}
    BY NetworkAssumption
  <2> HIDE DEF wanted
  <2> QED
    BY <1>1, <2>1, EntryStamped, PageIs DEF Retained
<1>4. /\ cursor' = [cursor EXCEPT ![r] = page.cursor]
      /\ got' = [got EXCEPT ![r] = @ \cup {e.seq : e \in page.items}]
      /\ lossSeen' = [lossSeen EXCEPT ![r] = @ \/ page.lost]
      /\ network' = network /\ index' = index /\ evicted' = evicted
  BY <1>2
<1> HIDE DEF page
<1>5. /\ cursor \in [Reader -> 0 .. network.sequence]
      /\ got \in [Reader -> SUBSET (1 .. MaxSequence)]
      /\ lossSeen \in [Reader -> BOOLEAN] /\ evicted \subseteq Entry
  BY DEF NetworkInv, TypeOK
<1>6. TypeOK'
  <2>1. cursor' \in [Reader -> 0 .. network.sequence]
    BY <1>1, <1>3, <1>4, <1>5
  <2>2. {e.seq : e \in page.items} \subseteq 1 .. MaxSequence
    BY <1>1, <1>3 DEF Entry
  <2>3. got' \in [Reader -> SUBSET (1 .. MaxSequence)]
    BY <1>4, <1>5, <2>2
  <2>4. lossSeen' \in [Reader -> BOOLEAN]
    BY <1>3, <1>4, <1>5
  <2> QED
    BY <1>4, <2>1, <2>3, <2>4 DEF NetworkInv, TypeOK
<1>7. RequestsAgree' /\ EvictionsAgree' /\ IndexNewest'
  BY <1>4 DEF NetworkInv, RequestsAgree, EvictionsAgree, IndexNewest, Retained
<1>8. NothingMissed'
  <2> SUFFICES ASSUME NEW q \in Reader, NEW e \in Retained \cup evicted,
                      e.item.id \in Wants[q], e.seq <= cursor'[q]
               PROVE  e.seq \in got'[q] \/ (e \in evicted /\ lossSeen'[q])
    BY <1>4 DEF NothingMissed, Received, Retained
  <2>1. e.seq <= cursor[q] => e.seq \in got[q] \/ (e \in evicted /\ lossSeen[q])
    BY DEF NetworkInv, NothingMissed, Received
  <2>2. got[q] \subseteq got'[q] /\ (lossSeen[q] => lossSeen'[q])
    BY <1>4, <1>5
  <2>3. CASE q # r
    BY <1>4, <1>5, <2>1, <2>2, <2>3
  <2>4. CASE q = r
    <3>1. cursor'[r] = page.cursor /\ got'[r] = got[r] \cup {f.seq : f \in page.items}
      BY <1>4, <1>5
    <3>2. e \in Entry /\ e.seq \in Nat /\ e.item \in Request
      BY <1>1, <1>5, EntryIs
    <3>3. CASE e.seq <= cursor[r]
      BY <2>1, <2>2, <2>4, <3>3
    <3>4. CASE cursor[r] < e.seq
      <4>1. CASE e \in Retained
        <5>1. e \in page.items
          BY <1>3, <2>4, <3>1, <3>2, <3>4, <4>1
        <5> QED
          BY <2>4, <3>1, <5>1
      <4>2. CASE e \in evicted
        <5>1. cursor[r] < network.lastEvicted
          BY <3>4, <4>2 DEF NetworkInv, LossReported
        <5>2. lossSeen'[r]
          BY <1>3, <1>4, <1>5, <5>1
        <5> QED
          BY <2>4, <4>2, <5>2
      <4> QED
        BY <4>1, <4>2
    <3> QED
      BY <1>1, <3>2, <3>3, <3>4
  <2> QED
    BY <2>3, <2>4
<1>9. LossReported'
  <2>1. Stamped(evicted)
    BY <1>5, EntryStamped DEF Stamped
  <2>2. ASSUME NEW q \in Reader
        PROVE  (cursor'[q] < network.lastEvicted) <=> \E e \in evicted : e.seq > cursor'[q]
    <3>1. cursor'[q] \in Nat
      BY <1>1, <1>3, <1>4, <1>5
    <3>2. /\ \A e \in evicted : e.seq <= network.lastEvicted
          /\ network.lastEvicted > 0 => \E e \in evicted : e.seq = network.lastEvicted
      BY DEF NetworkInv, EvictionsAgree
    <3> QED
      BY <1>1, <2>1, <3>1, <3>2, LossIs
  <2> QED
    BY <1>4, <2>2 DEF LossReported
<1> QED
  BY <1>6, <1>7, <1>8, <1>9 DEF NetworkInv

LEMMA NextInv ==
  ASSUME NetworkInv, [Next]_vars
  PROVE  NetworkInv'
<1>1. CASE UNCHANGED vars
  BY <1>1 DEF vars, NetworkInv, TypeOK, RequestsAgree, EvictionsAgree, IndexNewest, NothingMissed,
              LossReported, Received, Retained
<1> QED
  BY <1>1, CaptureInv, SettleInv, ReadInv DEF Next

-----------------------------------------------------------------------------
(* The theorems *)

\* The network evidence of an instance stays consistent: the buffer, the index
\* by id(request) and what the readers have been given agree in every state.
THEOREM NetworkInvariant == Spec => []NetworkInv
<1> QED
  BY InitInv, NextInv, PTL DEF Spec

\* Whatever ids Python reuses, the index leads to the newest retained request
\* of an id, which is the one a response settles (_on_response).
THEOREM IndexLeadsToNewest == Spec => []IndexNewest
<1>1. NetworkInv => IndexNewest
  BY DEF NetworkInv
<1> QED
  BY <1>1, NetworkInvariant, PTL

\* A reader that follows next_cursor misses nothing without being told.
THEOREM ReadersMissNothing == Spec => []NothingMissed
<1>1. NetworkInv => NothingMissed
  BY DEF NetworkInv
<1> QED
  BY <1>1, NetworkInvariant, PTL

\* retention_lost is set exactly when something behind the cursor was evicted.
THEOREM LossIsReported == Spec => []LossReported
<1>1. NetworkInv => LossReported
  BY DEF NetworkInv
<1> QED
  BY <1>1, NetworkInvariant, PTL
=============================================================================
