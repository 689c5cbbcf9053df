--------------------------- MODULE ModalStatesProofs ---------------------------
(***************************************************************************)
(* Proofs about ModalStates, for any modals on any pages: however recovery *)
(* calls fail and whatever the browser does meanwhile, no open modal is    *)
(* forgotten and those of one kind and page are answered in their order.   *)
(***************************************************************************)
EXTENDS ModalStates, SequenceTheorems, NaturalsInduction, WellFoundedInduction, TLAPS

-----------------------------------------------------------------------------
(* What the list operations keep *)

LEMMA RemoveAtIs ==
  ASSUME NEW s \in Seq(Modal), NEW n \in DOMAIN s
  PROVE  LET t == RemoveAt(s, n) IN
         /\ t \in Seq(Modal) /\ DOMAIN t = 1 .. Len(s) - 1
         /\ \A i \in DOMAIN t : t[i] = IF i < n THEN s[i] ELSE s[i + 1]
<1> DEFINE t == RemoveAt(s, n)
           a == SubSeq(s, 1, n - 1)
           b == SubSeq(s, n + 1, Len(s))
<1>1. DOMAIN s = 1 .. Len(s) /\ Len(s) \in Nat /\ n \in 1 .. Len(s)
      /\ \A i \in 1 .. Len(s) : s[i] \in Modal
  BY LenProperties, ElementOfSeq
<1>2. a \in Seq(Modal) /\ Len(a) = n - 1 /\ \A i \in 1 .. n - 1 : a[i] = s[i]
  <2>1. \A i \in 1 .. n - 1 : s[i] \in Modal
    BY <1>1
  <2>2. /\ a \in Seq(Modal)
        /\ Len(a) = IF 1 <= n - 1 THEN n - 1 - 1 + 1 ELSE 0
        /\ \A i \in 1 .. n - 1 - 1 + 1 : a[i] = s[1 + i - 1]
    BY <1>1, <2>1, SubSeqProperties
  <2> QED
    BY <1>1, <2>2
<1>3. b \in Seq(Modal) /\ Len(b) = Len(s) - n /\ \A i \in 1 .. Len(s) - n : b[i] = s[n + i]
  <2>1. \A i \in n + 1 .. Len(s) : s[i] \in Modal
    BY <1>1
  <2>2. /\ b \in Seq(Modal)
        /\ Len(b) = IF n + 1 <= Len(s) THEN Len(s) - (n + 1) + 1 ELSE 0
        /\ \A i \in 1 .. Len(s) - (n + 1) + 1 : b[i] = s[n + 1 + i - 1]
    BY <1>1, <2>1, SubSeqProperties
  <2> HIDE DEF b
  <2>3. Len(b) = Len(s) - n /\ Len(s) - (n + 1) + 1 = Len(s) - n
    BY <1>1, <2>2
  <2>4. ASSUME NEW i \in 1 .. Len(s) - n PROVE b[i] = s[n + i]
    <3>1. n + 1 + i - 1 = n + i
      BY <1>1
    <3> QED
      BY <2>2, <2>3, <3>1
  <2> QED
    BY <2>2, <2>3, <2>4
<1> HIDE DEF a, b
<1>4. /\ t = a \o b /\ a \o b \in Seq(Modal) /\ Len(a \o b) = Len(a) + Len(b)
      /\ \A i \in 1 .. Len(a) + Len(b) :
           (a \o b)[i] = IF i <= Len(a) THEN a[i] ELSE b[i - Len(a)]
  BY <1>2, <1>3, ConcatProperties DEF RemoveAt, a, b
<1> HIDE DEF t
<1>5. DOMAIN t = 1 .. Len(s) - 1
  <2>1. DOMAIN t = 1 .. Len(a) + Len(b)
    BY <1>4, LenProperties
  <2> QED
    BY <1>1, <1>2, <1>3, <2>1
<1>6. ASSUME NEW i \in DOMAIN t PROVE t[i] = IF i < n THEN s[i] ELSE s[i + 1]
  <2>0. i \in 1 .. Len(a) + Len(b) /\ Len(a) = n - 1
    BY <1>1, <1>2, <1>3, <1>5
  <2>1. CASE i < n
    BY <1>1, <1>2, <1>4, <2>0, <2>1
  <2>2. CASE ~(i < n)
    <3>1. t[i] = b[i - (n - 1)]
      BY <1>1, <1>4, <2>0, <2>2
    <3>2. i - (n - 1) \in 1 .. Len(s) - n /\ n + (i - (n - 1)) = i + 1
      BY <1>1, <1>5, <2>2
    <3> QED
      BY <1>3, <2>2, <3>1, <3>2
  <2> QED
    BY <2>1, <2>2
<1> QED
  BY <1>4, <1>5, <1>6 DEF t

\* An entry leaves the list.
LEMMA RemoveAtKeeps ==
  ASSUME NEW s \in Seq(Modal), NEW n \in DOMAIN s
  PROVE  LET t == RemoveAt(s, n) IN
         /\ t \in Seq(Modal)
         /\ \A m \in Modal : /\ Listed(t, m) => Listed(s, m)
                             /\ Listed(s, m) /\ m # s[n] => Listed(t, m)
         /\ \A m, d \in Modal : Before(t, m, d) => Before(s, m, d)
<1> DEFINE t == RemoveAt(s, n)
           from(i) == IF i < n THEN i ELSE i + 1
<1>1. /\ t \in Seq(Modal) /\ DOMAIN t = 1 .. Len(s) - 1
      /\ \A i \in DOMAIN t : t[i] = IF i < n THEN s[i] ELSE s[i + 1]
  BY RemoveAtIs
<1>2. DOMAIN s = 1 .. Len(s) /\ Len(s) \in Nat
  BY LenProperties
<1> HIDE DEF t
<1>3. \A i \in DOMAIN t : from(i) \in DOMAIN s /\ t[i] = s[from(i)]
  BY <1>1, <1>2
<1>4. \A i, j \in DOMAIN t : i < j => from(i) < from(j)
  BY <1>1, <1>2
<1>5. ASSUME NEW m \in Modal, Listed(s, m), m # s[n] PROVE Listed(t, m)
  <2>1. PICK i \in DOMAIN s : s[i] = m
    BY <1>5 DEF Listed
  <2>2. CASE i < n
    <3>1. i \in DOMAIN t
      BY <1>1, <1>2, <2>2
    <3> QED
      BY <1>1, <2>1, <2>2, <3>1 DEF Listed
  <2>3. CASE n < i
    <3>1. i - 1 \in DOMAIN t /\ ~(i - 1 < n) /\ (i - 1) + 1 = i
      BY <1>1, <1>2, <2>3
    <3> QED
      BY <1>1, <2>1, <3>1 DEF Listed
  <2> QED
    BY <1>2, <1>5, <2>1, <2>2, <2>3
<1> HIDE DEF from
<1>6. \A m \in Modal : Listed(t, m) => Listed(s, m)
  BY <1>3 DEF Listed
<1>7. \A m, d \in Modal : Before(t, m, d) => Before(s, m, d)
  BY <1>3, <1>4 DEF Before
<1> QED
  BY <1>1, <1>5, <1>6, <1>7 DEF t

\* An entry returns to the front of the list.
LEMMA FrontKeeps ==
  ASSUME NEW s \in Seq(Modal), NEW x \in Modal
  PROVE  LET t == <<x>> \o s IN
         /\ t \in Seq(Modal)
         /\ \A m \in Modal : Listed(t, m) <=> m = x \/ Listed(s, m)
         /\ \A m, d \in Modal : Before(t, m, d) => Before(s, m, d) \/ (m = x /\ Listed(s, d))
<1> DEFINE t == <<x>> \o s
<1>1. DOMAIN s = 1 .. Len(s) /\ Len(s) \in Nat
  BY LenProperties
<1>2. <<x>> \in Seq(Modal) /\ Len(<<x>>) = 1 /\ <<x>>[1] = x
  OBVIOUS
<1>3. /\ t \in Seq(Modal) /\ Len(t) = 1 + Len(s)
      /\ \A i \in 1 .. 1 + Len(s) : t[i] = IF i <= 1 THEN <<x>>[i] ELSE s[i - 1]
  BY <1>2, ConcatProperties
<1>4. DOMAIN t = 1 .. Len(s) + 1
  BY <1>1, <1>3, LenProperties
<1> HIDE DEF t
<1>5. 1 \in DOMAIN t /\ t[1] = x
  BY <1>1, <1>2, <1>3, <1>4
<1>6. \A i \in DOMAIN t : i # 1 => i - 1 \in DOMAIN s /\ t[i] = s[i - 1]
  BY <1>1, <1>3, <1>4
<1>7. \A i \in DOMAIN s : i + 1 \in DOMAIN t /\ t[i + 1] = s[i]
  <2> SUFFICES ASSUME NEW i \in DOMAIN s PROVE i + 1 \in DOMAIN t /\ t[i + 1] = s[i]
    OBVIOUS
  <2>1. i + 1 \in DOMAIN t /\ i + 1 # 1 /\ (i + 1) - 1 = i
    BY <1>1, <1>4
  <2> QED
    BY <1>6, <2>1
<1>8. \A m \in Modal : Listed(t, m) <=> m = x \/ Listed(s, m)
  BY <1>5, <1>6, <1>7 DEF Listed
<1>9. ASSUME NEW m \in Modal, NEW d \in Modal, Before(t, m, d)
      PROVE  Before(s, m, d) \/ (m = x /\ Listed(s, d))
  <2>1. PICK i \in DOMAIN t, j \in DOMAIN t : i < j /\ t[i] = m /\ t[j] = d
    BY <1>9 DEF Before
  <2>2. j # 1 /\ j - 1 \in DOMAIN s /\ s[j - 1] = d
    BY <1>4, <1>6, <2>1
  <2>3. CASE i = 1
    BY <1>5, <2>1, <2>2, <2>3 DEF Listed
  <2>4. CASE i # 1
    <3>1. i - 1 \in DOMAIN s /\ s[i - 1] = m /\ i - 1 < j - 1
      BY <1>4, <1>6, <2>1, <2>2, <2>4
    <3> QED
      BY <2>2, <3>1 DEF Before
  <2> QED
    BY <2>3, <2>4
<1> QED
  BY <1>3, <1>8, <1>9 DEF t

\* A modal that opens is the last of the list.
LEMMA AppendKeeps ==
  ASSUME NEW s \in Seq(Modal), NEW x \in Modal
  PROVE  LET t == Append(s, x) IN
         /\ t \in Seq(Modal)
         /\ \A m \in Modal : Listed(t, m) <=> Listed(s, m) \/ m = x
         /\ \A m, d \in Modal : Before(t, m, d) <=> Before(s, m, d) \/ (Listed(s, m) /\ d = x)
<1> DEFINE t == Append(s, x)
<1>1. /\ DOMAIN s = 1 .. Len(s) /\ Len(s) \in Nat
      /\ t \in Seq(Modal) /\ Len(t) = Len(s) + 1
      /\ \A i \in 1 .. Len(s) : t[i] = s[i]
      /\ t[Len(s) + 1] = x
  BY LenProperties, AppendProperties
<1>2. DOMAIN t = 1 .. Len(s) + 1
  BY <1>1, LenProperties
<1> HIDE DEF t
<1>3. Len(s) + 1 \in DOMAIN t /\ DOMAIN s \subseteq DOMAIN t
      /\ \A i \in DOMAIN t : i \in DOMAIN s \/ i = Len(s) + 1
  BY <1>1, <1>2
<1>4. \A m \in Modal : Listed(t, m) <=> Listed(s, m) \/ m = x
  BY <1>1, <1>3 DEF Listed
<1>5. \A i \in DOMAIN s : i < Len(s) + 1 /\ ~(Len(s) + 1 < i)
  BY <1>1
<1>6. ASSUME NEW m \in Modal, NEW d \in Modal, Before(t, m, d)
      PROVE  Before(s, m, d) \/ (Listed(s, m) /\ d = x)
  <2>1. PICK i \in DOMAIN t, j \in DOMAIN t : i < j /\ t[i] = m /\ t[j] = d
    BY <1>6 DEF Before
  <2>2. i \in DOMAIN s
    BY <1>1, <1>2, <2>1
  <2> QED
    BY <1>1, <1>3, <2>1, <2>2 DEF Before, Listed
<1>7. ASSUME NEW m \in Modal, NEW d \in Modal, Before(s, m, d) \/ (Listed(s, m) /\ d = x)
      PROVE  Before(t, m, d)
  BY <1>1, <1>3, <1>5, <1>7 DEF Before, Listed
<1> QED
  BY <1>1, <1>4, <1>6, <1>7 DEF t


\* What starts at 0 and goes on from each number to the next holds of all.
LEMMA AllNumbers ==
  ASSUME NEW S, 0 \in S, \A n \in Nat : n \in S => n + 1 \in S
  PROVE  Nat \subseteq S
<1> SUFFICES ASSUME Nat \ S # {} PROVE FALSE
  OBVIOUS
<1> DEFINE T == Nat \ S
<1>1. PICK n \in T : \A m \in T : ~(m < n)
  <2>1. PICK n \in T : \A m \in T : ~(<<m, n>> \in OpToRel(<, Nat))
    BY WFMin, NatLessThanWellFounded
  <2>2. \A m \in T : <<m, n>> \in Nat \X Nat
    OBVIOUS
  <2>3. \A m \in T : ~(m < n)
    BY <2>1, <2>2 DEF OpToRel
  <2> QED
    BY <2>3
<1>2. n - 1 \in Nat /\ (n - 1) + 1 = n /\ n - 1 < n
  <2>1. n \in Nat /\ n # 0
    OBVIOUS
  <2> QED
    BY <2>1
<1> QED
  BY <1>1, <1>2

\* get_modal_states keeps the entries of open pages in their order.
LEMMA PrunedKeeps ==
  ASSUME modals \in Seq(Modal)
  PROVE  /\ Pruned \in Seq(Modal)
         /\ \A m \in Modal : Listed(Pruned, m) <=> Listed(modals, m) /\ Alive(m)
         /\ \A m, d \in Modal : Before(Pruned, m, d) => Before(modals, m, d)
<1> DEFINE L == Len(modals)
           Step(t, n) == IF Alive(modals[n]) THEN Append(t, modals[n]) ELSE t
           Kept(f) == f = [n \in 0 .. L |-> IF n = 0 THEN <<>> ELSE Step(f[n - 1], n)]
           kept == CHOOSE f : Kept(f)
<1>1. L \in Nat /\ DOMAIN modals = 1 .. L /\ \A n \in 1 .. L : modals[n] \in Modal
  BY LenProperties, ElementOfSeq
<1>2. Pruned = kept[L]
  BY DEF Pruned
<1> HIDE DEF L
<1>3. \E f : Kept(f)
  <2> DEFINE UpTo(f, N) ==
               /\ DOMAIN f = 0 .. N /\ f[0] = <<>>
               /\ \A n \in 1 .. N : f[n] = Step(f[n - 1], n)
             S == {N \in Nat : \E f : UpTo(f, N)}
  <2> HIDE DEF Step
  <2>1. 0 \in S
    <3>1. UpTo([n \in 0 .. 0 |-> <<>>], 0)
      OBVIOUS
    <3> QED
      BY <3>1
  <2>2. ASSUME NEW N \in Nat, N \in S PROVE N + 1 \in S
    <3>1. PICK f : UpTo(f, N)
      BY <2>2
    <3> DEFINE g == [n \in 0 .. N + 1 |-> IF n = N + 1 THEN Step(f[N], N + 1) ELSE f[n]]
    <3>2. DOMAIN g = 0 .. N + 1 /\ g[0] = <<>>
      BY <3>1
    <3>3. ASSUME NEW n \in 1 .. N + 1 PROVE g[n] = Step(g[n - 1], n)
      <4>1. n - 1 \in 0 .. N /\ n - 1 # N + 1 /\ n \in 0 .. N + 1
        OBVIOUS
      <4>2. g[n - 1] = f[n - 1]
        BY <4>1
      <4>3. CASE n = N + 1
        BY <4>1, <4>2, <4>3
      <4>4. CASE n # N + 1
        <5>1. n \in 1 .. N
          BY <4>4
        <5> QED
          BY <3>1, <4>1, <4>2, <4>4, <5>1
      <4> QED
        BY <4>3, <4>4
    <3> HIDE DEF g
    <3>4. UpTo(g, N + 1)
      BY <3>2, <3>3
    <3> QED
      BY <3>4
  <2>3. L \in S
    <3> HIDE DEF S
    <3> QED
      BY <1>1, <2>1, <2>2, AllNumbers
  <2>4. PICK f : UpTo(f, L)
    BY <2>3
  <2>5. DOMAIN f = 0 .. L /\ \A n \in 0 .. L : n # 0 => f[n] = Step(f[n - 1], n)
    BY <1>1, <2>4
  <2> DEFINE h == [n \in 0 .. L |-> IF n = 0 THEN <<>> ELSE Step(f[n - 1], n)]
  <2>6. \A n \in 0 .. L : h[n] = f[n]
    BY <1>1, <2>4, <2>5
  <2>7. \A n \in 0 .. L : n # 0 => n - 1 \in 0 .. L
    BY <1>1
  <2>8. \A n \in 0 .. L : n # 0 => h[n - 1] = f[n - 1]
    BY <2>6, <2>7
  <2>9. Kept(h)
    BY <2>8
  <2> QED
    BY <2>9
<1>4. Kept(kept)
  BY <1>3
<1> HIDE DEF kept
<1>5. kept[0] = <<>> /\ \A n \in 1 .. L : kept[n] = Step(kept[n - 1], n)
  <2> HIDE DEF Step
  <2>1. 0 \in 0 .. L /\ \A n \in 1 .. L : n \in 0 .. L /\ n # 0
    BY <1>1
  <2> QED
    BY <1>4, <2>1

<1> DEFINE Good(n) ==
             /\ kept[n] \in Seq(Modal)
             /\ \A m \in Modal : Listed(kept[n], m) <=> Alive(m) /\ \E a \in 1 .. n : modals[a] = m
             /\ \A m, d \in Modal : Before(kept[n], m, d) =>
                  \E a, b \in 1 .. n : a < b /\ modals[a] = m /\ modals[b] = d
           S == {n \in Nat : n <= L => Good(n)}
<1>6. 0 \in S
  <2>1. kept[0] \in Seq(Modal) /\ DOMAIN kept[0] = {}
    BY <1>5, EmptySeq
  <2>2. Good(0)
    BY <2>1 DEF Listed, Before
  <2> HIDE DEF Good
  <2> QED
    BY <2>2
<1>7. ASSUME NEW n \in Nat, n \in S PROVE n + 1 \in S
  <2> SUFFICES ASSUME n + 1 <= L PROVE Good(n + 1)
    OBVIOUS
  <2> DEFINE x == modals[n + 1]
  <2>1. n + 1 \in 1 .. L /\ (n + 1) - 1 = n /\ n <= L
    BY <1>1
  <2>2. Good(n)
    BY <1>7, <2>1
  <2>3. kept[n + 1] = IF Alive(x) THEN Append(kept[n], x) ELSE kept[n]
    BY <1>5, <2>1
  <2>4. x \in Modal
    BY <1>1, <2>1
  <2>5. \A a \in 1 .. n : a \in 1 .. n + 1 /\ a < n + 1
    OBVIOUS
  <2>6. \A a \in 1 .. n + 1 : a \in 1 .. n \/ a = n + 1
    OBVIOUS
  <2>7. n + 1 \in 1 .. n + 1
    OBVIOUS
  <2>8. CASE Alive(x)
    <3>1. /\ kept[n + 1] \in Seq(Modal)
          /\ \A m \in Modal : Listed(kept[n + 1], m) <=> Listed(kept[n], m) \/ m = x
          /\ \A m, d \in Modal : Before(kept[n + 1], m, d) <=>
               Before(kept[n], m, d) \/ (Listed(kept[n], m) /\ d = x)
      BY <2>2, <2>3, <2>4, <2>8, AppendKeeps
    <3>2. \A m \in Modal : Listed(kept[n + 1], m) <=> Alive(m) /\ \E a \in 1 .. n + 1 : modals[a] = m
      BY <2>2, <2>5, <2>6, <2>7, <2>8, <3>1
    <3>3. ASSUME NEW m \in Modal, NEW d \in Modal, Before(kept[n + 1], m, d)
          PROVE  \E a, b \in 1 .. n + 1 : a < b /\ modals[a] = m /\ modals[b] = d
      BY <2>2, <2>5, <2>7, <3>1, <3>3
    <3> QED
      BY <3>1, <3>2, <3>3
  <2>9. CASE ~Alive(x)
    <3>1. kept[n + 1] = kept[n]
      BY <2>3, <2>9
    <3>2. \A m \in Modal : Listed(kept[n + 1], m) <=> Alive(m) /\ \E a \in 1 .. n + 1 : modals[a] = m
      BY <2>2, <2>5, <2>6, <2>9, <3>1
    <3>3. ASSUME NEW m \in Modal, NEW d \in Modal, Before(kept[n + 1], m, d)
          PROVE  \E a, b \in 1 .. n + 1 : a < b /\ modals[a] = m /\ modals[b] = d
      BY <2>2, <2>5, <3>1, <3>3
    <3> QED
      BY <2>2, <3>1, <3>2, <3>3
  <2> QED
    BY <2>8, <2>9
<1>8. L \in S
  <2> HIDE DEF S
  <2> QED
    BY <1>1, <1>6, <1>7, AllNumbers
<1>9. Good(L)
  BY <1>1, <1>8
<1>10. \A m \in Modal : Listed(modals, m) <=> \E a \in 1 .. L : modals[a] = m
  BY <1>1 DEF Listed
<1>11. \A m, d \in Modal : Before(modals, m, d) <=>
         \E a, b \in 1 .. L : a < b /\ modals[a] = m /\ modals[b] = d
  BY <1>1 DEF Before
<1> QED
  BY <1>2, <1>9, <1>10, <1>11


-----------------------------------------------------------------------------
(* The steps *)

LEMMA Recoveries ==
  /\ \A m, d \in Modal : (Resolving(m) = Resolving(d)) = (m = d)
  /\ \A m \in Modal : Resolving(m).stage = "resolving" /\ Resolving(m).modal = m /\ Idle # Resolving(m)
  /\ \A m \in Modal, k \in Kind, p \in Page : Targeting(k, p) # Resolving(m)
  /\ \A k \in Kind, p \in Page :
       /\ Targeting(k, p).stage = "targeting"
       /\ Targeting(k, p).kind = k /\ Targeting(k, p).page = p
  /\ Idle.stage = "idle"
BY DEF Resolving, Targeting, Idle

LEMMA InResolving ==
  ASSUME TypeOK, recovery.stage = "resolving"
  PROVE  recovery.modal \in Modal /\ recovery = Resolving(recovery.modal)
BY Recoveries DEF TypeOK

LEMMA InTargeting ==
  ASSUME TypeOK, recovery.stage = "targeting"
  PROVE  /\ recovery.kind \in Kind /\ recovery.page \in Page
         /\ recovery = Targeting(recovery.kind, recovery.page)
BY Recoveries DEF TypeOK

LEMMA InitInv == Init => ModalInv
<1> SUFFICES ASSUME Init PROVE ModalInv
  OBVIOUS
<1>1. /\ modals \in Seq(Modal) /\ opened \in Seq(Modal)
      /\ DOMAIN modals = {} /\ DOMAIN opened = {}
  BY EmptySeq DEF Init
<1>2. /\ fate = [m \in Modal |-> "unopened"]
      /\ closed = {} /\ recovery = Idle /\ acting = FALSE
  BY DEF Init
<1>3. \A m, d \in Modal : ~Listed(modals, m) /\ ~Listed(opened, m) /\ ~Before(modals, m, d)
  BY <1>1 DEF Listed, Before
<1>4. \A m \in Modal : recovery # Resolving(m)
  BY <1>2, Recoveries
<1>5. TypeOK
  <2>1. fate \in [Modal -> {"unopened", "open", "gone"}]
    BY <1>2
  <2>2. closed \subseteq Page /\ acting \in BOOLEAN
    BY <1>2
  <2>3. recovery \in {Idle}
    BY <1>2
  <2> QED
    BY <1>1, <2>1, <2>2, <2>3 DEF TypeOK
<1>6. HistoryAgrees
  BY <1>1, <1>2, <1>3 DEF HistoryAgrees, Alive
<1> QED
  BY <1>2, <1>3, <1>4, <1>5, <1>6 DEF ModalInv, Known

LEMMA OpensInv ==
  ASSUME ModalInv, NEW x \in Modal, Opens(x)
  PROVE  ModalInv'
<1>1. /\ modals \in Seq(Modal) /\ opened \in Seq(Modal)
      /\ fate[x] = "unopened" /\ Alive(x)
      /\ fate' = [fate EXCEPT ![x] = "open"] /\ fate \in [Modal -> {"unopened", "open", "gone"}]
      /\ opened' = Append(opened, x) /\ modals' = Append(modals, x)
      /\ UNCHANGED <<closed, recovery, acting>>
  BY DEF ModalInv, TypeOK, Opens
<1>2. /\ modals' \in Seq(Modal)
      /\ \A m \in Modal : Listed(modals', m) <=> Listed(modals, m) \/ m = x
      /\ \A m, d \in Modal : Before(modals', m, d) <=> Before(modals, m, d) \/ (Listed(modals, m) /\ d = x)
  BY <1>1, AppendKeeps
<1>3. /\ opened' \in Seq(Modal)
      /\ \A m \in Modal : Listed(opened', m) <=> Listed(opened, m) \/ m = x
      /\ \A m, d \in Modal : Before(opened', m, d) <=> Before(opened, m, d) \/ (Listed(opened, m) /\ d = x)
  BY <1>1, AppendKeeps
<1>4. TypeOK'
  BY <1>1, <1>2, <1>3 DEF ModalInv, TypeOK
<1>5. HistoryAgrees'
  <2>1. ~Listed(opened, x)
    BY <1>1 DEF ModalInv, HistoryAgrees
  <2>2. \A i, j \in DOMAIN opened' : opened'[i] = opened'[j] => i = j
    <3>1. /\ DOMAIN opened' = 1 .. Len(opened) + 1 /\ DOMAIN opened = 1 .. Len(opened) /\ Len(opened) \in Nat
          /\ \A i \in DOMAIN opened : opened'[i] = opened[i]
          /\ opened'[Len(opened) + 1] = x
      <4>1. /\ Len(opened') = Len(opened) + 1 /\ opened'[Len(opened) + 1] = x
            /\ \A i \in 1 .. Len(opened) : opened'[i] = opened[i]
        BY <1>1, AppendProperties
      <4> QED
        BY <1>1, <1>3, <4>1, LenProperties
    <3>2. \A i \in DOMAIN opened' : i \in DOMAIN opened \/ i = Len(opened) + 1
      BY <3>1
    <3>3. \A i \in DOMAIN opened : opened[i] # x
      BY <2>1 DEF Listed
    <3>4. \A i, j \in DOMAIN opened : opened[i] = opened[j] => i = j
      BY DEF ModalInv, HistoryAgrees
    <3> QED
      BY <3>1, <3>2, <3>3, <3>4
  <2>3. \A m \in Modal : Listed(opened', m) => fate'[m] # "unopened"
    BY <1>1, <1>3 DEF ModalInv, HistoryAgrees
  <2>4. \A m \in Modal : ~Alive(m)' => fate'[m] = "gone"
    BY <1>1 DEF ModalInv, HistoryAgrees, Alive
  <2> QED
    BY <2>2, <2>3, <2>4 DEF HistoryAgrees
<1>6. \A m \in Modal : (fate'[m] = "open" => Known(m)') /\ (Known(m)' => Listed(opened', m))
  BY <1>1, <1>2, <1>3 DEF ModalInv, Known
<1>7. ASSUME NEW m \in Modal, NEW d \in Modal, KindOf[m] = KindOf[d], PageOf[m] = PageOf[d]
      PROVE  /\ Before(modals', m, d) => Older(m, d)'
             /\ recovery' = Resolving(m) /\ Listed(modals', d) => Older(m, d)'
  BY <1>1, <1>2, <1>3, <1>7 DEF ModalInv, Known, Older
<1> QED
  BY <1>4, <1>5, <1>6, <1>7 DEF ModalInv

\* Steps that leave the list and its history alone.
LEMMA FateKeeps ==
  ASSUME ModalInv, UNCHANGED <<modals, opened>>,
         fate' \in [Modal -> {"unopened", "open", "gone"}],
         closed' \subseteq Page, acting' \in BOOLEAN,
         \A m \in Modal : /\ fate'[m] = "unopened" => fate[m] = "unopened"
                          /\ fate'[m] = "open" => fate[m] = "open"
                          /\ ~Alive(m)' => fate'[m] = "gone",
         \/ UNCHANGED recovery
         \/ /\ recovery' \in {Idle} \cup {Targeting(k, p) : k \in Kind, p \in Page}
            /\ \A m \in Modal : recovery = Resolving(m) => fate'[m] = "gone"
  PROVE  ModalInv'
<1>1. TypeOK'
  BY DEF ModalInv, TypeOK
<1>2. HistoryAgrees'
  BY DEF ModalInv, HistoryAgrees, Listed
<1>3. \A m \in Modal : recovery' = Resolving(m) => recovery = Resolving(m)
  BY Recoveries
<1>4. \A m \in Modal : recovery = Resolving(m) /\ recovery' # Resolving(m) => fate'[m] = "gone"
  OBVIOUS
<1>5. \A m \in Modal : (fate'[m] = "open" => Known(m)') /\ (Known(m)' => Listed(opened', m))
  BY <1>3, <1>4 DEF ModalInv, Known
<1>6. ASSUME NEW m \in Modal, NEW d \in Modal, KindOf[m] = KindOf[d], PageOf[m] = PageOf[d]
      PROVE  /\ Before(modals', m, d) => Older(m, d)'
             /\ recovery' = Resolving(m) /\ Listed(modals', d) => Older(m, d)'
  BY <1>3, <1>6 DEF ModalInv, Older
<1> QED
  BY <1>1, <1>2, <1>5, <1>6 DEF ModalInv

LEMMA PageClosesInv ==
  ASSUME ModalInv, NEW p \in Page, PageCloses(p)
  PROVE  ModalInv'
<1>1. \A m \in Modal : ~Alive(m) => fate[m] = "gone"
  BY DEF ModalInv, HistoryAgrees
<1> QED
  BY <1>1, FateKeeps DEF ModalInv, TypeOK, PageCloses, Alive

LEMMA AnsweredByUserInv ==
  ASSUME ModalInv, NEW m \in Modal, AnsweredByUser(m)
  PROVE  ModalInv'
<1>1. \A d \in Modal : ~Alive(d) => fate[d] = "gone"
  BY DEF ModalInv, HistoryAgrees
<1> QED
  BY <1>1, FateKeeps DEF ModalInv, TypeOK, AnsweredByUser, Alive

LEMMA RecoverOnInv ==
  ASSUME ModalInv, NEW k \in Kind, NEW p \in Page, RecoverOn(k, p)
  PROVE  ModalInv'
<1>1. \A d \in Modal : ~Alive(d) => fate[d] = "gone"
  BY DEF ModalInv, HistoryAgrees
<1> QED
  BY <1>1, Recoveries, FateKeeps DEF ModalInv, TypeOK, RecoverOn, Alive

LEMMA RecoverySucceedsInv ==
  ASSUME ModalInv, RecoverySucceeds
  PROVE  ModalInv'
<1>1. \A d \in Modal : ~Alive(d) => fate[d] = "gone"
  BY DEF ModalInv, HistoryAgrees
<1>2. recovery.modal \in Modal /\ recovery = Resolving(recovery.modal)
  BY InResolving DEF ModalInv, RecoverySucceeds
<1> QED
  BY <1>1, <1>2, Recoveries, FateKeeps DEF ModalInv, TypeOK, RecoverySucceeds, Alive

LEMMA AlreadyHandledInv ==
  ASSUME ModalInv, AlreadyHandled
  PROVE  ModalInv'
<1>1. \A d \in Modal : ~Alive(d) => fate[d] = "gone"
  BY DEF ModalInv, HistoryAgrees
<1>2. recovery.modal \in Modal /\ recovery = Resolving(recovery.modal)
  BY InResolving DEF ModalInv, AlreadyHandled
<1> QED
  BY <1>1, <1>2, Recoveries, FateKeeps DEF ModalInv, TypeOK, AlreadyHandled, Alive

LEMMA ActionEndsInv ==
  ASSUME ModalInv, ActionEnds
  PROVE  ModalInv'
<1>1. \A d \in Modal : ~Alive(d) => fate[d] = "gone"
  BY DEF ModalInv, HistoryAgrees
<1>2. /\ UNCHANGED <<modals, opened>> /\ fate' = fate /\ closed' = closed /\ recovery' = recovery
      /\ acting' \in BOOLEAN
  BY DEF ActionEnds
<1>3. fate' \in [Modal -> {"unopened", "open", "gone"}] /\ closed' \subseteq Page
  BY <1>2 DEF ModalInv, TypeOK
<1>4. \A m \in Modal : /\ fate'[m] = "unopened" => fate[m] = "unopened"
                       /\ fate'[m] = "open" => fate[m] = "open"
                       /\ ~Alive(m)' => fate'[m] = "gone"
  BY <1>1, <1>2 DEF Alive
<1> QED
  BY <1>2, <1>3, <1>4, FateKeeps

\* The guard of an action drops what is gone.
LEMMA PruneInv ==
  ASSUME ModalInv, PruneClosed, UNCHANGED <<fate, opened, closed, recovery>>, acting' \in BOOLEAN
  PROVE  ModalInv'
<1>1. /\ modals' \in Seq(Modal)
      /\ \A m \in Modal : Listed(modals', m) <=> Listed(modals, m) /\ Alive(m)
      /\ \A m, d \in Modal : Before(modals', m, d) => Before(modals, m, d)
  BY PrunedKeeps DEF PruneClosed, ModalInv, TypeOK
<1>2. TypeOK'
  BY <1>1 DEF ModalInv, TypeOK
<1>3. HistoryAgrees'
  BY DEF ModalInv, HistoryAgrees, Alive
<1>4. \A m \in Modal : (fate'[m] = "open" => Known(m)') /\ (Known(m)' => Listed(opened', m))
  BY <1>1 DEF ModalInv, Known, HistoryAgrees
<1>5. ASSUME NEW m \in Modal, NEW d \in Modal, KindOf[m] = KindOf[d], PageOf[m] = PageOf[d]
      PROVE  /\ Before(modals', m, d) => Older(m, d)'
             /\ recovery' = Resolving(m) /\ Listed(modals', d) => Older(m, d)'
  BY <1>1, <1>5 DEF ModalInv, Older
<1> QED
  BY <1>2, <1>3, <1>4, <1>5 DEF ModalInv

\* A recovery takes the first entry it may take: no other entry of its kind and
\* page is in front of it.
LEMMA ConsumeInv ==
  ASSUME ModalInv, NEW k \in Kind, NEW pages \in SUBSET Page, Consume(k, pages),
         UNCHANGED <<fate, opened, closed, acting>>,
         \A m \in Modal : recovery # Resolving(m)
  PROVE  ModalInv'
<1> DEFINE matches == {i \in DOMAIN modals : KindOf[modals[i]] = k /\ PageOf[modals[i]] \in pages}
<1>1. \A d \in Modal : ~Alive(d) => fate[d] = "gone"
  BY DEF ModalInv, HistoryAgrees
<1>2. CASE matches = {}
  <2>1. recovery' = Idle /\ UNCHANGED modals
    BY <1>2 DEF Consume
  <2> QED
    BY <1>1, <2>1, FateKeeps DEF ModalInv, TypeOK, Alive
<1>3. CASE matches # {}
  <2>1. PICK i \in matches : /\ \A j \in matches : i <= j
                             /\ modals' = RemoveAt(modals, i)
                             /\ recovery' = IF Alive(modals[i]) THEN Resolving(modals[i]) ELSE Idle
    BY <1>3 DEF Consume
  <2> DEFINE x == modals[i]
  <2>2. modals \in Seq(Modal) /\ i \in DOMAIN modals /\ x \in Modal
    BY <2>1, ElementOfSeq, LenProperties DEF ModalInv, TypeOK
  <2>3. /\ modals' \in Seq(Modal)
        /\ \A m \in Modal : /\ Listed(modals', m) => Listed(modals, m)
                            /\ Listed(modals, m) /\ m # x => Listed(modals', m)
        /\ \A m, d \in Modal : Before(modals', m, d) => Before(modals, m, d)
    BY <2>1, <2>2, RemoveAtKeeps
  <2>4. ASSUME NEW d \in Modal, Listed(modals', d), KindOf[d] = KindOf[x], PageOf[d] = PageOf[x]
        PROVE  Before(modals, x, d)
    <3>1. /\ DOMAIN modals = 1 .. Len(modals) /\ Len(modals) \in Nat
          /\ DOMAIN modals' = 1 .. Len(modals) - 1
          /\ \A j \in DOMAIN modals' : modals'[j] = IF j < i THEN modals[j] ELSE modals[j + 1]
      BY <2>1, <2>2, RemoveAtIs, LenProperties
    <3>2. PICK j \in DOMAIN modals' : modals'[j] = d
      BY <2>4 DEF Listed
    <3>3. j + 1 \in DOMAIN modals /\ j \in DOMAIN modals
      BY <3>1
    <3>4. ~(j < i)
      <4> SUFFICES ASSUME j < i PROVE FALSE
        OBVIOUS
      <4>1. j \in matches
        BY <2>1, <2>4, <3>1, <3>2, <3>3
      <4> QED
        BY <2>1, <2>2, <3>1, <3>3, <4>1
    <3>5. modals[j + 1] = d /\ i < j + 1
      BY <2>2, <3>1, <3>2, <3>4
    <3> QED
      BY <2>2, <3>3, <3>5 DEF Before
  <2> HIDE DEF x
  <2>5. recovery' = IF Alive(x) THEN Resolving(x) ELSE Idle
    BY <2>1 DEF x
  <2>6. TypeOK'
    BY <2>2, <2>3, <2>5 DEF ModalInv, TypeOK
  <2>7. HistoryAgrees'
    BY DEF ModalInv, HistoryAgrees, Alive
  <2>8. Listed(modals, x)
    BY <2>2 DEF Listed, x
  <2>9. \A m \in Modal : recovery' = Resolving(m) <=> m = x /\ Alive(x)
    BY <2>2, <2>5, Recoveries
  <2>10. \A m \in Modal : (fate'[m] = "open" => Known(m)') /\ (Known(m)' => Listed(opened', m))
    BY <1>1, <2>2, <2>3, <2>8, <2>9 DEF ModalInv, Known
  <2>11. ASSUME NEW m \in Modal, NEW d \in Modal, KindOf[m] = KindOf[d], PageOf[m] = PageOf[d]
         PROVE  /\ Before(modals', m, d) => Older(m, d)'
                /\ recovery' = Resolving(m) /\ Listed(modals', d) => Older(m, d)'
    BY <2>2, <2>3, <2>4, <2>9, <2>11 DEF ModalInv, Older
  <2> QED
    BY <2>6, <2>7, <2>10, <2>11 DEF ModalInv
<1> QED
  BY <1>2, <1>3

LEMMA RecoverAnyInv ==
  ASSUME ModalInv, NEW k \in Kind, RecoverAny(k)
  PROVE  ModalInv'
<1>1. \A m \in Modal : recovery # Resolving(m)
  BY Recoveries DEF RecoverAny
<1> QED
  BY <1>1, ConsumeInv DEF RecoverAny

LEMMA TargetedInv ==
  ASSUME ModalInv, Targeted
  PROVE  ModalInv'
<1>1. /\ recovery.kind \in Kind /\ recovery.page \in Page
      /\ \A m \in Modal : recovery # Resolving(m)
  BY InTargeting, Recoveries DEF ModalInv, Targeted
<1>2. UNCHANGED <<fate, opened, closed, acting>>
  BY DEF Targeted
<1>3. CASE recovery.page \in closed
  <2>1. recovery' = Idle /\ UNCHANGED modals
    BY <1>3 DEF Targeted
  <2>2. \A d \in Modal : ~Alive(d) => fate[d] = "gone"
    BY DEF ModalInv, HistoryAgrees
  <2> QED
    BY <1>1, <1>2, <2>1, <2>2, FateKeeps DEF ModalInv, TypeOK, Alive
<1>4. CASE recovery.page \notin closed
  <2>1. Consume(recovery.kind, {recovery.page})
    BY <1>4 DEF Targeted
  <2> QED
    BY <1>1, <1>2, <2>1, ConsumeInv
<1> QED
  BY <1>3, <1>4

\* A failed recovery puts its entry back in front of what is younger.
LEMMA RecoveryFailsInv ==
  ASSUME ModalInv, RecoveryFails
  PROVE  ModalInv'
<1> DEFINE x == recovery.modal
<1>1. x \in Modal /\ recovery = Resolving(x)
  BY InResolving DEF ModalInv, RecoveryFails
<1> HIDE DEF x
<1>2. /\ fate \in [Modal -> {"unopened", "open", "gone"}]
      /\ \/ fate' = fate
         \/ fate[x] = "open" /\ fate' = [fate EXCEPT ![x] = "gone"]
      /\ modals' = Requeued(x) /\ recovery' = Idle
      /\ UNCHANGED <<opened, closed, acting>>
  BY DEF ModalInv, TypeOK, RecoveryFails, x
<1>3. /\ fate' \in [Modal -> {"unopened", "open", "gone"}]
      /\ \A m \in Modal : /\ fate'[m] = "unopened" => fate[m] = "unopened"
                          /\ fate'[m] = "open" => fate[m] = "open"
                          /\ fate[m] = "gone" => fate'[m] = "gone"
                          /\ fate[m] # "unopened" => fate'[m] # "unopened"
  BY <1>1, <1>2
<1>4. \A m \in Modal : ~Alive(m) => fate[m] = "gone"
  BY DEF ModalInv, HistoryAgrees
<1>5. \A m \in Modal : Alive(m)' = Alive(m)
  BY <1>2 DEF Alive
<1>6. CASE ~Alive(x)
  <2>1. modals' = modals /\ fate'[x] = "gone"
    BY <1>1, <1>2, <1>3, <1>4, <1>6 DEF Requeued
  <2>2. \A m \in Modal : recovery = Resolving(m) => fate'[m] = "gone"
    <3> SUFFICES ASSUME NEW m \in Modal, recovery = Resolving(m) PROVE fate'[m] = "gone"
      OBVIOUS
    <3>1. Resolving(x).modal = x /\ Resolving(m).modal = m
      BY <1>1, Recoveries
    <3> QED
      BY <1>1, <2>1, <3>1
  <2> QED
    BY <1>2, <1>3, <1>4, <1>5, <2>1, <2>2, FateKeeps DEF ModalInv, TypeOK
<1>7. CASE Alive(x)
  <2>1. /\ modals' \in Seq(Modal)
        /\ \A m \in Modal : Listed(modals', m) <=> m = x \/ Listed(modals, m)
        /\ \A m, d \in Modal : Before(modals', m, d) => Before(modals, m, d) \/ (m = x /\ Listed(modals, d))
    BY <1>1, <1>2, <1>7, FrontKeeps DEF ModalInv, TypeOK, Requeued
  <2>2. TypeOK'
    BY <1>2, <1>3, <2>1 DEF ModalInv, TypeOK
  <2>3. HistoryAgrees'
    BY <1>2, <1>3, <1>4, <1>5 DEF ModalInv, HistoryAgrees, Listed
  <2>4. \A m \in Modal : Known(m)' <=> Known(m)
    BY <1>1, <1>2, <2>1, Recoveries DEF Known
  <2>5. \A m \in Modal : (fate'[m] = "open" => Known(m)') /\ (Known(m)' => Listed(opened', m))
    BY <1>2, <1>3, <2>4 DEF ModalInv
  <2>6. ASSUME NEW m \in Modal, NEW d \in Modal, KindOf[m] = KindOf[d], PageOf[m] = PageOf[d]
        PROVE  /\ Before(modals', m, d) => Older(m, d)'
               /\ recovery' = Resolving(m) /\ Listed(modals', d) => Older(m, d)'
    BY <1>1, <1>2, <2>1, <2>6, Recoveries DEF ModalInv, Older
  <2> QED
    BY <2>2, <2>3, <2>5, <2>6 DEF ModalInv
<1> QED
  BY <1>6, <1>7

LEMMA NextInv ==
  ASSUME ModalInv, [Next]_vars
  PROVE  ModalInv'
<1>1. CASE Browser
  BY <1>1, OpensInv, AnsweredByUserInv, PageClosesInv DEF Browser
<1>2. CASE Recovery
  BY <1>2, RecoverAnyInv, RecoverOnInv, TargetedInv, RecoverySucceedsInv, RecoveryFailsInv,
     AlreadyHandledInv DEF Recovery
<1>3. CASE ActionStarts
  BY <1>3, PruneInv DEF ActionStarts
<1>4. CASE ActionBlocked
  BY <1>4, PruneInv DEF ActionBlocked, ModalInv, TypeOK
<1>5. CASE UNCHANGED vars
  BY <1>5 DEF vars, ModalInv, TypeOK, HistoryAgrees, Known, Listed, Before, Older, Alive
<1> QED
  BY <1>1, <1>2, <1>3, <1>4, <1>5, ActionEndsInv DEF Next, Action

-----------------------------------------------------------------------------
(* The theorems *)

\* In every reachable state an open modal is in the list or being resolved,
\* what is there has opened, and of two modals of one kind and page the older
\* one comes first (state.modal_states and the recovery tools).
THEOREM ModalInvariant == Spec => []ModalInv
<1> QED
  BY InitInv, NextInv, PTL DEF Spec

\* A modal that is open in the browser is never forgotten: the listener records
\* it, and a recovery that fails or is cancelled puts it back.
THEOREM OpenModals == Spec => []OpenModalsKnown
<1>1. ModalInv => OpenModalsKnown
  <2> SUFFICES ASSUME ModalInv, NEW m \in Modal, fate[m] = "open" PROVE Listed(Entries, m)
    BY DEF OpenModalsKnown
  <2>1. Known(m) /\ modals \in Seq(Modal)
    BY DEF ModalInv, TypeOK
  <2>2. CASE recovery.stage = "resolving"
    <3>1. recovery.modal \in Modal /\ recovery = Resolving(recovery.modal)
      BY <2>2, InResolving DEF ModalInv
    <3>2. Listed(<<recovery.modal>> \o modals, m) <=> m = recovery.modal \/ Listed(modals, m)
      BY <2>1, <3>1, FrontKeeps
    <3> QED
      BY <2>1, <2>2, <3>1, <3>2, Recoveries DEF Known, Entries
  <2>3. CASE recovery.stage # "resolving"
    BY <2>1, <2>3, Recoveries DEF Known, Entries
  <2> QED
    BY <2>2, <2>3
<1> QED
  BY <1>1, ModalInvariant, PTL

\* The oldest pending modal of a kind on a page is the next one consumed there,
\* however recoveries of others fail meanwhile (consume_modal_state takes the
\* first match).
THEOREM OldestFirstOnPage == Spec => []OldestFirstPerPage
<1>1. ModalInv => OldestFirstPerPage
  <2> SUFFICES ASSUME ModalInv, NEW i \in DOMAIN Entries, NEW j \in DOMAIN Entries, i < j,
                      KindOf[Entries[i]] = KindOf[Entries[j]], PageOf[Entries[i]] = PageOf[Entries[j]]
               PROVE  Older(Entries[i], Entries[j])
    BY DEF OldestFirstPerPage
  <2>1. Before(Entries, Entries[i], Entries[j])
    BY DEF Before
  <2>2. modals \in Seq(Modal)
    BY DEF ModalInv, TypeOK
  <2>3. CASE recovery.stage = "resolving"
    <3>1. recovery.modal \in Modal /\ recovery = Resolving(recovery.modal)
      BY <2>3, InResolving DEF ModalInv
    <3>2. Entries = <<recovery.modal>> \o modals
      BY <2>3 DEF Entries
    <3>3. /\ Entries \in Seq(Modal)
          /\ \A m, d \in Modal : Before(Entries, m, d) =>
               Before(modals, m, d) \/ (m = recovery.modal /\ Listed(modals, d))
      BY <2>2, <3>1, <3>2, FrontKeeps
    <3>4. Entries[i] \in Modal /\ Entries[j] \in Modal
      BY <3>3, ElementOfSeq, LenProperties
    <3> QED
      BY <2>1, <3>1, <3>3, <3>4 DEF ModalInv
  <2>4. CASE recovery.stage # "resolving"
    <3>1. Entries = modals
      BY <2>4 DEF Entries
    <3>2. Entries[i] \in Modal /\ Entries[j] \in Modal
      BY <2>2, <3>1, ElementOfSeq, LenProperties
    <3> QED
      BY <2>1, <3>1, <3>2 DEF ModalInv
  <2> QED
    BY <2>3, <2>4
<1> QED
  BY <1>1, ModalInvariant, PTL
=============================================================================
