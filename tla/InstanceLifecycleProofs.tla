---------------------- MODULE InstanceLifecycleProofs ----------------------
(***************************************************************************)
(* Proofs about InstanceLifecycle for any number of launches, names and    *)
(* profiles.  LifecycleInv is inductive: InitInv and NextInv, with one     *)
(* lemma per action.  Everything else follows from it.                     *)
(***************************************************************************)
EXTENDS InstanceLifecycle, FiniteSetTheorems, TLAPS

-----------------------------------------------------------------------------
(* Lemmas shared by the actions *)

\* A step that reserves no name keeps the capacity bound.
LEMMA FewerReserved ==
  ASSUME ReservationsBounded, Reserved' \subseteq Reserved
  PROVE  ReservationsBounded'
<1>1. IsFiniteSet(Reserved) /\ Cardinality(Reserved) \in Nat
  BY LifecycleAssumption, FS_Subset, FS_CardinalityType DEF Reserved
<1>2. Cardinality(Reserved') \in Nat /\ Cardinality(Reserved') <= Cardinality(Reserved)
  BY <1>1, FS_Subset, FS_CardinalityType
<1> QED
  BY <1>1, <1>2, LifecycleAssumption DEF ReservationsBounded

\* A step that changes neither the reservations nor who owns one keeps
\* everything LifecycleInv says about ownership.
LEMMA OwnersKept ==
  ASSUME LifecycleInv,
         UNCHANGED <<reservations, pending>>,
         \A m \in Launch : (Owns(m)' <=> Owns(m))
  PROVE  OwnersReserved' /\ ReservationsDistinct' /\ ReservationsBounded'
<1>1. Reserved' = Reserved
  BY DEF Reserved
<1>2. OwnersReserved'
  BY <1>1 DEF LifecycleInv, OwnersReserved
<1>3. ReservationsDistinct'
  BY <1>1 DEF LifecycleInv, ReservationsDistinct
<1>4. ReservationsBounded'
  BY <1>1, FewerReserved DEF LifecycleInv
<1> QED
  BY <1>2, <1>3, <1>4

\* A step outside the tables and the phases that define them disturbs typing
\* and PhasesAgree only.
LEMMA TablesKept ==
  ASSUME LifecycleInv, TypeOK', PhasesAgree',
         UNCHANGED <<reservations, pending, instances, retired, launchCleanup>>,
         UNCHANGED <<launch, rollback, record>>
  PROVE  LifecycleInv'
<1>1. TablesAgree' /\ PendingUntilRecord'
  BY DEF LifecycleInv, TablesAgree, PendingUntilRecord
<1>2. \A m \in Launch : (Owns(m)' <=> Owns(m))
  BY DEF Owns
<1>3. OwnersReserved' /\ ReservationsDistinct' /\ ReservationsBounded'
  BY <1>2, OwnersKept
<1> QED
  BY <1>1, <1>3 DEF LifecycleInv

\* A step that frees the name n, which l owned and nobody else did, keeps the
\* correspondence of owners and reservations.
LEMMA OwnerReleased ==
  ASSUME LifecycleInv, NEW l \in Launch,
         reservations' = [reservations EXCEPT ![NameOf[l]] = Unreserved],
         \A m \in Launch : NameOf[m] = NameOf[l] => ~Owns(m)',
         \A m \in Launch : NameOf[m] # NameOf[l] => (Owns(m)' <=> Owns(m)),
         \A n \in Name : n # NameOf[l] => pending'[n] = pending[n]
  PROVE  OwnersReserved' /\ ReservationsDistinct' /\ ReservationsBounded'
<1>1. NameOf[l] \in Name /\ \A m \in Launch : NameOf[m] \in Name
  BY LifecycleAssumption
<1>2. /\ reservations'[NameOf[l]] = Unreserved
      /\ \A n \in Name : n # NameOf[l] => reservations'[n] = reservations[n]
  BY <1>1 DEF LifecycleInv, TypeOK
<1>3. Reserved' = Reserved \ {NameOf[l]}
  BY <1>1, <1>2 DEF Reserved
<1>4. OwnersReserved'
  BY <1>1, <1>2, <1>3 DEF LifecycleInv, OwnersReserved
<1>5. ReservationsDistinct'
  BY <1>2, <1>3 DEF LifecycleInv, ReservationsDistinct, Reserved
<1>6. ReservationsBounded'
  BY <1>3, FewerReserved DEF LifecycleInv
<1> QED
  BY <1>4, <1>5, <1>6

\* What _start_close does to the tables and the record it is called with.
LEMMA StartCloseTypes ==
  ASSUME TypeOK, NEW l \in Launch, StartClose(l)
  PROVE  /\ instances' \in [Name -> Launch \cup {None}]
         /\ retired' \in [Name -> Launch \cup {None}]
         /\ record' \in [Launch -> {"none", "live", "crashed", "closing", "closed", "close_failed"}]
         /\ browser' \in [Launch -> {"none", "open", "closing", "closed", "stuck"}]
<1>1. CASE CloseStarted(l)
  BY <1>1 DEF TypeOK, StartClose
<1>2. CASE ~CloseStarted(l)
  BY <1>2, LifecycleAssumption DEF TypeOK, StartClose
<1> QED
  BY <1>1, <1>2

\* _start_close keeps every ownership if the record exists already.
LEMMA StartCloseOwners ==
  ASSUME LifecycleInv, NEW l \in Launch, StartClose(l), record[l] # "none",
         UNCHANGED <<reservations, pending, rollback>>,
         \A m \in Launch : m # l => launch'[m] = launch[m],
         launch'[l] \notin {"scheduled", "launching"}
  PROVE  OwnersReserved' /\ ReservationsDistinct' /\ ReservationsBounded'
<1>1. record'[l] # "none" /\ (record'[l] = "closed" <=> record[l] = "closed")
  BY DEF LifecycleInv, TypeOK, StartClose, CloseStarted
<1>2. \A m \in Launch : m # l => record'[m] = record[m]
  BY DEF LifecycleInv, TypeOK, StartClose
<1>3. Owns(l)' <=> Owns(l)
  <2>1. rollback[l] = "none" /\ launch[l] \notin {"scheduled", "launching"}
    BY DEF LifecycleInv, PhasesAgree
  <2>2. record'[l] \in {"none", "live", "crashed", "closing", "closed", "close_failed"}
    BY StartCloseTypes DEF LifecycleInv
  <2>3. record[l] \in {"none", "live", "crashed", "closing", "closed", "close_failed"}
    BY DEF LifecycleInv, TypeOK
  <2> QED
    BY <1>1, <2>1, <2>2, <2>3 DEF Owns
<1>4. \A m \in Launch : m # l => (Owns(m)' <=> Owns(m))
  BY <1>2 DEF Owns
<1> QED
  BY <1>3, <1>4, OwnersKept

\* _start_close moves the one record of its name from _instances to _retired.
LEMMA StartCloseTables ==
  ASSUME LifecycleInv, NEW l \in Launch, StartClose(l), record[l] # "none",
         UNCHANGED <<pending, launchCleanup, rollback>>,
         \A m \in Launch : launch'[m] = launch[m] \/ launch'[m] = "unwinding"
  PROVE  TablesAgree'
<1>1. CASE CloseStarted(l)
  BY <1>1 DEF LifecycleInv, TablesAgree, StartClose
<1>2. CASE ~CloseStarted(l)
  <2>1. \A m \in Launch : m # l /\ NameOf[m] = NameOf[l]
          => record[m] \notin {"live", "crashed", "closing", "close_failed"}
    BY <1>2 DEF LifecycleInv, TypeOK, OwnersReserved, Owns, CloseStarted
  <2> NameOf[l] \in Name /\ None \notin Launch
    BY LifecycleAssumption
  <2>2. \A n \in Name : instances'[n] = IF n = NameOf[l] /\ instances[n] = l
                                          THEN None ELSE instances[n]
    BY <1>2 DEF LifecycleInv, TypeOK, StartClose
  <2>3. \A n \in Name : retired'[n] = IF n = NameOf[l] THEN l ELSE retired[n]
    BY <1>2 DEF LifecycleInv, TypeOK, StartClose
  <2>4. \A m \in Launch : record'[m] = IF m = l THEN "closing" ELSE record[m]
    BY <1>2 DEF LifecycleInv, TypeOK, StartClose
  <2> QED
    BY <2>1, <2>2, <2>3, <2>4 DEF LifecycleInv, TypeOK, TablesAgree
<1> QED
  BY <1>1, <1>2

-----------------------------------------------------------------------------
(* create() *)

LEMMA InitInv == Init => LifecycleInv
<1> SUFFICES ASSUME Init PROVE LifecycleInv
  OBVIOUS
<1>1. TypeOK
  BY DEF Init, TypeOK
<1>2. Reserved = {}
  BY DEF Init, Reserved
<1>3. PhasesAgree /\ TablesAgree /\ PendingUntilRecord
  BY LifecycleAssumption DEF Init, PhasesAgree, TablesAgree, PendingUntilRecord, LaunchDone
<1>4. OwnersReserved /\ ReservationsDistinct
  BY <1>2, LifecycleAssumption DEF Init, OwnersReserved, ReservationsDistinct, Owns
<1>5. ReservationsBounded
  BY <1>2, FS_EmptySet, LifecycleAssumption DEF ReservationsBounded
<1> QED
  BY <1>1, <1>3, <1>4, <1>5 DEF LifecycleInv

LEMMA CreateInv ==
  ASSUME LifecycleInv, NEW l \in Launch, Create(l)
  PROVE  LifecycleInv'
<1> DEFINE n == NameOf[l]
<1>1. n \in Name /\ ProfileOf[l] # Unreserved /\ None # l
  BY LifecycleAssumption
<1>2. \A m \in Launch : NameOf[m] = n => ~Owns(m)
  BY LifecycleAssumption DEF LifecycleInv, OwnersReserved, Create
<1>3. /\ launch[l] = "none" /\ record[l] = "none" /\ rollback[l] = "none"
      /\ browser[l] = "none"
  BY DEF LifecycleInv, PhasesAgree, Create
<1>4. TypeOK'
  <2>1. ProfileOf[l] \in {ProfileOf[m] : m \in Launch} \cup {Unreserved}
    OBVIOUS
  <2>2. reservations' \in [Name -> {ProfileOf[m] : m \in Launch} \cup {Unreserved}]
    BY <2>1 DEF LifecycleInv, TypeOK, Create
  <2> QED
    BY <2>2 DEF LifecycleInv, TypeOK, Create
<1>5. PhasesAgree'
  BY <1>3 DEF LifecycleInv, TypeOK, PhasesAgree, LaunchDone, Create
<1>6. TablesAgree'
  BY <1>1, <1>3 DEF LifecycleInv, TypeOK, TablesAgree, Create
<1>7. PendingUntilRecord'
  <2>1. ASSUME NEW m \in Launch, m # l, NameOf[m] = n
        PROVE  /\ launch[m] \notin {"scheduled", "launching", "rollingBack"}
               /\ ~(launch[m] = "ended" /\ record[m] = "none")
    BY <1>2, <2>1 DEF LifecycleInv, TypeOK, PhasesAgree, PendingUntilRecord, Owns
  <2> QED
    BY <1>1, <2>1, LifecycleAssumption DEF LifecycleInv, TypeOK, PendingUntilRecord, Create
<1>8. Owns(l)' /\ \A m \in Launch : m # l => (Owns(m)' <=> Owns(m))
  <2>1. Owns(l)'
    BY DEF Create, LifecycleInv, TypeOK, Owns
  <2>2. ASSUME NEW m \in Launch, m # l, NameOf[m] # n
        PROVE  Owns(m)' <=> Owns(m)
    BY <2>2, LifecycleAssumption DEF Create, LifecycleInv, TypeOK, Owns
  <2>3. ASSUME NEW m \in Launch, m # l, NameOf[m] = n
        PROVE  ~Owns(m)'
    BY <1>1, <1>2, <2>3 DEF Create, LifecycleInv, TypeOK, Owns
  <2> QED
    BY <1>2, <2>1, <2>2, <2>3
<1>9. /\ reservations'[n] = ProfileOf[l]
      /\ \A x \in Name : x # n => reservations'[x] = reservations[x]
      /\ Reserved' = Reserved \cup {n}
      /\ n \notin Reserved
  BY <1>1 DEF LifecycleInv, TypeOK, Create, Reserved
<1>10. OwnersReserved'
  <2>1. \A m \in Launch : Owns(m)' => reservations'[NameOf[m]] = ProfileOf[m]
    BY <1>2, <1>8, <1>9, LifecycleAssumption DEF LifecycleInv, OwnersReserved
  <2>2. \A x \in Reserved' : \E m \in Launch : Owns(m)' /\ NameOf[m] = x
    BY <1>2, <1>8, <1>9 DEF LifecycleInv, OwnersReserved
  <2>3. \A k, m \in Launch : Owns(k)' /\ Owns(m)' /\ NameOf[k] = NameOf[m] => k = m
    BY <1>2, <1>8 DEF LifecycleInv, OwnersReserved
  <2>4. \A k, m \in Launch : pending'[NameOf[m]] = k /\ Owns(m)' => k = m
    BY <1>1, <1>2, <1>8, LifecycleAssumption
    DEF LifecycleInv, OwnersReserved, TypeOK, Create
  <2> QED
    BY <2>1, <2>2, <2>3, <2>4 DEF OwnersReserved
<1>11. ReservationsDistinct'
  BY <1>9 DEF LifecycleInv, ReservationsDistinct, Create, ProfileFree, Reserved
<1>12. ReservationsBounded'
  <2>1. IsFiniteSet(Reserved) /\ Cardinality(Reserved) \in Nat
    BY LifecycleAssumption, FS_Subset, FS_CardinalityType DEF Reserved
  <2>2. Cardinality(Reserved') = Cardinality(Reserved) + 1
    BY <1>9, <2>1, FS_AddElement
  <2> QED
    BY <2>1, <2>2, LifecycleAssumption DEF Create, HasRoom, ReservationsBounded
<1> QED
  BY <1>4, <1>5, <1>6, <1>7, <1>10, <1>11, <1>12 DEF LifecycleInv

LEMMA CreateReturnsInv ==
  ASSUME LifecycleInv, NEW l \in Launch, CreateReturns(l)
  PROVE  LifecycleInv'
<1>1. TypeOK'
  BY DEF LifecycleInv, TypeOK, CreateReturns, tables
<1>2. PhasesAgree'
  BY DEF LifecycleInv, TypeOK, PhasesAgree, LaunchDone, CreateReturns, tables
<1> QED
  BY <1>1, <1>2, TablesKept DEF CreateReturns, tables

LEMMA CreateCancelledInv ==
  ASSUME LifecycleInv, NEW l \in Launch, CreateCancelled(l)
  PROVE  LifecycleInv'
<1>1. TypeOK'
  BY DEF LifecycleInv, TypeOK, CreateCancelled, Cancel
<1>2. PhasesAgree'
  BY DEF LifecycleInv, TypeOK, PhasesAgree, LaunchDone, CreateCancelled
<1> QED
  BY <1>1, <1>2, TablesKept DEF CreateCancelled

LEMMA CreateRecoversInv ==
  ASSUME LifecycleInv, NEW l \in Launch, CreateRecovers(l)
  PROVE  LifecycleInv'
<1>1. CASE outcome[l] = "ok"
  <2>1. /\ StartClose(l) /\ record[l] # "none" /\ LaunchDone(l)
        /\ call' = [call EXCEPT ![l] = "closing"]
    BY <1>1 DEF LifecycleInv, PhasesAgree, CreateRecovers
  <2>2. TypeOK'
    <3>1. /\ instances' \in [Name -> Launch \cup {None}]
          /\ retired' \in [Name -> Launch \cup {None}]
          /\ record' \in [Launch -> {"none", "live", "crashed", "closing", "closed", "close_failed"}]
          /\ browser' \in [Launch -> {"none", "open", "closing", "closed", "stuck"}]
      BY <2>1, StartCloseTypes DEF LifecycleInv
    <3> QED
      BY <2>1, <3>1 DEF LifecycleInv, TypeOK, CreateRecovers
  <2>3. PhasesAgree'
    BY <1>1, <2>1
    DEF LifecycleInv, TypeOK, PhasesAgree, LaunchDone, CreateRecovers, StartClose, CloseStarted
  <2>4. TablesAgree'
    BY <2>1, StartCloseTables DEF CreateRecovers
  <2>5. PendingUntilRecord'
    BY <2>1 DEF LifecycleInv, TypeOK, PendingUntilRecord, CreateRecovers, StartClose, CloseStarted
  <2>6. OwnersReserved' /\ ReservationsDistinct' /\ ReservationsBounded'
    BY <2>1, StartCloseOwners DEF CreateRecovers, LaunchDone
  <2> QED
    BY <2>2, <2>3, <2>4, <2>5, <2>6 DEF LifecycleInv
<1>2. CASE outcome[l] # "ok"
  <2>1. TypeOK'
    BY <1>2 DEF LifecycleInv, TypeOK, CreateRecovers
  <2>2. PhasesAgree'
    BY <1>2 DEF LifecycleInv, TypeOK, PhasesAgree, LaunchDone, CreateRecovers
  <2> QED
    BY <1>2, <2>1, <2>2, TablesKept DEF CreateRecovers
<1> QED
  BY <1>1, <1>2

LEMMA CreateGivesUpInv ==
  ASSUME LifecycleInv, NEW l \in Launch, CreateGivesUp(l)
  PROVE  LifecycleInv'
<1>1. TypeOK'
  BY DEF LifecycleInv, TypeOK, CreateGivesUp, tables
<1>2. PhasesAgree'
  BY DEF LifecycleInv, TypeOK, PhasesAgree, LaunchDone, CreateGivesUp, tables
<1> QED
  BY <1>1, <1>2, TablesKept DEF CreateGivesUp, tables

-----------------------------------------------------------------------------
(* _launch_reserved *)

LEMMA LaunchStartsInv ==
  ASSUME LifecycleInv, NEW l \in Launch, LaunchStarts(l)
  PROVE  LifecycleInv'
<1>1. TypeOK'
  BY DEF LifecycleInv, TypeOK, LaunchStarts, tables
<1>2. PhasesAgree'
  BY DEF LifecycleInv, TypeOK, PhasesAgree, LaunchDone, LaunchStarts, tables
<1>3. TablesAgree' /\ PendingUntilRecord'
  BY DEF LifecycleInv, TypeOK, TablesAgree, PendingUntilRecord, LaunchStarts, tables
<1>4. \A m \in Launch : (Owns(m)' <=> Owns(m))
  BY DEF LifecycleInv, TypeOK, Owns, LaunchStarts, tables
<1>5. OwnersReserved' /\ ReservationsDistinct' /\ ReservationsBounded'
  BY <1>4, OwnersKept DEF LaunchStarts, tables
<1> QED
  BY <1>1, <1>2, <1>3, <1>5 DEF LifecycleInv

LEMMA LaunchNeverStartsInv ==
  ASSUME LifecycleInv, NEW l \in Launch, LaunchNeverStarts(l)
  PROVE  LifecycleInv'
<1>1. TypeOK'
  BY DEF LifecycleInv, TypeOK, LaunchNeverStarts, EndLaunch, tables
<1>2. PhasesAgree'
  BY DEF LifecycleInv, TypeOK, PhasesAgree, LaunchDone, LaunchNeverStarts, EndLaunch, tables
<1>3. TablesAgree' /\ PendingUntilRecord'
  BY DEF LifecycleInv, TypeOK, PhasesAgree, TablesAgree, PendingUntilRecord,
         LaunchNeverStarts, EndLaunch, tables
<1>4. \A m \in Launch : (Owns(m)' <=> Owns(m))
  BY DEF LifecycleInv, TypeOK, PhasesAgree, Owns, LaunchNeverStarts, EndLaunch, tables
<1>5. OwnersReserved' /\ ReservationsDistinct' /\ ReservationsBounded'
  BY <1>4, OwnersKept DEF LaunchNeverStarts, tables
<1> QED
  BY <1>1, <1>2, <1>3, <1>5 DEF LifecycleInv

LEMMA LaunchFailsInv ==
  ASSUME LifecycleInv, NEW l \in Launch, LaunchFails(l)
  PROVE  LifecycleInv'
<1>1. TypeOK'
  BY LifecycleAssumption DEF LifecycleInv, TypeOK, LaunchFails
<1>2. PhasesAgree'
  BY DEF LifecycleInv, TypeOK, PhasesAgree, LaunchDone, LaunchFails
<1>3. TablesAgree'
  BY LifecycleAssumption DEF LifecycleInv, TypeOK, PhasesAgree, TablesAgree, LaunchFails
<1>4. PendingUntilRecord'
  BY DEF LifecycleInv, TypeOK, PendingUntilRecord, LaunchFails
<1>5. \A m \in Launch : (Owns(m)' <=> Owns(m))
  BY DEF LifecycleInv, TypeOK, PhasesAgree, Owns, LaunchFails
<1>6. OwnersReserved' /\ ReservationsDistinct' /\ ReservationsBounded'
  BY <1>5, OwnersKept DEF LaunchFails
<1> QED
  BY <1>1, <1>2, <1>3, <1>4, <1>6 DEF LifecycleInv

LEMMA LaunchSucceedsInv ==
  ASSUME LifecycleInv, NEW l \in Launch, LaunchSucceeds(l)
  PROVE  LifecycleInv'
<1> NameOf[l] \in Name /\ None \notin Launch
  BY LifecycleAssumption
<1>1. /\ record[l] = "none" /\ rollback[l] = "none" /\ browser[l] = "open"
      /\ pending[NameOf[l]] = l /\ launch[l] = "launching" /\ Owns(l)
  BY DEF LifecycleInv, PhasesAgree, PendingUntilRecord, LaunchSucceeds, Owns
<1>2. \A m \in Launch : m # l /\ NameOf[m] = NameOf[l] => ~Owns(m)
  BY <1>1 DEF LifecycleInv, OwnersReserved
<1>3. CASE ShuttingDown \/ l \in abandoned
  <2>1. /\ instances' = [instances EXCEPT ![NameOf[l]] = IF @ = l THEN None ELSE @]
        /\ retired' = [retired EXCEPT ![NameOf[l]] = l]
        /\ record' = [record EXCEPT ![l] = "closing"]
        /\ browser' = [browser EXCEPT ![l] = "closing"]
        /\ launch' = [launch EXCEPT ![l] = "unwinding"]
        /\ outcome' = [outcome EXCEPT ![l] = "error"]
    BY <1>1, <1>3 DEF LaunchSucceeds, StartClose, CloseStarted, Refused
  <2>2. TypeOK'
    BY <2>1 DEF LifecycleInv, TypeOK, LaunchSucceeds
  <2>3. PhasesAgree'
    BY <1>1, <2>1 DEF LifecycleInv, TypeOK, PhasesAgree, LaunchDone, LaunchSucceeds
  <2>4. TablesAgree'
    <3>1. \A m \in Launch : m # l /\ NameOf[m] = NameOf[l]
            => record[m] \notin {"live", "crashed", "closing", "close_failed"}
      BY <1>2 DEF Owns
    <3>2. \A n \in Name : instances'[n] = IF n = NameOf[l] /\ instances[n] = l
                                            THEN None ELSE instances[n]
      BY <2>1 DEF LifecycleInv, TypeOK
    <3>3. \A n \in Name : retired'[n] = IF n = NameOf[l] THEN l ELSE retired[n]
      BY <2>1 DEF LifecycleInv, TypeOK
    <3>4. \A m \in Launch : /\ record'[m] = IF m = l THEN "closing" ELSE record[m]
                            /\ launch'[m] = IF m = l THEN "unwinding" ELSE launch[m]
      BY <2>1 DEF LifecycleInv, TypeOK
    <3> QED
      BY <3>1, <3>2, <3>3, <3>4, <1>1 DEF LifecycleInv, TypeOK, TablesAgree, LaunchSucceeds
  <2>5. PendingUntilRecord'
    BY <2>1 DEF LifecycleInv, TypeOK, PendingUntilRecord, LaunchSucceeds
  <2>6. \A m \in Launch : (Owns(m)' <=> Owns(m))
    BY <1>1, <2>1 DEF LifecycleInv, TypeOK, Owns, LaunchSucceeds
  <2>7. OwnersReserved' /\ ReservationsDistinct' /\ ReservationsBounded'
    BY <2>6, OwnersKept DEF LaunchSucceeds
  <2> QED
    BY <2>2, <2>3, <2>4, <2>5, <2>7 DEF LifecycleInv
<1>4. CASE ~(ShuttingDown \/ l \in abandoned)
  <2>1. /\ instances' = [instances EXCEPT ![NameOf[l]] = l]
        /\ record' = [record EXCEPT ![l] = "live"]
        /\ launch' = [launch EXCEPT ![l] = "preparing"]
        /\ UNCHANGED <<retired, browser, outcome>>
    BY <1>4 DEF LaunchSucceeds, Refused
  <2>2. TypeOK'
    BY <2>1 DEF LifecycleInv, TypeOK, LaunchSucceeds
  <2>3. PhasesAgree'
    BY <1>1, <2>1 DEF LifecycleInv, TypeOK, PhasesAgree, LaunchDone, LaunchSucceeds
  <2>4. TablesAgree'
    <3>1. \A m \in Launch : m # l /\ NameOf[m] = NameOf[l]
            => record[m] \notin {"live", "crashed", "closing", "close_failed"}
      BY <1>2 DEF Owns
    <3>2. \A n \in Name : instances'[n] = IF n = NameOf[l] THEN l ELSE instances[n]
      BY <2>1 DEF LifecycleInv, TypeOK
    <3>3. \A m \in Launch : /\ record'[m] = IF m = l THEN "live" ELSE record[m]
                            /\ launch'[m] = IF m = l THEN "preparing" ELSE launch[m]
      BY <2>1 DEF LifecycleInv, TypeOK
    <3> QED
      BY <3>1, <3>2, <3>3, <1>1, <2>1 DEF LifecycleInv, TypeOK, TablesAgree, LaunchSucceeds
  <2>5. PendingUntilRecord'
    BY <2>1 DEF LifecycleInv, TypeOK, PendingUntilRecord, LaunchSucceeds
  <2>6. \A m \in Launch : (Owns(m)' <=> Owns(m))
    BY <1>1, <2>1 DEF LifecycleInv, TypeOK, Owns, LaunchSucceeds
  <2>7. OwnersReserved' /\ ReservationsDistinct' /\ ReservationsBounded'
    BY <2>6, OwnersKept DEF LaunchSucceeds
  <2> QED
    BY <2>2, <2>3, <2>4, <2>5, <2>7 DEF LifecycleInv
<1> QED
  BY <1>3, <1>4

LEMMA PrepareSucceedsInv ==
  ASSUME LifecycleInv, NEW l \in Launch, PrepareSucceeds(l)
  PROVE  LifecycleInv'
<1>1. TypeOK'
  BY DEF LifecycleInv, TypeOK, PrepareSucceeds, EndLaunch, tables
<1>2. PhasesAgree'
  BY DEF LifecycleInv, TypeOK, PhasesAgree, LaunchDone, PrepareSucceeds, EndLaunch, tables
<1>3. TablesAgree' /\ PendingUntilRecord'
  BY DEF LifecycleInv, TypeOK, PhasesAgree, TablesAgree, PendingUntilRecord,
         PrepareSucceeds, EndLaunch, tables
<1>4. \A m \in Launch : (Owns(m)' <=> Owns(m))
  BY DEF LifecycleInv, TypeOK, PhasesAgree, Owns, PrepareSucceeds, EndLaunch, tables
<1>5. OwnersReserved' /\ ReservationsDistinct' /\ ReservationsBounded'
  BY <1>4, OwnersKept DEF PrepareSucceeds, tables
<1> QED
  BY <1>1, <1>2, <1>3, <1>5 DEF LifecycleInv

LEMMA PrepareFailsInv ==
  ASSUME LifecycleInv, NEW l \in Launch, PrepareFails(l)
  PROVE  LifecycleInv'
<1>1. /\ StartClose(l) /\ record[l] # "none"
      /\ launch' = [launch EXCEPT ![l] = "unwinding"]
      /\ \E result \in {"error", "cancelled"} : outcome' = [outcome EXCEPT ![l] = result]
  BY DEF LifecycleInv, PhasesAgree, PrepareFails
<1>2. TypeOK'
  <2>1. /\ instances' \in [Name -> Launch \cup {None}]
        /\ retired' \in [Name -> Launch \cup {None}]
        /\ record' \in [Launch -> {"none", "live", "crashed", "closing", "closed", "close_failed"}]
        /\ browser' \in [Launch -> {"none", "open", "closing", "closed", "stuck"}]
    BY <1>1, StartCloseTypes DEF LifecycleInv
  <2>2. /\ outcome' \in [Launch -> {"none", "ok", "error", "cancelled"}]
        /\ launch' \in [Launch -> {"none", "scheduled", "launching", "rollingBack",
                                   "preparing", "unwinding", "ended", "finished"}]
    BY <1>1 DEF LifecycleInv, TypeOK
  <2>3. /\ cancelling' = [cancelling EXCEPT ![l] = FALSE]
        /\ UNCHANGED <<reservations, pending, launchCleanup, abandoned, call, rollback,
                       shutdown, awaited>>
    BY DEF PrepareFails
  <2>4. cancelling' \in [Launch -> BOOLEAN]
    BY <2>3 DEF LifecycleInv, TypeOK
  <2> QED
    BY <2>1, <2>2, <2>3, <2>4 DEF LifecycleInv, TypeOK
<1>3. PhasesAgree'
  BY <1>1 DEF LifecycleInv, TypeOK, PhasesAgree, LaunchDone, PrepareFails, StartClose, CloseStarted
<1>4. TablesAgree'
  <2>1. \A m \in Launch : launch'[m] = launch[m] \/ launch'[m] = "unwinding"
    BY <1>1 DEF LifecycleInv, TypeOK
  <2> QED
    BY <1>1, <2>1, StartCloseTables DEF PrepareFails
<1>5. PendingUntilRecord'
  BY <1>1 DEF LifecycleInv, TypeOK, PendingUntilRecord, PrepareFails, StartClose, CloseStarted
<1>6. OwnersReserved' /\ ReservationsDistinct' /\ ReservationsBounded'
  <2>1. /\ \A m \in Launch : m # l => launch'[m] = launch[m]
        /\ launch'[l] \notin {"scheduled", "launching"}
    BY <1>1 DEF LifecycleInv, TypeOK
  <2> QED
    BY <1>1, <2>1, StartCloseOwners DEF PrepareFails
<1> QED
  BY <1>2, <1>3, <1>4, <1>5, <1>6 DEF LifecycleInv

LEMMA LaunchUnwindsInv ==
  ASSUME LifecycleInv, NEW l \in Launch, LaunchUnwinds(l)
  PROVE  LifecycleInv'
<1>1. TypeOK'
  BY DEF LifecycleInv, TypeOK, LaunchUnwinds, EndLaunch, tables
<1>2. PhasesAgree'
  BY DEF LifecycleInv, TypeOK, PhasesAgree, LaunchDone, LaunchUnwinds, EndLaunch, tables
<1>3. TablesAgree' /\ PendingUntilRecord'
  BY DEF LifecycleInv, TypeOK, PhasesAgree, TablesAgree, PendingUntilRecord,
         LaunchUnwinds, EndLaunch, tables
<1>4. \A m \in Launch : (Owns(m)' <=> Owns(m))
  BY DEF LifecycleInv, TypeOK, PhasesAgree, Owns, LaunchUnwinds, EndLaunch, tables
<1>5. OwnersReserved' /\ ReservationsDistinct' /\ ReservationsBounded'
  BY <1>4, OwnersKept DEF LaunchUnwinds, tables
<1> QED
  BY <1>1, <1>2, <1>3, <1>5 DEF LifecycleInv

LEMMA LaunchFinishedInv ==
  ASSUME LifecycleInv, NEW l \in Launch, LaunchFinished(l)
  PROVE  LifecycleInv'
<1> DEFINE n == NameOf[l]
<1> n \in Name /\ None \notin Launch
  BY LifecycleAssumption
<1>1. /\ launch[l] = "ended"
      /\ launch' = [launch EXCEPT ![l] = "finished"]
      /\ UNCHANGED <<instances, retired, launchCleanup, call, cancelling, outcome,
                     rollback, record, browser, shutdown, awaited>>
  BY DEF LaunchFinished, NothingLeft
<1>2. PhasesAgree'
  BY <1>1 DEF LifecycleInv, TypeOK, PhasesAgree, LaunchDone, LaunchFinished
<1>3. CASE pending[n] = l /\ instances[n] = None /\ retired[n] = None /\ launchCleanup[n] = "none"
  <2>1. /\ pending' = [pending EXCEPT ![n] = None]
        /\ reservations' = [reservations EXCEPT ![n] = Unreserved]
    BY <1>3 DEF LaunchFinished, NothingLeft
  <2>2. \A m \in Launch : NameOf[m] = n /\ m # l => ~Owns(m)
    BY <1>3 DEF LifecycleInv, OwnersReserved
  <2>3. \A m \in Launch : NameOf[m] = n =>
          /\ record[m] \in {"none", "closed"}
          /\ rollback[m] \in {"none", "done"}
    BY <1>3 DEF LifecycleInv, TypeOK, TablesAgree
  <2>4. TypeOK'
    <3>1. reservations' \in [Name -> {ProfileOf[m] : m \in Launch} \cup {Unreserved}]
      BY <2>1 DEF LifecycleInv, TypeOK
    <3>2. pending' \in [Name -> Launch \cup {None}] /\ abandoned' \subseteq Launch
      BY <2>1 DEF LifecycleInv, TypeOK, LaunchFinished
    <3> QED
      BY <1>1, <3>1, <3>2 DEF LifecycleInv, TypeOK
  <2>5. TablesAgree'
    BY <1>1, <2>1 DEF LifecycleInv, TypeOK, TablesAgree
  <2>6. \A m \in Launch : NameOf[m] = n => ~Owns(m)'
    BY <1>1, <2>1, <2>2, <2>3 DEF LifecycleInv, TypeOK, Owns
  <2>7. PendingUntilRecord'
    <3>1. \A m \in Launch : m # l /\ NameOf[m] = n =>
             ~ (\/ launch[m] \in {"scheduled", "launching", "rollingBack"}
                \/ launch[m] = "ended" /\ record[m] = "none")
      BY <1>3 DEF LifecycleInv, PendingUntilRecord
    <3> QED
      BY <1>1, <2>1, <3>1 DEF LifecycleInv, TypeOK, PendingUntilRecord
  <2>8. \A m \in Launch : NameOf[m] # n => (Owns(m)' <=> Owns(m))
    BY <1>1, <2>1, LifecycleAssumption DEF LifecycleInv, TypeOK, Owns
  <2>9. \A x \in Name : x # n => pending'[x] = pending[x]
    BY <2>1 DEF LifecycleInv, TypeOK
  <2>10. OwnersReserved' /\ ReservationsDistinct' /\ ReservationsBounded'
    BY <2>1, <2>6, <2>8, <2>9, OwnerReleased
  <2> QED
    BY <1>2, <2>4, <2>5, <2>7, <2>10 DEF LifecycleInv
<1>4. CASE pending[n] = l
           /\ ~(instances[n] = None /\ retired[n] = None /\ launchCleanup[n] = "none")
  <2>1. /\ pending' = [pending EXCEPT ![n] = None]
        /\ reservations' = reservations
    BY <1>4 DEF LaunchFinished, NothingLeft
  <2>2. PICK o \in Launch :
          /\ NameOf[o] = n
          /\ \/ record[o] \in {"live", "crashed", "closing", "close_failed"}
             \/ rollback[o] \in {"closing", "failed"}
    BY SMTT(30), <1>4 DEF LifecycleInv, TypeOK, TablesAgree
  <2>3. o = l
    BY <1>4, <2>2 DEF LifecycleInv, OwnersReserved, Owns
  <2>4. TypeOK'
    BY <1>1, <2>1 DEF LifecycleInv, TypeOK, LaunchFinished
  <2>5. TablesAgree'
    BY <1>1, <2>1 DEF LifecycleInv, TypeOK, TablesAgree
  <2>6. PendingUntilRecord'
    <3>1. \A m \in Launch : m # l /\ NameOf[m] = n =>
             ~ (\/ launch[m] \in {"scheduled", "launching", "rollingBack"}
                \/ launch[m] = "ended" /\ record[m] = "none")
      BY <1>4 DEF LifecycleInv, PendingUntilRecord
    <3> QED
      BY <1>1, <2>1, <3>1 DEF LifecycleInv, TypeOK, PendingUntilRecord
  <2>7. Owns(l) /\ Owns(l)'
    BY <1>1, <2>2, <2>3 DEF LifecycleInv, PhasesAgree, Owns
  <2>8. \A m \in Launch : m # l => (Owns(m)' => Owns(m))
    BY <1>1, <2>1, LifecycleAssumption DEF LifecycleInv, TypeOK, Owns
  <2>9. \A m \in Launch : m # l => (Owns(m) => Owns(m)')
    <3>1. \A m \in Launch : m # l /\ NameOf[m] = n => ~Owns(m)
      BY <2>7 DEF LifecycleInv, OwnersReserved
    <3> QED
      BY <1>1, <2>1, <3>1, LifecycleAssumption DEF LifecycleInv, TypeOK, Owns
  <2>10. OwnersReserved'
    <3>1. \A x \in Name : pending'[x] = pending[x] \/ pending'[x] = None
      BY <2>1 DEF LifecycleInv, TypeOK
    <3>2. Reserved' = Reserved /\ \A m \in Launch : NameOf[m] \in Name
      BY <2>1, LifecycleAssumption DEF Reserved
    <3> QED
      BY <2>1, <2>7, <2>8, <2>9, <3>1, <3>2 DEF LifecycleInv, OwnersReserved
  <2>11. ReservationsDistinct' /\ ReservationsBounded'
    BY <2>1 DEF LifecycleInv, ReservationsDistinct, ReservationsBounded, Reserved
  <2> QED
    BY <1>2, <2>4, <2>5, <2>6, <2>10, <2>11 DEF LifecycleInv
<1>5. CASE pending[n] # l
  <2>1. UNCHANGED <<pending, reservations>>
    BY <1>5 DEF LaunchFinished, NothingLeft
  <2>2. record[l] # "none"
    BY <1>1, <1>5 DEF LifecycleInv, PendingUntilRecord
  <2>3. TypeOK'
    BY <1>1, <2>1 DEF LifecycleInv, TypeOK, LaunchFinished
  <2>4. TablesAgree'
    BY <1>1, <1>5, <2>1 DEF LifecycleInv, TypeOK, TablesAgree
  <2>5. PendingUntilRecord'
    BY <1>1, <2>1 DEF LifecycleInv, TypeOK, PendingUntilRecord
  <2>6. \A m \in Launch : (Owns(m)' <=> Owns(m))
    BY <1>1, <2>1, <2>2 DEF LifecycleInv, TypeOK, Owns
  <2>7. OwnersReserved' /\ ReservationsDistinct' /\ ReservationsBounded'
    BY <2>1, <2>6, OwnersKept
  <2> QED
    BY <1>2, <2>3, <2>4, <2>5, <2>7 DEF LifecycleInv
<1> QED
  BY <1>3, <1>4, <1>5

-----------------------------------------------------------------------------
(* Cleanup tasks and crashes *)

LEMMA BrowserClosesInv ==
  ASSUME LifecycleInv, NEW l \in Launch, BrowserCloses(l)
  PROVE  LifecycleInv'
<1>1. TypeOK'
  BY DEF LifecycleInv, TypeOK, BrowserCloses, tables
<1>2. PhasesAgree'
  BY DEF LifecycleInv, TypeOK, PhasesAgree, LaunchDone, BrowserCloses, tables
<1> QED
  BY <1>1, <1>2, TablesKept DEF BrowserCloses, tables

LEMMA RollbackSucceedsInv ==
  ASSUME LifecycleInv, NEW l \in Launch, RollbackSucceeds(l)
  PROVE  LifecycleInv'
<1> DEFINE n == NameOf[l]
<1> n \in Name /\ None \notin Launch
  BY LifecycleAssumption
<1>1. /\ rollback[l] = "closing"
      /\ rollback' = [rollback EXCEPT ![l] = "done"]
      /\ launchCleanup' = [launchCleanup EXCEPT ![n] = "none"]
      /\ UNCHANGED <<pending, instances, retired, abandoned, call, launch, cancelling,
                     outcome, record, browser, shutdown, awaited>>
      /\ Owns(l) /\ record[l] = "none"
  BY DEF LifecycleInv, PhasesAgree, RollbackSucceeds, Owns
<1>2. \A m \in Launch : NameOf[m] = n /\ m # l => ~Owns(m)
  BY <1>1 DEF LifecycleInv, OwnersReserved
<1>3. TypeOK'
  <2>1. reservations' \in [Name -> {ProfileOf[m] : m \in Launch} \cup {Unreserved}]
    BY DEF LifecycleInv, TypeOK, RollbackSucceeds
  <2> QED
    BY <1>1, <2>1 DEF LifecycleInv, TypeOK
<1>4. PhasesAgree'
  BY <1>1 DEF LifecycleInv, TypeOK, PhasesAgree, LaunchDone, RollbackSucceeds
<1>5. TablesAgree'
  <2>1. \A m \in Launch : m # l /\ NameOf[m] = n => rollback[m] \notin {"closing", "failed"}
    BY <1>2 DEF Owns
  <2> QED
    BY <1>1, <2>1 DEF LifecycleInv, TypeOK, TablesAgree
<1>6. PendingUntilRecord'
  BY <1>1 DEF LifecycleInv, PendingUntilRecord
<1>7. launch[l] \notin {"scheduled", "launching"} /\ (pending[n] # None => pending[n] = l)
  BY <1>1 DEF LifecycleInv, TypeOK, PhasesAgree, OwnersReserved
<1>8. \A m \in Launch : m # l => (Owns(m)' <=> Owns(m))
  BY <1>1 DEF LifecycleInv, TypeOK, Owns
<1>9. CASE pending[n] = None
  <2>1. reservations' = [reservations EXCEPT ![n] = Unreserved]
    BY <1>9 DEF RollbackSucceeds
  <2>2. ~Owns(l)'
    BY <1>1, <1>7, <1>9 DEF LifecycleInv, TypeOK, Owns
  <2>3. OwnersReserved' /\ ReservationsDistinct' /\ ReservationsBounded'
    BY <1>1, <1>2, <1>8, <2>1, <2>2, OwnerReleased
  <2> QED
    BY <1>3, <1>4, <1>5, <1>6, <2>3 DEF LifecycleInv
<1>10. CASE pending[n] # None
  <2>1. reservations' = reservations
    BY <1>10 DEF RollbackSucceeds
  <2>2. Owns(l)'
    BY <1>1, <1>7, <1>10 DEF LifecycleInv, TypeOK, Owns
  <2>3. OwnersReserved' /\ ReservationsDistinct' /\ ReservationsBounded'
    BY <1>1, <1>8, <2>1, <2>2, OwnersKept
  <2> QED
    BY <1>3, <1>4, <1>5, <1>6, <2>3 DEF LifecycleInv
<1> QED
  BY <1>9, <1>10

LEMMA RollbackFailsInv ==
  ASSUME LifecycleInv, NEW l \in Launch, RollbackFails(l)
  PROVE  LifecycleInv'
<1>1. TypeOK'
  BY LifecycleAssumption DEF LifecycleInv, TypeOK, RollbackFails
<1>2. PhasesAgree'
  BY DEF LifecycleInv, TypeOK, PhasesAgree, LaunchDone, RollbackFails
<1>3. TablesAgree' /\ PendingUntilRecord'
  BY LifecycleAssumption
  DEF LifecycleInv, TypeOK, TablesAgree, PendingUntilRecord, RollbackFails
<1>4. \A m \in Launch : (Owns(m)' <=> Owns(m))
  BY DEF LifecycleInv, TypeOK, Owns, RollbackFails
<1>5. OwnersReserved' /\ ReservationsDistinct' /\ ReservationsBounded'
  BY <1>4, OwnersKept DEF RollbackFails
<1> QED
  BY <1>1, <1>2, <1>3, <1>5 DEF LifecycleInv

LEMMA CloseSucceedsInv ==
  ASSUME LifecycleInv, NEW l \in Launch, CloseSucceeds(l)
  PROVE  LifecycleInv'
<1> DEFINE n == NameOf[l]
<1> n \in Name /\ None \notin Launch
  BY LifecycleAssumption
<1>1. /\ record[l] = "closing"
      /\ record' = [record EXCEPT ![l] = "closed"]
      /\ retired' = [retired EXCEPT ![n] = None]
      /\ reservations' = [reservations EXCEPT ![n] = Unreserved]
      /\ UNCHANGED <<pending, instances, launchCleanup, abandoned, call, launch,
                     cancelling, outcome, rollback, browser, shutdown, awaited>>
      /\ Owns(l) /\ rollback[l] = "none" /\ launch[l] \notin {"scheduled", "launching"}
  <2>1. retired[n] = l
    BY DEF LifecycleInv, TablesAgree, CloseSucceeds
  <2> QED
    BY <2>1 DEF LifecycleInv, PhasesAgree, CloseSucceeds, Owns
<1>2. \A m \in Launch : NameOf[m] = n /\ m # l => ~Owns(m)
  BY <1>1 DEF LifecycleInv, OwnersReserved
<1>3. TypeOK'
  <2>1. reservations' \in [Name -> {ProfileOf[m] : m \in Launch} \cup {Unreserved}]
    BY <1>1 DEF LifecycleInv, TypeOK
  <2>2. retired' \in [Name -> Launch \cup {None}]
    BY <1>1 DEF LifecycleInv, TypeOK
  <2> QED
    BY <1>1, <2>1, <2>2 DEF LifecycleInv, TypeOK
<1>4. PhasesAgree'
  BY <1>1 DEF LifecycleInv, TypeOK, PhasesAgree, LaunchDone, CloseSucceeds
<1>5. TablesAgree'
  <2>1. \A m \in Launch : m # l /\ NameOf[m] = n => record[m] \notin {"closing", "close_failed"}
    BY <1>2 DEF Owns
  <2> QED
    BY <1>1, <2>1 DEF LifecycleInv, TypeOK, TablesAgree
<1>6. PendingUntilRecord'
  BY <1>1 DEF LifecycleInv, TypeOK, PendingUntilRecord
<1>7. \A m \in Launch : m # l => (Owns(m)' <=> Owns(m))
  BY <1>1 DEF LifecycleInv, TypeOK, Owns
<1>8. ~Owns(l)'
  BY <1>1 DEF LifecycleInv, TypeOK, Owns
<1>9. OwnersReserved' /\ ReservationsDistinct' /\ ReservationsBounded'
  BY <1>1, <1>2, <1>7, <1>8, OwnerReleased
<1> QED
  BY <1>3, <1>4, <1>5, <1>6, <1>9 DEF LifecycleInv

LEMMA CloseFailsInv ==
  ASSUME LifecycleInv, NEW l \in Launch, CloseFails(l)
  PROVE  LifecycleInv'
<1>1. TypeOK'
  BY DEF LifecycleInv, TypeOK, CloseFails, tables
<1>2. PhasesAgree'
  BY DEF LifecycleInv, TypeOK, PhasesAgree, LaunchDone, CloseFails, tables
<1>3. TablesAgree' /\ PendingUntilRecord'
  BY DEF LifecycleInv, TypeOK, TablesAgree, PendingUntilRecord, CloseFails, tables
<1>4. \A m \in Launch : (Owns(m)' <=> Owns(m))
  BY DEF LifecycleInv, TypeOK, Owns, CloseFails, tables
<1>5. OwnersReserved' /\ ReservationsDistinct' /\ ReservationsBounded'
  BY <1>4, OwnersKept DEF CloseFails, tables
<1> QED
  BY <1>1, <1>2, <1>3, <1>5 DEF LifecycleInv

LEMMA CrashInv ==
  ASSUME LifecycleInv, NEW l \in Launch, Crash(l)
  PROVE  LifecycleInv'
<1>1. TypeOK'
  BY DEF LifecycleInv, TypeOK, Crash, tables
<1>2. PhasesAgree'
  BY DEF LifecycleInv, TypeOK, PhasesAgree, LaunchDone, Crash, tables
<1>3. TablesAgree' /\ PendingUntilRecord'
  BY DEF LifecycleInv, TypeOK, TablesAgree, PendingUntilRecord, Crash, tables
<1>4. \A m \in Launch : (Owns(m)' <=> Owns(m))
  BY DEF LifecycleInv, TypeOK, Owns, Crash, tables
<1>5. OwnersReserved' /\ ReservationsDistinct' /\ ReservationsBounded'
  BY <1>4, OwnersKept DEF Crash, tables
<1> QED
  BY <1>1, <1>2, <1>3, <1>5 DEF LifecycleInv

\* destroy, the reaper and eviction.
LEMMA CloseRegisteredInv ==
  ASSUME LifecycleInv, NEW l \in Launch, CloseRegistered(l)
  PROVE  LifecycleInv'
<1>1. /\ StartClose(l)
      /\ record[l] \in {"live", "crashed"}
      /\ UNCHANGED <<reservations, pending, launchCleanup, abandoned, call, launch,
                     cancelling, outcome, rollback, shutdown, awaited>>
  BY LifecycleAssumption DEF LifecycleInv, TablesAgree, CloseRegistered
<1>2. launch[l] \notin {"none", "scheduled", "launching"}
  BY <1>1 DEF LifecycleInv, PhasesAgree
<1>3. TypeOK'
  BY <1>1, StartCloseTypes DEF LifecycleInv, TypeOK
<1>4. PhasesAgree'
  BY <1>1 DEF LifecycleInv, TypeOK, PhasesAgree, LaunchDone, StartClose, CloseStarted
<1>5. TablesAgree'
  BY <1>1, StartCloseTables
<1>6. PendingUntilRecord'
  BY <1>1 DEF LifecycleInv, TypeOK, PendingUntilRecord, StartClose, CloseStarted
<1>7. OwnersReserved' /\ ReservationsDistinct' /\ ReservationsBounded'
  BY <1>1, <1>2, StartCloseOwners
<1> QED
  BY <1>3, <1>4, <1>5, <1>6, <1>7 DEF LifecycleInv

-----------------------------------------------------------------------------
(* shutdown_all *)

LEMMA ShutdownAllInv ==
  ASSUME LifecycleInv, ShutdownAll
  PROVE  LifecycleInv'
<1>1. TypeOK' /\ PhasesAgree'
  BY DEF LifecycleInv, TypeOK, PhasesAgree, LaunchDone, ShutdownAll, tables, tasks
<1> QED
  BY <1>1, TablesKept DEF ShutdownAll, tables, tasks

LEMMA ShutdownStartsInv ==
  ASSUME LifecycleInv, ShutdownStarts
  PROVE  LifecycleInv'
<1> DEFINE live == {l \in Launch : instances[NameOf[l]] = l}
<1> \A l \in Launch : NameOf[l] \in Name
  BY LifecycleAssumption
<1> None \notin Launch
  BY LifecycleAssumption
<1>1. \A l \in Launch : l \in live <=> record[l] \in {"live", "crashed"}
  BY DEF LifecycleInv, TablesAgree
<1>2. /\ UNCHANGED <<reservations, pending, launchCleanup, abandoned, call, launch,
                     outcome, rollback>>
      /\ shutdown' = "waiting"
      /\ instances' = [n \in Name |-> None]
      /\ retired' = [n \in Name |-> IF instances[n] # None THEN instances[n] ELSE retired[n]]
      /\ record' = [l \in Launch |-> IF l \in live THEN "closing" ELSE record[l]]
      /\ browser' = [l \in Launch |-> IF l \in live THEN "closing" ELSE browser[l]]
  BY DEF ShutdownStarts
<1>3. TypeOK'
  <2>1. retired' \in [Name -> Launch \cup {None}] /\ instances' \in [Name -> Launch \cup {None}]
    BY <1>2 DEF LifecycleInv, TypeOK
  <2>2. /\ record' \in [Launch -> {"none", "live", "crashed", "closing", "closed", "close_failed"}]
        /\ browser' \in [Launch -> {"none", "open", "closing", "closed", "stuck"}]
    BY <1>2 DEF LifecycleInv, TypeOK
  <2>3. cancelling' \in [Launch -> BOOLEAN]
    BY DEF LifecycleInv, TypeOK, ShutdownStarts, Cancel
  <2>4. awaited' \in [launches : SUBSET Launch, cleanups : SUBSET Launch]
    BY DEF ShutdownStarts
  <2> QED
    BY <1>2, <2>1, <2>2, <2>3, <2>4 DEF LifecycleInv, TypeOK
<1>4. PhasesAgree'
  BY <1>1, <1>2 DEF LifecycleInv, TypeOK, PhasesAgree, LaunchDone
<1>5. TablesAgree'
  <2>1. \A l \in Launch : record'[l] = IF l \in live THEN "closing" ELSE record[l]
    BY <1>2
  <2>2. \A n \in Name :
          /\ instances'[n] = None
          /\ retired'[n] = IF instances[n] # None THEN instances[n] ELSE retired[n]
    BY <1>2
  <2>3. \A l, m \in Launch : NameOf[l] = NameOf[m] /\ l # m /\ Owns(l) => ~Owns(m)
    BY DEF LifecycleInv, OwnersReserved
  <2>4. \A l, m \in Launch : NameOf[l] = NameOf[m] /\ l # m /\ record[l] \in {"live", "crashed"}
          => record[m] \notin {"live", "crashed", "closing", "close_failed"}
    BY <2>3 DEF Owns
  <2> QED
    BY <1>1, <1>2, <2>1, <2>2, <2>4 DEF LifecycleInv, TypeOK, TablesAgree
<1>6. PendingUntilRecord'
  BY <1>1, <1>2 DEF LifecycleInv, TypeOK, PendingUntilRecord
<1>7. \A m \in Launch : (Owns(m)' <=> Owns(m))
  BY <1>1, <1>2 DEF LifecycleInv, TypeOK, Owns
<1>8. OwnersReserved' /\ ReservationsDistinct' /\ ReservationsBounded'
  BY <1>2, <1>7, OwnersKept
<1> QED
  BY <1>3, <1>4, <1>5, <1>6, <1>8 DEF LifecycleInv

LEMMA ShutdownDrainedInv ==
  ASSUME LifecycleInv, ShutdownDrained
  PROVE  LifecycleInv'
<1>1. TypeOK' /\ PhasesAgree'
  BY DEF LifecycleInv, TypeOK, PhasesAgree, LaunchDone, ShutdownDrained, tables, tasks
<1> QED
  BY <1>1, TablesKept DEF ShutdownDrained, tables, tasks

LEMMA ShutdownTimesOutInv ==
  ASSUME LifecycleInv, ShutdownTimesOut
  PROVE  LifecycleInv'
<1>1. TypeOK' /\ PhasesAgree'
  BY DEF LifecycleInv, TypeOK, PhasesAgree, LaunchDone, ShutdownTimesOut, tables, tasks
<1> QED
  BY <1>1, TablesKept DEF ShutdownTimesOut, tables, tasks


-----------------------------------------------------------------------------
(* The invariant *)

LEMMA NextInv == LifecycleInv /\ [Next]_vars => LifecycleInv'
<1> SUFFICES ASSUME LifecycleInv, [Next]_vars PROVE LifecycleInv'
  OBVIOUS
<1>1. CASE UNCHANGED vars
  <2>1. TypeOK' /\ PhasesAgree'
    BY <1>1 DEF LifecycleInv, TypeOK, PhasesAgree, LaunchDone, vars, tables, tasks
  <2> QED
    BY <1>1, <2>1, TablesKept DEF vars, tables, tasks
<1>2. ASSUME NEW l \in Launch, CreateCall(l) PROVE LifecycleInv'
  BY <1>2, CreateInv, CreateReturnsInv, CreateCancelledInv, CreateRecoversInv,
     CreateGivesUpInv DEF CreateCall
<1>3. ASSUME NEW l \in Launch, LaunchTask(l) PROVE LifecycleInv'
  BY <1>3, LaunchStartsInv, LaunchNeverStartsInv, LaunchFailsInv, LaunchSucceedsInv,
     PrepareSucceedsInv, PrepareFailsInv, LaunchUnwindsInv, LaunchFinishedInv
  DEF LaunchTask
<1>4. ASSUME NEW l \in Launch, Cleanup(l) PROVE LifecycleInv'
  BY <1>4, BrowserClosesInv, RollbackSucceedsInv, RollbackFailsInv, CloseSucceedsInv,
     CloseFailsInv DEF Cleanup
<1>5. ASSUME NEW l \in Launch, Crash(l) \/ Destroy(l) \/ Evict(l) PROVE LifecycleInv'
  BY <1>5, CrashInv, CloseRegisteredInv DEF Destroy, Evict
<1>6. CASE Shutdown
  BY <1>6, ShutdownAllInv, ShutdownStartsInv, ShutdownDrainedInv, ShutdownTimesOutInv
  DEF Shutdown
<1> QED
  BY <1>1, <1>2, <1>3, <1>4, <1>5, <1>6 DEF Next

\* The invariant of InstanceManager's tables, tasks and browsers holds for any
\* number of create() calls, names and profiles and any max_instances.
THEOREM LifecycleInvariant == Spec => []LifecycleInv
<1>1. Init => LifecycleInv
  BY InitInv
<1>2. LifecycleInv /\ [Next]_vars => LifecycleInv'
  BY NextInv
<1> QED
  BY <1>1, <1>2, PTL DEF Spec

\* Every table of InstanceManager keeps the values its annotations promise.
THEOREM TypeCorrect == Spec => []TypeOK
<1>1. LifecycleInv => TypeOK
  BY DEF LifecycleInv
<1> QED
  BY <1>1, LifecycleInvariant, PTL

-----------------------------------------------------------------------------
(* Safety *)

\* A browser that may be running belongs to the owner of its name.
LEMMA RunningOwns ==
  ASSUME LifecycleInv, NEW l \in Launch, MayRun(l)
  PROVE  /\ Owns(l)
         /\ NameOf[l] \in Reserved
         /\ reservations[NameOf[l]] = ProfileOf[l]
<1>1. Owns(l)
  BY DEF LifecycleInv, TypeOK, PhasesAgree, LaunchDone, Owns, MayRun
<1>2. reservations[NameOf[l]] = ProfileOf[l]
  BY <1>1 DEF LifecycleInv, OwnersReserved
<1> QED
  BY <1>1, <1>2, LifecycleAssumption DEF Reserved

\* _reserve, _launch_finished, _rollback_launch and _safe_close never let two
\* running browsers share a name or a profile directory.
THEOREM Exclusive == Spec => []BrowsersExclusive
<1>1. LifecycleInv => BrowsersExclusive
  BY RunningOwns DEF LifecycleInv, OwnersReserved, ReservationsDistinct,
                     BrowsersExclusive, SameProfile
<1> QED
  BY <1>1, LifecycleInvariant, PTL

\* The name and the profile of a browser stay reserved as long as it may run.
THEOREM ReservedUntilClosed == Spec => []ReservedWhileRunning
<1>1. LifecycleInv => ReservedWhileRunning
  BY RunningOwns DEF ReservedWhileRunning
<1> QED
  BY <1>1, LifecycleInvariant, PTL

\* max_instances bounds the browsers that may be running, whatever failed.
THEOREM Capacity == Spec => []CapacityRespected
<1>1. ASSUME LifecycleInv PROVE CapacityRespected
  <2> DEFINE Running == {l \in Launch : MayRun(l)}
             nameOf == [l \in Running |-> NameOf[l]]
  <2>1. IsFiniteSet(Reserved) /\ Cardinality(Reserved) \in Nat
    BY LifecycleAssumption, FS_Subset, FS_CardinalityType DEF Reserved
  <2>2. nameOf \in [Running -> Reserved]
    BY <1>1, RunningOwns
  <2>3. \A l, m \in Running : nameOf[l] = nameOf[m] => l = m
    BY <1>1, RunningOwns DEF LifecycleInv, OwnersReserved
  <2>4. nameOf \in Injection(Running, Reserved)
    BY <2>2, <2>3 DEF Injection, IsInjective
  <2>5. IsFiniteSet(Running) /\ Cardinality(Running) <= Cardinality(Reserved)
    BY <2>1, <2>4, FS_Injection
  <2>6. Cardinality(Running) \in Nat
    BY <2>5, FS_CardinalityType
  <2> QED
    BY <1>1, <2>1, <2>5, <2>6, LifecycleAssumption
    DEF LifecycleInv, ReservationsBounded, CapacityRespected
<1>2. LifecycleInv => CapacityRespected
  BY <1>1
<1> QED
  BY <1>2, LifecycleInvariant, PTL

\* No handler forgets a reservation: a name is reserved only as long as some
\* task or table will release it.
THEOREM NoLeak == Spec => []NoLeakedReservation
<1>1. ASSUME LifecycleInv PROVE NoLeakedReservation
  <2> SUFFICES ASSUME NEW n \in Reserved
               PROVE  \/ pending[n] # None \/ instances[n] # None
                      \/ retired[n] # None \/ launchCleanup[n] # "none"
    BY DEF NoLeakedReservation
  <2>1. PICK l \in Launch : Owns(l) /\ NameOf[l] = n
    BY <1>1 DEF LifecycleInv, OwnersReserved
  <2>2. n \in Name /\ None \notin Launch
    BY LifecycleAssumption DEF Reserved
  <2> QED
    BY <1>1, <2>1, <2>2 DEF LifecycleInv, TablesAgree, PendingUntilRecord, Owns
<1>2. LifecycleInv => NoLeakedReservation
  BY <1>1
<1> QED
  BY <1>2, LifecycleInvariant, PTL

-----------------------------------------------------------------------------
(* Steps *)

\* A record reaches the registry only while its create() waits for it and the
\* server is not shutting down.
THEOREM Published == Spec => PublishedOnlyToCaller
<1>1. ASSUME LifecycleInv, [Next]_vars, NEW l \in Launch,
             record[l] = "none", record'[l] = "live"
      PROVE  call[l] = "waiting" /\ ~ShuttingDown
  <2>1. LaunchSucceeds(l) /\ ~ShuttingDown /\ l \notin abandoned
    <3>1. ASSUME NEW m \in Launch, LaunchSucceeds(m)
          PROVE  m = l /\ ~ShuttingDown /\ l \notin abandoned
      BY <1>1, <3>1 DEF LifecycleInv, TypeOK, LaunchSucceeds, StartClose, Refused
    <3>2. ASSUME NEW m \in Launch, StartClose(m) PROVE FALSE
      BY <1>1, <3>2 DEF LifecycleInv, TypeOK, StartClose
    <3>3. record' # record
      BY <1>1
    <3>4. CASE \E m \in Launch : LaunchSucceeds(m)
      BY <3>1, <3>4
    <3>5. CASE ShutdownStarts
      BY <1>1, <3>5 DEF ShutdownStarts
    <3>6. CASE \E m \in Launch : CreateCall(m) \/ Destroy(m) \/ Evict(m)
      BY <3>2, <3>3, <3>6
      DEF CreateCall, Create, CreateReturns, CreateCancelled, CreateRecovers, CreateGivesUp,
          Destroy, Evict, CloseRegistered
    <3>7. CASE \E m \in Launch : LaunchTask(m) /\ ~LaunchSucceeds(m)
      BY <3>2, <3>3, <3>7
      DEF LaunchTask, LaunchStarts, LaunchNeverStarts, LaunchFails, PrepareSucceeds,
          PrepareFails, LaunchUnwinds, LaunchFinished
    <3>8. CASE \E m \in Launch : Cleanup(m) \/ Crash(m)
      BY <1>1, <3>8
      DEF LifecycleInv, TypeOK, Cleanup, BrowserCloses, RollbackSucceeds, RollbackFails,
          CloseSucceeds, CloseFails, Crash
    <3>9. CASE Shutdown /\ ~ShutdownStarts
      BY <3>3, <3>9 DEF Shutdown, ShutdownAll, ShutdownDrained, ShutdownTimesOut, tasks
    <3> QED
      BY <1>1, <3>3, <3>4, <3>5, <3>6, <3>7, <3>8, <3>9 DEF Next, vars, tasks
  <2> QED
    BY <1>1, <2>1 DEF LifecycleInv, PhasesAgree, LaunchSucceeds
<1>2. LifecycleInv /\ [Next]_vars =>
        [\A l \in Launch : record[l] = "none" /\ record'[l] = "live"
           => call[l] = "waiting" /\ ~ShuttingDown]_vars
  BY <1>1
<1> QED
  BY <1>2, LifecycleInvariant, PTL DEF Spec, PublishedOnlyToCaller


\* _start_close never displaces the retired record of its name.
LEMMA StartCloseKeepsRetired ==
  ASSUME LifecycleInv, NEW l \in Launch, StartClose(l), Owns(l),
         NEW n \in Name, retired[n] # None
  PROVE  retired'[n] = retired[n]
<1>1. retired[n] \in Launch /\ NameOf[retired[n]] = n /\ Owns(retired[n])
  BY DEF LifecycleInv, TypeOK, TablesAgree, Owns
<1>2. NameOf[l] = n => retired[n] = l
  BY <1>1 DEF LifecycleInv, OwnersReserved
<1> QED
  BY <1>2 DEF LifecycleInv, TypeOK, TablesAgree, CloseStarted, StartClose

\* A retired record leaves _retired only when its own close task has torn its
\* browser down.
THEOREM Retired == Spec => RetiredUntilClosed
<1>1. ASSUME LifecycleInv, [Next]_vars, NEW n \in Name,
             retired[n] # None, retired'[n] # retired[n]
      PROVE  record'[retired[n]] = "closed" /\ ~MayRun(retired[n])
  <2>1. retired' # retired
    BY <1>1
  <2>2. retired[n] \in Launch /\ NameOf[retired[n]] = n
    BY <1>1 DEF LifecycleInv, TypeOK, TablesAgree
  <2>3. ASSUME NEW l \in Launch, StartClose(l), record[l] # "none" \/ LaunchSucceeds(l)
        PROVE  FALSE
    <3>1. CloseStarted(l) => retired' = retired
      BY <2>3 DEF StartClose
    <3>2. ~CloseStarted(l) => Owns(l)
      <4>1. LaunchSucceeds(l) => launch[l] = "launching"
        BY DEF LaunchSucceeds
      <4>2. ~CloseStarted(l) /\ record[l] # "none" => record[l] \in {"live", "crashed"}
        BY <1>1 DEF LifecycleInv, TypeOK, CloseStarted
      <4> QED
        BY <2>3, <4>1, <4>2 DEF Owns
    <3> QED
      BY <1>1, <2>1, <2>3, <3>1, <3>2, StartCloseKeepsRetired
  <2>4. CASE ShutdownStarts
    <3>1. instances[n] # None /\ instances[n] # retired[n] /\ instances[n] \in Launch
      BY <1>1, <2>4 DEF LifecycleInv, TypeOK, ShutdownStarts
    <3>2. /\ NameOf[instances[n]] = n /\ Owns(instances[n])
          /\ Owns(retired[n])
      BY <1>1, <2>2, <3>1 DEF LifecycleInv, TablesAgree, Owns
    <3> QED
      BY <1>1, <2>2, <3>1, <3>2 DEF LifecycleInv, OwnersReserved
  <2>5. ASSUME NEW l \in Launch, CloseSucceeds(l)
        PROVE  record'[retired[n]] = "closed" /\ ~MayRun(retired[n])
    <3>1. NameOf[l] = n /\ retired[n] = l
      BY <1>1, <2>5, LifecycleAssumption DEF LifecycleInv, TypeOK, CloseSucceeds
    <3> QED
      BY <1>1, <2>5, <3>1 DEF LifecycleInv, TypeOK, CloseSucceeds, MayRun
  <2>6. ASSUME NEW l \in Launch, LaunchTask(l) PROVE FALSE
    <3>1. CASE LaunchSucceeds(l)
      BY <2>1, <2>3, <3>1 DEF LaunchSucceeds
    <3>2. CASE PrepareFails(l)
      BY <1>1, <2>3, <3>2 DEF LifecycleInv, PhasesAgree, PrepareFails
    <3> QED
      BY <2>1, <2>6, <3>1, <3>2
      DEF LaunchTask, LaunchStarts, LaunchNeverStarts, LaunchFails, PrepareSucceeds,
          LaunchUnwinds, LaunchFinished, tables
  <2>7. ASSUME NEW l \in Launch, CreateCall(l) PROVE FALSE
    <3>1. CASE CreateRecovers(l)
      <4>1. outcome[l] = "ok" => StartClose(l) /\ record[l] # "none"
        BY <1>1, <3>1 DEF LifecycleInv, PhasesAgree, CreateRecovers
      <4> QED
        BY <2>1, <2>3, <3>1, <4>1 DEF CreateRecovers
    <3> QED
      BY <2>1, <2>7, <3>1 DEF CreateCall, Create, CreateReturns, CreateCancelled,
                              CreateGivesUp, tables
  <2>8. ASSUME NEW l \in Launch, Destroy(l) \/ Evict(l) PROVE FALSE
    BY <2>3, <2>8 DEF Destroy, Evict, CloseRegistered
  <2>9. ASSUME NEW l \in Launch, Cleanup(l) \/ Crash(l), ~CloseSucceeds(l) PROVE FALSE
    BY <2>1, <2>9 DEF Cleanup, BrowserCloses, RollbackSucceeds, RollbackFails, CloseFails,
                      Crash, tables
  <2>10. CASE Shutdown /\ ~ShutdownStarts
    BY <2>1, <2>10 DEF Shutdown, ShutdownAll, ShutdownDrained, ShutdownTimesOut, tables
  <2>11. CASE UNCHANGED vars
    BY <2>1, <2>11 DEF vars, tables
  <2> QED
    BY <1>1, <2>4, <2>5, <2>6, <2>7, <2>8, <2>9, <2>10, <2>11 DEF Next
<1>2. LifecycleInv /\ [Next]_vars =>
        [\A n \in Name : retired[n] # None /\ retired'[n] # retired[n]
           => record'[retired[n]] = "closed" /\ ~MayRun(retired[n])]_vars
  BY <1>1
<1> QED
  BY <1>2, LifecycleInvariant, PTL DEF Spec, RetiredUntilClosed

-----------------------------------------------------------------------------
(* InstanceLifecycle implements InstanceOwnership *)

\* The launches of a step that can change their ownership: none but one, and
\* that one can only lose it.
LEMMA OneRelease ==
  ASSUME LifecycleInv, NEW l \in Launch,
         \/ CreateCall(l) /\ ~Create(l)
         \/ LaunchTask(l) \/ Cleanup(l) \/ Crash(l) \/ Destroy(l) \/ Evict(l)
  PROVE  /\ \A m \in Launch : m # l => (Owns(m)' <=> Owns(m))
         /\ Owns(l)' => Owns(l)
         /\ \A m \in Launch : call'[m] = "idle" <=> call[m] = "idle"
<1> USE DEF CreateCall, CreateReturns, CreateCancelled, CreateRecovers, CreateGivesUp,
            LaunchTask, LaunchStarts, LaunchNeverStarts, LaunchFails, LaunchSucceeds,
            PrepareSucceeds, PrepareFails, LaunchUnwinds, LaunchFinished,
            Cleanup, BrowserCloses, RollbackSucceeds, RollbackFails, CloseSucceeds,
            CloseFails, Crash, Destroy, Evict, CloseRegistered, EndLaunch, tables
<1>1. \A m \in Launch : call'[m] = "idle" <=> call[m] = "idle"
  BY DEF LifecycleInv, TypeOK
<1>2. ASSUME NEW m \in Launch, m # l
      PROVE  /\ launch'[m] = launch[m] /\ rollback'[m] = rollback[m]
             /\ record'[m] = record[m]
  BY <1>2 DEF LifecycleInv, TypeOK, StartClose
<1>3. ASSUME NEW m \in Launch, m # l
      PROVE  pending'[NameOf[m]] = m <=> pending[NameOf[m]] = m
  BY <1>3, LifecycleAssumption DEF LifecycleInv, TypeOK
<1>4. \A m \in Launch : m # l => (Owns(m)' <=> Owns(m))
  BY <1>2, <1>3 DEF Owns
<1>5. pending'[NameOf[l]] = l => pending[NameOf[l]] = l
  BY LifecycleAssumption DEF LifecycleInv, TypeOK
<1>6. Owns(l)' => Owns(l)
  BY <1>5 DEF Owns, LifecycleInv, TypeOK, PhasesAgree, StartClose, CloseStarted
<1> QED
  BY <1>1, <1>4, <1>6

LEMMA CreateAdmits ==
  ASSUME LifecycleInv, LifecycleInv', NEW l \in Launch, Create(l)
  PROVE  Ownership!Admit(l)
<1>1. \A m \in Launch : Owns(m) => call[m] # "idle"
  BY DEF LifecycleInv, PhasesAgree, Owns, LaunchDone
<1>2. Ownership!Owners = {m \in Launch : Owns(m)}
  BY <1>1 DEF Ownership!Owners, Phase
<1>3. NameOf[l] \in Name /\ ProfileOf[l] # Unreserved /\ \A m \in Launch : NameOf[m] \in Name
  BY LifecycleAssumption
<1>4. Phase[l] = "new"
  BY DEF Phase, Create
<1>5. \A m \in Ownership!Owners : NameOf[m] # NameOf[l] /\ ~Ownership!SameProfile(l, m)
  BY <1>2, <1>3, LifecycleAssumption
  DEF LifecycleInv, OwnersReserved, Create, ProfileFree, Ownership!SameProfile
<1>6. {NameOf[m] : m \in Ownership!Owners} = Reserved
  BY <1>2, <1>3, LifecycleAssumption DEF LifecycleInv, OwnersReserved, Reserved
<1>7. Cardinality({NameOf[m] : m \in Ownership!Owners}) < MaxInstances
  BY <1>6 DEF Create, HasRoom
<1>8. \A m \in Launch : m # l => call'[m] = call[m] /\ (Owns(m)' <=> Owns(m))
  <2>1. \A m \in Launch : m # l =>
          /\ call'[m] = call[m] /\ launch'[m] = launch[m]
          /\ record'[m] = record[m] /\ rollback'[m] = rollback[m]
    BY DEF LifecycleInv, TypeOK, Create
  <2>2. \A m \in Launch : m # l /\ NameOf[m] # NameOf[l] => pending'[NameOf[m]] = pending[NameOf[m]]
    BY <1>3 DEF LifecycleInv, TypeOK, Create
  <2>3. \A m \in Launch : NameOf[m] = NameOf[l] => pending'[NameOf[m]] = l /\ ~Owns(m)
    BY <1>2, <1>3, <1>5 DEF LifecycleInv, TypeOK, Create
  <2> QED
    BY <2>1, <2>2, <2>3 DEF Owns
<1>9. call'[l] = "waiting" /\ Owns(l)'
  BY DEF LifecycleInv, TypeOK, Create, Owns
<1>10. Phase' = [Phase EXCEPT ![l] = "owning"]
  BY <1>8, <1>9 DEF Phase
<1> QED
  BY <1>4, <1>5, <1>7, <1>10 DEF Ownership!Admit, Ownership!Cardinality, Cardinality

LEMMA StepImplements ==
  ASSUME LifecycleInv, LifecycleInv', [Next]_vars
  PROVE  [Ownership!Next]_Phase
<1>1. ASSUME NEW l \in Launch, Create(l) PROVE Ownership!Next
  BY <1>1, CreateAdmits DEF Ownership!Next
<1>2. ASSUME NEW l \in Launch,
             \/ CreateCall(l) /\ ~Create(l)
             \/ LaunchTask(l) \/ Cleanup(l) \/ Crash(l) \/ Destroy(l) \/ Evict(l)
      PROVE  Ownership!Next \/ UNCHANGED Phase
  <2>1. /\ \A m \in Launch : m # l => (Owns(m)' <=> Owns(m))
        /\ Owns(l)' => Owns(l)
        /\ \A m \in Launch : call'[m] = "idle" <=> call[m] = "idle"
    BY <1>2, OneRelease
  <2>2. CASE Owns(l) /\ ~Owns(l)'
    <3>1. call[l] # "idle"
      BY <2>2 DEF LifecycleInv, PhasesAgree, Owns, LaunchDone
    <3>2. Phase[l] = "owning" /\ Phase' = [Phase EXCEPT ![l] = "released"]
      BY <2>1, <2>2, <3>1 DEF Phase
    <3> QED
      BY <3>2 DEF Ownership!Next, Ownership!Release
  <2>3. CASE Owns(l)' <=> Owns(l)
    BY <2>1, <2>3 DEF Phase
  <2> QED
    BY <2>1, <2>2, <2>3
<1>3. CASE Shutdown
  <2>1. \A m \in Launch : launch'[m] = launch[m] /\ rollback'[m] = rollback[m]
                          /\ pending' = pending /\ call' = call
    BY <1>3 DEF Shutdown, ShutdownAll, ShutdownStarts, ShutdownDrained, ShutdownTimesOut,
                tables, tasks
  <2>2. \A m \in Launch : \/ record'[m] = record[m]
                          \/ record[m] \in {"live", "crashed"} /\ record'[m] = "closing"
    <3>1. CASE ShutdownStarts
      BY <3>1, LifecycleAssumption DEF LifecycleInv, TypeOK, TablesAgree, ShutdownStarts
    <3>2. CASE ~ShutdownStarts
      BY <1>3, <3>2 DEF Shutdown, ShutdownAll, ShutdownDrained, ShutdownTimesOut, tasks
    <3> QED
      BY <3>1, <3>2
  <2>3. \A m \in Launch : (Owns(m)' <=> Owns(m)) /\ call'[m] = call[m]
    BY <2>1, <2>2 DEF Owns
  <2> QED
    BY <2>3 DEF Phase
<1>4. CASE UNCHANGED vars
  <2>1. \A m \in Launch : (Owns(m)' <=> Owns(m)) /\ call'[m] = call[m]
    BY <1>4 DEF vars, tables, tasks, Owns
  <2> QED
    BY <2>1 DEF Phase
<1> QED
  BY <1>1, <1>2, <1>3, <1>4 DEF Next

\* Every behaviour of the registry is a behaviour of the atomic ledger: names
\* and profiles are handed out once and taken back once.
THEOREM Implementation == Spec => ImplementsOwnership
<1>1. Init => Ownership!Init
  BY DEF Init, Ownership!Init, Phase
<1>2. LifecycleInv /\ LifecycleInv' /\ [Next]_vars => [Ownership!Next]_Phase
  BY StepImplements
<1> QED
  BY <1>1, <1>2, LifecycleInvariant, PTL DEF Spec, ImplementsOwnership, Ownership!Spec


-----------------------------------------------------------------------------
(* The shutdown *)

\* Closing a record registers none.
LEMMA StartCloseRegistersNone ==
  ASSUME LifecycleInv, NEW l \in Launch, StartClose(l), NEW n \in Name, instances[n] = None
  PROVE  instances'[n] = None
BY LifecycleAssumption DEF StartClose, LifecycleInv, TypeOK

\* A step of a launch cannot bring back a launch that is done, and registers no
\* record while the server is shutting down.
LEMMA LaunchStepInv ==
  ASSUME LifecycleInv, NEW l \in Launch,
         CreateCall(l) \/ LaunchTask(l) \/ Cleanup(l) \/ Crash(l) \/ Destroy(l) \/ Evict(l)
  PROVE  /\ UNCHANGED <<shutdown, awaited>>
         /\ ShuttingDown => \A n \in Name : instances[n] = None => instances'[n] = None
         /\ ShuttingDown => \A m \in Launch :
              launch'[m] \in {"scheduled", "launching"} => launch[m] \in {"scheduled", "launching"}
         /\ \A m \in Launch : LaunchDone(m) => LaunchDone(m)'
<1>1. CASE Create(l)
  BY <1>1 DEF Create, LifecycleInv, TypeOK, PhasesAgree, LaunchDone
<1>2. CASE CreateReturns(l) \/ CreateCancelled(l) \/ CreateGivesUp(l)
  BY <1>2 DEF CreateReturns, CreateCancelled, CreateGivesUp, Cancel, tables, LaunchDone
<1>3. CASE CreateRecovers(l)
  <2>1. CASE outcome[l] = "ok"
    BY <1>3, <2>1, StartCloseRegistersNone DEF CreateRecovers, LaunchDone
  <2>2. CASE outcome[l] # "ok"
    BY <1>3, <2>2 DEF CreateRecovers, LaunchDone
  <2> QED
    BY <2>1, <2>2
<1>4. CASE LaunchStarts(l) \/ LaunchNeverStarts(l) \/ LaunchFails(l) \/ PrepareSucceeds(l)
           \/ LaunchUnwinds(l)
  BY <1>4 DEF LaunchStarts, LaunchNeverStarts, LaunchFails, PrepareSucceeds, LaunchUnwinds,
              EndLaunch, tables, LifecycleInv, TypeOK, LaunchDone
<1>5. CASE LaunchSucceeds(l)
  <2>1. CASE Refused(l)
    BY <1>5, <2>1, StartCloseRegistersNone DEF LaunchSucceeds, LifecycleInv, TypeOK, LaunchDone
  <2>2. CASE ~Refused(l)
    BY <1>5, <2>2 DEF LaunchSucceeds, Refused, LifecycleInv, TypeOK, LaunchDone
  <2> QED
    BY <2>1, <2>2
<1>6. CASE PrepareFails(l)
  BY <1>6, StartCloseRegistersNone DEF PrepareFails, LifecycleInv, TypeOK, LaunchDone
<1>7. CASE LaunchFinished(l)
  BY <1>7 DEF LaunchFinished, LifecycleInv, TypeOK, LaunchDone
<1>8. CASE Cleanup(l) \/ Crash(l)
  <2>1. UNCHANGED <<instances, launch, shutdown, awaited>>
    BY <1>8 DEF Cleanup, BrowserCloses, RollbackSucceeds, RollbackFails, CloseSucceeds,
                CloseFails, Crash, tables
  <2> QED
    BY <2>1 DEF LaunchDone
<1>9. CASE Destroy(l) \/ Evict(l)
  BY <1>9, StartCloseRegistersNone DEF Destroy, Evict, CloseRegistered, LaunchDone
<1> QED
  BY <1>1, <1>2, <1>3, <1>4, <1>5, <1>6, <1>7, <1>8, <1>9 DEF CreateCall, LaunchTask

LEMMA ShutdownStepInv ==
  ASSUME LifecycleInv, ShutdownInv, Shutdown
  PROVE  ShutdownInv'
<1>1. CASE ShutdownAll
  BY <1>1 DEF ShutdownAll, ShutdownInv
<1>2. CASE ShutdownStarts
  <2>1. /\ shutdown' = "waiting" /\ UNCHANGED launch
        /\ \A n \in Name : instances'[n] = None
        /\ awaited'.launches = {l \in Launch : pending[NameOf[l]] = l}
    BY <1>2 DEF ShutdownStarts
  <2>2. \A l \in Launch : launch[l] \in {"scheduled", "launching"} => pending[NameOf[l]] = l
    BY DEF LifecycleInv, PendingUntilRecord
  <2> QED
    BY <2>1, <2>2 DEF ShutdownInv
<1>3. CASE ShutdownDrained
  BY <1>3 DEF ShutdownDrained, AwaitedDone, ShutdownInv, tables, tasks, LaunchDone
<1>4. CASE ShutdownTimesOut
  BY <1>4 DEF ShutdownTimesOut, ShutdownInv, tables, tasks, LaunchDone
<1> QED
  BY <1>1, <1>2, <1>3, <1>4 DEF Shutdown

\* When shutdown_all returns in time nothing is registered, no launch is running
\* and whatever browser may be left belongs to a rollback or to a close.
\* (_shutdown, _register_record)
THEOREM Drained == Spec => []DrainedLeavesOnlyCleanup
<1>1. Init => ShutdownInv
  BY DEF Init, ShutdownInv
<1>2. ASSUME LifecycleInv, ShutdownInv, [Next]_vars PROVE ShutdownInv'
  <2>1. ASSUME NEW l \in Launch,
               CreateCall(l) \/ LaunchTask(l) \/ Cleanup(l) \/ Crash(l) \/ Destroy(l) \/ Evict(l)
        PROVE  ShutdownInv'
    <3>1. shutdown # "none" => ShuttingDown
      BY DEF ShuttingDown
    <3>2. CASE shutdown = "none"
      BY <1>2, <2>1, <3>2, LaunchStepInv DEF ShutdownInv
    <3>3. CASE ShuttingDown
      <4>1. UNCHANGED <<shutdown, awaited>>
        BY <1>2, <2>1, LaunchStepInv
      <4>2. (\A n \in Name : instances[n] = None) => \A n \in Name : instances'[n] = None
        BY <1>2, <2>1, <3>3, LaunchStepInv
      <4>3. \A m \in Launch :
              launch'[m] \in {"scheduled", "launching"} => launch[m] \in {"scheduled", "launching"}
        BY <1>2, <2>1, <3>3, LaunchStepInv
      <4>4. \A m \in Launch : LaunchDone(m) => LaunchDone(m)'
        BY <1>2, <2>1, LaunchStepInv
      <4>5. awaited.launches \subseteq Launch
        BY <1>2 DEF LifecycleInv, TypeOK
      <4> QED
        BY <1>2, <4>1, <4>2, <4>3, <4>4, <4>5 DEF ShutdownInv
    <3> QED
      BY <3>1, <3>2, <3>3
  <2>2. CASE Shutdown
    BY <1>2, <2>2, ShutdownStepInv
  <2>3. CASE UNCHANGED vars
    BY <1>2, <2>3 DEF vars, tables, tasks, ShutdownInv, LaunchDone
  <2> QED
    BY <1>2, <2>1, <2>2, <2>3 DEF Next
<1>3. ASSUME LifecycleInv, ShutdownInv PROVE DrainedLeavesOnlyCleanup
  <2> SUFFICES ASSUME shutdown = "drained", NEW l \in Launch, MayRun(l)
               PROVE  record[l] \in {"closing", "close_failed"}
                      \/ rollback[l] \in {"closing", "failed"}
    BY <1>3 DEF DrainedLeavesOnlyCleanup, ShutdownInv
  <2>1. launch[l] # "launching"
    BY <1>3 DEF ShutdownInv, LaunchDone
  <2>2. record[l] \notin {"live", "crashed"}
    BY <1>3, LifecycleAssumption DEF ShutdownInv, LifecycleInv, TypeOK, TablesAgree
  <2> QED
    BY <1>3, <2>1, <2>2 DEF LifecycleInv, TypeOK, PhasesAgree, MayRun, LaunchDone
<1> QED
  BY <1>1, <1>2, <1>3, LifecycleInvariant, PTL DEF Spec
=============================================================================
