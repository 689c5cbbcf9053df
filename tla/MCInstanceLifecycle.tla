------------------------ MODULE MCInstanceLifecycle ------------------------
EXTENDS InstanceLifecycle, TLC

CONSTANTS l1, l2, l3, l4, n1, n2, n3, p1

\* Three names competing for two slots; n3 is launched either with the profile
\* directory of n1 or without one.
CompetingNames    == l1 :> n1 @@ l2 :> n2 @@ l3 :> n3 @@ l4 :> n3
CompetingProfiles == l1 :> p1 @@ l2 :> NoProfile @@ l3 :> p1 @@ l4 :> NoProfile

\* One name, launched twice.
PairNames    == l1 :> n1 @@ l2 :> n1
PairProfiles == l1 :> p1 @@ l2 :> p1

\* Bounds of the competition: no shutdown; l1 and l3 compete for the profile, or
\* l1, l2 and l4 for the slots, and then no caller is cancelled.
Competition ==
  /\ shutdown = "none"
  /\ \/ call[l2] = "idle" /\ call[l4] = "idle"
     \/ call[l3] = "idle" /\ \A l \in Launch : call[l] \notin {"recovering", "closing"}
=============================================================================
