------------------------- MODULE InstanceOwnership -------------------------
(***************************************************************************)
(* What InstanceManager promises about browsers, without saying how: a     *)
(* launch owns its name and its profile directory from the moment create() *)
(* admits it until its browser is known to be gone.  At most one launch    *)
(* owns a name, at most one owns a profile directory, at most MaxInstances *)
(* names are owned.  InstanceLifecycle implements this module.             *)
(***************************************************************************)
EXTENDS FiniteSets, Integers

CONSTANTS
  Launch,        \* create() calls that reach admission, each with its arguments
  Name,          \* instance names
  NameOf,        \* NameOf[l]: the name argument of launch l
  ProfileOf,     \* ProfileOf[l]: its resolved profile directory, or NoProfile
  NoProfile,     \* profile_dir is None: an ephemeral browser
  MaxInstances   \* config.max_instances

VARIABLE phase   \* phase[l]: not admitted yet, owning, or done with its browser

Owners == {l \in Launch : phase[l] = "owning"}

SameProfile(l, m) == ProfileOf[l] # NoProfile /\ ProfileOf[l] = ProfileOf[m]

Init == phase = [l \in Launch |-> "new"]

\* A launch is admitted when nobody owns its name, nobody owns its profile
\* and the number of owned names leaves room for one more.
Admit(l) ==
  /\ phase[l] = "new"
  /\ \A m \in Owners : NameOf[m] # NameOf[l] /\ ~SameProfile(l, m)
  /\ Cardinality({NameOf[m] : m \in Owners}) < MaxInstances
  /\ phase' = [phase EXCEPT ![l] = "owning"]

\* The browser is gone; its name and profile are free again.
Release(l) ==
  /\ phase[l] = "owning"
  /\ phase' = [phase EXCEPT ![l] = "released"]

Next == \E l \in Launch : Admit(l) \/ Release(l)

Spec == Init /\ [][Next]_phase
=============================================================================
