---------------------------- MODULE InstallOrder ----------------------------
(***************************************************************************)
(* What the installer promises about the order of an installation: every   *)
(* component of the manifest map is applied once per run, after all the    *)
(* components it depends on, and the run ends only when all are applied.   *)
(* Installer.tla is the detailed specification that implements this one.   *)
(***************************************************************************)
CONSTANTS Component,     \* the names of the components
          Dependencies,  \* Dependencies[p]: the components that depend on p
          Manifests      \* the components that a run installs

VARIABLES applied,       \* the components this run has applied
          finished       \* the run has ended successfully

vars == <<applied, finished>>

Parents(c) == {p \in Component : c \in Dependencies[p]}

Init == applied = {} /\ finished = FALSE

Apply(c) ==
  /\ ~finished
  /\ c \notin applied
  /\ Parents(c) \subseteq applied
  /\ applied' = applied \cup {c}
  /\ UNCHANGED finished

Finish ==
  /\ ~finished
  /\ applied = Manifests
  /\ finished' = TRUE
  /\ UNCHANGED applied

\* The process is stopped, or has ended, and the user runs it again.
Rerun == applied' = {} /\ finished' = FALSE

Next == (\E c \in Manifests : Apply(c)) \/ Finish \/ Rerun

Spec == Init /\ [][Next]_vars
=============================================================================
