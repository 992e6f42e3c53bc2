------------------------------ MODULE Rendering ------------------------------
(***************************************************************************)
(* What rendering a spec promises: one step from what the spec asks for to *)
(* the manifests of all components, or to an error and no manifests.  A    *)
(* component is rendered as the last feature that has it asks; all charts  *)
(* are told the same about the others.  ControlPlane.tla is the detailed   *)
(* specification that implements this one.                                 *)
(***************************************************************************)
EXTENDS Naturals, Sequences

CONSTANTS
  Features,      \* the features in order
  ComponentsOf,  \* the components of each feature, in order
  ToldOf,        \* the <<feature, component>> that charts are told about
  Paths,         \* the namespaces they are told
  Setting, Namespaces,
  Disabled       \* the manifest of a component that is not installed

VARIABLES
  asked,     \* of each pair: is it enabled, with which settings; the candidates for each path
  outcome,   \* "pending", "done" or "error"
  manifests  \* component -> its manifest

vars == <<asked, outcome, manifests>>

ComponentsIn(f) == {ComponentsOf[f][i] : i \in DOMAIN ComponentsOf[f]}
Components == UNION {ComponentsIn(f) : f \in DOMAIN ComponentsOf}
Pairs == ((DOMAIN ComponentsOf) \X Components) \cup ToldOf

Request == [enabled : [Pairs -> BOOLEAN], settings : [Pairs -> SUBSET Setting],
            namespaces : [Paths -> (SUBSET Namespaces) \ {{}}]]

NoManifests == [c \in {} |-> Disabled]

Init ==
  /\ asked \in Request
  /\ outcome = "pending"
  /\ manifests = NoManifests

\* Of the features that have the component the g-th is the last.
Decides(g, c) ==
  /\ c \in ComponentsIn(Features[g])
  /\ \A h \in DOMAIN Features : h > g => c \notin ComponentsIn(Features[h])

\* The manifest of a pair.
Renders(p, m) ==
  IF ~asked.enabled[p] THEN m = Disabled
  ELSE /\ m # Disabled
       /\ m.settings = asked.settings[p]
       /\ m.values.enabled = [q \in ToldOf |-> asked.enabled[q]]
       /\ DOMAIN m.values.namespace = Paths
       /\ \A n \in Paths : m.values.namespace[n] \in asked.namespaces[n]

Finish ==
  /\ outcome = "pending"
  /\ outcome' = "done"
  /\ DOMAIN manifests' = Components
  /\ \A c \in Components : \E g \in DOMAIN Features :
       Decides(g, c) /\ Renders(<<Features[g], c>>, manifests'[c])
  /\ UNCHANGED asked

Fail ==
  /\ outcome = "pending"
  /\ outcome' = "error"
  /\ UNCHANGED <<asked, manifests>>

Next == Finish \/ Fail

Spec == Init /\ [][Next]_vars
=============================================================================
