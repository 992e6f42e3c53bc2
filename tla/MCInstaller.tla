---------------------------- MODULE MCInstaller ----------------------------
(***************************************************************************)
(* A small instance of Installer: the root crds with two of the children   *)
(* that a manifest map has, and one that the dependency table names but no *)
(* feature renders (Ingress).                                              *)
(***************************************************************************)
EXTENDS InstallResultProofs

CONSTANTS crds, pilot, galley, ingress,                \* components
          crd1, crd2, pilotCRD, galleyCRD,              \* objects
          pilotDeploy, galleyDeploy, oldDeploy,
          nsCluster, nsControl, nsConfig                \* namespaces

MCComponent == {crds, pilot, galley, ingress}
MCManifests == {crds, pilot, galley}
MCDependencies == [c \in MCComponent |->
                     IF c = crds THEN {pilot, galley, ingress} ELSE {}]

MCCRD == {crd1, crd2, pilotCRD, galleyCRD}
MCPrunable == {pilotDeploy, galleyDeploy, oldDeploy}
MCObject == MCCRD \cup MCPrunable
\* The CRDs of the base component, as the charts have them, and for each of its
\* children one CRD of a custom package: kubectl refuses the manifest of the CRDs of
\* a component that has none.
MCObjectsOf == [c \in MCManifests |-> CASE c = crds -> {crd1, crd2}
                                        [] c = pilot -> {pilotCRD, pilotDeploy}
                                        [] c = galley -> {galleyCRD, galleyDeploy}]

\* What the control plane renders: of crds nothing but a comment (see ControlPlane).
RenderedObjectsOf == [MCObjectsOf EXCEPT ![crds] = {}]

\* An earlier version installed one deployment that no manifest has now.
MCPreinstalled == {crd1, oldDeploy}
NoPreinstalled == {}
MCUnparsable == {galley}
NoUnparsable == {}

\* Every component in a namespace of its own ...
OwnNamespaces == [o \in MCObject |-> CASE o \in MCCRD -> nsCluster
                                       [] o = galleyDeploy -> nsConfig
                                       [] OTHER -> nsControl]
\* ... and the default profile's choice: pilot and galley share istio-control.
SharedNamespace == [o \in MCObject |-> IF o \in MCCRD THEN nsCluster ELSE nsControl]
============================================================================
