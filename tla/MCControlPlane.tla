--------------------------- MODULE MCControlPlane ---------------------------
(***************************************************************************)
(* Six of the seven features with the components that differ in how they   *)
(* are treated: the base that the spec has no field for, Pilot and Citadel *)
(* writing one namespace path, Policy writing a path of its own, Galley    *)
(* writing none, and SidecarInjector in two features.                      *)
(***************************************************************************)
EXTENDS ControlPlaneProofs

MCFeatures == <<"Base", "TrafficManagement", "Security", "Policy", "ConfigManagement", "AutoInjection">>
MCComponentsOf == [Base |-> <<"crds">>,
                   TrafficManagement |-> <<"Pilot", "SidecarInjector">>,
                   Security |-> <<"Citadel">>,
                   Policy |-> <<"Policy">>,
                   ConfigManagement |-> <<"Galley">>,
                   AutoInjection |-> <<"SidecarInjector">>]
MCSpecFeatures == {"TrafficManagement", "Security", "Policy", "ConfigManagement", "AutoInjection"}

pilot == <<"TrafficManagement", "Pilot">>
citadel == <<"Security", "Citadel">>
policy == <<"Policy", "Policy">>
galley == <<"ConfigManagement", "Galley">>
MCPairs == {pilot, citadel, policy, galley}
MCNamespacePath == [p \in MCPairs |-> CASE p = policy -> "global.policyNamespace"
                                         [] p = galley -> NoPath
                                         [] OTHER -> "global.istioNamespace"]
MCTargetKind == [replicas |-> "Deployment", hpaSpec |-> "HorizontalPodAutoscaler"]
MCChartKinds == [c \in {"crds", "Pilot", "SidecarInjector", "Citadel", "Policy", "Galley"} |->
                   IF c \in {"Pilot", "Policy"} THEN {"Deployment", "HorizontalPodAutoscaler"}
                                                ELSE {"Deployment"}]

\* The default namespace is "system"; Pilot may be moved to "control", and may
\* be off in a feature that is on; its K8S section gives both settings, as in
\* the default profile, or only overlays.  Citadel may ask for an autoscaler,
\* which its chart does not have.
MCK8s == {[pilot |-> {"replicas", "hpaSpec"}, citadel |-> Unset],
          [pilot |-> {"replicas", "hpaSpec"}, citadel |-> {"hpaSpec"}],
          [pilot |-> {}, citadel |-> Unset]}

MCSpecs ==
  {[feature |-> [f \in MCSpecFeatures |-> IF f = "Policy" THEN "on" ELSE on[f]],
    component |-> [p \in MCPairs |-> IF p = pilot THEN pilotField ELSE "unset"],
    prefix |-> "system",
    namespace |-> [p \in MCPairs |-> IF p = pilot THEN pilotNamespace ELSE Unset],
    k8s |-> [p \in MCPairs |-> CASE p = pilot -> k.pilot
                                 [] p = citadel -> k.citadel
                                 [] OTHER -> Unset]] :
   on \in [MCSpecFeatures \ {"Policy"} -> {"on", "off"}],
   pilotField \in {"unset", "off"},
   pilotNamespace \in {Unset, "control"},
   k \in MCK8s}
============================================================================
