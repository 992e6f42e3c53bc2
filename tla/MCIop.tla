-------------------------------- MODULE MCIop -------------------------------
(***************************************************************************)
(* Four components of four features: the base, which no spec enables, one  *)
(* that the CRs configure, one whose chart has a large file, and the       *)
(* sidecar injector, which two features have.  The CRs say one or two      *)
(* things each; every valid and invalid kind of field and profile occurs.  *)
(***************************************************************************)
EXTENDS IopData, IopProofs

f(k, v) == Map(k :> v)
common(c, v) == f("components", f(c, f("common", v)))

MCJSONName ==
     "DefaultNamespacePrefix" :> "defaultNamespacePrefix" @@ "Hub" :> "hub" @@ "Tag" :> "tag"
  @@ "Profile" :> "profile" @@ "CustomPackagePath" :> "customPackagePath"
  @@ "Policy" :> "policy" @@ "TrafficManagement" :> "trafficManagement"
  @@ "Telemetry" :> "telemetry" @@ "Security" :> "security"
  @@ "ConfigManagement" :> "configManagement" @@ "AutoInjection" :> "autoInjection"
  @@ "Enabled" :> "enabled" @@ "Components" :> "components" @@ "Common" :> "common"
  @@ "Namespace" :> "namespace" @@ "Pilot" :> "pilot" @@ "Proxy" :> "proxy"
  @@ "Galley" :> "galley" @@ "Citadel" :> "citadel" @@ "CertManager" :> "certManager"
  @@ "NodeAgent" :> "nodeAgent" @@ "Injector" :> "injector" @@ "Sidecar" :> "sidecar"
  @@ "K8S" :> "k8s" @@ "Values" :> "values" @@ "UnvalidatedValues" :> "unvalidatedValues"
  @@ "Debug" :> "debug" @@ "ReplicaCount" :> "replicaCount" @@ "Env" :> "env"
  @@ "HpaSpec" :> "hpaSpec" @@ "Affinity" :> "affinity" @@ "Resources" :> "resources"
  @@ "NodeSelector" :> "nodeSelector" @@ "PodAnnotations" :> "podAnnotations"
  @@ "PodDisruptionBudget" :> "podDisruptionBudget" @@ "ImagePullPolicy" :> "imagePullPolicy"
  @@ "PriorityClassName" :> "priorityClassName" @@ "ReadinessProbe" :> "readinessProbe"
  @@ "Overlays" :> "overlays" @@ "Limits" :> "limits" @@ "Requests" :> "requests"
  @@ "MinAvailable" :> "minAvailable" @@ "MaxUnavailable" :> "maxUnavailable"
  @@ "Selector" :> "selector" @@ "ApiVersion" :> "apiVersion" @@ "Kind" :> "kind"
  @@ "Name" :> "name" @@ "Patches" :> "patches" @@ "Path" :> "path" @@ "Value" :> "value"
  @@ "ValueFrom" :> "valueFrom" @@ "SelfSigned" :> "selfSigned"
  @@ "CreateMeshPolicy" :> "createMeshPolicy" @@ "ControlPlaneMtls" :> "controlPlaneMtls"
  @@ "DataPlaneMtlsStrict" :> "dataPlaneMtlsStrict"
  @@ "PolicyCheckFailOpen" :> "policyCheckFailOpen"
  @@ "OutboundTrafficPolicyMode" :> "outboundTrafficPolicyMode"
MCValidTexts == <<"Hub">> :> {"h1", "h2"} @@ <<"Tag">> :> {"t1"}
             @@ <<"CustomPackagePath">> :> {"file:///pkg"}
             @@ <<"DefaultNamespacePrefix">> :> {"system"}
MCNone == [p \in {} |-> <<>>]
MCCleanPath == "" :> <<>> @@ "file:///pkg" :> <<"file:", "pkg">>

K8s == common("policy", f("k8s", Map([replicaCount |-> Number("1"),
         env |-> List(<<Map([name |-> Leaf("DEBUG"), value |-> Leaf("gc")])>>)])))
Default == Map([hub |-> Leaf("h1"), tag |-> Leaf("t1"), defaultNamespacePrefix |-> Leaf("system"),
                policy |-> Map([enabled |-> True] @@ K8s.map), telemetry |-> f("enabled", True),
                autoInjection |-> f("enabled", False)])
Sds == Map([hub |-> Leaf("h1"), security |-> f("controlPlaneMtls", False)])
MCLocalFiles ==
     "file:///other.yaml" :> f("profile", Leaf("sds"))
  @@ "file:///invalid.yaml" :> f("hub", Leaf("??"))
  @@ "file:///null.yaml" :> Map([hub |-> Leaf("h1"), tag |-> Null])
  @@ "file:///empty.yaml" :> Null
-----------------------------------------------------------------------------
Meta == File(1, TRUE, Leaf("meta"))
Chart(entries) == Dir([n \in {"Chart.yaml"} |-> Meta] @@ entries)
Small == File(2, TRUE, Leaf("small"))
MCAssets == Dir([
  profiles |-> Dir("default.yaml" :> File(3, TRUE, Default) @@ "sds.yaml" :> File(2, TRUE, Sds)),
  charts |-> Dir(
       "crds" :> Chart([files |-> Dir("crd.yaml" :> Small), templates |-> Dir("crd.yaml" :> Small)])
    @@ "istio-policy" :> Chart([templates |-> Dir("service.yaml" :> Small)])
    @@ "istio-control" :> Dir("istio-autoinject" :>
         Chart([templates |-> Dir("service.yaml" :> Small)]))
    @@ "istio-telemetry" :> Dir("mixer-telemetry" :>
         Chart([templates |-> Dir("config.yaml" :> File(4, TRUE, Leaf("config"))
                               @@ "service.yaml" :> Small)]
               @@ "OWNERS" :> File(1, FALSE, Leaf("owners")))))])

MCComponents == <<<<"Base", "crds">>, <<"TrafficManagement", "SidecarInjector">>,
                  <<"Policy", "Policy">>, <<"Telemetry", "Telemetry">>,
                  <<"AutoInjection", "SidecarInjector">>>>
MCHelmSubdir == [crds |-> <<"crds">>, Policy |-> <<"istio-policy">>,
                 Telemetry |-> <<"istio-telemetry", "mixer-telemetry">>,
                 SidecarInjector |-> <<"istio-control", "istio-autoinject">>]
MCChildren == [c \in DOMAIN MCHelmSubdir |->
                 IF c = "crds" THEN {"Policy", "Telemetry", "SidecarInjector"} ELSE {}]
-----------------------------------------------------------------------------
Profiles == {Null} \cup {Leaf(p) : p \in {"sds", "gone"} \cup DOMAIN MCLocalFiles}
Texts == {
  EmptyMap, f("hub", Leaf("h2")), f("hub", Leaf("??")), f("hub", Number("1")), f("hub", Null),
  f("customPackagePath", Leaf("file:///pkg")), f("customPackagePath", Leaf("/pkg")),
  f("unknown", Leaf("x")), f("policy", Null), f("policy", EmptyMap), f("policy", Leaf("on")),
  f("policy", f("enabled", False)), f("policy", f("enabled", Leaf("true"))),
  f("policy", f("outboundTrafficPolicyMode", Leaf("REGISTRY_ONLY"))),
  f("policy", f("outboundTrafficPolicyMode", Leaf("ALLOW_ANY"))),
  f("policy", f("outboundTrafficPolicyMode", Leaf("ALLOW_SOME"))),
  f("policy", common("policy", f("k8s", f("replicaCount", Number("2"))))),
  f("policy", common("policy", f("k8s", f("replicaCount", Number("0"))))),
  f("policy", common("policy", f("k8s", f("env", List(<<>>))))),
  f("policy", common("policy", f("k8s", f("env", Leaf("x"))))),
  f("policy", common("policy", f("k8s", f("env", List(<<Map([name |-> Leaf("A"), value |-> Leaf("1")])>>))))),
  f("security", common("citadel", EmptyMap)),
  f("security", f("components", f("citadel", f("selfSigned", False)))),
  f("security", f("components", f("citadel", f("selfSigned", True)))),
  f("autoInjection", Map([enabled |-> True] @@ common("injector", f("enabled", False)).map)),
  f("values", f("global", f("hub", Leaf("h9")))),
  f("values", List(<<>>))}
MCInputs ==
  {Null, Bad, Leaf("text")} \cup Texts
  \cup {IF p = Null THEN s ELSE Put(s, "profile", p) :
          s \in {EmptyMap, f("hub", Leaf("h2")), f("customPackagePath", Leaf("file:///pkg"))},
          p \in Profiles}
=============================================================================
