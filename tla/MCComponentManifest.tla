------------------------- MODULE MCComponentManifest ------------------------
(***************************************************************************)
(* The component Policy, whose values go two levels deep, with the other   *)
(* two components of FeatureComponentToValues that share a namespace path. *)
(* The specs vary one part at a time: the value layers in all              *)
(* combinations, the K8S section, and the overlays.                        *)
(***************************************************************************)
EXTENDS ComponentManifestData, ComponentManifestProofs

MCAPIMapping ==
     <<"Hub">> :> <<"global", "hub">>
  @@ <<"Tag">> :> <<"global", "tag">>
  @@ <<"K8SDefaults">> :> <<"global", "resources">>
  @@ <<"TrafficManagement", "Components", "Proxy", "Common", "Values">> :> <<"global", "proxy">>
  @@ <<"PolicyTelemetry", "PolicyCheckFailOpen">> :> <<"global", "policyCheckFailOpen">>
  @@ <<"PolicyTelemetry", "OutboundTrafficPolicyMode">> :>
       <<"global", "outboundTrafficPolicy", "mode">>
  @@ <<"Security", "ControlPlaneMtls", "Value">> :> <<"global", "controlPlaneSecurityEnabled">>
  @@ <<"Security", "DataPlaneMtlsStrict", "Value">> :> <<"global", "mtls", "enabled">>

MCLowered == [n \in {"global", "hub", "tag", "resources", "proxy", "mtls", "enabled",
                     "controlPlaneSecurityEnabled", "image"} |-> n]
             @@ ("LogLevel" :> "logLevel")
MCValidTexts == <<"Hub">> :> {"h1"} @@ <<"Tag">> :> {"t1"} @@ <<"CustomPackagePath">> :> {}
             @@ <<"DefaultNamespacePrefix">> :> {"system"}

MCToHelmValuesNames == [crds |-> <<"global">>, Policy |-> <<"mixer", "policy">>]
MCTable ==
     <<"Policy", "Policy">> :> [enabled |-> <<"mixer", "policy", "enabled">>,
                                namespace |-> <<"global", "policyNamespace">>]
  @@ <<"TrafficManagement", "Pilot">> :> [enabled |-> <<"pilot", "enabled">>,
                                          namespace |-> <<"global", "istioNamespace">>]
  @@ <<"Security", "Citadel">> :> [enabled |-> <<"security", "enabled">>,
                                   namespace |-> <<"global", "istioNamespace">>]
  @@ <<"Security", "NodeAgent">> :> [enabled |-> <<"nodeagent", "enabled">>,
                                     namespace |-> <<"global", "istioNamespace">>]
\* An inserted map has a text too, map[port:80], in which port:80 is found.
MCRegexMatches == {<<(<<"--log">>), "--log=info">>, <<(<<"--log">>), "--log_as_json">>,
                   <<(<<"port", "80">>), "<>">>}
-----------------------------------------------------------------------------
f(k, v) == Map(k :> v)
ObjectMeta(name_, namespace) ==
  IF namespace = "" THEN f("name", Leaf(name_))
  ELSE Map([name |-> Leaf(name_), namespace |-> Leaf(namespace)])

\* A chart that gives its objects no namespace, but for one Service; it needs
\* the image to be given.
Deployment(image) == Map([
  kind |-> Leaf("Deployment"), metadata |-> ObjectMeta("istio-policy", ""),
  spec |-> Map([
    replicas |-> Number("1"),
    template |-> f("spec", f("containers", List(<<
      Map([name |-> Leaf("istio-proxy"),
           ports |-> List(<<f("port", Number("80")), f("port", Number("443"))>>)]),
      Map([name |-> Leaf("mixer"), image |-> image,
           args |-> List(<<Leaf("server"), Leaf("--log=info"), Leaf("--log_as_json")>>)])>>)))])])
HPA == Map([kind |-> Leaf("HorizontalPodAutoscaler"), metadata |-> ObjectMeta("istio-policy", ""),
            spec |-> f("maxReplicas", Number("5"))])
Service == Map([kind |-> Leaf("Service"), metadata |-> ObjectMeta("istio-policy", "system"),
                spec |-> f("type", Leaf("ClusterIP"))])

MCChart(values_) ==
  LET image == Lookup(values_, Keys(<<"mixer", "policy", "image">>))
  IN  IF image = Null THEN Bad ELSE <<Service, Deployment(image), HPA>>
-----------------------------------------------------------------------------
Common(enabled, own, unvalidated, k8s) ==
  Struct([Enabled |-> enabled, Namespace |-> Leaf(""), Values |-> own,
          UnvalidatedValues |-> unvalidated, K8S |-> k8s])
K8S(pull, replicas, annotations, hpa, overlays) ==
  Struct([ImagePullPolicy |-> Leaf(pull), ReplicaCount |-> Number(replicas),
          PriorityClassName |-> Leaf(IF pull = "" THEN "" ELSE "high"),
          PodAnnotations |-> annotations, HpaSpec |-> hpa, PodDisruptionBudget |-> Null,
          Resources |-> IF pull = "" THEN Null
                        ELSE Struct([Requests |-> f("cpu", Leaf("10m"))]),
          Overlays |-> overlays])
SpecOf(hub, global, enabled, own, unvalidated, k8s) ==
  Struct([
    Hub |-> Leaf(hub), Tag |-> Leaf("t1"), DefaultNamespacePrefix |-> Leaf("system"),
    CustomPackagePath |-> Leaf(""), Values |-> global,
    TrafficManagement |-> Struct([
      Enabled |-> BoolValue(False),
      Components |-> Struct([
        Pilot |-> Null,
        Proxy |-> Struct([Common |-> Common(Null, f("LogLevel", Leaf("debug")), Null, Null)])])]),
    Security |-> Struct([
      Enabled |-> BoolValue(True), ControlPlaneMtls |-> BoolValue(True),
      DataPlaneMtlsStrict |-> Null,
      Components |-> Struct([
        Namespace |-> Leaf("ignored"),
        NodeAgent |-> Struct([Common |-> Common(BoolValue(False), Null, Null, Null)]),
        Citadel |-> Struct([Common |->
          [Common(Null, Null, Null, Null) EXCEPT !.struct.Namespace = Leaf("security")]])])]),
    Policy |-> Struct([
      Enabled |-> BoolValue(True), PolicyCheckFailOpen |-> BoolValue(True),
      Components |-> Struct([
        Policy |-> Struct([Common |-> Common(enabled, own, unvalidated, k8s)])])])])

\* The spec's values change the hub and drop a namespace; the component's values
\* give the image and put a map in place of the enablement, which the unvalidated
\* values replace, delete, or go into.
Globals == {Null, Map([hub |-> Leaf("h2"), policyNamespace |-> Null, mtls |-> f("enabled", True)])}
Owns == {Null, f("image", Leaf("a")), Map([image |-> Leaf("a"), enabled |-> f("by", Leaf("own"))])}
Unvalidateds == {Null, Map([image |-> Leaf("b"), enabled |-> Null]),
                 Map([image |-> Null]), Map([enabled |-> f("at", Leaf("all"))])}
ValueSpecs == {SpecOf(hub, g, e, o, u, Null) : hub \in {"", "h1"}, g \in Globals,
                 e \in {Null, BoolValue(False)}, o \in Owns, u \in Unvalidateds}

OverlayOf(kind, patches) ==
  Struct([Kind |-> Leaf(kind), Name |-> Leaf("istio-policy"), Patches |-> patches])
Overlay(kind, patches) == OverlayOf(kind, Slice(patches))
PathValue(path, value) == Struct([Path |-> Leaf(path), Value |-> value])
Mixer == <<Key("spec"), Key("template"), Key("spec"), Key("containers"), Item("name", "mixer")>>
Proxy == <<Key("spec"), Key("template"), Key("spec"), Key("containers"), Item("name", "istio-proxy")>>
Patches == {
  <<>>,
  <<PathValue(Mixer \o <<Key("image")>>, Leaf("c"))>>,
  <<PathValue(Mixer \o <<Key("tty")>>, Leaf("yes")), PathValue(Proxy, Null)>>,
  <<PathValue(Mixer \o <<Key("args"), Value("--log")>>, Null)>>,
  <<PathValue(Mixer \o <<Key("args"), Value("--log")>>, Leaf("--log=debug")),
    PathValue(Mixer \o <<Key("args"), Value("server")>>, Null)>>,
  <<PathValue(Proxy \o <<Key("ports"), Item("port", "443"), Key("port")>>, Leaf("8443"))>>,
  <<PathValue(Proxy \o <<Key("ports"), Item("port", "80")>>, Null)>>,
  <<PathValue(Mixer \o <<Key("args"), Value("--other")>>, Null),
    PathValue(Mixer \o <<Key("image")>>, Leaf("c"))>>,
  <<PathValue(Mixer \o <<Key("args"), Item("server", "x")>>, Null)>>,
  <<PathValue(Mixer \o <<Key("image"), Key("tag")>>, Leaf("c"))>>,
  <<PathValue(<<Key("spec"), Key("template")>>, Leaf("none")), PathValue(Mixer \o <<Key("image")>>, Leaf("c"))>>,
  <<PathValue(<<Key("metadata"), Key("labels")>>, Leaf("x")), PathValue(Mixer \o <<Key("image")>>, Leaf("c"))>>,
  <<PathValue(<<Key("spec"), Key("strategy"), Key("type")>>, Leaf("Recreate"))>>,
  <<PathValue(<<Key("spec"), Key("paused")>>, Null), PathValue(<<>>, Leaf("x"))>>,
  <<PathValue(Mixer \o <<Key("args")>>, Leaf("--new"))>>,
  <<PathValue(Proxy, f("tty", Leaf("yes")))>>,
  <<PathValue(Proxy, Map([name |-> Leaf("istio-proxy")])), PathValue(Proxy \o <<Key("tty")>>, Leaf("yes"))>>,
  <<PathValue(<<Key("metadata"), Key("labels")>>, f("app", Leaf("x"))),
    PathValue(<<Key("metadata"), Key("labels"), Key("app")>>, Leaf("y"))>>,
  <<PathValue(<<Key("metadata"), Key("labels")>>, f("app", Leaf("x"))),
    PathValue(<<Key("metadata"), Key("labels")>>, Null)>>,
  <<PathValue(Mixer \o <<Key("ports")>>, List(<<f("port", Number("80")), Leaf("http")>>)),
    PathValue(Mixer \o <<Key("ports"), Value("http")>>, Null)>>,
  <<PathValue(Mixer \o <<Key("ports")>>, List(<<f("port", Number("80"))>>)),
    PathValue(Mixer \o <<Key("ports"), Item("port", "80"), Key("port")>>, Number("81"))>>,
  <<PathValue(Mixer \o <<Key("ports")>>, List(<<f("port", Number("80"))>>)),
    PathValue(Mixer \o <<Key("ports"), Item("port", "80")>>, f("port", Number("81")))>>}
OverlayLists ==
  {Null, Slice(<<>>), Slice(<<OverlayOf("Deployment", Null)>>),
   Slice(<<Overlay("Deployment", <<>>), OverlayOf("HorizontalPodAutoscaler", Null)>>),
   Slice(<<Overlay("Service", <<PathValue(<<Key("spec"), Key("type")>>, Leaf("None"))>>)>>)}
  \cup {Slice(<<Overlay("Deployment", p)>>) : p \in Patches}
  \cup {Slice(<<Overlay("Deployment", p), Overlay("HorizontalPodAutoscaler",
          <<PathValue(<<Key("spec"), Key("maxReplicas")>>, Leaf("9"))>>)>>) : p \in Patches}
  \cup {Slice(<<Overlay("Deployment", p), Overlay("Deployment",
          <<PathValue(Mixer \o <<Key("image")>>, Leaf("d"))>>)>>) : p \in Patches}

Annotations == {Null, f("sidecar.istio.io/inject", Leaf("false"))}
Hpas == {Null, Struct([MaxReplicas |-> Number("7"), Target |-> Struct([Name |-> Leaf("istio-policy")])])}
K8Ss == {K8S(pull, "2", a, h, Null) : pull \in {"", "Always"}, a \in Annotations, h \in Hpas}
  \cup {[K8S("", "0", Null, Null, Null) EXCEPT !.struct.PodDisruptionBudget =
           Struct([MinAvailable |-> Number("1")])]}
  \cup {K8S("Always", "2", Null, Null, o) : o \in OverlayLists}
SettingSpecs == {SpecOf("h1", Null, Null, f("image", Leaf("a")), Null, k) : k \in K8Ss}

MCSpecs == ValueSpecs \cup SettingSpecs
=============================================================================
