----------------------------- MODULE SpecSchema -----------------------------
(***************************************************************************)
(* The fields of IstioControlPlaneSpec (v1alpha2) and the conversions      *)
(* between YAML and the Go struct: UnmarshalWithJSONPB and                 *)
(* ToYAMLWithJSONPB (pkg/util/util.go).  Fields have the names of the Go   *)
(* struct.  The gateways, which no part of the program reads, are left     *)
(* out, and so are the fields of the messages that are Kubernetes' own.    *)
(***************************************************************************)
EXTENDS SpecStruct

CONSTANT JSONName  \* field -> its name in YAML

Text == [text |-> TRUE]
Uint == [uint |-> TRUE]
Bool == [bool |-> TRUE]
Switch == [switch |-> TRUE]            \* google.protobuf.BoolValue
Enum(names) == [enum |-> names]        \* the first name is the zero value
AnyMap == [any |-> TRUE]               \* a map, or a message of Kubernetes
AnyValue == [interface |-> TRUE]
Repeated(type) == [repeated |-> type]
Message(fields) == [message |-> fields]
Kind(type, kind) == kind \in DOMAIN type
-----------------------------------------------------------------------------
EnvVar == Message([Name |-> Text, Value |-> Text, ValueFrom |-> AnyMap])
Resources == Message([Limits |-> AnyMap, Requests |-> AnyMap])

PodDisruptionBudgetSpec ==
  Message([MinAvailable |-> Uint, Selector |-> AnyMap, MaxUnavailable |-> Uint])

K8SObjectOverlay ==
  Message([ApiVersion |-> Text, Kind |-> Text, Name |-> Text,
           Patches |-> Repeated(Message([Path |-> Text, Value |-> AnyValue]))])

KubernetesResourcesSpec ==
  Message([Affinity |-> AnyMap, Env |-> Repeated(EnvVar), HpaSpec |-> AnyMap,
           ImagePullPolicy |-> Text, NodeSelector |-> AnyMap,
           PodDisruptionBudget |-> PodDisruptionBudgetSpec, PodAnnotations |-> AnyMap,
           PriorityClassName |-> Text, ReadinessProbe |-> AnyMap, ReplicaCount |-> Uint,
           Resources |-> Resources, Overlays |-> Repeated(K8SObjectOverlay)])

CommonComponentSpec ==
  Message([Enabled |-> Switch, Namespace |-> Text,
           Debug |-> Enum(<<"NONE", "ERROR", "WARN", "DEBUG", "INFO">>),
           K8S |-> KubernetesResourcesSpec, Values |-> AnyMap, UnvalidatedValues |-> AnyMap])

ComponentSpec == Message([Common |-> CommonComponentSpec])
PilotComponentSpec == Message([Common |-> CommonComponentSpec, Sidecar |-> Switch])
CitadelComponentSpec ==
  Message([Common |-> CommonComponentSpec, SelfSigned |-> Bool, CreateMeshPolicy |-> Bool])

\* A component has the name of its field, not the one the code calls it by: the
\* sidecar injector's is Injector.
TrafficManagementFeatureSpec ==
  Message([Enabled |-> Switch,
           Components |-> Message([Namespace |-> Text, Pilot |-> PilotComponentSpec,
                                   Proxy |-> ComponentSpec])])
PolicyFeatureSpec ==
  Message([Enabled |-> Switch, PolicyCheckFailOpen |-> Switch,
           OutboundTrafficPolicyMode |-> Enum(<<"ALLOW_ANY", "REGISTRY_ONLY">>),
           Components |-> Message([Namespace |-> Text, Policy |-> ComponentSpec])])
TelemetryFeatureSpec ==
  Message([Enabled |-> Switch,
           Components |-> Message([Namespace |-> Text, Telemetry |-> ComponentSpec])])
SecurityFeatureSpec ==
  Message([Enabled |-> Switch, ControlPlaneMtls |-> Switch, DataPlaneMtlsStrict |-> Switch,
           Components |-> Message([Namespace |-> Text, Citadel |-> CitadelComponentSpec,
                                   CertManager |-> ComponentSpec, NodeAgent |-> ComponentSpec])])
ConfigManagementFeatureSpec ==
  Message([Enabled |-> Switch,
           Components |-> Message([Namespace |-> Text, Galley |-> ComponentSpec])])
AutoInjectionFeatureSpec ==
  Message([Enabled |-> Switch,
           Components |-> Message([Namespace |-> Text, Injector |-> ComponentSpec])])

IstioControlPlaneSpec ==
  Message([DefaultNamespacePrefix |-> Text,
           TrafficManagement |-> TrafficManagementFeatureSpec, Policy |-> PolicyFeatureSpec,
           Telemetry |-> TelemetryFeatureSpec, Security |-> SecurityFeatureSpec,
           ConfigManagement |-> ConfigManagementFeatureSpec,
           AutoInjection |-> AutoInjectionFeatureSpec,
           Values |-> AnyMap, Profile |-> Text, CustomPackagePath |-> Text,
           Hub |-> Text, Tag |-> Text])
-----------------------------------------------------------------------------
Zero(type) ==
  CASE Kind(type, "text") -> Leaf("")
    [] Kind(type, "uint") -> Number("0")
    [] Kind(type, "bool") -> False
    [] Kind(type, "enum") -> Leaf(type.enum[1])
    [] OTHER -> Null

\* Unknown fields and values of another type are errors; null is the zero value.
RECURSIVE Unmarshal(_, _)
Unmarshal(t, type) ==
  CASE t = Null -> Zero(type)
    [] t # Null /\ Kind(type, "message") ->
         IF ~IsMap(t) \/ ~(DOMAIN t.map \subseteq {JSONName[f] : f \in DOMAIN type.message})
           THEN Bad
           ELSE LET fields == [f \in DOMAIN type.message |->
                                 Unmarshal(Entry(t, JSONName[f]), type.message[f])]
                IN  IF \E f \in DOMAIN fields : fields[f] = Bad THEN Bad ELSE Struct(fields)
    [] t # Null /\ Kind(type, "repeated") ->
         IF ~IsList(t) THEN Bad
         ELSE LET items == [i \in DOMAIN t.list |-> Unmarshal(t.list[i], type.repeated)]
              IN  IF \E i \in DOMAIN items : items[i] = Bad THEN Bad ELSE Slice(items)
    [] t # Null /\ Kind(type, "switch") -> IF t \in {True, False} THEN BoolValue(t) ELSE Bad
    [] t # Null /\ Kind(type, "bool") -> IF t \in {True, False} THEN t ELSE Bad
    [] t # Null /\ Kind(type, "uint") ->
         IF "number" \in DOMAIN t /\ t \notin {True, False} THEN t ELSE Bad
    [] t # Null /\ Kind(type, "text") -> IF "leaf" \in DOMAIN t THEN t ELSE Bad
    [] t # Null /\ Kind(type, "enum") ->
         IF \E i \in DOMAIN type.enum : t = Leaf(type.enum[i]) THEN t ELSE Bad
    [] t # Null /\ Kind(type, "any") -> IF IsMap(t) THEN t ELSE Bad
    [] OTHER -> t

\* The document as a whole is a struct, also when it is empty.
UnmarshalWithJSONPB(y) ==
  Unmarshal(IF y = Null THEN EmptyMap ELSE y, IstioControlPlaneSpec)

\* What has its zero value is not written, whether it was given or not.
RECURSIVE Marshal(_, _)
Marshal(v, type) ==
  CASE v # Null /\ Kind(type, "message") ->
         LET given == {f \in DOMAIN v.struct : v.struct[f] # Zero(type.message[f])}
             FieldOf(k) == CHOOSE f \in given : JSONName[f] = k
         IN  Map([k \in {JSONName[f] : f \in given} |->
                    Marshal(v.struct[FieldOf(k)], type.message[FieldOf(k)])])
    [] v # Null /\ Kind(type, "repeated") ->
         List([i \in DOMAIN v.slice |-> Marshal(v.slice[i], type.repeated)])
    [] v # Null /\ Kind(type, "switch") -> v.struct.Value
    [] OTHER -> v

ToYAMLWithJSONPB(spec) == Marshal(spec, IstioControlPlaneSpec)
=============================================================================
