---------------------------- MODULE ControlPlane ----------------------------
(***************************************************************************)
(* pkg/component/{controlplane,feature,component}, pkg/name and the        *)
(* translation of pkg/translate: from a validated IstioControlPlaneSpec to *)
(* the manifest map that installer.ApplyAll takes.  Every component of     *)
(* every feature is run (its chart is loaded), then every one is rendered: *)
(* the spec is translated to Helm values, the chart is rendered with them  *)
(* and the Kubernetes settings of the spec are laid over the objects.  The *)
(* loops over Go maps take their keys in any order.                        *)
(*                                                                         *)
(* Abstracted: values are the enablement and namespace paths, which         *)
(* setEnablementAndNamespaces writes; the leaves protoToValues copies and  *)
(* a component's own value overlays are left out.  A manifest is a record  *)
(* of the values its chart was rendered with and of the settings applied.  *)
(***************************************************************************)
EXTENDS Naturals, Sequences

CONSTANTS
  Features,        \* the features in the order NewIstioControlPlane lists them
  ComponentsOf,    \* the components of each feature, in order
  SpecFeatures,    \* the features that IstioControlPlaneSpec has a field for
  SpecPairs,       \* the <<feature, component>> it has a field for
  ValuePairs,      \* the keys of FeatureComponentToValues
  NamespacePath,   \* the namespace path of each of them, or NoPath
  PilotComponentName,
  Namespaces,      \* namespaces a spec may name
  Setting,         \* the keys of KubernetesMapping
  NumericSetting,  \* those whose field is a number: never nil, never a string
  TargetKind,      \* the kind of object each setting is laid over
  ChartKinds,      \* the kinds of object in each component's chart
  MayFail,         \* charts may not load and not render
  Specs,           \* the validated specs considered
  Unset, NoPath, NoFeature, Disabled, Empty

ComponentsIn(f) == {ComponentsOf[f][i] : i \in DOMAIN ComponentsOf[f]}
Components == UNION {ComponentsIn(f) : f \in DOMAIN ComponentsOf}
Paths == {NamespacePath[p] : p \in ValuePairs} \ {NoPath}

\* The values tree, enablement per pair and namespace per path, and a manifest.
ValuesType == [enabled : [ValuePairs -> BOOLEAN \cup {Unset}],
               namespace : [Paths -> Namespaces \cup {Unset}]]
ManifestType == [values : ValuesType, settings : SUBSET Setting]

ASSUME FeaturesAssumption ==
  /\ Features \in Seq(DOMAIN ComponentsOf) /\ Features # <<>>
  /\ DOMAIN ComponentsOf = {Features[i] : i \in DOMAIN Features}
  /\ \A f \in DOMAIN ComponentsOf :
       ComponentsOf[f] \in Seq(Components) /\ ComponentsOf[f] # <<>>

ASSUME TranslatorAssumption ==
  /\ DOMAIN NamespacePath = ValuePairs
  /\ Setting \subseteq DOMAIN TargetKind /\ NumericSetting \subseteq Setting
  /\ Unset \notin Namespaces
  /\ {Disabled, Empty} \cap ManifestType = {} /\ Disabled # Empty
  /\ MayFail \in BOOLEAN

\* The struct and the translator's table say of a component only what is said in
\* the feature that has it: SidecarInjector, which two features have, is in
\* neither.  The table names no component that does not exist.
ASSUME PairsAssumption ==
  /\ \A p \in SpecPairs : p[1] \in SpecFeatures
  /\ \A p \in SpecPairs \cup ValuePairs :
       /\ p = <<p[1], p[2]>>
       /\ \A f \in DOMAIN ComponentsOf : p[2] \in ComponentsIn(f) => f = p[1]
  /\ \A p \in ValuePairs : p[2] \in Components

\* The fields of IstioControlPlaneSpec that decide something here; k8s is the
\* set of the mapped fields that the component's K8S section gives, if it is there.
SpecType ==
  [feature : [SpecFeatures -> {"unset", "on", "off"}],
   component : [SpecPairs -> {"unset", "on", "off"}],
   prefix : Namespaces,
   namespace : [SpecPairs -> Namespaces \cup {Unset}],
   k8s : [SpecPairs -> (SUBSET Setting) \cup {Unset}]]

ASSUME SpecAssumption == Specs \subseteq SpecType

VARIABLES
  spec,        \* the merged IstioControlPlaneSpec
  step,        \* what genManifests is doing
  fi, ci,      \* the feature and, in it, the component it is at
  todo,        \* the pairs setEnablementAndNamespaces has not written yet
  current,     \* the feature its outer loop is at
  values,      \* the values tree: enablement per pair, namespace per path
  settings,    \* the Kubernetes settings still to be laid over the objects
  manifest,    \* the manifest of the component being rendered
  rendered,    \* the map of the feature being rendered
  failed,      \* a component of this feature returned an error
  manifests,   \* the map of the control plane
  errsOut      \* the features that returned errors

valuesVars == <<todo, current, values>>
mapVars == <<rendered, failed, manifests, errsOut>>
vars == <<spec, step, fi, ci, valuesVars, settings, manifest, mapVars>>

feature == Features[fi]
component == ComponentsOf[feature][ci]
pair == <<feature, component>>
LastComponent == ci = Len(ComponentsOf[feature])
LastFeature == fi = Len(Features)

EmptyValues == [enabled |-> [p \in ValuePairs |-> Unset], namespace |-> [n \in Paths |-> Unset]]
EmptyMap == [c \in {} |-> Disabled]

Init ==
  /\ spec \in Specs
  /\ step = "run"
  /\ fi = 1 /\ ci = 1
  /\ todo = {} /\ current = NoFeature /\ values = EmptyValues
  /\ settings = {}
  /\ manifest = Empty
  /\ rendered = EmptyMap /\ failed = FALSE
  /\ manifests = EmptyMap /\ errsOut = {}
-----------------------------------------------------------------------------
(* pkg/name: what the spec says of a component.                             *)

\* The feature decides unless the component's own field is there and set.
IsComponentEnabled(p) ==
  /\ p[1] \in SpecFeatures
  /\ spec.feature[p[1]] = "on"
  /\ p \in SpecPairs => spec.component[p] # "off"

\* The path of the feature's namespace lacks a dot and is never found: only
\* the default and the component's own namespace count.
Namespace(p) == IF p \in SpecPairs /\ spec.namespace[p] # Unset
                  THEN spec.namespace[p] ELSE spec.prefix
-----------------------------------------------------------------------------
(* Run: create each component's renderer and load its chart.                *)

RunComponent ==
  /\ step = "run"
  /\ \/ ~LastComponent /\ ci' = ci + 1 /\ UNCHANGED <<fi, step>>
     \/ LastComponent /\ ~LastFeature /\ ci' = 1 /\ fi' = fi + 1 /\ UNCHANGED step
     \/ LastComponent /\ LastFeature /\ ci' = 1 /\ fi' = 1 /\ step' = "render"
  /\ UNCHANGED <<spec, valuesVars, settings, manifest, mapVars>>

\* The first error of Run ends the program.
RunFails ==
  /\ step = "run" /\ MayFail
  /\ step' = "fatal"
  /\ UNCHANGED <<spec, fi, ci, valuesVars, settings, manifest, mapVars>>
-----------------------------------------------------------------------------
(* renderManifest of one component.                                         *)

\* renderComponents stores the string even when there is an error, and goes on.
Store(m, err) ==
  /\ rendered' = [c \in DOMAIN rendered \cup {component} |->
                    IF c = component THEN m ELSE rendered[c]]
  /\ failed' = (failed \/ err)
  /\ IF LastComponent THEN step' = "feature" /\ UNCHANGED ci
                      ELSE step' = "render" /\ ci' = ci + 1
  /\ UNCHANGED <<spec, fi, valuesVars, settings, manifests, errsOut>>

\* A disabled component's manifest is a comment.
OmitDisabled ==
  /\ step = "render"
  /\ ~IsComponentEnabled(pair)
  /\ step' = IF LastComponent THEN "feature" ELSE "render"
  /\ ci' = IF LastComponent THEN ci ELSE ci + 1
  /\ UNCHANGED <<spec, fi, valuesVars, settings, manifest, mapVars>>

SkipDisabled ==
  /\ step = "render"
  /\ ~IsComponentEnabled(pair)
  /\ Store(Disabled, FALSE)
  /\ UNCHANGED manifest

AlwaysTranslate ==
  /\ step = "render"
  /\ step' = "values"
  /\ todo' = ValuePairs /\ current' = NoFeature /\ values' = EmptyValues
  /\ UNCHANGED <<spec, fi, ci, settings, manifest, mapVars>>

Translate ==
  /\ step = "render"
  /\ IsComponentEnabled(pair)
  /\ step' = "values"
  /\ todo' = ValuePairs /\ current' = NoFeature /\ values' = EmptyValues
  /\ UNCHANGED <<spec, fi, ci, settings, manifest, mapVars>>

\* setEnablementAndNamespaces, one turn of the inner loop: the outer loop takes
\* the features, the inner one the components of a feature, in any order.
SetValues(p) ==
  /\ step = "values"
  /\ p \in todo
  /\ (\E q \in todo : q[1] = current) => p[1] = current
  /\ current' = p[1]
  /\ todo' = todo \ {p}
  /\ values' =
       [enabled |-> [values.enabled EXCEPT ![p] = IsComponentEnabled(p)],
        namespace |-> IF NamespacePath[p] = NoPath THEN values.namespace
                      ELSE [values.namespace EXCEPT ![NamespacePath[p]] = Namespace(p)]]
  /\ UNCHANGED <<spec, step, fi, ci, settings, manifest, mapVars>>

\* GetFromStructPath finds what is not nil, and OverlayK8sSettings skips the
\* empty strings among it: a number is laid over even when it was not given.
FoundSettings(p) == IF p \notin SpecPairs \/ spec.k8s[p] = Unset THEN {}
                      ELSE spec.k8s[p] \cup NumericSetting

\* protoToValues is done; the chart is rendered with what is in the tree.
RenderEarly ==
  /\ step = "values"
  /\ step' = "settings"
  /\ manifest' = [values |-> values, settings |-> {}]
  /\ settings' = FoundSettings(pair)
  /\ UNCHANGED <<spec, fi, ci, valuesVars, mapVars>>

\* The chart is rendered and the settings for it are looked up.
RenderChart ==
  /\ step = "values" /\ todo = {}
  /\ step' = "settings"
  /\ manifest' = [values |-> values, settings |-> {}]
  /\ settings' = FoundSettings(pair)
  /\ UNCHANGED <<spec, fi, ci, valuesVars, mapVars>>

RenderFails ==
  /\ step = "values" /\ todo = {} /\ MayFail
  /\ Store(Empty, TRUE)
  /\ UNCHANGED manifest

\* A setting for an object that the manifest does not have is an error.
MergeIntoOne(s) == manifest' = [manifest EXCEPT !.settings = {s}]

MergeSetting(s) == manifest' = [manifest EXCEPT !.settings = @ \cup {s}]

OverlaySetting(s) ==
  /\ step = "settings"
  /\ s \in settings
  /\ \/ /\ TargetKind[s] \in ChartKinds[component]
        /\ settings' = settings \ {s}
        /\ MergeSetting(s)
        /\ UNCHANGED <<spec, step, fi, ci, valuesVars, mapVars>>
     \/ /\ TargetKind[s] \notin ChartKinds[component]
        /\ manifest' = Empty
        /\ Store(Empty, TRUE)

\* The user's overlays are patched in, or one of them does not fit.
PatchManifest ==
  /\ step = "settings" /\ settings = {}
  /\ Store(manifest, FALSE)
  /\ manifest' = Empty

PatchFails ==
  /\ step = "settings" /\ settings = {} /\ MayFail
  /\ Store(Empty, TRUE)
  /\ manifest' = Empty
-----------------------------------------------------------------------------
(* Merging what the features return.                                        *)

\* mergeManifestMaps: the second map wins.
MergeFirstWins(a, b) == [c \in DOMAIN a \cup DOMAIN b |->
                           IF c \in DOMAIN a THEN a[c] ELSE b[c]]

mergeManifestMaps(a, b) == [c \in DOMAIN a \cup DOMAIN b |->
                              IF c \in DOMAIN b THEN b[c] ELSE a[c]]

\* A feature with an error has the nil map; the control plane goes on with the
\* next one, and has the nil map itself when any feature had an error.
IgnoreErrors ==
  /\ step = "feature"
  /\ LET merged == mergeManifestMaps(manifests, rendered)
     IN  \/ ~LastFeature /\ manifests' = merged /\ fi' = fi + 1 /\ step' = "render"
         \/ LastFeature /\ manifests' = merged /\ step' = "done" /\ UNCHANGED fi
  /\ ci' = 1 /\ rendered' = EmptyMap /\ failed' = FALSE
  /\ UNCHANGED <<spec, valuesVars, settings, manifest, errsOut>>

MergeFeature ==
  /\ step = "feature"
  /\ LET errs == IF failed THEN errsOut \cup {feature} ELSE errsOut
         merged == mergeManifestMaps(manifests, IF failed THEN EmptyMap ELSE rendered)
     IN  /\ errsOut' = errs
         /\ \/ ~LastFeature /\ manifests' = merged /\ fi' = fi + 1 /\ step' = "render"
            \/ /\ LastFeature /\ UNCHANGED fi
               /\ manifests' = IF errs = {} THEN merged ELSE EmptyMap
               /\ step' = IF errs = {} THEN "done" ELSE "error"
  /\ ci' = 1
  /\ rendered' = EmptyMap
  /\ failed' = FALSE
  /\ UNCHANGED <<spec, valuesVars, settings, manifest>>

Next ==
  \/ RunComponent \/ RunFails
  \/ SkipDisabled \/ Translate
  \/ \E p \in ValuePairs : SetValues(p)
  \/ RenderChart \/ RenderFails
  \/ \E s \in Setting : OverlaySetting(s)
  \/ PatchManifest \/ PatchFails
  \/ MergeFeature

Spec == Init /\ [][Next]_vars
-----------------------------------------------------------------------------
MapOf(m, T) == DOMAIN m \subseteq Components /\ \A c \in DOMAIN m : m[c] \in T

TypeOK ==
  /\ spec \in Specs
  /\ step \in {"run", "render", "values", "settings", "feature", "done", "error", "fatal"}
  /\ fi \in DOMAIN Features
  /\ ci \in DOMAIN ComponentsOf[feature]
  /\ todo \subseteq ValuePairs
  /\ current \in {p[1] : p \in ValuePairs} \cup {NoFeature}
  /\ values \in ValuesType
  /\ settings \subseteq Setting
  /\ manifest \in ManifestType \cup {Empty}
  /\ MapOf(rendered, ManifestType \cup {Disabled, Empty})
  /\ failed \in BOOLEAN
  /\ MapOf(manifests, ManifestType \cup {Disabled})
  /\ errsOut \subseteq DOMAIN ComponentsOf

Installed == {c \in DOMAIN manifests : manifests[c] # Disabled}

\* What one chart is told of another component is what happens to it: the
\* enablement a chart is rendered with agrees with the manifests that are
\* returned, although each is computed on its own.
ChartsAgreeWithManifests ==
  step = "done" => \A c \in Installed : \A p \in ValuePairs :
    manifests[c].values.enabled[p] <=> p[2] \in Installed

\* Of the first n features, the g-th is the last one that has component c.
LastWith(c, g, n) == /\ g \in 1..n
                     /\ c \in ComponentsIn(Features[g])
                     /\ \A h \in (g + 1)..n : c \notin ComponentsIn(Features[h])

\* SidecarInjector is rendered for two features: whether it is installed is what
\* the spec says of it in AutoInjection, the later one, whatever
\* TrafficManagement says; so for every component.
LaterFeatureDecides ==
  step = "done" => \A c \in Components, g \in DOMAIN Features :
    LastWith(c, g, Len(Features)) =>
      (c \in Installed <=> IsComponentEnabled(<<Features[g], c>>))

GivenSettings(p) == IF spec.k8s[p] = Unset THEN {} ELSE spec.k8s[p]

\* A manifest that is returned has every Kubernetes setting that the spec gives
\* for its component, in whatever order the mappings were visited.
SettingsSurvive ==
  step = "done" => \A p \in SpecPairs :
    p[2] \in Installed => GivenSettings(p) \subseteq manifests[p[2]].settings

\* TestRenderInstallationSuccess, pilot_override_kubernetes: a K8S section that
\* does not give replicaCount leaves spec.replicas of the Deployment alone; in
\* general a manifest has only the settings that the spec gives.
OnlyGivenSettings ==
  step = "done" => \A p \in SpecPairs :
    p[2] \in Installed => manifests[p[2]].settings \subseteq GivenSettings(p)

Writers(n) == {p \in ValuePairs : NamespacePath[p] = n}

\* Every chart is told, as the namespace at each path, the namespace of some
\* component that writes this path: all charts agree where one writes it, and
\* no chart is rendered before the loops are through.
NamespacesFromWriters ==
  step = "done" => \A c \in Installed : \A n \in Paths :
    manifests[c].values.namespace[n] \in {Namespace(p) : p \in Writers(n)}

\* "for each 'profile' you need to match the control plane namespace and the
\* value of istioNamespace": with Pilot installed, every chart gets as
\* global.istioNamespace the namespace the spec gives to Pilot.
PilotLocated ==
  step = "done" => \A p \in ValuePairs, c \in Installed :
    p[2] = PilotComponentName /\ PilotComponentName \in Installed =>
      manifests[c].values.namespace[NamespacePath[p]] = Namespace(p)
-----------------------------------------------------------------------------
(* ControlPlane implements Rendering.                                       *)

\* What the spec asks for.
Asked ==
  LET pairs == ((DOMAIN ComponentsOf) \X Components) \cup ValuePairs
  IN  [enabled |-> [p \in pairs |-> IsComponentEnabled(p)],
       settings |-> [p \in pairs |-> FoundSettings(p)],
       namespaces |-> [n \in Paths |-> {Namespace(p) : p \in Writers(n)}]]

Outcome == CASE step = "done" -> "done"
             [] step \in {"error", "fatal"} -> "error"
             [] OTHER -> "pending"

\* The loops over features, components and Go maps, with an error anywhere, come to
\* one step: ApplyAll gets a manifest of every component, disabled ones included
\* (a key that was missing would leave goroutines without the signal of their
\* parent), each as its last feature asks, or no manifests at all.
Promise == INSTANCE Rendering WITH
             ToldOf <- ValuePairs, asked <- Asked, outcome <- Outcome,
             manifests <- IF step = "done" THEN manifests ELSE EmptyMap
ImplementsRendering == Promise!Spec
=============================================================================
