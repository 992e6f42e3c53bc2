------------------------- MODULE ComponentManifest --------------------------
(***************************************************************************)
(* renderManifest of one component (pkg/component/component/component.go), *)
(* in detail: the values its chart is rendered with, the Kubernetes        *)
(* settings that OverlayK8sSettings lays over the objects, and the patches *)
(* of YAMLManifestPatch.  In ControlPlane all this is the steps from       *)
(* Translate to PatchManifest.  Every loop over a Go map takes its keys in *)
(* any order.  Values and objects are trees; what is read from the spec is *)
(* constants here, to which ComponentManifestData gives their meaning.     *)
(***************************************************************************)
EXTENDS Naturals, FiniteSets, SequencesExt, Tree

CONSTANTS
  IsEnabled(_, _, _),    \* IsComponentEnabled, of spec, feature and component
  NamespaceOf(_, _, _),  \* Namespace, of the same
  GetPath(_, _),         \* GetFromStructPath
  ReadPath(_, _, _, _),  \* SetFromPath
  ToValues(_),           \* ProtoToValues
  AsYAML(_),             \* Marshal, of the value of a field
  Chart(_)               \* the objects a chart is rendered to, or Bad, given the values

CONSTANTS
  Specs,          \* the validated specs considered
  feature, name,  \* the component, and the feature it is rendered for
  BaseComponent,  \* whose place in the values the global values get
  ToHelmValuesNames,         \* component -> where its values go, a sequence of names
  ResourceName, ContainerName,  \* of the component's Deployment
  FeatureComponentToValues  \* <<feature, component>> -> [enabled, namespace]: paths

ASSUME ComponentAssumption ==
  /\ {name, BaseComponent} \subseteq DOMAIN ToHelmValuesNames
  /\ \A c \in DOMAIN ToHelmValuesNames : ToHelmValuesNames[c] # <<>>

VARIABLES
  spec,      \* the IstioControlPlaneSpec
  step,      \* what renderManifest is doing
  root,      \* the values translated from the API
  layers,    \* the four trees that mergeTrees merges
  values,    \* what it makes of them
  rendered,  \* the objects of the chart
  objects,   \* those of the manifest
  todo,      \* what the loop over a map has still to visit
  manifest   \* the objects that are written out

vars == <<spec, step, root, layers, values, rendered, objects, todo, manifest>>

Init ==
  /\ spec \in Specs
  /\ step = "start"
  /\ root = EmptyMap
  /\ layers = <<>> /\ values = Null
  /\ rendered = <<>> /\ objects = <<>> /\ manifest = <<>>
  /\ todo = {}

ReturnError ==
  /\ step' = "error"
  /\ todo' = {}
-----------------------------------------------------------------------------
(* ProtoToValues.                                                           *)

\* A disabled component's manifest is a comment.
SkipDisabled ==
  /\ step = "start"
  /\ ~IsEnabled(spec, feature, name)
  /\ step' = "disabled"
  /\ UNCHANGED <<spec, root, layers, values, rendered, objects, todo, manifest>>

TranslateLeaves ==
  /\ step = "start"
  /\ IsEnabled(spec, feature, name)
  /\ LET translated == ToValues(spec)
     IN  \/ /\ translated = Bad
            /\ ReturnError /\ UNCHANGED root
         \/ /\ translated # Bad
            /\ root' = translated
            /\ todo' = DOMAIN FeatureComponentToValues
            /\ step' = "enablement"
  /\ UNCHANGED <<spec, layers, values, rendered, objects, manifest>>

\* One turn of setEnablementAndNamespaces: the components of a feature are
\* visited together.
SetPath(tree, path, value) ==
  IF path = <<>> \/ tree = Bad THEN tree ELSE setTree(tree, Keys(path), value)

setEnablementAndNamespaces(p) ==
  /\ step = "enablement"
  /\ p \in todo
  /\ \A q \in todo, d \in DOMAIN FeatureComponentToValues \ todo : q[1] = d[1] => p[1] = d[1]
  /\ LET paths == FeatureComponentToValues[p]
         enabled == IF IsEnabled(spec, p[1], p[2]) THEN True ELSE False
         tree == SetPath(SetPath(root, paths.enabled, enabled),
                         paths.namespace, NamespaceOf(spec, p[1], p[2]))
     IN  \/ tree = Bad /\ ReturnError /\ UNCHANGED root
         \/ tree # Bad /\ root' = tree /\ todo' = todo \ {p} /\ UNCHANGED step
  /\ UNCHANGED <<spec, layers, values, rendered, objects, manifest>>
-----------------------------------------------------------------------------
(* The value overlays.                                                      *)

CommonValues(field) ==
  ReadPath(spec, CommonPath(feature, name) \o <<field>>, "map", EmptyMap)

ValuesOverlaysToHelmValues(in, component) ==
  FoldRight(LAMBDA n, tree : Map(n :> tree), ToHelmValuesNames[component], in)

mergeInReverse(trees) ==
  OverlayYAML(OverlayYAML(OverlayYAML(trees[4], trees[3]), trees[2]), trees[1])

\* The API's values, the spec's, the component's and its unvalidated ones, each
\* laid over the ones before.
mergeTrees(trees) ==
  OverlayYAML(OverlayYAML(OverlayYAML(trees[1], trees[2]), trees[3]), trees[4])

\* The three maps are read from the spec, put where the charts expect them, and
\* merged; what cannot be merged is an error.
MergeValues ==
  /\ step = "enablement" /\ todo = {}
  /\ LET global == ReadPath(spec, <<"Values">>, "map", EmptyMap)
         own == CommonValues("Values")
         unvalidated == CommonValues("UnvalidatedValues")
         trees == <<root, ValuesOverlaysToHelmValues(global, BaseComponent),
                    ValuesOverlaysToHelmValues(own, name),
                    ValuesOverlaysToHelmValues(unvalidated, name)>>
     IN  IF Bad \in {global, own, unvalidated}
           THEN ReturnError /\ UNCHANGED <<layers, values>>
           ELSE /\ layers' = trees
                /\ values' = mergeTrees(trees)
                /\ step' = IF values' = Bad THEN "error" ELSE "chart"
                /\ UNCHANGED todo
  /\ UNCHANGED <<spec, root, rendered, objects, manifest>>
-----------------------------------------------------------------------------
(* OverlayK8sSettings.                                                      *)

KindOf(object) == Printed(Entry(object, "kind"))
Metadata(object, k) ==
  IF IsMap(Entry(object, "metadata")) THEN Entry(Entry(object, "metadata"), k) ELSE Null
NameKind(object) == <<KindOf(object), Metadata(object, "name")>>

InContainer(k) ==
  <<Key("spec"), Key("template"), Key("spec"), Key("containers"), Item("name", ContainerName), Key(k)>>

\* The field of the component's K8S section, and where it goes in which object.
\* The empty name stands for the dot the path of the priority class ends in.
KubernetesMapping ==
  [Affinity |-> <<"Deployment", InContainer("affinity")>>,
   Env |-> <<"Deployment", InContainer("env")>>,
   HpaSpec |-> <<"HorizontalPodAutoscaler", <<Key("spec")>>>>,
   ImagePullPolicy |-> <<"Deployment", InContainer("imagePullPolicy")>>,
   NodeSelector |-> <<"Deployment", InContainer("nodeSelector")>>,
   PodDisruptionBudget |-> <<"PodDisruptionBudget", <<Key("spec")>>>>,
   PodAnnotations |->
     <<"Deployment", <<Key("spec"), Key("template"), Key("metadata"), Key("annotations")>>>>,
   PriorityClassName |->
     <<"Deployment", <<Key("spec"), Key("template"), Key("spec"), Key("priorityClassName"), EmptyKey>>>>,
   ReadinessProbe |-> <<"Deployment", InContainer("readinessProbe")>>,
   ReplicaCount |-> <<"Deployment", <<Key("spec"), Key("replicas")>>>>,
   Resources |-> <<"Deployment", InContainer("resources")>>]

K8sSetting(field) ==
  GetPath(spec, CommonPath(feature, name) \o <<"K8S", field>>)

SettingPath(field) == PathFromString(KubernetesMapping[field][2])

\* The last object of a kind and name is the one that ToNameKindMap has.
Target(field) ==
  SelectLastInSeq(objects, LAMBDA o :
    NameKind(o) = <<KubernetesMapping[field][1], Leaf(ResourceName)>>)

\* Empty strings are not given; a number always is.
GivenSettings ==
  {f \in DOMAIN KubernetesMapping :
     K8sSetting(f) \notin {Bad, NotFound} /\ K8sSetting(f).value # Leaf("")}

RenderChart ==
  /\ step = "chart"
  /\ LET chart == Chart(values)
     IN  IF chart = Bad
           THEN ReturnError /\ UNCHANGED <<rendered, objects>>
           ELSE /\ rendered' = chart /\ objects' = chart
                /\ todo' = GivenSettings
                /\ step' = "settings"
  /\ UNCHANGED <<spec, root, layers, values, manifest>>

\* One turn of the loop; a setting without its object is an error.
OverlayK8sSetting(field) ==
  /\ step = "settings"
  /\ field \in todo
  /\ LET at == Target(field)
         merged == IF at = 0 THEN Bad
                   ELSE setTree(objects[at], SettingPath(field), AsYAML(K8sSetting(field).value))
     IN  IF merged = Bad
           THEN ReturnError /\ UNCHANGED objects
           ELSE /\ objects' = [objects EXCEPT ![at] = merged]
                /\ todo' = todo \ {field}
                /\ UNCHANGED step
  /\ UNCHANGED <<spec, root, layers, values, rendered, manifest>>
-----------------------------------------------------------------------------
(* YAMLManifestPatch.                                                       *)

NoNamespace == Leaf("")

\* Kind, namespace and name; an object that names no namespace has the empty one.
Hash(object) ==
  <<KindOf(object),
    IF Metadata(object, "namespace") = Null THEN NoNamespace ELSE Metadata(object, "namespace"),
    Metadata(object, "name")>>

Hashes == {Hash(objects[i]) : i \in DOMAIN objects}

\* ToMap: of the objects with one hash the last.
LastWith(h, seq) == SelectLastInSeq(seq, LAMBDA o : Hash(o) = h)
ObjectAt(h) == objects[LastWith(h, objects)]

\* Null if they are not found; an empty list is found.
OverlaysField == ReadPath(spec, CommonPath(feature, name) \o <<"K8S", "Overlays">>, "slice", Null)
OverlaysGiven == OverlaysField \notin {Bad, Null}
Overlays == IF OverlaysGiven THEN OverlaysField.slice ELSE <<>>

\* The namespace of the component is never set, so that overlays are for objects
\* without one.
OverlayHash(overlay) == <<overlay.struct.Kind.leaf, NoNamespace, overlay.struct.Name>>
PatchesOf(overlay) ==
  IF overlay.struct.Patches = Null THEN <<>> ELSE overlay.struct.Patches.slice

\* objectOverrideMap: of the overlays for one object the last.
Overridden == {OverlayHash(Overlays[i]) : i \in DOMAIN Overlays}
LastFor(h, overlays) == SelectLastInSeq(overlays, LAMBDA o : OverlayHash(o) = h)
PatchesFor(h) == PatchesOf(Overlays[LastFor(h, Overlays)])

\* The patches are nil; an empty list is not.
NilPatches(h) == Overlays[LastFor(h, Overlays)].struct.Patches = Null

\* The settings are done.  Without overlays the manifest is as it is.
StartPatching ==
  /\ step = "settings" /\ todo = {}
  /\ CASE OverlaysField = Bad -> ReturnError /\ UNCHANGED manifest
       [] OverlaysField = Null -> step' = "done" /\ manifest' = objects /\ UNCHANGED todo
       [] OTHER -> step' = "patch" /\ todo' = Overridden /\ UNCHANGED manifest
  /\ UNCHANGED <<spec, root, layers, values, rendered, objects>>

\* All patches are tried, in order, and any error spoils the object: the object and
\* the result after each number of patches.
PatchPath(patch) == PathFromString(patch.struct.Path.leaf)
Turns(object, patches) ==
  LET Turn(r, p) ==
        LET new == Patch(r.object, PatchPath(p), Inserted(p.struct.Value))
        IN  CASE r.result = Panic -> r
              [] r.result # Panic /\ new = Panic -> [r EXCEPT !.result = Panic]
              [] r.result # Panic /\ new = Bad -> [r EXCEPT !.result = Bad]
              [] OTHER -> [r EXCEPT !.object = new]
      turn[i \in 0..Len(patches)] ==
        IF i = 0 THEN [object |-> object, result |-> Null] ELSE Turn(turn[i - 1], patches[i])
  IN  turn

applyPatches(object, patches) ==
  LET end == Turns(object, patches)[Len(patches)]
  IN  IF end.result = Null THEN end.object ELSE end.result

\* One turn of the loop over the overlays: an overlay without an object is
\* passed over, and an object that a patch does not fit is left out.
PatchObject(h) ==
  /\ step = "patch"
  /\ h \in todo
  /\ LET patched == IF h \in Hashes THEN applyPatches(ObjectAt(h), PatchesFor(h)) ELSE Bad
     IN  /\ manifest' = IF Failed(patched) THEN manifest ELSE Append(manifest, patched)
         /\ step' = IF patched = Panic THEN "panic" ELSE "patch"
         /\ todo' = todo \ {h}
  /\ UNCHANGED <<spec, root, layers, values, rendered, objects>>

RestOfAll ==
  /\ step = "patch" /\ todo = {}
  /\ step' = "rest"
  /\ todo' = Hashes
  /\ UNCHANGED <<spec, root, layers, values, rendered, objects, manifest>>

\* The objects without overlays follow, and those whose overlay has nil patches.
StartRest ==
  /\ step = "patch" /\ todo = {}
  /\ step' = "rest"
  /\ todo' = {h \in Hashes : h \in Overridden => NilPatches(h)}
  /\ UNCHANGED <<spec, root, layers, values, rendered, objects, manifest>>

CopyObject(h) ==
  /\ step = "rest"
  /\ h \in todo
  /\ manifest' = Append(manifest, ObjectAt(h))
  /\ todo' = todo \ {h}
  /\ UNCHANGED <<spec, step, root, layers, values, rendered, objects>>

FinishRest ==
  /\ step = "rest" /\ todo = {}
  /\ step' = "done"
  /\ UNCHANGED <<spec, root, layers, values, rendered, objects, todo, manifest>>

Next ==
  \/ SkipDisabled \/ TranslateLeaves
  \/ \E p \in DOMAIN FeatureComponentToValues : setEnablementAndNamespaces(p)
  \/ MergeValues \/ RenderChart
  \/ \E field \in DOMAIN KubernetesMapping : OverlayK8sSetting(field)
  \/ StartPatching
  \/ \E h \in Overridden : PatchObject(h)
  \/ StartRest
  \/ \E h \in Hashes : CopyObject(h)
  \/ FinishRest

Spec == Init /\ [][Next]_vars
-----------------------------------------------------------------------------
\* "The merge operation looks something like this (later items are merged on
\* top of earlier ones)": at each path of keys the last layer that says something
\* of it decides, to the point of deleting what is there, and nothing is added.
ValuesPrecedence ==
  values \notin {Null, Bad} =>
    \A p \in Nodes(values) \cup UNION {Nodes(layers[i]) : i \in DOMAIN layers} :
      LET touching == {i \in DOMAIN layers : Touches(layers[i], p)}
          said == Said(layers[Max(touching)], p)
      IN  /\ touching = {} => ~Present(values, p)
          /\ touching # {} =>
               /\ IF IsMap(said) THEN IsMap(Said(values, p)) ELSE Said(values, p) = said
               /\ said = Null /\ Max(touching) # 1 => ~Present(values, p)

\* The objects of the chart have room for the settings that go into them.
SettingsFit ==
  /\ \A f \in GivenSettings : ~Failed(AsYAML(K8sSetting(f).value))
  /\ \A i \in DOMAIN rendered :
       /\ IsMap(rendered[i])
       /\ \A f \in GivenSettings :
            NameKind(rendered[i]) = <<KubernetesMapping[f][1], Leaf(ResourceName)>> =>
              Fits(rendered[i], SettingPath(f))

SettingDone(f) == IF step = "settings" THEN f \notin todo ELSE step \in {"patch", "rest", "done"}

\* A setting is found where the mapping puts it, also after later settings have
\* replaced the same object and walked the same lists.
SettingsReadBack ==
  \A f \in GivenSettings :
    SettingDone(f) =>
      /\ Target(f) # 0
      /\ Lookup(objects[Target(f)], SettingPath(f)) = AsYAML(K8sSetting(f).value)

\* The settings leave alone what the chart has elsewhere: an object keeps every
\* leaf that is not under the path of a setting that goes into this object.
SettingsFrame ==
  \A i \in DOMAIN objects : \A l \in Leaves(rendered[i]) :
    \/ l \in Leaves(objects[i])
    \/ \E f \in GivenSettings : Target(f) = i /\ IsPrefix(SettingPath(f), l[1])

\* Overlays, patches and paths are lists.
PatchesGiven ==
  /\ IsSeq(Overlays)
  /\ \A i \in DOMAIN Overlays :
       LET patches == PatchesOf(Overlays[i])
       IN  IsSeq(patches) /\ \A j \in DOMAIN patches : IsSeq(patches[j].struct.Path.leaf)

\* No patch is for the kind, the namespace or the name of an object.
PatchesSpareNames ==
  \A i \in DOMAIN Overlays : \A j \in DOMAIN PatchesOf(Overlays[i]) :
    LET path == PatchPath(PatchesOf(Overlays[i])[j])
    IN  path # <<>> =>
          /\ NameOf(path[1]) # "kind"
          /\ NameOf(path[1]) = "metadata" => Len(path) > 1 /\ NameOf(path[2]) \notin {"name", "namespace"}

\* "All path intermediate nodes must exist": a patch fails only when it names
\* nothing in the object that the patches before it leave, and makes the program
\* panic only when something on the way to its last element is missing there, or it
\* has no path at all; to add an entry to a map is no reason.
FailureNamesMissingNode ==
  step \in {"patch", "rest", "panic"} => \A h \in Overridden \cap Hashes :
    LET patches == PatchesFor(h)
        Missing(i, path) == Lookup(Turns(ObjectAt(h), patches)[i - 1].object, path) = Null
        result == applyPatches(ObjectAt(h), patches)
    IN  /\ result = Bad => \E i \in DOMAIN patches : Missing(i, PatchPath(patches[i]))
        /\ result = Panic =>
             \E i \in DOMAIN patches :
               PatchPath(patches[i]) = <<>> \/ Missing(i, Front(PatchPath(patches[i])))

\* No object is an error; no patches change nothing; and patches that succeed leave
\* the kind, the namespace and the name of an object alone.
PatchesKeepNames ==
  step \in {"patch", "rest", "done"} => \A h \in Hashes \cap Overridden :
    LET patched == applyPatches(ObjectAt(h), PatchesFor(h))
    IN  /\ PatchesFor(h) = <<>> => patched = ObjectAt(h) /\ ~Failed(patched)
        /\ Failed(patched) \/ Hash(patched) = h

Copies(h) == Cardinality({i \in DOMAIN manifest : Hash(manifest[i]) = h})
Patched(h) == h \in Overridden /\ ~NilPatches(h)
PatchFails(h) == Failed(applyPatches(ObjectAt(h), PatchesFor(h)))

\* A manifest with a list of overlays, be it empty, has every object of the chart
\* once, in whatever order the overlays and the objects are visited; an object is
\* missing exactly when one of its patches fails, and one whose overlay does not
\* give any patches, not even an empty list of them, is there twice: it is
\* written among the patched ones and again among the rest.
EveryObjectOnce ==
  step = "done" /\ OverlaysGiven =>
    /\ {Hash(manifest[i]) : i \in DOMAIN manifest} \subseteq Hashes
    /\ \A h \in Hashes :
         Copies(h) = CASE Patched(h) /\ PatchFails(h) -> 0
                       [] h \in Overridden /\ ~Patched(h) -> 2
                       [] OTHER -> 1
=============================================================================
