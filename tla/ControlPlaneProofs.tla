------------------------- MODULE ControlPlaneProofs -------------------------
(***************************************************************************)
(* Proofs about ControlPlane for every table of features and components,   *)
(* every translator and every set of specs that satisfy its assumptions:   *)
(* type correctness, and what the manifest map that RenderManifest returns *)
(* says of each component, and that ControlPlane implements Rendering.     *)
(* The run of MCControlPlane checks the same formulas, and the invariant   *)
(* IInv, on a small instance.                                              *)
(***************************************************************************)
EXTENDS ControlPlane, SequenceTheorems, TLAPS

\* The control plane is in the loop over features of RenderManifest.
Rendering == step \in {"render", "values", "settings", "feature"}

\* The namespaces of the components that write a path.
SaidAt(n) == {Namespace(p) : p \in Writers(n)}

\* What the spec lets a chart be told: of each pair its enablement, at each path
\* the namespace of a component that writes it.
Told(v) ==
  /\ \A p \in ValuePairs : v.enabled[p] = IsComponentEnabled(p)
  /\ \A n \in Paths : v.namespace[n] \in SaidAt(n)

\* The manifest that renderManifest makes of a pair when nothing fails.
ManifestOf(p, m) ==
  \/ ~IsComponentEnabled(p) /\ m = Disabled
  \/ /\ IsComponentEnabled(p) /\ m \in ManifestType
     /\ Told(m.values) /\ m.settings = FoundSettings(p)

\* What setEnablementAndNamespaces is through with is in the tree.
ValuesInv ==
  step = "values" =>
    /\ IsComponentEnabled(pair)
    /\ \A p \in ValuePairs \ todo : values.enabled[p] = IsComponentEnabled(p)
    /\ \A n \in Paths : \/ values.namespace[n] \in SaidAt(n)
                        \/ Writers(n) \subseteq todo

\* A setting is either laid over the manifest or still to be.
SettingsInv ==
  step = "settings" =>
    /\ IsComponentEnabled(pair)
    /\ manifest \in ManifestType /\ Told(manifest.values)
    /\ manifest.settings \cup settings = FoundSettings(pair)

\* The components of the feature that its loop is through with.
Rendered == {ComponentsOf[feature][i] : i \in 1..(IF step = "feature" THEN ci ELSE ci - 1)}

RenderedInv ==
  /\ step = "feature" => LastComponent
  /\ Rendering => DOMAIN rendered = Rendered
  /\ Rendering /\ ~failed =>
       \A c \in DOMAIN rendered : ManifestOf(<<feature, c>>, rendered[c])

\* The map has the components of the first n features, each as the last of
\* these features that has it made it.
MergedUpTo(n) ==
  /\ DOMAIN manifests = UNION {ComponentsIn(Features[g]) : g \in 1..n}
  /\ \A c \in DOMAIN manifests : \E g \in 1..n :
       LastWith(c, g, n) /\ ManifestOf(<<Features[g], c>>, manifests[c])

MergedInv ==
  /\ step = "run" => DOMAIN rendered = {} /\ DOMAIN manifests = {} /\ errsOut = {}
  /\ Rendering /\ errsOut = {} => MergedUpTo(fi - 1)
  /\ step = "done" => MergedUpTo(Len(Features))

\* The inductive invariant: what each loop has achieved with what it is through with.
IInv == TypeOK /\ ValuesInv /\ SettingsInv /\ RenderedInv /\ MergedInv
-----------------------------------------------------------------------------
\* The list of features and each list of components is a sequence with something
\* in it.
LEMMA Lists ==
  /\ Len(Features) \in Nat /\ Len(Features) > 0 /\ DOMAIN Features = 1..Len(Features)
  /\ \A i \in 1..Len(Features) : Features[i] \in DOMAIN ComponentsOf
  /\ \A f \in DOMAIN ComponentsOf :
       /\ Len(ComponentsOf[f]) \in Nat /\ Len(ComponentsOf[f]) > 0
       /\ DOMAIN ComponentsOf[f] = 1..Len(ComponentsOf[f])
       /\ \A i \in 1..Len(ComponentsOf[f]) : ComponentsOf[f][i] \in Components
<1>1. /\ Len(Features) \in Nat /\ Len(Features) > 0 /\ DOMAIN Features = 1..Len(Features)
      /\ \A i \in 1..Len(Features) : Features[i] \in DOMAIN ComponentsOf
  <2>1. Features \in Seq(DOMAIN ComponentsOf) /\ Features # <<>>
    BY FeaturesAssumption
  <2>2. /\ Len(Features) \in Nat /\ DOMAIN Features = 1..Len(Features)
        /\ Features \in [1..Len(Features) -> DOMAIN ComponentsOf]
    BY <2>1, LenProperties
  <2>3. Len(Features) \in Nat \ {0}
    BY <2>1, EmptySeq
  <2> QED
    BY <2>2, <2>3
<1>2. ASSUME NEW f \in DOMAIN ComponentsOf
      PROVE  /\ Len(ComponentsOf[f]) \in Nat /\ Len(ComponentsOf[f]) > 0
             /\ DOMAIN ComponentsOf[f] = 1..Len(ComponentsOf[f])
             /\ \A i \in 1..Len(ComponentsOf[f]) : ComponentsOf[f][i] \in Components
  <2>1. ComponentsOf[f] \in Seq(Components) /\ ComponentsOf[f] # <<>>
    BY FeaturesAssumption
  <2>2. /\ Len(ComponentsOf[f]) \in Nat /\ DOMAIN ComponentsOf[f] = 1..Len(ComponentsOf[f])
        /\ ComponentsOf[f] \in [1..Len(ComponentsOf[f]) -> Components]
    BY <2>1, LenProperties
  <2>3. Len(ComponentsOf[f]) \in Nat \ {0}
    BY <2>1, EmptySeq
  <2> QED
    BY <2>2, <2>3
<1> QED
  BY <1>1, <1>2

\* What the spec says of a pair has its type.
LEMMA SpecTypes ==
  ASSUME spec \in Specs
  PROVE  /\ \A p : IsComponentEnabled(p) \in BOOLEAN
         /\ \A p : Namespace(p) \in Namespaces
         /\ \A p : FoundSettings(p) \subseteq Setting
<1>1. spec \in SpecType
  BY SpecAssumption
<1>2. \A p : IsComponentEnabled(p) \in BOOLEAN
  BY DEF IsComponentEnabled
<1>3. \A p : Namespace(p) \in Namespaces
  BY <1>1 DEF SpecType, Namespace
<1>4. \A p : FoundSettings(p) \subseteq Setting
  BY <1>1, TranslatorAssumption DEF SpecType, FoundSettings
<1> QED
  BY <1>2, <1>3, <1>4

\* The current pair is one of a component that exists.
LEMMA PairTypes ==
  ASSUME TypeOK
  PROVE  /\ feature \in DOMAIN ComponentsOf
         /\ component \in Components /\ component \in ComponentsIn(feature)
         /\ fi \in 1..Len(Features) /\ ci \in 1..Len(ComponentsOf[feature])
BY Lists DEF TypeOK, feature, component, ComponentsIn

LEMMA InitIInv == Init => IInv
<1> SUFFICES ASSUME Init PROVE IInv
  OBVIOUS
<1>1. EmptyValues \in ValuesType
  BY DEF EmptyValues, ValuesType
<1>2. TypeOK
  <2>1. fi \in DOMAIN Features /\ ci \in DOMAIN ComponentsOf[feature]
    BY Lists DEF Init, feature
  <2> QED
    BY <1>1, <2>1 DEF Init, TypeOK, MapOf, EmptyMap
<1>3. RenderedInv /\ ValuesInv /\ SettingsInv
  BY DEF Init, RenderedInv, ValuesInv, SettingsInv, Rendering
<1>4. MergedInv
  BY DEF Init, MergedInv, Rendering, EmptyMap
<1> QED
  BY <1>2, <1>3, <1>4 DEF IInv

\* The loop of Run moves over the components, and touches nothing else.
LEMMA RunSteps ==
  ASSUME IInv, RunComponent \/ RunFails
  PROVE  IInv'
<1> USE DEF IInv
<1>1. TypeOK'
  <2>1. fi' \in DOMAIN Features /\ ci' \in DOMAIN ComponentsOf[feature']
    BY Lists, PairTypes DEF TypeOK, RunComponent, RunFails, feature, LastComponent, LastFeature
  <2>2. step' \in {"run", "render", "fatal"}
    BY DEF RunComponent, RunFails
  <2> QED
    BY <2>1, <2>2 DEF TypeOK, RunComponent, RunFails, valuesVars, mapVars, MapOf, feature
<1>2. step' \in {"run", "render", "fatal"} /\ (step' = "render" => ci' = 1 /\ fi' = 1)
  BY DEF RunComponent, RunFails
<1>3. ValuesInv' /\ SettingsInv'
  BY <1>2 DEF ValuesInv, SettingsInv
<1>4. step = "run" /\ UNCHANGED <<rendered, manifests, errsOut>>
  BY DEF RunComponent, RunFails, mapVars
<1>5. RenderedInv'
  BY <1>2, <1>4 DEF MergedInv, RenderedInv, Rendering, Rendered
<1>6. MergedInv'
  BY <1>2, <1>4 DEF MergedInv, MergedUpTo, Rendering
<1> QED
  BY <1>1, <1>3, <1>5, <1>6

\* What the invariant says of the spec alone does not change with the rest.
LEMMA SpecFixed ==
  ASSUME spec' = spec
  PROVE  /\ \A p : IsComponentEnabled(p)' = IsComponentEnabled(p)
         /\ \A n : SaidAt(n)' = SaidAt(n)
         /\ \A p : FoundSettings(p)' = FoundSettings(p)
         /\ \A v : Told(v)' = Told(v)
         /\ \A p, m : ManifestOf(p, m)' = ManifestOf(p, m)
<1>1. \A p : IsComponentEnabled(p)' = IsComponentEnabled(p)
  BY DEF IsComponentEnabled
<1>2. \A n : SaidAt(n)' = SaidAt(n)
  BY DEF SaidAt, Namespace, Writers
<1>3. \A p : FoundSettings(p)' = FoundSettings(p)
  BY DEF FoundSettings
<1>4. \A v : Told(v)' = Told(v)
  BY <1>1, <1>2 DEF Told
<1>5. \A p, m : ManifestOf(p, m)' = ManifestOf(p, m)
  BY <1>1, <1>3, <1>4 DEF ManifestOf
<1> QED
  BY <1>1, <1>2, <1>3, <1>4, <1>5

\* Keeping the string of a component: the loop over the feature's components
\* goes on with the next one.
LEMMA StoreStep ==
  ASSUME IInv, NEW m, NEW err \in BOOLEAN,
         step \in {"render", "values", "settings"}, Store(m, err),
         m \in ManifestType \cup {Disabled, Empty}, manifest' \in ManifestType \cup {Empty},
         err \/ ManifestOf(pair, m)
  PROVE  IInv'
<1> USE DEF IInv
<1>1. TypeOK'
  <2>1. ci' \in DOMAIN ComponentsOf[feature']
    BY Lists, PairTypes DEF Store, LastComponent, feature
  <2>2. MapOf(rendered, ManifestType \cup {Disabled, Empty})'
    BY PairTypes DEF Store, TypeOK, MapOf
  <2>3. step' \in {"render", "feature"} /\ failed' \in BOOLEAN
    BY DEF Store, TypeOK
  <2> QED
    BY <2>1, <2>2, <2>3 DEF Store, TypeOK, valuesVars, MapOf
<1>2. step' \in {"render", "feature"} /\ Rendering
  BY DEF Store, Rendering
<1>3. ValuesInv' /\ SettingsInv'
  BY <1>2 DEF ValuesInv, SettingsInv
<1>4. RenderedInv'
  <2>2. step' = "feature" => LastComponent'
    BY PairTypes DEF Store, LastComponent, feature
  <2>3. DOMAIN rendered = {ComponentsOf[feature][i] : i \in 1..(ci - 1)}
    BY <1>2 DEF RenderedInv, Rendered
  <2>4. Rendered' = {ComponentsOf[feature][i] : i \in 1..ci}
    BY PairTypes DEF Store, Rendered, feature
  <2>5. DOMAIN rendered' = Rendered'
    BY <2>3, <2>4, PairTypes DEF Store, component
  <2>6. ASSUME ~failed', NEW c \in DOMAIN rendered'
        PROVE  ManifestOf(<<feature, c>>, rendered[c])'
    <3>1. ~failed /\ ManifestOf(pair, m)
      BY <2>6 DEF Store, TypeOK
    <3>2. c # component => c \in DOMAIN rendered /\ ManifestOf(<<feature, c>>, rendered[c])
      BY <1>2, <2>6, <3>1 DEF Store, RenderedInv
    <3>3. ManifestOf(<<feature, c>>, rendered'[c])
      BY <2>6, <3>1, <3>2 DEF Store, pair
    <3>4. feature' = feature /\ spec' = spec
      BY DEF Store, feature
    <3> QED
      BY <3>3, <3>4, SpecFixed
  <2> QED
    BY <2>2, <2>5, <2>6 DEF RenderedInv
<1>5. MergedInv'
  <2>1. errsOut = {} => MergedUpTo(fi - 1)
    BY <1>2 DEF MergedInv
  <2>2. UNCHANGED <<spec, fi, manifests, errsOut>>
    BY DEF Store
  <2>3. errsOut' = {} => MergedUpTo(fi - 1)'
    BY <2>1, <2>2, SpecFixed DEF MergedUpTo, LastWith
  <2> QED
    BY <1>2, <2>3 DEF MergedInv
<1> QED
  BY <1>1, <1>3, <1>4, <1>5

\* A step inside renderManifest leaves the maps, the position and the spec alone,
\* and with them what the invariant says of the maps.
LEMMA MapsFixed ==
  ASSUME IInv, step \in {"render", "values", "settings"}, step' \in {"values", "settings"},
         UNCHANGED <<spec, fi, ci, mapVars>>
  PROVE  RenderedInv' /\ MergedInv' /\ pair' = pair
<1> USE DEF IInv
<1>1. feature' = feature /\ pair' = pair /\ spec' = spec
  BY DEF feature, pair, component
<1>2. RenderedInv'
  <2>1. Rendering /\ DOMAIN rendered = {ComponentsOf[feature][i] : i \in 1..(ci - 1)}
    BY DEF Rendering, RenderedInv, Rendered
  <2>2. DOMAIN rendered' = Rendered'
    BY <1>1, <2>1 DEF mapVars, Rendered
  <2>3. ASSUME ~failed', NEW c \in DOMAIN rendered'
        PROVE  ManifestOf(<<feature, c>>, rendered[c])'
    <3>1. ManifestOf(<<feature, c>>, rendered[c])
      BY <2>1, <2>3 DEF mapVars, RenderedInv
    <3>2. rendered' = rendered
      BY DEF mapVars
    <3> QED
      BY <1>1, <3>1, <3>2, SpecFixed
  <2> QED
    BY <2>2, <2>3 DEF RenderedInv
<1>3. MergedInv'
  <2>1. errsOut = {} => MergedUpTo(fi - 1)
    BY DEF MergedInv, Rendering
  <2>2. UNCHANGED <<spec, fi, manifests, errsOut>>
    BY DEF mapVars
  <2>3. errsOut' = {} => MergedUpTo(fi - 1)'
    BY <2>1, <2>2, SpecFixed DEF MergedUpTo, LastWith
  <2> QED
    BY <2>3 DEF MergedInv
<1> QED
  BY <1>1, <1>2, <1>3

\* A disabled component is kept as such.
LEMMA SkipStep ==
  ASSUME IInv, SkipDisabled
  PROVE  IInv'
<1>1. ManifestOf(pair, Disabled)
  BY DEF SkipDisabled, ManifestOf
<1>2. manifest' \in ManifestType \cup {Empty}
  BY DEF SkipDisabled, IInv, TypeOK
<1> QED
  BY <1>1, <1>2, StoreStep DEF SkipDisabled

\* The values tree starts empty, with every pair still to be written.
LEMMA TranslateStep ==
  ASSUME IInv, Translate
  PROVE  IInv'
<1> USE DEF IInv, Translate
<1>1. RenderedInv' /\ MergedInv' /\ pair' = pair
  BY MapsFixed
<1>2. EmptyValues \in ValuesType
  BY DEF EmptyValues, ValuesType
<1>3. TypeOK'
  BY <1>2 DEF TypeOK, mapVars, MapOf, feature
<1>4. IsComponentEnabled(pair)'
  BY <1>1, SpecFixed
<1>5. ValuesInv'
  BY <1>4 DEF ValuesInv, Writers
<1>6. SettingsInv'
  BY DEF SettingsInv
<1> QED
  BY <1>1, <1>3, <1>5, <1>6

\* Each turn of the loops writes its pair: its own enablement, and its namespace
\* at a path that it is a writer of.
LEMMA SetValuesStep ==
  ASSUME IInv, NEW p \in ValuePairs, SetValues(p)
  PROVE  IInv'
<1> USE DEF IInv
<1>1. RenderedInv' /\ MergedInv' /\ pair' = pair
  BY MapsFixed DEF SetValues
<1>2. step = "values" /\ step' = "values" /\ spec' = spec /\ todo' = todo \ {p}
  BY DEF SetValues
<1>3. values \in ValuesType /\ spec \in Specs
  BY DEF TypeOK
<1>4. values'.enabled = [values.enabled EXCEPT ![p] = IsComponentEnabled(p)]
  BY DEF SetValues
<1>5. values'.namespace = IF NamespacePath[p] = NoPath THEN values.namespace
                          ELSE [values.namespace EXCEPT ![NamespacePath[p]] = Namespace(p)]
  BY DEF SetValues
<1>6. values' \in ValuesType
  <2>1. values'.enabled \in [ValuePairs -> BOOLEAN \cup {Unset}]
    BY <1>3, <1>4, SpecTypes DEF ValuesType
  <2>2. values'.namespace \in [Paths -> Namespaces \cup {Unset}]
    <3>1. Namespace(p) \in Namespaces
      BY <1>3, SpecTypes
    <3> QED
      BY <1>3, <1>5, <3>1 DEF ValuesType
  <2>3. values' = [enabled |-> values'.enabled, namespace |-> values'.namespace]
    BY DEF SetValues
  <2> QED
    BY <2>1, <2>2, <2>3 DEF ValuesType
<1>7. TypeOK'
  BY <1>2, <1>6 DEF SetValues, TypeOK, mapVars, MapOf, feature
<1>8. ValuesInv'
  <2>1. IsComponentEnabled(pair)'
    BY <1>1, <1>2, SpecFixed DEF ValuesInv
  <2>2. ASSUME NEW q \in ValuePairs \ todo'
        PROVE  values'.enabled[q] = IsComponentEnabled(q)'
    BY <1>2, <1>3, <1>4, <2>2, SpecFixed DEF ValuesInv, ValuesType
  <2>3. ASSUME NEW n \in Paths
        PROVE  values'.namespace[n] \in SaidAt(n)' \/ Writers(n) \subseteq todo'
    <3>1. CASE NamespacePath[p] = n
      <4>1. p \in Writers(n) /\ n # NoPath
        BY <3>1 DEF Writers, Paths
      <4>2. values'.namespace[n] = Namespace(p)
        BY <1>3, <1>5, <3>1, <4>1 DEF ValuesType
      <4> QED
        BY <1>2, <4>1, <4>2, SpecFixed DEF SaidAt
    <3>2. CASE NamespacePath[p] # n
      <4>1. values'.namespace[n] = values.namespace[n]
        BY <1>3, <1>5, <3>2 DEF ValuesType
      <4>2. p \notin Writers(n)
        BY <3>2 DEF Writers
      <4> QED
        BY <1>2, <4>1, <4>2, SpecFixed DEF ValuesInv
    <3> QED
      BY <3>1, <3>2
  <2> QED
    BY <2>1, <2>2, <2>3 DEF ValuesInv
<1>9. SettingsInv'
  BY <1>2 DEF SettingsInv
<1> QED
  BY <1>1, <1>7, <1>8, <1>9

\* When the loops are through, the tree that the chart is rendered with says what
\* the spec does.
LEMMA RenderStep ==
  ASSUME IInv, RenderChart
  PROVE  IInv'
<1> USE DEF IInv, RenderChart
<1>1. RenderedInv' /\ MergedInv' /\ pair' = pair
  BY MapsFixed
<1>2. FoundSettings(pair) \subseteq Setting
  BY SpecTypes DEF TypeOK
<1>3. manifest' \in ManifestType
  BY DEF TypeOK, ManifestType
<1>4. TypeOK'
  BY <1>2, <1>3 DEF TypeOK, valuesVars, mapVars, MapOf, feature
<1>5. Told(values)
  <2>1. \A n \in Paths : Writers(n) # {}
    BY DEF Paths, Writers
  <2> QED
    BY <2>1 DEF ValuesInv, Told
<1>6. SettingsInv'
  <2>1. IsComponentEnabled(pair)' /\ FoundSettings(pair)' = FoundSettings(pair)
    BY <1>1, SpecFixed DEF ValuesInv
  <2>2. manifest'.values = values /\ manifest'.settings = {}
    OBVIOUS
  <2>3. Told(manifest.values)'
    BY <1>5, <2>2, SpecFixed
  <2> QED
    BY <1>3, <2>1, <2>2, <2>3 DEF SettingsInv
<1>7. ValuesInv'
  BY DEF ValuesInv
<1> QED
  BY <1>1, <1>4, <1>6, <1>7

\* A chart that does not render leaves the empty string and an error.
LEMMA RenderFailsStep ==
  ASSUME IInv, RenderFails
  PROVE  IInv'
<1>1. manifest' \in ManifestType \cup {Empty}
  BY DEF RenderFails, IInv, TypeOK
<1> QED
  BY <1>1, StoreStep DEF RenderFails

\* A setting goes from those still to be laid over to those of the manifest.
LEMMA OverlayStep ==
  ASSUME IInv, NEW s \in Setting, OverlaySetting(s)
  PROVE  IInv'
<1> USE DEF IInv
<1>1. CASE TargetKind[s] \in ChartKinds[component]
  <2>1. /\ step = "settings" /\ s \in settings /\ settings' = settings \ {s}
        /\ manifest' = [manifest EXCEPT !.settings = @ \cup {s}]
        /\ UNCHANGED <<spec, step, fi, ci, valuesVars, mapVars>>
    BY <1>1 DEF OverlaySetting, MergeSetting
  <2>2. RenderedInv' /\ MergedInv' /\ pair' = pair
    BY <2>1, MapsFixed
  <2>3. manifest \in ManifestType
    BY <2>1 DEF SettingsInv
  <2>4. /\ manifest' \in ManifestType /\ manifest'.values = manifest.values
        /\ manifest'.settings = manifest.settings \cup {s}
    BY <2>1, <2>3 DEF ManifestType
  <2>5. TypeOK'
    BY <2>1, <2>4 DEF TypeOK, valuesVars, mapVars, MapOf, feature
  <2>6. SettingsInv'
    <3>1. IsComponentEnabled(pair)' /\ FoundSettings(pair)' = FoundSettings(pair)
      BY <2>1, <2>2, SpecFixed DEF SettingsInv
    <3>2. Told(manifest.values)'
      BY <2>1, <2>4, SpecFixed DEF SettingsInv
    <3>3. manifest'.settings \cup settings' = FoundSettings(pair)
      BY <2>1, <2>4 DEF SettingsInv
    <3> QED
      BY <2>4, <3>1, <3>2, <3>3 DEF SettingsInv
  <2>7. ValuesInv'
    BY <2>1 DEF ValuesInv
  <2> QED
    BY <2>2, <2>5, <2>6, <2>7
<1>2. CASE TargetKind[s] \notin ChartKinds[component]
  BY <1>2, StoreStep DEF OverlaySetting
<1> QED
  BY <1>1, <1>2

\* The manifest of a component that nothing failed for is kept.
LEMMA PatchStep ==
  ASSUME IInv, PatchManifest \/ PatchFails
  PROVE  IInv'
<1>1. manifest' \in ManifestType \cup {Empty}
  BY DEF PatchManifest, PatchFails
<1>2. CASE PatchManifest
  <2>1. manifest \in ManifestType /\ ManifestOf(pair, manifest)
    BY <1>2 DEF PatchManifest, IInv, SettingsInv, ManifestOf
  <2> QED
    BY <1>1, <1>2, <2>1, StoreStep DEF PatchManifest
<1>3. CASE PatchFails
  BY <1>1, <1>3, StoreStep DEF PatchFails
<1> QED
  BY <1>2, <1>3

\* Merging the map of a feature without errors into that of the features before.
LEMMA MergedMap ==
  ASSUME IInv, step = "feature", ~failed, errsOut = {},
         NEW merged, merged = mergeManifestMaps(manifests, rendered)
  PROVE  /\ DOMAIN merged = UNION {ComponentsIn(Features[g]) : g \in 1..fi}
         /\ \A c \in DOMAIN merged : \E g \in 1..fi :
              LastWith(c, g, fi) /\ ManifestOf(<<Features[g], c>>, merged[c])
<1> USE DEF IInv
<1>1. MergedUpTo(fi - 1) /\ fi \in Nat /\ fi >= 1
  BY Lists, PairTypes DEF MergedInv, Rendering
<1>2. DOMAIN rendered = ComponentsIn(feature)
  BY Lists, PairTypes DEF RenderedInv, Rendering, Rendered, LastComponent, ComponentsIn
<1>3. DOMAIN merged = DOMAIN manifests \cup DOMAIN rendered
  BY DEF mergeManifestMaps
<1>4. DOMAIN merged = UNION {ComponentsIn(Features[g]) : g \in 1..fi}
  <2>1. 1..fi = 1..(fi - 1) \cup {fi}
    BY <1>1
  <2>2. UNION {ComponentsIn(Features[g]) : g \in 1..fi}
          = (UNION {ComponentsIn(Features[g]) : g \in 1..(fi - 1)}) \cup ComponentsIn(feature)
    BY <2>1 DEF feature
  <2> QED
    BY <1>1, <1>2, <1>3, <2>2 DEF MergedUpTo
<1>5. ASSUME NEW c \in DOMAIN merged
      PROVE  \E g \in 1..fi : LastWith(c, g, fi) /\ ManifestOf(<<Features[g], c>>, merged[c])
  <2>1. CASE c \in DOMAIN rendered
    <3>1. merged[c] = rendered[c] /\ ManifestOf(<<feature, c>>, rendered[c])
      BY <2>1, <1>3 DEF mergeManifestMaps, RenderedInv, Rendering
    <3>2. LastWith(c, fi, fi)
      BY <1>1, <1>2, <2>1 DEF LastWith, feature
    <3>3. fi \in 1..fi /\ ManifestOf(<<Features[fi], c>>, merged[c])
      BY <1>1, <3>1 DEF feature
    <3> QED
      BY <3>2, <3>3
  <2>2. CASE c \notin DOMAIN rendered
    <3>1. c \in DOMAIN manifests /\ merged[c] = manifests[c]
      BY <1>3, <2>2 DEF mergeManifestMaps
    <3>2. PICK g \in 1..(fi - 1) :
            LastWith(c, g, fi - 1) /\ ManifestOf(<<Features[g], c>>, manifests[c])
      BY <1>1, <3>1 DEF MergedUpTo
    <3>3. LastWith(c, g, fi)
      BY <1>1, <1>2, <2>2, <3>2 DEF LastWith, feature
    <3>4. g \in 1..fi /\ ManifestOf(<<Features[g], c>>, merged[c])
      BY <1>1, <3>1, <3>2
    <3> QED
      BY <3>3, <3>4
  <2> QED
    BY <2>1, <2>2
<1> QED
  BY <1>4, <1>5

\* A feature ends: its map is merged if nothing failed in it, and the map of the
\* control plane is returned if nothing failed at all.
LEMMA MergeStep ==
  ASSUME IInv, MergeFeature
  PROVE  IInv'
<1> DEFINE errs == IF failed THEN errsOut \cup {feature} ELSE errsOut
           merged == mergeManifestMaps(manifests, IF failed THEN EmptyMap ELSE rendered)
<1> USE DEF IInv
<1>1. /\ step = "feature" /\ errsOut' = errs /\ ci' = 1 /\ rendered' = EmptyMap
      /\ failed' = FALSE /\ UNCHANGED <<spec, valuesVars, settings, manifest>>
  BY DEF MergeFeature
<1>2. \/ ~LastFeature /\ manifests' = merged /\ fi' = fi + 1 /\ step' = "render"
      \/ LastFeature /\ fi' = fi /\ errs = {} /\ manifests' = merged /\ step' = "done"
      \/ LastFeature /\ fi' = fi /\ errs # {} /\ manifests' = EmptyMap /\ step' = "error"
  BY DEF MergeFeature
<1>3. /\ DOMAIN merged \subseteq Components
      /\ \A c \in DOMAIN merged : merged[c] \in ManifestType \cup {Disabled}
  <2>1. ~failed => \A c \in DOMAIN rendered : rendered[c] \in ManifestType \cup {Disabled}
    BY <1>1 DEF RenderedInv, Rendering, ManifestOf
  <2>2. DOMAIN merged \subseteq DOMAIN manifests \cup DOMAIN rendered
    BY DEF mergeManifestMaps, EmptyMap
  <2>3. DOMAIN merged \subseteq Components
    BY <2>2 DEF TypeOK, MapOf
  <2>4. ASSUME NEW c \in DOMAIN merged
        PROVE  merged[c] \in ManifestType \cup {Disabled}
    <3>1. CASE failed
      BY <3>1, <2>4 DEF mergeManifestMaps, EmptyMap, TypeOK, MapOf
    <3>2. CASE ~failed
      BY <3>2, <2>1, <2>4 DEF mergeManifestMaps, TypeOK, MapOf
    <3> QED
      BY <3>1, <3>2
  <2> QED
    BY <2>3, <2>4
<1> HIDE DEF merged
<1>4. TypeOK'
  <2>1. fi' \in DOMAIN Features
    BY <1>2, Lists, PairTypes DEF LastFeature
  <2>2. ci' \in DOMAIN ComponentsOf[feature']
    BY <1>1, <2>1, Lists DEF feature
  <2>3. MapOf(manifests, ManifestType \cup {Disabled})'
    BY <1>2, <1>3 DEF MapOf, EmptyMap
  <2>4. errsOut' \subseteq DOMAIN ComponentsOf
    BY <1>1, PairTypes DEF TypeOK
  <2>5. MapOf(rendered, ManifestType \cup {Disabled, Empty})'
    BY <1>1 DEF MapOf, EmptyMap
  <2> QED
    BY <1>1, <1>2, <2>1, <2>2, <2>3, <2>4, <2>5 DEF TypeOK, valuesVars
<1>5. ValuesInv' /\ SettingsInv'
  BY <1>2 DEF ValuesInv, SettingsInv
<1>6. RenderedInv'
  BY <1>1, <1>2 DEF RenderedInv, Rendering, Rendered, EmptyMap
<1>7. MergedInv'
  <2>1. ASSUME errs = {}, manifests' = merged
        PROVE  /\ DOMAIN manifests' = UNION {ComponentsIn(Features[g]) : g \in 1..fi}
               /\ \A c \in DOMAIN manifests' : \E g \in 1..fi :
                    LastWith(c, g, fi) /\ ManifestOf(<<Features[g], c>>, manifests'[c])
    <3>1. ~failed /\ errsOut = {} /\ merged = mergeManifestMaps(manifests, rendered)
      BY <2>1 DEF merged
    <3> QED
      BY <1>1, <2>1, <3>1, MergedMap
  <2>2. ASSUME NEW n, n = fi, errs = {}, manifests' = merged
        PROVE  MergedUpTo(n)'
    <3>1. \A c \in DOMAIN manifests' : \E g \in 1..n :
            LastWith(c, g, n) /\ ManifestOf(<<Features[g], c>>, manifests[c])'
      BY <1>1, <2>1, <2>2, SpecFixed
    <3> QED
      BY <2>1, <2>2, <3>1 DEF MergedUpTo, LastWith
  <2>3. CASE step' = "render" /\ errs = {}
    <3>1. fi' - 1 = fi /\ manifests' = merged
      BY <1>2, <2>3, PairTypes
    <3> QED
      BY <1>1, <2>2, <2>3, <3>1 DEF MergedInv, Rendering
  <2>4. CASE step' = "done"
    <3>1. Len(Features) = fi /\ errs = {} /\ manifests' = merged
      BY <1>2, <2>4 DEF LastFeature
    <3> QED
      BY <1>1, <2>2, <2>4, <3>1 DEF MergedInv, Rendering
  <2> QED
    BY <1>1, <1>2, <2>3, <2>4 DEF MergedInv, Rendering
<1> QED
  BY <1>4, <1>5, <1>6, <1>7

\* Every step of the control plane keeps the invariant.
LEMMA NextIInv ==
  ASSUME IInv, [Next]_vars
  PROVE  IInv'
<1>1. CASE Next
  <2>1. CASE \E p \in ValuePairs : SetValues(p)
    BY <2>1, SetValuesStep
  <2>2. CASE \E s \in Setting : OverlaySetting(s)
    BY <2>2, OverlayStep
  <2> QED
    BY <1>1, <2>1, <2>2, RunSteps, SkipStep, TranslateStep, RenderStep, RenderFailsStep,
       PatchStep, MergeStep DEF Next
<1>2. CASE UNCHANGED vars
  <2>1. UNCHANGED <<spec, step, fi, ci, todo, current, values, settings, manifest, rendered,
                    failed, manifests, errsOut>>
    BY <1>2 DEF vars, valuesVars, mapVars
  <2>2. UNCHANGED <<feature, pair>>
    BY <2>1 DEF feature, pair, component
  <2>3. TypeOK'
    BY <2>1, <2>2 DEF IInv, TypeOK, MapOf, feature
  <2>4. ValuesInv' /\ SettingsInv'
    BY <2>1, <2>2, SpecFixed DEF IInv, ValuesInv, SettingsInv, Writers
  <2>5. RenderedInv'
    BY <2>1, <2>2, SpecFixed DEF IInv, RenderedInv, Rendering, Rendered, LastComponent
  <2>6. MergedInv'
    BY <2>1, SpecFixed DEF IInv, MergedInv, MergedUpTo, LastWith, Rendering
  <2> QED
    BY <2>3, <2>4, <2>5, <2>6 DEF IInv
<1> QED
  BY <1>1, <1>2

\* The invariant holds in every state of the control plane.
THEOREM Invariance == Spec => []IInv
<1>1. Init => IInv
  BY InitIInv
<1>2. IInv /\ [Next]_vars => IInv'
  BY NextIInv
<1> QED
  BY <1>1, <1>2, PTL DEF Spec

\* Every variable keeps its type: among the parts, the map that is returned has
\* no string that a failure left behind.
THEOREM TypeCorrect == Spec => []TypeOK
<1>1. IInv => TypeOK
  BY DEF IInv
<1> QED
  BY <1>1, Invariance, PTL

\* What RenderManifest returns, read off the invariant: the last feature with
\* a component decides what the map has for it.
LEMMA Returned ==
  ASSUME IInv, step = "done"
  PROVE  /\ DOMAIN manifests = Components
         /\ \A c \in Components : \E g \in DOMAIN Features :
              LastWith(c, g, Len(Features)) /\ ManifestOf(<<Features[g], c>>, manifests[c])
<1>1. MergedUpTo(Len(Features))
  BY DEF IInv, MergedInv
<1>2. Components = UNION {ComponentsIn(Features[g]) : g \in 1..Len(Features)}
  BY Lists, FeaturesAssumption DEF Components
<1> QED
  BY <1>1, <1>2, Lists DEF MergedUpTo

\* A component is installed if its last feature says that it is enabled, and
\* its manifest is then what was rendered there.
LEMMA InstalledManifest ==
  ASSUME IInv, step = "done", NEW c \in Components, NEW g \in DOMAIN Features,
         LastWith(c, g, Len(Features))
  PROVE  /\ c \in Installed <=> IsComponentEnabled(<<Features[g], c>>)
         /\ c \in Installed => /\ Told(manifests[c].values)
                               /\ manifests[c].settings = FoundSettings(<<Features[g], c>>)
<1>1. PICK h \in DOMAIN Features :
        LastWith(c, h, Len(Features)) /\ ManifestOf(<<Features[h], c>>, manifests[c])
  BY Returned
<1>2. h = g
  <2>1. g \in Nat /\ h \in Nat /\ g <= Len(Features) /\ h <= Len(Features) /\ Len(Features) \in Nat
    BY Lists
  <2>2. ~(g < h)
    BY <1>1, <2>1 DEF LastWith
  <2>3. ~(h < g)
    BY <1>1, <2>1 DEF LastWith
  <2> QED
    BY <2>1, <2>2, <2>3
<1>3. c \in DOMAIN manifests
  BY Returned
<1> QED
  BY <1>1, <1>2, <1>3, TranslatorAssumption DEF ManifestOf, Installed

\* A component of which only one feature speaks is decided by this feature.
LEMMA OneFeature ==
  ASSUME IInv, step = "done", NEW p \in SpecPairs \cup ValuePairs, p[2] \in Components
  PROVE  /\ p[2] \in Installed <=> IsComponentEnabled(p)
         /\ p[2] \in Installed => manifests[p[2]].settings = FoundSettings(p)
<1>1. PICK g \in DOMAIN Features : LastWith(p[2], g, Len(Features))
  BY Returned
<1>2. <<Features[g], p[2]>> = p
  BY <1>1, Lists, PairsAssumption DEF LastWith
<1>3. /\ p[2] \in Installed <=> IsComponentEnabled(<<Features[g], p[2]>>)
      /\ p[2] \in Installed =>
           manifests[p[2]].settings = FoundSettings(<<Features[g], p[2]>>)
  BY <1>1, InstalledManifest
<1> QED
  BY <1>2, <1>3

\* ApplyAll gets a key of every component, or nothing at all.
EveryComponentHasAKey == step = "done" => DOMAIN manifests = Components

\* The second part of ParentAssumption of Installer: no goroutine waits for a parent
\* that is not there.
THEOREM EveryComponentHasAKeyHolds == Spec => []EveryComponentHasAKey
<1>1. IInv => EveryComponentHasAKey
  BY Returned DEF EveryComponentHasAKey
<1> QED
  BY <1>1, Invariance, PTL

\* What the charts are told of a component is what happens to it.
THEOREM ChartsAgreeHolds == Spec => []ChartsAgreeWithManifests
<1>1. IInv => ChartsAgreeWithManifests
  <2> SUFFICES ASSUME IInv, step = "done", NEW c \in Installed, NEW p \in ValuePairs
               PROVE  manifests[c].values.enabled[p] <=> p[2] \in Installed
    BY DEF ChartsAgreeWithManifests
  <2>1. c \in Components /\ p[2] \in Components
    BY Returned, PairsAssumption DEF Installed
  <2>2. PICK g \in DOMAIN Features : LastWith(c, g, Len(Features))
    BY <2>1, Returned
  <2>3. manifests[c].values.enabled[p] = IsComponentEnabled(p)
    BY <2>1, <2>2, InstalledManifest DEF Told
  <2>4. p[2] \in Installed <=> IsComponentEnabled(p)
    BY <2>1, OneFeature
  <2> QED
    BY <2>3, <2>4
<1> QED
  BY <1>1, Invariance, PTL

\* The last feature that has a component decides about it.
THEOREM LaterFeatureDecidesHolds == Spec => []LaterFeatureDecides
<1>1. IInv => LaterFeatureDecides
  BY InstalledManifest DEF LaterFeatureDecides
<1> QED
  BY <1>1, Invariance, PTL

\* Every setting that the spec gives for an installed component is in its manifest.
THEOREM SettingsSurviveHolds == Spec => []SettingsSurvive
<1>1. IInv => SettingsSurvive
  <2> SUFFICES ASSUME IInv, step = "done", NEW p \in SpecPairs, p[2] \in Installed
               PROVE  GivenSettings(p) \subseteq manifests[p[2]].settings
    BY DEF SettingsSurvive
  <2>1. p[2] \in Components
    BY Returned DEF Installed
  <2>2. manifests[p[2]].settings = FoundSettings(p)
    BY <2>1, OneFeature
  <2> QED
    BY <2>2 DEF GivenSettings, FoundSettings
<1> QED
  BY <1>1, Invariance, PTL

\* A chart is told, at each path, the namespace of a component that writes it.
THEOREM NamespacesFromWritersHolds == Spec => []NamespacesFromWriters
<1>1. IInv => NamespacesFromWriters
  <2> SUFFICES ASSUME IInv, step = "done", NEW c \in Installed, NEW n \in Paths
               PROVE  manifests[c].values.namespace[n] \in SaidAt(n)
    BY DEF NamespacesFromWriters, SaidAt
  <2>1. c \in Components
    BY Returned DEF Installed
  <2>2. PICK g \in DOMAIN Features : LastWith(c, g, Len(Features))
    BY <2>1, Returned
  <2> QED
    BY <2>1, <2>2, InstalledManifest DEF Told
<1> QED
  BY <1>1, Invariance, PTL
-----------------------------------------------------------------------------
(* ControlPlane implements Rendering.                                       *)

\* What the spec asks for depends on nothing else.
LEMMA AskedFixed ==
  ASSUME spec' = spec
  PROVE  Asked' = Asked
<1>1. /\ \A p : IsComponentEnabled(p)' = IsComponentEnabled(p)
      /\ \A p : FoundSettings(p)' = FoundSettings(p)
      /\ \A n : SaidAt(n)' = SaidAt(n)
  BY SpecFixed
<1> QED
  BY <1>1 DEF Asked, SaidAt

\* Every values path has a component that writes it.
LEMMA AskedType ==
  ASSUME spec \in Specs
  PROVE  Asked \in Promise!Request
<1> DEFINE pairs == ((DOMAIN ComponentsOf) \X Components) \cup ValuePairs
<1>1. pairs = Promise!Pairs
  BY DEF Promise!Pairs, Promise!Components, Promise!ComponentsIn, Components, ComponentsIn
<1>2. [p \in pairs |-> IsComponentEnabled(p)] \in [pairs -> BOOLEAN]
  BY SpecTypes
<1>3. [p \in pairs |-> FoundSettings(p)] \in [pairs -> SUBSET Setting]
  BY SpecTypes
<1>4. ASSUME NEW n \in Paths
      PROVE  {Namespace(p) : p \in Writers(n)} \in (SUBSET Namespaces) \ {{}}
  BY SpecTypes DEF Paths, Writers
<1>5. [n \in Paths |-> {Namespace(p) : p \in Writers(n)}]
        \in [Paths -> (SUBSET Namespaces) \ {{}}]
  BY <1>4
<1> HIDE DEF pairs
<1> QED
  BY <1>1, <1>2, <1>3, <1>5 DEF Asked, pairs, Promise!Request

\* A manifest as renderManifest makes it is what the spec asks for.
LEMMA AsAsked ==
  ASSUME NEW g \in DOMAIN Features, NEW c \in ComponentsIn(Features[g]), NEW m,
         ManifestOf(<<Features[g], c>>, m)
  PROVE  Promise!Renders(<<Features[g], c>>, m)
<1> DEFINE p == <<Features[g], c>>
           pairs == ((DOMAIN ComponentsOf) \X Components) \cup ValuePairs
<1>1. p \in pairs
  BY Lists DEF Components
<1>2. /\ Asked.enabled = [q \in pairs |-> IsComponentEnabled(q)]
      /\ Asked.settings = [q \in pairs |-> FoundSettings(q)]
      /\ Asked.namespaces = [n \in Paths |-> SaidAt(n)]
  BY DEF Asked, SaidAt
<1>3. Asked.enabled[p] = IsComponentEnabled(p) /\ Asked.settings[p] = FoundSettings(p)
  BY <1>1, <1>2
<1>4. CASE ~IsComponentEnabled(p)
  BY <1>3, <1>4 DEF ManifestOf, Promise!Renders
<1>5. CASE IsComponentEnabled(p)
  <2>1. m \in ManifestType /\ Told(m.values) /\ m.settings = FoundSettings(p)
    BY <1>5 DEF ManifestOf
  <2>2. m # Disabled
    BY <2>1, TranslatorAssumption
  <2>3. /\ m.values.enabled \in [ValuePairs -> BOOLEAN \cup {Unset}]
        /\ DOMAIN m.values.namespace = Paths
    BY <2>1 DEF ManifestType, ValuesType
  <2>4. m.values.enabled = [q \in ValuePairs |-> Asked.enabled[q]]
    <3>1. \A q \in ValuePairs : m.values.enabled[q] = Asked.enabled[q]
      BY <1>2, <2>1 DEF Told
    <3> QED
      BY <2>3, <3>1
  <2>5. \A n \in Paths : m.values.namespace[n] \in Asked.namespaces[n]
    BY <1>2, <2>1 DEF Told
  <2> QED
    BY <1>3, <1>5, <2>1, <2>2, <2>3, <2>4, <2>5 DEF Promise!Renders
<1> QED
  BY <1>4, <1>5

\* When the loops are through, the map is what the spec asks for.
DoneAsAsked ==
  step = "done" =>
    /\ DOMAIN manifests = Components
    /\ \A c \in Components : \E g \in DOMAIN Features :
         Promise!Decides(g, c) /\ Promise!Renders(<<Features[g], c>>, manifests[c])

LEMMA InvDoneAsAsked == IInv => DoneAsAsked
<1> SUFFICES ASSUME IInv, step = "done", NEW c \in Components
             PROVE  \E g \in DOMAIN Features :
                      Promise!Decides(g, c) /\ Promise!Renders(<<Features[g], c>>, manifests[c])
  BY Returned DEF DoneAsAsked
<1>1. PICK g \in DOMAIN Features :
        LastWith(c, g, Len(Features)) /\ ManifestOf(<<Features[g], c>>, manifests[c])
  BY Returned
<1>2. c \in ComponentsIn(Features[g])
  BY <1>1 DEF LastWith
<1>3. \A h \in DOMAIN Features : h > g => c \notin ComponentsIn(Features[h])
  <2>1. \A h \in DOMAIN Features : h > g => h \in (g + 1)..Len(Features)
    BY Lists
  <2> QED
    BY <1>1, <2>1 DEF LastWith
<1>4. Promise!Decides(g, c)
  BY <1>2, <1>3 DEF Promise!Decides, Promise!ComponentsIn, ComponentsIn
<1>5. Promise!Renders(<<Features[g], c>>, manifests[c])
  BY <1>1, <1>2, AsAsked
<1> QED
  BY <1>4, <1>5

\* Before the end a step of the loops is invisible.
LEMMA LoopsInvisible ==
  ASSUME Outcome = "pending", Outcome' = "pending", spec' = spec
  PROVE  UNCHANGED Promise!vars
<1>1. step # "done" /\ step' # "done"
  BY DEF Outcome
<1> QED
  BY <1>1, AskedFixed DEF Promise!vars, EmptyMap

\* The last feature's map and an error end it.
LEMMA EndImplements ==
  ASSUME DoneAsAsked', spec' = spec, Outcome = "pending", Outcome' # "pending"
  PROVE  Promise!Finish \/ Promise!Fail
<1>1. step # "done" /\ step' \in {"done", "error", "fatal"}
  BY DEF Outcome
<1>2. Asked' = Asked
  BY AskedFixed
<1>3. CASE step' = "done"
  <2>1. Outcome' = "done"
    BY <1>3 DEF Outcome
  <2>2. Promise!Components = Components
    BY DEF Promise!Components, Promise!ComponentsIn, Components, ComponentsIn
  <2>3. /\ DOMAIN manifests' = Components
        /\ \A c \in Components : \E g \in DOMAIN Features :
             Promise!Decides(g, c) /\ Promise!Renders(<<Features[g], c>>, manifests[c])'
    BY <1>3 DEF DoneAsAsked
  <2> QED
    BY <1>2, <1>3, <2>1, <2>2, <2>3 DEF Promise!Finish, Promise!Renders
<1>4. CASE step' # "done"
  <2>1. Outcome' = "error"
    BY <1>1, <1>4 DEF Outcome
  <2> QED
    BY <1>1, <1>2, <1>4, <2>1 DEF Promise!Fail, EmptyMap
<1> QED
  BY <1>3, <1>4

\* However the loops take their keys and wherever an error occurs, rendering is
\* one step from the spec to what it asks for, or to no manifests.
THEOREM Refinement == Spec => ImplementsRendering
<1>1. Init => Promise!Init
  <2> SUFFICES ASSUME Init PROVE Promise!Init
    OBVIOUS
  <2>1. spec \in Specs /\ step = "run"
    BY DEF Init
  <2> QED
    BY <2>1, AskedType DEF Promise!Init, Promise!NoManifests, Outcome, EmptyMap
<1>2. DoneAsAsked' /\ [Next]_vars => [Promise!Next]_(Promise!vars)
  <2> SUFFICES ASSUME DoneAsAsked', [Next]_vars
               PROVE  Promise!Next \/ UNCHANGED Promise!vars
    OBVIOUS
  <2>1. CASE UNCHANGED vars
    <3>1. spec' = spec /\ step' = step /\ manifests' = manifests
      BY <2>1 DEF vars, mapVars
    <3> QED
      BY <3>1, AskedFixed DEF Promise!vars, Outcome, EmptyMap
  <2>2. CASE Next
    <3>1. spec' = spec /\ Outcome = "pending"
      BY <2>2 DEF Next, Outcome, RunComponent, RunFails, SkipDisabled, Translate, SetValues,
                  RenderChart, RenderFails, OverlaySetting, PatchManifest, PatchFails,
                  MergeFeature, Store
    <3> QED
      BY <3>1, LoopsInvisible, EndImplements DEF Promise!Next
  <2> QED
    BY <2>1, <2>2
<1> QED
  BY <1>1, <1>2, Invariance, InvDoneAsAsked, PTL DEF Spec, ImplementsRendering, Promise!Spec
=============================================================================
