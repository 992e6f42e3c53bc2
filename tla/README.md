# A TLA+ model of istio-installer

This directory holds TLA+ specifications of the live program of this
repository, the `iop` command line (`cmd/iop.go`, `cmd/iop/*.go`), with the TLC
runs that check them on small instances and the TLAPS proofs of what must hold
for every instance. `PROJECT.json` lists the runs, the source lines behind
each definition, the hazards and the findings.

## 1. The system

`iop install` turns an `IstioControlPlaneSpec` (a profile with a user's overlay)
into one Kubernetes manifest per component and applies the manifests to a
cluster, with one goroutine per component.

    genManifests (cmd/iop/shared.go)
      read profile, overlay the user's CR, validate
      -> IstioControlPlane.Run            (pkg/component/controlplane)
           feature.Run -> component.Run -> helm renderer.Run: load the chart
             -> fswatch.WatchDirRecursively (only for charts in a directory)
      -> IstioControlPlane.RenderManifest
           feature -> component: IsComponentEnabled (pkg/name),
             Translator.ProtoToValues, value overlays (mergeTrees),
             renderer.RenderManifest, Translator.OverlayK8sSettings
             (pkg/translate), patch.YAMLManifestPatch (pkg/patch)
      -> ManifestMap: component name -> YAML
    ApplyAll (pkg/manifest/installer.go)
      one goroutine per key of the map
        <-dependencyWaitCh[c] ; applyManifest: kubectl apply --prune (CRDs),
        waitForCRDs, kubectl apply --prune (all) ; signal children ; wg.Done

| Component | State | Operations | Hard behaviour | What makes it correct |
|---|---|---|---|---|
| installer: ApplyAll (`pkg/manifest/installer.go`) | `dependencyWaitCh` (channels of capacity one), `componentDependencies`, the WaitGroup, the range variable `m` | ApplyAll, applyRecursive, applyManifest, waitForCRDs | goroutines that wait for each other, a shared loop variable, failures between two kubectl calls, timeouts, reruns | parents before children, CRDs before their users, nil only after everything was applied, nobody waits for ever, the cluster ends up with every object |
| installer: RenderToDir | none; the output directory | renderRecursive | a loop over a map in random order that may return early | the directory has a file of every component that has a manifest, or an error was logged |
| kubectl client (`pkg/kubectlcmd`) | none; the cluster | Apply | partial failure, prune, concurrent calls | dry run changes nothing |
| file watcher (`pkg/util/fswatch`) | one fsnotify watcher per directory, `notifyRaw`, `notify`, the timer, `doneInit` | WatchDirRecursively, watchDir | dropped sends, a stale timer value, watchers that close, errors during init | each change is followed by a signal, signals are debounced, init errors are reported |
| file renderer (`pkg/helm/fs_renderer.go`) | `chart`, `started` | Run, RenderManifest, loadChart | reload while the program runs | the chart in use is not older than the last signalled change |
| control plane (`pkg/component/*`) | features, components, their renderers | Run, RenderManifest | errors of one component among many; a component in two features | the map is complete or there is none; it says of a component what the charts of the others were told |
| Helm rendering (`pkg/helm`, `pkg/vfsgen`) | the renderer's chart and base values | Run, loadChart, OverlayYAML, ReadFile, GetFilesRecursive | one Read that is taken for the whole file; files renamed relative to a directory | every file of a chart is read, under its own name; of two layers the upper one decides |
| name (`pkg/name`) | none | IsComponentEnabled, Namespace, GetFromStructPath, SetFromPath | reflection; paths that silently do not exist | inheritance of enablement and namespace |
| translator (`pkg/translate`) | mapping tables; the tree being built | ProtoToValues, ValuesOverlaysToHelmValues, OverlayK8sSettings, setTree | loops over Go maps in random order that write one tree; lists that are edited through pointers to slices | what is mapped arrives where the mapping says, in any order, and nothing else changes |
| patch (`pkg/patch`) | none | YAMLManifestPatch, applyPatches, getNode, writeNode | in-place edits of lists through pointers; errors that drop objects; reflection that panics | a patch changes what it names and nothing else; every object comes out once |
| manifest objects (`pkg/manifest/objects.go`) | cached JSON and YAML per object | parse, sort, label, index | stale caches, colliding keys | the text and the object agree |
| validate (`pkg/validate`) | none | CheckIstioControlPlaneSpec | reflection over structs, slices and maps | what gets through has only fields and texts the program can use |
| iop (`cmd/iop`) | flags, the merged CR | install, manifest, dump-profile | two reads of one profile, partial merges, fatal exits in the middle | the CR is laid over the profile without loss or refused; a dry run writes no manifest |

Other parts (`pkg/kube`, `pkg/controller`, `pkg/old`, `cmd/istio-installer`,
`pkg/webhook`, `pkg/util/fetch`, generated API types and embedded charts) are
unused, do not compile against the rest of the tree, or are data;
`PROJECT.json` lists each with the reason.

## 2. The modules

| Module | Models | State and actions |
|---|---|---|
| `InstallOrder` | what ApplyAll promises about order (abstract specification) | the set of applied components; `Apply`, `Finish`, `Rerun` |
| `Installer` | ApplyAll in `installer.go`, `kubectlcmd/client.go`, with the cluster as an external part | `main` is the goroutine that calls ApplyAll, `pc[c]` the goroutine of component c; `wg`, `tokens[c]` and `loopVar` are the WaitGroup, the number of values in `dependencyWaitCh[c]` and the component whose text the range variable `m` holds |
| `FSWatch` | `fswatch.go` | `watcher[d]` is what watchDir's goroutines do for directory d, `deb`, `timer` and `timerC` are the debouncer, its timer and the slot of the timer's channel; `Write` and `Replace` are the file system |
| `FileRenderer` | `fs_renderer.go`, composed with `FSWatch` (EXTENDS) | `run` is the caller of Run, `consumer` the reload goroutine, `chart` is `h.chart` |
| `Rendering` | what rendering promises (abstract specification) | what the spec asks for, the outcome, the manifests; `Finish`, `Fail` |
| `ControlPlane` | `pkg/component/*`, `pkg/name`, the map loops of `pkg/translate` | `step`, `fi`, `ci` are the position in the loops over features and components, `values` the tree that ProtoToValues builds, `manifests` the ManifestMap |
| `Node` | values of all kinds: YAML trees, Go structs as reflection sees them, errors and panics, and paths into them | operators only |
| `Tree` | what reads and writes YAML trees by path: `setTree`, `getNode` and `writeNode`, `OverlayYAML` | operators only |
| `SpecStruct` | the CR as a Go struct seen through reflection: `GetFromStructPath`, `SetFromPath`, `IsComponentEnabled`, `Namespace`, `protoToValues` with the mapping of paths, `validate` | operators only |
| `SpecSchema` | the fields of IstioControlPlaneSpec, and the conversions between YAML and the struct (`pkg/util/util.go`) | operators only |
| `EmbeddedFiles` | `pkg/vfsgen/vfsgen.go`, `vfs_renderer.go`: opening, reading and listing compiled-in files, loading a chart | operators only; the files are the constant `Assets` |
| `ComponentManifest` | `renderManifest` of one component in detail, with `pkg/translate`, `pkg/patch` and the index of `pkg/manifest/objects.go` | `root`, `layers` and `values` are the values on their way to the chart, `rendered`, `objects` and `manifest` the objects on their way out of it, `todo` what the map loop it is in has still to visit |
| `ComponentManifestData` | what `ComponentManifest` does to structs and trees, and its properties about their contents | operators only |
| `Iop` | `cmd/iop`, `createHelmRenderer`, `RenderToDir` | one command from its flags to the file system: `user`, `base`, `spec` are the CR, the profile and their merge, `charts` the renderers, `dirs`, `files`, `outFile`, `stdout` and `cluster` the effects |
| `IopData` | what `Iop` does to CRs, profiles and embedded files, and its properties about their contents | operators only |
| `InstallerProofs`, `ControlPlaneProofs`, `FileRendererProofs`, `IopProofs`, `ComponentManifestProofs` | theorems about the module each is named for, and its inductive invariant | - |
| `InstallResultProofs` | theorems about `Installer`: what is in the cluster at the end | - |
| `TreeProofs` | theorems about the operators of `Tree`, for all trees and paths, on which the next one, `ComponentManifestProofs` and `IopProofs` rest | - |
| `ObjectsProofs` | theorems about `ComponentManifest`: the Kubernetes settings and the patches | - |

`ComponentManifest` and `Iop` are control: their steps, in order, with every guard
and error. What a step does to a tree is an operator of `Tree`. What it does to a
struct or a compiled-in file is a constant operator of theirs (`ReadPath`, `ToValues`,
`ToStruct`, ...), so that the theorems about them hold whatever these operators do,
within the named assumptions. The recursive definitions of those operators, which
are what the code does, are in `SpecStruct`, `SpecSchema` and `EmbeddedFiles`;
`ComponentManifestData` and `IopData` extend both sides, and the configurations give
each constant its operator (`ToValues <- ProtoToValues`). TLC checks the assumptions with them.

The operators of `Tree` are recursive too, but through constants: `setTree` does one step
and calls `SetBelow` for what is below a node, and the configurations bind
`SetBelow <- setTree`, so that TLC evaluates the recursion of the code. A theorem assumes of
such a constant only this equation (`SetRecursion`, `PatchRecursion`, ... in `TreeProofs`).
That is the form of recursion about which the prover can argue; see section 4.

The modules are a chain: `Node` is extended by all of these, `Tree` by `SpecStruct`,
`ComponentManifest` and `Iop`, `SpecStruct` by `ComponentManifestData`, `EmbeddedFiles` and
`SpecSchema`, and the last two by `IopData`. `Iop` comes before `ControlPlane` (it makes the merged spec and loads the
charts) and after it (it prints, writes or applies the manifests);
`ComponentManifest` shows in detail what `ControlPlane` abstracts to the steps
from `Translate` to `PatchManifest`; `Installer` is `Iop`'s step `ApplyAll` in detail.

`MCInstaller`, `MCFileRenderer`, `MCControlPlane`, `MCComponentManifest` and
`MCIop` give the constants their values. Definitions keep the names of the source where the source has one.
Definitions that no specification uses and whose name says what is missing
(`ReceiveOptional`, `NoPrune`, `SkipReset`, `DropSiblings`, ...) are mutations of the definition
that follows them: each property is violated when its mutation takes the place
of the definition, which shows that the property depends on this code.

### Installer

One action is what happens between two points where another goroutine or the
cluster can be seen: a channel operation, a kubectl call, a check of
`wait.Poll`. A kubectl call with `--prune` is two steps, creation and deletion,
because concurrent calls interleave there; each step may fail after part of
its effect. kubectl refuses an empty manifest, and `applyManifest` calls it for
the CRDs of a component whether it has any or not: outside a dry run `Create`
fails for an empty set. `applyManifest` returns an error exactly where `Fail` is taken: the
goroutine is then `failed`, and as in the code neither signals nor calls
`wg.Done`.

The argument `m` of the goroutine is the range variable. `SharedLoopVar = TRUE`
is the semantics of every Go version before 1.22, among them the 1.10.3 of
`docker/manager/Dockerfile`: the goroutine reads whatever the loop assigned
last, and while the loop is still running the read is a data race, whose
outcomes (`TornRead`) are a prefix of another manifest or text that does not
parse. `SharedLoopVar = FALSE` is the program as it was meant; the runs about
other matters use it so that their result does not hinge on this defect, the
run `installer` uses TRUE so that its safety properties hold in spite of it.

A dry run executes the same steps; `kubectl.Apply` and `waitForCRDs` return at
once. `Rerun` ends the process anywhere (ApplyAll may hang, so interrupting it is
a normal thing to do) and starts it again with what the cluster then holds.

External: the API server (`Establish`), kubectl's effects, and which kinds are on
its prune list (`Prunable`; no CRD is). `ParentAssumption` says that
`componentDependencies` is a forest and that the map has a key for the parent
of each of its keys; theorem `EveryComponentHasAKeyHolds` of `ControlPlaneProofs`
shows the second part.

### FSWatch and FileRenderer

The files are a version number, `disk`. Since the sender on `notifyRaw` never
waits, a notification arrives only when the debouncer is parked in its select;
that is why `Select`, `ResetTimer` and `SendNotify` are steps of their own. The
timer is Go's before 1.23: it leaves a value in its channel when it fires while
nobody waits, and `Reset` does not remove it. `bursts` and `signals` are
history variables that a property needs.

### ControlPlane

`RunComponent`, then for each component `SkipDisabled` or `Translate`,
`SetValues` (one turn of the two map loops each), `RenderChart`,
`OverlayK8sSetting` (one turn of the loop over KubernetesMapping each) and
`PatchManifest`, and for each feature `MergeFeature`. The values tree is reduced
to the enablement and namespace paths, which all charts share; a manifest is
the record of the values its chart was rendered with and of the settings laid
over it (`FoundSettings`: a number is laid over even when the spec does not give
it). `Namespace` leaves the feature's namespace out because the code never
finds it: the path at `name.go:130` lacks a dot. That the component fields of
the spec are named as in the proto makes `SidecarInjector` a component without
fields (`SpecPairs` does not contain it): the proto calls it `Injector`.
`PairsAssumption` states what follows: the struct and the translator's table say
of a component only what is said in the one feature that has it.

### Node, Tree, SpecStruct, ComponentManifest

A tree is a map, a list, a string, another scalar (with the text it prints as)
or null; operations return `Bad` for an error and `Panic` where reflection
panics, and the edited tree where the code edits in place. Paths are sequences
of elements, so the syntax of path strings is gone but its meaning is not: an
empty element is dropped, a bracketed one selects an item of a list by an entry
or by its text. What is easily missed is kept: `setTree` compares entries as
strings and so never finds a number; a bracketed element stops at the first
item of another kind; `writeNode` has no case for deleting an entry of a map; a
patch's value comes from the JSON package, and `getNode` takes a map of it for a leaf
(`Inserted`, `Opaque`); nil patches and an empty list of them are not the same
(`NilPatches`), nor are overlays that are not there and an empty list (`OverlaysGiven`).

The properties read trees with operators of their own. `Lookup` is what `getNode` finds,
`Null` where it stops with an error. `Nodes` are the paths of keys in a tree; at such a path a
tree `Touches` what it has a node at, or something other than a map on the way to, and
`Said` is what is there. `Fits` says that nothing is in the way of `setTree`: maps, or nothing,
and lists of maps in which the named item has the name as a string or is missing.

A struct is `Struct` of its fields, so that reflection's walks (`found`, error,
nothing there) come out as in the code. One action of `ComponentManifest` is
one turn of a map loop (`setEnablementAndNamespaces`, `OverlayK8sSetting`, `PatchObject`,
`CopyObject`) or the code between two loops (`MergeValues`, `RenderChart`). The
chart is a constant: a function from the values to the objects that Helm makes
of them, or an error.

### EmbeddedFiles, SpecSchema, Iop, IopData

A file has a size, whether it is compressed, and a content. `ReadFile` takes the
result of one Read only if it comes with io.EOF, so a compressed file that fills
the decompressor's window and any file stored as it is come out empty. The schema
lists the fields with their kinds; unmarshalling refuses unknown fields and
values of another kind, marshalling omits zero values. The three commands
share `CheckCR`, `ReadProfile` and `MergeSpecs`; a `log.Fatalf` is `Stop`, an error
that is only logged is the step `logged`. Errors of the file system, of rendering
and of applying may occur anywhere (`MayFail`); rendering may also panic, for the patches
of a CR, and a failed goroutine makes `ApplyAll` hang. `ProfileAssumption` says that neither
unmarshalling nor merging changes the name of the profile and that the default
profile names no other; `BaseAssumption` that no spec enables the base component
(it has no field for its feature); `PackagedAssumption` that profiles and the charts of all
components are compiled in.

## 3. The runs

| Run | Checks | Bounds, and why they are enough |
|---|---|---|
| `installer` | `TypeOK`, `IInv`, `DependencyOrder`, `ReturnMeansApplied`, `SignalNeverBlocks`, `CRDsFirst`, `DryRunNeedsNoCluster`, `Progress`, `ImplementsOrder` | the root with two children in the map and one that is only in the table; two CRDs of the root and one of each child (of the root's one is established, one not), two polls, any failure; one namespace for all. Two children are what interleaves; more only repeat them, and the theorems hold for any number |
| `installer_rerun` | `ResultInv`, `InstallComplete`, `StaleRemoved` | one rerun; an object and a CRD of an earlier installation; a namespace per component |
| `captured_manifest` | `LabelsNameComponent`: violated | |
| `prune` | `InstallComplete`: violated with a shared namespace | |
| `timeout_hang` | `TimeoutEndsWait`: violated | |
| `file_renderer` | `TypeOK`, `IInv`, `NoFlood`, `PendingSignalCovers`, `RunEndsOrWatcherDies` | two directories, a delay of two ticks (the timer can be reset before it fires), three changes of which the second breaks the chart, failing watchers |
| `control_plane` | `TypeOK`, `IInv`, `ChartsAgreeWithManifests`, `LaterFeatureDecides`, `SettingsSurvive`, `NamespacesFromWriters`, `ImplementsRendering` | 192 specs over six features: each kind of component the code treats in its own way once (see `MCControlPlane`), two settings of which one may not fit the chart, all map orders, errors anywhere |
| `namespace_order` | `PilotLocated`: violated | |
| `zero_replicas` | `OnlyGivenSettings`: violated | |
| `component_manifest` | `TypeOK`, `MappedLeavesWritten`, `ValuesPrecedence`, `SettingsReadBack`, `SettingsFrame`, `EveryObjectOnce`, `PatchesTouchOnlyNamed`, `FailureNamesMissingNode` | 172 specs of one component that vary one part at a time: all combinations of four value layers with scalars, maps and nulls at one path; settings of each shape into one Deployment and an autoscaler; overlays that are missing, an empty list, or have nil or no patches; patches of maps and lists, one and two per object, that fit, do not fit or panic, among them some that put a scalar, a map or a list where a later patch has to descend, and the two additions of the package comment. Two patches are enough for one to shift what the other finds |
| `iop` | `TypeOK`, `IInv`, `UserOverProfile`, `ProfileOfCharts`, `ChartComplete`, `DirComplete`, `DryRunWritesNoManifest`, `LoadPanicNamesPackage` | 48 CRs, each kind of field and of profile once, valid and not; four components, two charts with subdirectories; three commands, with and without output and dry run. The map has one level below the base, as in the code |
| `embedded_read` | `EveryChartFileRead`: violated | |

What the violated properties quote, and what the code does, is in the
`findings` of `PROJECT.json`. In short:

- `captured_manifest`: goroutines apply, under their own label, the manifest the
  loop reached last.
- `prune`: the selector of `--prune` is common to all components, so two
  components in one namespace delete each other's objects. The default profile
  has such components.
- `timeout_hang`: a failed goroutine never calls `wg.Done`; `iop install` hangs.
- `namespace_order`: several components write `global.istioNamespace` in random
  order.
- `zero_replicas`: a K8S section without `replicaCount` sets the replicas of the
  Deployment to zero, or makes the component fail if it has none.
- `embedded_read`: `ReadFile` loses files of 32 KB and more and uncompressed ones;
  one template of the embedded charts is that long.

Five findings are about comments that say something else than the code and the
passing properties that describe the code:

- `PatchesTouchOnlyNamed` (`component_manifest`): the examples of `patch.go:66-77` add a value
  to a list and an entry to an item; the code puts the value in place of the list and of the
  item. And `patch.go:36` says that values can be deleted; an entry of a map cannot, a patch
  without a value leaves it and reports nothing. The property states what the code does in
  each of these cases.
- `LaterFeatureDecides` (`control_plane`): `name.go:58` says that a component that is not
  defined is disabled; it is what its feature is.
- `RunEndsOrWatcherDies` (`file_renderer`): `fswatch.go:111` waits "for any init type of
  errors", but a goroutine that meets one returns without sending on `doneInit`, and
  the caller waits for ever. The property says that this is the only way for Run to hang.
- `PendingSignalCovers` (`file_renderer`): `fswatch.go:20` promises a signal if any file changes;
  the event loop ignores all events but writes, so a chart that is replaced by a rename
  (a ConfigMap volume, most editors) is not loaded again.

Two things the code does have no line that says otherwise:

- A component without CRDs cannot be installed outside a dry run: the first of its two
  kubectl calls gets an empty manifest, which kubectl refuses, and the goroutine fails.
  That is why each component of the installer runs has a CRD.
- The base component is marked `AlwaysEnabled`, which nothing reads, so the CRDs
  are not rendered. This matters for reading the installer runs: today's manifest
  of `crds` is a comment, for which `applyManifest` returns before it calls kubectl.
  `MCObjectsOf` gives it CRDs all the same, because a map
  that ApplyAll takes may have them and the waiting is there for them; the
  violation runs use `RenderedObjectsOf`, in which `crds` has no objects, as the
  control plane renders it.

### Fairness

`Installer!FairSpec`: weak fairness of the main goroutine and of every component's
goroutine. The Go scheduler runs every goroutine that can run, and a kubectl
call ends. Nothing is assumed of the API server: whether a CRD is ever
established is left open, and `wait.Poll` is bounded, so `Progress` does not need
it. `FileRenderer!FairSpec`: weak fairness of each goroutine and of the clock; none
for the files, for reruns of watchers, or for errors. Weak fairness is enough
since a step, once enabled, is disabled only by the same goroutine's own step
(a goroutine parked in a select or on a channel stays there). Of `watchDir` the
weak fairness is per directory and does not include that its watcher closes, so
`RunEndsOrWatcherDies` holds however often watchers restart.

`CHECK_DEADLOCK FALSE` is set in every configuration since every modelled process really
ends or comes to rest (a command ended, ApplyAll returned or hung after a failure,
files no longer changing); that a hang is never caused by the signals themselves is `Progress`.

## 4. The proofs

`InstallerProofs` proves, for all components, dependency forests, manifests,
objects, poll limits and rerun bounds that satisfy the assumptions of
`Installer`:

| Theorem | States |
|---|---|
| `Invariance` | `Spec => []IInv` |
| `TypeCorrect` | `TypeOK`; among its parts, a channel never holds two tokens |
| `DependencyOrderHolds` | `DependencyOrder` |
| `ReturnMeansAppliedHolds` | `ReturnMeansApplied` |
| `SignalNeverBlocksHolds` | `SignalNeverBlocks` |
| `CRDsFirstHolds` | `CRDsFirst` |
| `DryRunHolds` | `DryRunNeedsNoCluster` |
| `Refinement` | `ImplementsOrder`: `Installer` implements `InstallOrder` |

None of the properties is inductive. `DependencyOrder` fails without knowing that a token in
a channel means that the parent has been applied; that a signal finds its
channel empty needs that a token, a signal still to be sent and a child that has
left its wait exclude each other; `ReturnMeansApplied` needs the exact meaning of
the WaitGroup's counter. `IInv` is the conjunction of `TypeOK` and these facts,
each a named part; the cardinality argument for the counter uses the facts on
finite sets of `FiniteSetTheorems`. `Invariance` has one lemma per group of
actions, and `NextIInv` combines them. `CRDsFirst` is a part of `IInv`; `DryRunNeedsNoCluster` has
a step lemma of its own. The refinement maps `Done`, the channel operations and the kubectl calls
to stuttering steps, `Succeed` to `Apply(c)`, `Return` to `Finish`, and uses `IInv`
to show `Apply`'s guards.

`ControlPlaneProofs` proves, for every list of features, every translator table,
every mapping and every set of specs that satisfy the assumptions of `ControlPlane`:

| Theorem | States |
|---|---|
| `Invariance` | `Spec => []IInv` |
| `TypeCorrect` | `TypeOK`; among its parts, what a failed component leaves behind is never returned |
| `EveryComponentHasAKeyHolds` | the map that is returned has a key of every component |
| `ChartsAgreeHolds` | `ChartsAgreeWithManifests` |
| `LaterFeatureDecidesHolds` | `LaterFeatureDecides` |
| `SettingsSurviveHolds` | `SettingsSurvive` |
| `NamespacesFromWritersHolds` | `NamespacesFromWriters` |
| `Refinement` | `ImplementsRendering`: `ControlPlane` implements `Rendering` |

All five properties speak of the end, `step = "done"`, and none of them is
inductive. `IInv` says what each loop has achieved so far: `ValuesInv` of the pairs that
setEnablementAndNamespaces is through with, `SettingsInv` of the settings laid
over and those still to be, `RenderedInv` of the components of the feature, `MergedInv`
of the features merged, with the last one that has a component as the witness.
`ManifestOf(p, m)` is the common measure: m is what renderManifest makes of the
pair p when nothing fails. At the end every component has such a manifest of
its last feature (lemma `Returned`), from which the properties follow;
`ChartsAgreeWithManifests` and `SettingsSurvive` need `PairsAssumption` besides.

The refinement maps the spec to what it asks for (`Asked`: enablement and settings of every
pair, and for each values path the namespaces of its writers), the loops to stuttering steps,
the last `MergeFeature` to `Finish` or `Fail` and `RunFails` to `Fail`; the map is hidden until it is returned. It
needs the invariant only in the state in which the step ends (`DoneAsAsked`).

`FileRendererProofs` proves, for every finite set of directories, delay and number of
changes, `Invariance`, `TypeCorrect` and `NoFloodHolds`. `NoFlood` is not inductive:
between a notification and its signal the debouncer may hold it, the timer may
stand for it, and a stale value of it may be left in the timer's channel.
`SignalInv` counts all of these; `EventInv` bounds the notifications by the changes.

`InstallResultProofs` proves what ApplyAll leaves in the cluster, for any number of
reruns, components, objects and failures before the last run:

| Theorem | States | Under |
|---|---|---|
| `StaleRemovedHolds` | `StaleRemoved` | a range variable per iteration (`~SharedLoopVar`) |
| `InstallCompleteHolds` | `InstallComplete` | the same, and `OwnNamespacePerComponent` |
| `LabelsHold` | `LabelsNameComponent` | a range variable per iteration |

The conditions are those without which the runs `captured_manifest` and `prune` show the
properties violated, so these two defects are all that stands in the way.
`OwnNamespacePerComponent` is weaker than its name: only prunable objects count.
`ResultInv` is inductive together with `IInv`: from the parse on a goroutine holds its own
component's objects (`OwnObjects`), what its last kubectl call created stays (`Kept`), and
what it pruned stays away (`Gone`). The argument does not look at the goroutine that moves:
lemma `GoroutineEffect` says that every step of one creates objects of its own component,
or deletes objects in namespaces of its own, or leaves the cluster alone, and
`KeptStep` and `GoneStep` need nothing else of it.

`IopProofs` proves, for all CRs, profiles, packages and components, and whatever
unmarshalling, merging, validation and loading do within the assumptions of `Iop`:

| Theorem | States |
|---|---|
| `Invariance` | `Spec => []IInv` |
| `TypeCorrect` | `TypeOK`; among its parts, what is rendered was validated |
| `ProfileOfChartsHolds` | `ProfileOfCharts` |
| `DirCompleteHolds` | `DirComplete` |
| `DryRunHolds` | `DryRunWritesNoManifest` |
| `LoadPanicNamesPackageHolds` | `LoadPanicNamesPackage` |
| `SpecIsMergeHolds` | the rendered spec, marshalled again, is the CR laid over its profile |

`ProfileOfCharts` hinges on lemma `SameProfile`: the profile is read a second time, by the name
that the merged spec has, and this is the profile that was merged. It is so because
a name in the CR wins, and without one the default profile was read, which names no
other. `DirComplete` needs `FilesInv`, what the loop of RenderToDir has written by now (a file
for every component it has come to), and `BaseHasText`: a base component with an empty
manifest would end the loop before its children, but a disabled component has a comment.
`SpecIsMergeHolds` is the half of `UserOverProfile` that is control: every way to a spec goes
through the checks of MergeSpecs, the last of which compares what the struct is marshalled
to with the merged text. `UserOverProfileHolds` adds what laying one text over another does,
theorem `OverlayDecides` of `TreeProofs`.

`TreeProofs` proves, for all trees, all paths over any set of elements and all values:

| Theorem | States |
|---|---|
| `SetThenLookup` | a value that `setTree` writes at a path that fits the tree is found there, the tree still fits the path, and other entries of the same map are as they were |
| `SetElsewhere` | what another path finds is as it was, when neither path leads to the other (`Apart`) |
| `SetKeepsLeaves` | every leaf that is not below the path is still there |
| `OverlayDecides` | in a text laid over another the upper one decides at every path where it says something, and the lower one elsewhere; a null deletes |
| `PatchFailure` | a patch is an error only when its path names nothing, and a panic only when the path without its last element does |

The recursion is known by its equations, and the induction is over the length of the
path: lemma `Induction` says that a set that has 0 and with each number the next has all
numbers, which follows from the library's theorem on well-founded orders, and each proof applies it to
the set of lengths for which its statement holds. The equations are satisfiable, since
every step shortens the path or goes down in a tree that is finite. Of the two operators
that collect paths the hypotheses (`LeavesRecursion`, `NodesRecursion`) say also that each path is a
finite sequence, which holds for the same reason. The loops of `PathFromString` and
`applyPatches` are recursive functions over the positions of a list; lemmas `PathElements` and
`TurnByTurn` show that they exist, and then take them turn by turn.

`ComponentManifestProofs` and `ObjectsProofs` prove, for all specs, charts, mappings of
components to values, overlays and patches, and in every order of the map loops:

| Theorem | States | Under |
|---|---|---|
| `EveryObjectOnceHolds` | `EveryObjectOnce`: an object comes out once, not at all exactly if one of its patches fails, and twice exactly if its overlay has nil patches (an empty list of patches, or of overlays, counts as given) | `[]PatchesKeepNames` |
| `EveryObjectOnceForPatches` | the same | `[]SettingsFit`, `[]PatchesGiven`, `[]PatchesSpareNames` |
| `PatchesKeepNamesHolds` | patches keep kind, namespace and name of an object, or fail | the same |
| `FailureNamesMissingNodeHolds` | `FailureNamesMissingNode` | `[]SettingsFit`, `[]PatchesGiven` |
| `SettingsReadBackHolds` | `SettingsReadBack` | `[]SettingsFit` |
| `SettingsFrameHolds` | `SettingsFrame` | `[]SettingsFit` |
| `ValuesPrecedenceHolds` | `ValuesPrecedence` | - |

All but the last assume that a chart is a sequence of objects (`ChartGivesObjects`), and all but
the first the equations of the operators of `Tree` that they are about. The other
hypotheses are about what the program is given, and TLC checks each of them on the specs of
the run as a part of `TypeOK`:

- `SettingsFit`: the objects of the chart have room for the settings. It is no formality: a
  scalar with one element of the path left gives way to the value, whatever the element;
  and a container is looked for by name among strings, so that a second one is added
  beside a container whose name YAML reads as a number. Such a setting is not read back.
- `PatchesGiven`: overlays, patches and paths are lists.
- `PatchesSpareNames`: no patch is for the kind, or for the name or namespace in the metadata. A
  patch that renames an object really can make two of one name.

`ObjectsInv` counts the copies of each object in the manifest: one for its overlay if the
first loop has visited it, and one from the second loop. `ValuesInv` keeps the layers with
what they are merged to, and lemma `LastDecides` applies `OverlayDecides` three times.
`SettingsInv` says that an object is the chart's but for its settings: it has its name and
kind, room for the settings still to come, every leaf that no setting is above, and the
settings that are done. That a later setting keeps the earlier ones needs that no two paths
of the mapping lead to one another (`PathsApart`, by looking at all pairs), and that the last
object with a name, which the index has, stays the last (`LastOfSame`). The same invariant
gives the patches an object that is a map; `PatchesKeepHash` and `PatchesFail` are invariants of
the turns of `applyPatches`.

The proofs changed the properties where these said too little or too much:

- `FailureNamesMissingNode` was about the object before any patch. A first patch may replace a
  map by a scalar, and the second then fails for a node that the object had; the
  property is now about the object as the earlier patches leave it, and the run has such
  patches. An element that does not fit the item it stops at, too, names nothing.
- `ValuesPrecedence` and `UserOverProfile` compared leaves. They now compare whatever is at a path of
  keys, so that they say which list wins; and a null in the first layer, which is never
  laid over anything, stays a null and deletes nothing.
- `SettingsReadBack` needs `SettingsFit`, which no property stated.
- `LoadPanicNamesPackage` is about loading charts only: a patch can make rendering panic
  with any package path, which is the subject of `FailureNamesMissingNode`.

Only model-checked:

- the liveness properties (`Progress`, `PendingSignalCovers`, `RunEndsOrWatcherDies`),
  since liveness under fairness is out of the prover's reach;
- `MappedLeavesWritten`, `ChartComplete` and the `TypeOK` of `ComponentManifestData`: what the walks over
  structs, the listing of charts and `Marshalled` make of structures of any depth. These walks
  are recursive operators of modules without theorems;
- `PatchesTouchOnlyNamed`. It names an item of a list by its name or its only entry, and so
  holds of patches that select items in this way. A patch may select an item by any of its
  entries, so that the property is not one of all patches;
- that the equations that the theorems assume have a solution. TLC evaluates one.

## 5. What is not modelled

- The text of manifests, values and logs; what Helm's templates compute (the
  constant `Chart`); the regular expressions of the validators (each is the set of
  texts it accepts).
- The fields of the gateways, which no part of the program reads, of Kubernetes' own
  messages, and `values_types.go`, which only tests use.
- The caches of JSON and YAML in an object of `objects.go`, labels and `Sort`, which
  changes the order of a text; lists whose items are lists.
- Custom translation functions of a mapping: no mapping has one.
- The race of `RenderManifest` with a reload (a single pointer; both outcomes are
  charts that were loaded, or nil), and a local profile that changes between the two
  times it is read.
- A second `ApplyAll` in the same process: `iop` never calls it twice.
- Generated code (`istiocontrolplane_types.pb.go`, `vfsgen_data.go`), and code that
  nothing uses or that does not compile (`pkg/old`, `pkg/controller`, `pkg/kube`,
  `cmd/istio-installer`, `pkg/webhook`, `pkg/util/fetch`, `pkg/util/compress`).

## 6. What is left

1. A refinement from `ComponentManifest` to the steps of `ControlPlane` it
   details: both now share their reading of the code, not a formula.
2. The composition of `Rendering` with `InstallOrder`: `EveryComponentHasAKeyHolds`
   gives the second part of `ParentAssumption` for a dependency table over the
   components that are listed; the two specifications are not yet one.
3. The object caches of `objects.go` as a component of their own.
