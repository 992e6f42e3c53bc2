------------------------------ MODULE Installer ------------------------------
(***************************************************************************)
(* pkg/manifest/installer.go and pkg/kubectlcmd/client.go: ApplyAll runs   *)
(* one goroutine per component of the manifest map.  A goroutine waits for *)
(* the component it depends on, applies a manifest with kubectl (its CRDs  *)
(* first, then everything), signals its own dependents and calls wg.Done.  *)
(* The cluster and kubectl are external: they are modelled by what the     *)
(* installer relies on, with the failures its error paths handle.          *)
(*                                                                         *)
(* Abstracted: an object is a model value with a namespace; logging, label *)
(* text and the order of objects inside one kubectl call are left out.     *)
(***************************************************************************)
EXTENDS Naturals, FiniteSets

CONSTANTS
  Component,      \* every component name of the dependency table
  Dependencies,   \* componentDependencies: parent -> set of its children
  Manifests,      \* the keys of the manifest map given to ApplyAll
  Object,         \* Kubernetes objects
  ObjectsOf,      \* the objects of each component's manifest
  Unparsable,     \* the components whose manifest does not parse
  CRD,            \* the objects that are CustomResourceDefinitions
  Prunable,       \* the objects of the kinds kubectl apply --prune deletes
  NamespaceOf,    \* the namespace of each object (one value: cluster scope)
  Preinstalled,   \* labelled objects an earlier installation left behind
  NoManifest,     \* the value of m before the first iteration
  SharedLoopVar,  \* the range variable m is one variable (Go before 1.22)
  MayFail,        \* kubectl and the API server may fail
  MaxPolls,       \* condition checks of wait.Poll before it times out
  MaxReruns       \* bound: how often the user runs the program again

Parents(c) == {p \in Component : c \in Dependencies[p]}

ASSUME ComponentAssumption ==
  /\ Dependencies \in [Component -> SUBSET Component]
  /\ Manifests \subseteq Component
  /\ IsFiniteSet(Component)
  /\ Unparsable \subseteq Manifests
  /\ NoManifest \notin Component

\* init makes one channel per child: the table gives a child one parent, and
\* the control plane renders every parent of a component it renders.
ASSUME ParentAssumption ==
  \A c \in Component : \A p, q \in Parents(c) :
    p = q /\ p # c /\ (c \in Manifests => p \in Manifests)

\* No CRD kind is on kubectl's default prune list.
ASSUME ObjectAssumption ==
  /\ ObjectsOf \in [Manifests -> SUBSET Object]
  /\ CRD \subseteq Object
  /\ Prunable \subseteq Object
  /\ Preinstalled \subseteq Object
  /\ CRD \cap Prunable = {}

ASSUME BoundAssumption ==
  /\ SharedLoopVar \in BOOLEAN
  /\ MayFail \in BOOLEAN
  /\ MaxPolls \in Nat \ {0}
  /\ MaxReruns \in Nat

VARIABLES
  dryRun,       \* the --dry-run flag of this run
  main,         \* where ApplyAll is
  toSpawn,      \* the keys the range loop has still to visit
  loopVar,      \* the component whose manifest the range variable m holds
  wg,           \* the WaitGroup's counter
  pc,           \* where each component's goroutine is
  objs,         \* the objects each goroutine has parsed
  polls,        \* the checks each goroutine's wait.Poll has made
  toSignal,     \* the children each goroutine has still to signal
  tokens,       \* the number of values in each dependencyWaitCh
  cluster,      \* the labelled objects in the cluster (external)
  established,  \* the CRDs whose Established condition is true (external)
  reruns

process == <<dryRun, main, toSpawn, loopVar, wg, pc, objs, polls, toSignal, tokens>>
external == <<cluster, established>>
vars == <<process, external, reruns>>

Steps == {"unborn", "started", "ready", "crdApply", "crdPrune", "crdWait",
          "apply", "prune", "signal", "done", "failed"}

\* A channel exists for every component that depends on some other.
HasChannel(c) == Parents(c) # {}

Init ==
  /\ dryRun \in BOOLEAN
  /\ main = "start"
  /\ toSpawn = Manifests
  /\ loopVar = NoManifest
  /\ wg = 0
  /\ pc = [c \in Manifests |-> "unborn"]
  /\ objs = [c \in Manifests |-> {}]
  /\ polls = [c \in Manifests |-> 0]
  /\ toSignal = [c \in Manifests |-> {}]
  /\ tokens = [c \in Component |-> 0]
  /\ cluster = Preinstalled
  /\ established = Preinstalled \cap CRD
  /\ reruns = 0

GoTo(c, step) == pc' = [pc EXCEPT ![c] = step]
-----------------------------------------------------------------------------
(* The goroutine that calls ApplyAll.                                       *)

\* initK8SRestClient: no REST configuration, ApplyAll returns the error.
ConfigFails ==
  /\ main = "start" /\ MayFail
  /\ main' = "error"
  /\ UNCHANGED <<dryRun, toSpawn, loopVar, wg, pc, objs, polls, toSignal, tokens,
                 external, reruns>>

StartApply ==
  /\ main = "start"
  /\ main' = "running"
  /\ UNCHANGED <<dryRun, toSpawn, loopVar, wg, pc, objs, polls, toSignal, tokens,
                 external, reruns>>

\* One iteration of the range loop, in the map's random order.
Spawn(c) ==
  /\ main = "running"
  /\ c \in toSpawn
  /\ toSpawn' = toSpawn \ {c}
  /\ loopVar' = c
  /\ wg' = wg + 1
  /\ GoTo(c, "started")
  /\ UNCHANGED <<dryRun, main, objs, polls, toSignal, tokens, external, reruns>>

\* wg.Wait returns and ApplyAll returns nil.
Return ==
  /\ main = "running"
  /\ toSpawn = {}
  /\ wg = 0
  /\ main' = "returned"
  /\ UNCHANGED <<dryRun, toSpawn, loopVar, wg, pc, objs, polls, toSignal, tokens,
                 external, reruns>>
-----------------------------------------------------------------------------
(* The goroutine of component c.                                            *)

\* An error is logged and the goroutine returns: no signal, no wg.Done.
FailAndDone(c) ==
  /\ GoTo(c, "failed")
  /\ wg' = wg - 1
  /\ UNCHANGED <<dryRun, main, toSpawn, loopVar, objs, polls, toSignal, tokens, reruns>>

Fail(c) ==
  /\ GoTo(c, "failed")
  /\ UNCHANGED <<dryRun, main, toSpawn, loopVar, wg, objs, polls, toSignal, tokens, reruns>>

\* applyManifest returns nil; the loop over componentDependencies[c] begins.
SucceedNoSignal(c) ==
  /\ GoTo(c, "signal")
  /\ UNCHANGED <<dryRun, main, toSpawn, loopVar, wg, objs, polls, toSignal, tokens, reruns>>

Succeed(c) ==
  /\ GoTo(c, "signal")
  /\ toSignal' = [toSignal EXCEPT ![c] = Dependencies[c]]
  /\ UNCHANGED <<dryRun, main, toSpawn, loopVar, wg, objs, polls, tokens, reruns>>

\* The goroutine moves on inside applyManifest.
Proceed(c, step) ==
  /\ GoTo(c, step)
  /\ UNCHANGED <<dryRun, main, toSpawn, loopVar, wg, objs, polls, toSignal, tokens, reruns>>

\* <-dependencyWaitCh[c], for a component that has such a channel.
ReceiveOptional(c) ==
  /\ pc[c] = "started"
  /\ tokens' = [tokens EXCEPT ![c] = 0]
  /\ GoTo(c, "ready")
  /\ UNCHANGED <<dryRun, main, toSpawn, loopVar, wg, objs, polls, toSignal,
                 external, reruns>>

Receive(c) ==
  /\ pc[c] = "started"
  /\ \/ /\ HasChannel(c)
        /\ tokens[c] > 0
        /\ tokens' = [tokens EXCEPT ![c] = @ - 1]
     \/ ~HasChannel(c) /\ UNCHANGED tokens
  /\ GoTo(c, "ready")
  /\ UNCHANGED <<dryRun, main, toSpawn, loopVar, wg, objs, polls, toSignal,
                 external, reruns>>

\* ParseObjectsFromYAMLManifest and the labels; nothing to do without objects.
Parse(c, os) ==
  /\ UNCHANGED external
  /\ \/ os = {} /\ Succeed(c)
     \/ /\ os # {}
        /\ objs' = [objs EXCEPT ![c] = os]
        /\ GoTo(c, "crdApply")
        /\ UNCHANGED <<dryRun, main, toSpawn, loopVar, wg, polls, toSignal, tokens, reruns>>

\* The manifest argument is evaluated when applyManifest is called: with one
\* variable m for the whole loop it is the manifest the loop reached last.
ReadManifest(c) ==
  LET m == IF SharedLoopVar THEN loopVar ELSE c
  IN  /\ pc[c] = "ready"
      /\ \/ m \notin Unparsable /\ Parse(c, ObjectsOf[m])
         \/ m \in Unparsable /\ Fail(c) /\ UNCHANGED external

\* While the loop still writes m the read is a data race: pointer and length
\* of the string may belong to two manifests.  Such text is a prefix of one
\* of them, or nothing that parses.
TornRead(c) ==
  /\ SharedLoopVar
  /\ pc[c] = "ready"
  /\ \E n \in toSpawn : \/ \E os \in SUBSET ObjectsOf[n] : Parse(c, os)
                        \/ Fail(c) /\ UNCHANGED external

\* kubectl apply creates S for goroutine c, or fails after part of S.  It refuses
\* an empty manifest: "no objects passed to apply".
Create(c, from, S, to) ==
  /\ pc[c] = from
  /\ UNCHANGED established
  /\ \/ dryRun /\ Proceed(c, to) /\ UNCHANGED cluster
     \/ ~dryRun /\ S # {} /\ cluster' = cluster \cup S /\ Proceed(c, to)
     \/ /\ ~dryRun /\ (MayFail \/ S = {})
        /\ \E part \in SUBSET S : cluster' = cluster \cup part
        /\ Fail(c)

\* What --prune deletes after S was applied: labelled objects of the listed
\* kinds, in the namespaces of S, that are not in S.  The selector is the
\* label that every component's objects carry.
Pruned(S) == {o \in (cluster \cap Prunable) \ S :
                \E s \in S : NamespaceOf[s] = NamespaceOf[o]}

\* The second half of kubectl apply --prune --selector, and how it may fail.
NoPrune(S) == UNCHANGED external

Prune(S) ==
  /\ cluster' = IF dryRun THEN cluster ELSE cluster \ Pruned(S)
  /\ UNCHANGED established

PruneFails(c, S) ==
  /\ ~dryRun /\ MayFail
  /\ \E part \in SUBSET Pruned(S) : cluster' = cluster \ part
  /\ UNCHANGED established
  /\ Fail(c)

\* The kubectl call that applies only the CRDs.
ApplyCRDs(c) ==
  \/ Create(c, "crdApply", objs[c] \cap CRD, "crdPrune")
  \/ pc[c] = "crdPrune" /\ Prune(objs[c] \cap CRD) /\ Proceed(c, "crdWait")
  \/ pc[c] = "crdPrune" /\ PruneFails(c, objs[c] \cap CRD)

\* The kubectl call that applies all the objects; then applyManifest is done.
ApplyObjects(c) ==
  \/ Create(c, "apply", objs[c], "prune")
  \/ pc[c] = "prune" /\ Prune(objs[c]) /\ Succeed(c)
  \/ pc[c] = "prune" /\ PruneFails(c, objs[c])

\* The condition function that wait.Poll runs.
AnyCRDReady(c) == objs[c] \cap CRD = {} \/ objs[c] \cap CRD \cap established # {}

CRDsReady(c) == objs[c] \cap CRD \subseteq established

\* One check of wait.Poll in waitForCRDs: all established, an error of Get
\* (a missing CRD among them), not yet, or timed out at the last check.  In a
\* dry run there is no check.
PollAlways(c) ==
  /\ pc[c] = "crdWait"
  /\ UNCHANGED external
  /\ \/ CRDsReady(c) /\ Proceed(c, "apply")
     \/ (MayFail \/ ~(objs[c] \cap CRD \subseteq cluster)) /\ Fail(c)

LatePoll(c) == polls[c] = MaxPolls

LastPoll(c) == polls[c] + 1 = MaxPolls

PollCRDs(c) ==
  /\ pc[c] = "crdWait"
  /\ UNCHANGED external
  /\ \/ dryRun /\ Proceed(c, "apply")
     \/ ~dryRun /\ CRDsReady(c) /\ Proceed(c, "apply")
     \/ /\ ~dryRun /\ (MayFail \/ ~(objs[c] \cap CRD \subseteq cluster))
        /\ Fail(c)
     \/ /\ ~dryRun /\ ~CRDsReady(c) /\ ~LastPoll(c)
        /\ polls' = [polls EXCEPT ![c] = @ + 1]
        /\ UNCHANGED <<dryRun, main, toSpawn, loopVar, wg, pc, objs, toSignal,
                       tokens, reruns>>
     \/ ~dryRun /\ ~CRDsReady(c) /\ LastPoll(c) /\ Fail(c)

\* dependencyWaitCh[ch] <- struct{}{}: blocks while the channel is full.
SignalTwice(c, ch) ==
  /\ pc[c] = "signal"
  /\ ch \in toSignal[c]
  /\ tokens[ch] = 0
  /\ tokens' = [tokens EXCEPT ![ch] = 1]
  /\ UNCHANGED <<dryRun, main, toSpawn, loopVar, wg, pc, objs, polls, toSignal,
                 external, reruns>>

Signal(c, ch) ==
  /\ pc[c] = "signal"
  /\ ch \in toSignal[c]
  /\ tokens[ch] = 0
  /\ tokens' = [tokens EXCEPT ![ch] = 1]
  /\ toSignal' = [toSignal EXCEPT ![c] = @ \ {ch}]
  /\ UNCHANGED <<dryRun, main, toSpawn, loopVar, wg, pc, objs, polls, external, reruns>>

\* wg.Done() after the last signal.
Done(c) ==
  /\ pc[c] = "signal"
  /\ toSignal[c] = {}
  /\ wg' = wg - 1
  /\ GoTo(c, "done")
  /\ UNCHANGED <<dryRun, main, toSpawn, loopVar, objs, polls, toSignal, tokens,
                 external, reruns>>

Goroutine(c) ==
  \/ Receive(c)
  \/ ReadManifest(c)
  \/ TornRead(c)
  \/ ApplyCRDs(c)
  \/ PollCRDs(c)
  \/ ApplyObjects(c)
  \/ \E ch \in Component : Signal(c, ch)
  \/ Done(c)
-----------------------------------------------------------------------------
(* The environment.                                                         *)

\* The API server establishes a CRD some time after it was created.
Establish(o) ==
  /\ o \in (cluster \cap CRD) \ established
  /\ established' = established \cup {o}
  /\ UNCHANGED <<process, cluster, reruns>>

\* The process ends or is interrupted, and the user runs it again: nothing of
\* it is kept but what it did to the cluster.
Rerun ==
  /\ reruns < MaxReruns
  /\ main # "start"
  /\ reruns' = reruns + 1
  /\ dryRun' \in BOOLEAN
  /\ main' = "start"
  /\ toSpawn' = Manifests
  /\ loopVar' = NoManifest
  /\ wg' = 0
  /\ pc' = [c \in Manifests |-> "unborn"]
  /\ objs' = [c \in Manifests |-> {}]
  /\ polls' = [c \in Manifests |-> 0]
  /\ toSignal' = [c \in Manifests |-> {}]
  /\ tokens' = [c \in Component |-> 0]
  /\ UNCHANGED external

Main == ConfigFails \/ StartApply \/ (\E c \in Manifests : Spawn(c)) \/ Return

Next ==
  \/ Main
  \/ \E c \in Manifests : Goroutine(c)
  \/ \E o \in CRD : Establish(o)
  \/ Rerun

Spec == Init /\ [][Next]_vars

\* The Go scheduler runs every goroutine that is not blocked, and kubectl
\* terminates.  Whether the API server establishes a CRD is not assumed.
FairSpec == /\ Spec
            /\ WF_vars(Main)
            /\ \A c \in Manifests : WF_vars(Goroutine(c))
-----------------------------------------------------------------------------
TypeOK ==
  /\ dryRun \in BOOLEAN
  /\ main \in {"start", "running", "returned", "error"}
  /\ toSpawn \in SUBSET Manifests
  /\ loopVar \in Manifests \cup {NoManifest}
  /\ wg \in Nat
  /\ pc \in [Manifests -> Steps]
  /\ objs \in [Manifests -> SUBSET Object]
  /\ polls \in [Manifests -> 0 .. MaxPolls - 1]
  /\ toSignal \in [Manifests -> SUBSET Component]
  /\ tokens \in [Component -> {0, 1}]
  /\ cluster \in SUBSET Object
  /\ established \in SUBSET CRD
  /\ reruns \in 0 .. MaxReruns

Applied == {c \in Manifests : pc[c] \in {"signal", "done"}}

\* No goroutine leaves its wait on dependencyWaitCh before the component it
\* depends on has been applied without an error.
DependencyOrder ==
  \A c \in Manifests : pc[c] \notin {"unborn", "started"} => Parents(c) \subseteq Applied

\* ApplyAll returns nil only after every component of the map was applied: the
\* counter of the WaitGroup never reaches zero early, whatever failed.
ReturnMeansApplied == main = "returned" => Applied = Manifests

\* A goroutine that signals its children never blocks on a full channel, so
\* the order of the children in the table does not matter.
SignalNeverBlocks ==
  \A c \in Manifests : pc[c] = "signal" => \A ch \in toSignal[c] : tokens[ch] = 0

\* Outside a dry run, a goroutine creates the objects that are not CRDs only
\* when each CRD of its own manifest is established.
CRDsFirst ==
  \A c \in Manifests : ~dryRun /\ pc[c] \in {"apply", "prune", "signal", "done"}
                           => objs[c] \cap CRD \subseteq established

\* Once the goroutines are started, a dry run needs neither a cluster nor
\* kubectl: only those fail that get text that does not parse.
DryRunNeedsNoCluster ==
  dryRun => \A c \in Manifests : /\ polls[c] = 0
                                 /\ objs[c] # {} => pc[c] # "failed"

\* ApplyAll comes to an end or some goroutine fails: no interleaving leaves
\* the goroutines waiting for each other's signals.
Progress == <>(main \in {"returned", "error"} \/ \E c \in Manifests : pc[c] = "failed")

\* Every run applies each component once, parents first, and ends after all.
Order == INSTANCE InstallOrder WITH applied <- Applied, finished <- main = "returned"
ImplementsOrder == Order!Spec

\* When ApplyAll has returned from a real run, every object of every manifest
\* is in the cluster.
InstallComplete ==
  main = "returned" /\ ~dryRun => \A c \in Manifests : ObjectsOf[c] \subseteq cluster

\* ... and no prunable object of an earlier installation that no manifest has
\* any more is left in a namespace the installation uses.
StaleRemoved ==
  main = "returned" /\ ~dryRun =>
    LET wanted == UNION {ObjectsOf[c] : c \in Manifests}
    IN  \A o \in (cluster \cap Prunable) \ wanted :
          \A w \in wanted : NamespaceOf[w] # NamespaceOf[o]

\* "istioComponentLabelStr indicates which Istio component a resource belongs
\* to": what a goroutine labels with its component, and applies, is of the
\* manifest of this component.
LabelsNameComponent == \A c \in Manifests : objs[c] \subseteq ObjectsOf[c]

\* "cRDPollTimeout is the maximum wait time for all CRDs to be created": when
\* the wait has timed out, the program does not go on waiting.
TimeoutEndsWait ==
  (\E c \in Manifests : pc[c] = "failed" /\ LastPoll(c)) ~> (main # "running")
=============================================================================
