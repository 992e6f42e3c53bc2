------------------------- MODULE InstallResultProofs -------------------------
(***************************************************************************)
(* What is in the cluster when ApplyAll has returned: proofs of            *)
(* StaleRemoved and InstallComplete for a range variable per iteration     *)
(* (~SharedLoopVar), the second for components that do not delete each     *)
(* other's objects.  Without these two conditions the formulas are false:  *)
(* see the runs captured_manifest and prune.                               *)
(***************************************************************************)
EXTENDS InstallerProofs

\* No prunable object of a component is in a namespace where another component
\* has an object.
OwnNamespacePerComponent ==
  \A c, d \in Manifests : c # d =>
    \A o \in ObjectsOf[c] \cap Prunable, s \in ObjectsOf[d] : NamespaceOf[o] # NamespaceOf[s]

\* From the parse on a goroutine holds all the objects of its own component.
OwnObjects ==
  \A c \in Manifests :
    pc[c] \notin {"unborn", "started", "ready", "failed"} => objs[c] = ObjectsOf[c]

\* What a goroutine has created with its last kubectl call stays.
Kept ==
  ~dryRun => \A c \in Manifests :
    pc[c] \in {"prune", "signal", "done"} => ObjectsOf[c] \subseteq cluster

Wanted == UNION {ObjectsOf[c] : c \in Manifests}

\* What the last kubectl call of a goroutine has pruned stays away: nothing that
\* no manifest has is prunable and shares a namespace with its objects.
Gone ==
  ~dryRun => \A c \in Manifests :
    pc[c] \in {"signal", "done"} =>
      \A o \in (cluster \cap Prunable) \ Wanted, w \in ObjectsOf[c] :
        NamespaceOf[w] # NamespaceOf[o]

\* What the two results rest on: a goroutine holds its own component's objects, what
\* it has created stays, and what it has pruned stays away.
ResultInv == OwnObjects /\ Kept /\ Gone
-----------------------------------------------------------------------------
(* What a goroutine's step may do to the cluster, besides moving the        *)
(* goroutine.                                                               *)

\* Nothing; it does not get past its kubectl calls, unless it had nothing to do.
Idle(c) ==
  /\ cluster' = cluster
  /\ pc'[c] \in {"prune", "signal", "done"} =>
       dryRun \/ ObjectsOf[c] = {} \/ pc[c] \in {"signal", "done"}

\* Objects of its component are created, all of them before it goes on to prune.
Creates(c) ==
  /\ \E part \in SUBSET ObjectsOf[c] :
       cluster' = cluster \cup part /\ (pc'[c] = "prune" => part = ObjectsOf[c])
  /\ pc'[c] \notin {"signal", "done"}

\* Objects are pruned, all that are prunable before it goes on to signal.
Deletes(c) ==
  /\ \E S \in SUBSET ObjectsOf[c] : \E part \in SUBSET Pruned(S) :
       /\ cluster' = cluster \ part
       /\ pc'[c] \in {"signal", "done"} =>
            pc[c] = "prune" /\ S = ObjectsOf[c] /\ part = Pruned(S)
  /\ pc'[c] # "prune"

Effect(c) ==
  /\ dryRun' = dryRun
  /\ \A d \in Manifests \ {c} : pc'[d] = pc[d] /\ objs'[d] = objs[d]
  /\ objs'[c] \in {objs[c], ObjectsOf[c]}
  /\ pc'[c] \notin {"unborn", "started", "ready", "failed"} => objs'[c] = ObjectsOf[c]
  /\ Idle(c) \/ Creates(c) \/ Deletes(c)

\* Every step of a goroutine has one of these effects.
LEMMA GoroutineEffect ==
  ASSUME ~SharedLoopVar, IInv, OwnObjects, NEW c \in Manifests, Goroutine(c)
  PROVE  Effect(c)
<1>t. TypeOK
  BY DEF IInv, DataInv
<1> USE DEF Effect, TypeOK, GoTo
<1>1. CASE Receive(c)
  BY <1>t, <1>1 DEF Receive, Idle, external
<1>2. CASE ReadManifest(c)
  <2>1. CASE Parse(c, ObjectsOf[c]) /\ pc[c] = "ready"
    <3>1. objs[c] = {}
      BY <2>1 DEF IInv, DataInv, ObjsInv
    <3> QED
      BY <1>t, <2>1, <3>1 DEF Parse, Succeed, Idle, external
  <2>2. CASE Fail(c) /\ UNCHANGED external
    BY <1>t, <2>2 DEF Fail, Idle, external
  <2> QED
    BY <1>2, <2>1, <2>2 DEF ReadManifest
<1>3. ~TornRead(c)
  BY DEF TornRead
<1>4. ASSUME NEW from \in {"crdApply", "apply"}, NEW S \in SUBSET ObjectsOf[c],
             from = "apply" => S = ObjectsOf[c], objs[c] = ObjectsOf[c],
             Create(c, from, S, IF from = "apply" THEN "prune" ELSE "crdPrune")
      PROVE  Effect(c)
  <2> DEFINE to == IF from = "apply" THEN "prune" ELSE "crdPrune"
  <2>1. CASE dryRun /\ Proceed(c, to) /\ UNCHANGED cluster
    BY <1>t, <1>4, <2>1 DEF Proceed, Idle
  <2>2. CASE ~dryRun /\ cluster' = cluster \cup S /\ Proceed(c, to)
    BY <1>t, <1>4, <2>2 DEF Proceed, Creates
  <2>3. CASE (\E part \in SUBSET S : cluster' = cluster \cup part) /\ Fail(c)
    BY <1>t, <1>4, <2>3 DEF Fail, Creates
  <2> QED
    BY <1>4, <2>1, <2>2, <2>3 DEF Create
<1>5. ASSUME NEW S \in SUBSET ObjectsOf[c], PruneFails(c, S)
      PROVE  Effect(c)
  BY <1>t, <1>5 DEF PruneFails, Fail, Deletes
<1>6. CASE ApplyCRDs(c)
  <2>1. pc[c] \in {"crdApply", "crdPrune"} /\ objs[c] = ObjectsOf[c]
    BY <1>6 DEF ApplyCRDs, Create, OwnObjects
  <2>2. CASE Create(c, "crdApply", objs[c] \cap CRD, "crdPrune")
    BY <1>4, <2>1, <2>2
  <2>3. CASE pc[c] = "crdPrune" /\ Prune(objs[c] \cap CRD) /\ Proceed(c, "crdWait")
    BY <1>t, <2>1, <2>3 DEF Prune, Proceed, Idle, Deletes
  <2>4. CASE PruneFails(c, objs[c] \cap CRD)
    BY <1>5, <2>1, <2>4
  <2> QED
    BY <1>6, <2>2, <2>3, <2>4 DEF ApplyCRDs
<1>7. CASE PollCRDs(c)
  <2>1. pc[c] = "crdWait" /\ objs[c] = ObjectsOf[c] /\ cluster' = cluster
    BY <1>7 DEF PollCRDs, OwnObjects, external
  <2>2. CASE Proceed(c, "apply") \/ Fail(c)
    BY <1>t, <2>1, <2>2 DEF Proceed, Fail, Idle
  <2>3. CASE UNCHANGED <<dryRun, pc, objs>>
    BY <2>1, <2>3 DEF Idle
  <2> QED
    BY <1>7, <2>2, <2>3 DEF PollCRDs
<1>8. CASE ApplyObjects(c)
  <2>1. pc[c] \in {"apply", "prune"} /\ objs[c] = ObjectsOf[c]
    BY <1>8 DEF ApplyObjects, Create, OwnObjects
  <2>2. CASE Create(c, "apply", objs[c], "prune")
    BY <1>4, <2>1, <2>2
  <2>3. CASE pc[c] = "prune" /\ Prune(objs[c]) /\ Succeed(c)
    BY <1>t, <2>1, <2>3 DEF Prune, Succeed, Idle, Deletes
  <2>4. CASE PruneFails(c, objs[c])
    BY <1>5, <2>1, <2>4
  <2> QED
    BY <1>8, <2>2, <2>3, <2>4 DEF ApplyObjects
<1>9. CASE (\E ch \in Component : Signal(c, ch)) \/ Done(c)
  BY <1>t, <1>9 DEF Signal, Done, OwnObjects, Idle, external
<1> QED
  BY <1>1, <1>2, <1>3, <1>6, <1>7, <1>8, <1>9 DEF Goroutine

\* A step that leaves the cluster and the goroutines past the parse alone.
LEMMA OtherEffect ==
  ASSUME IInv, Main \/ Rerun \/ (\E o \in CRD : Establish(o)) \/ UNCHANGED vars
  PROVE  /\ cluster' = cluster
         /\ \A c \in Manifests : objs'[c] \in {objs[c], {}}
         /\ \A c \in Manifests :
              pc'[c] \notin {"unborn", "started", "ready", "failed"} =>
                /\ pc'[c] = pc[c] /\ objs'[c] = objs[c]
                /\ dryRun' = dryRun
<1>1. CASE ConfigFails \/ StartApply \/ Return
  BY <1>1 DEF ConfigFails, StartApply, Return, external
<1>2. CASE \E c \in Manifests : Spawn(c)
  BY <1>2 DEF Spawn, GoTo, external, IInv, DataInv, TypeOK
<1>3. CASE Rerun
  BY <1>3 DEF Rerun, external
<1>4. CASE \E o \in CRD : Establish(o)
  BY <1>4 DEF Establish, process
<1>5. CASE UNCHANGED vars
  BY <1>5 DEF vars, process, external
<1> QED
  BY <1>1, <1>2, <1>3, <1>4, <1>5 DEF Main

\* OwnObjects is preserved, whatever the namespaces are.
LEMMA OwnObjectsStep ==
  ASSUME ~SharedLoopVar, IInv, OwnObjects, [Next]_vars
  PROVE  OwnObjects'
<1>1. CASE \E c \in Manifests : Goroutine(c)
  <2>1. PICK c \in Manifests : Effect(c)
    BY <1>1, GoroutineEffect
  <2> QED
    BY <2>1 DEF Effect, OwnObjects
<1>2. CASE Main \/ Rerun \/ (\E o \in CRD : Establish(o)) \/ UNCHANGED vars
  BY <1>2, OtherEffect DEF OwnObjects
<1> QED
  BY <1>1, <1>2 DEF Next

\* The objects of an installation that no manifest has any more stay away:
\* only objects of manifests are created.
LEMMA GoneStep ==
  ASSUME ~SharedLoopVar, IInv, OwnObjects, Gone, [Next]_vars
  PROVE  Gone'
<1>1. CASE \E c \in Manifests : Goroutine(c)
  <2>1. PICK c \in Manifests : Effect(c)
    BY <1>1, GoroutineEffect
  <2>2. ObjectsOf[c] \subseteq Wanted
    BY DEF Wanted
  <2>3. cluster' \ Wanted \subseteq cluster \ Wanted
    BY <2>1, <2>2 DEF Effect, Idle, Creates, Deletes
  <2>4. Wanted' = Wanted
    BY DEF Wanted
  <2> SUFFICES ASSUME ~dryRun, NEW d \in Manifests, pc'[d] \in {"signal", "done"},
                      NEW o \in (cluster' \cap Prunable) \ Wanted, NEW w \in ObjectsOf[d]
               PROVE  NamespaceOf[w] # NamespaceOf[o]
    BY <2>1, <2>4 DEF Gone, Effect
  <2>5. o \in (cluster \cap Prunable) \ Wanted
    BY <2>3
  <2>6. CASE pc[d] \in {"signal", "done"}
    BY <2>5, <2>6 DEF Gone
  <2>7. CASE pc[d] \notin {"signal", "done"}
    <3>1. d = c /\ Deletes(c)
      BY <2>1, <2>7 DEF Effect, Idle, Creates
    <3>2. o \notin Pruned(ObjectsOf[c])
      BY <3>1 DEF Deletes
    <3>3. o \notin ObjectsOf[c]
      BY <2>2
    <3> QED
      BY <2>5, <3>1, <3>2, <3>3 DEF Pruned
  <2> QED
    BY <2>6, <2>7
<1>2. CASE Main \/ Rerun \/ (\E o \in CRD : Establish(o)) \/ UNCHANGED vars
  BY <1>2, OtherEffect DEF Gone, Wanted
<1> QED
  BY <1>1, <1>2 DEF Next

\* In namespaces of its own, what a component has created is not pruned by
\* another one.
LEMMA KeptStep ==
  ASSUME ~SharedLoopVar, OwnNamespacePerComponent, IInv, OwnObjects, Kept, [Next]_vars
  PROVE  Kept'
<1>1. CASE \E c \in Manifests : Goroutine(c)
  <2>1. PICK c \in Manifests : Effect(c)
    BY <1>1, GoroutineEffect
  <2> SUFFICES ASSUME ~dryRun, NEW d \in Manifests, pc'[d] \in {"prune", "signal", "done"}
               PROVE  ObjectsOf[d] \subseteq cluster'
    BY <2>1 DEF Kept, Effect
  <2>2. CASE Idle(c)
    BY <2>1, <2>2 DEF Effect, Idle, Kept
  <2>3. CASE Creates(c)
    BY <2>1, <2>3 DEF Effect, Creates, Kept
  <2>4. CASE Deletes(c)
    <3>1. PICK S \in SUBSET ObjectsOf[c] :
            /\ cluster \ Pruned(S) \subseteq cluster'
            /\ pc'[c] \in {"signal", "done"} => pc[c] = "prune" /\ S = ObjectsOf[c]
      BY <2>4 DEF Deletes
    <3>2. ObjectsOf[d] \subseteq cluster
      BY <2>1, <2>4, <3>1 DEF Effect, Deletes, Kept
    <3>3. CASE d = c
      <4>1. S = ObjectsOf[c]
        BY <2>4, <3>1, <3>3 DEF Deletes
      <4> QED
        BY <3>1, <3>2, <3>3, <4>1 DEF Pruned
    <3>4. CASE d # c
      <4>1. ObjectsOf[d] \cap Pruned(S) = {}
        BY <3>4 DEF Pruned, OwnNamespacePerComponent
      <4> QED
        BY <3>1, <3>2, <4>1
    <3> QED
      BY <3>3, <3>4
  <2> QED
    BY <2>1, <2>2, <2>3, <2>4 DEF Effect
<1>2. CASE Main \/ Rerun \/ (\E o \in CRD : Establish(o)) \/ UNCHANGED vars
  BY <1>2, OtherEffect DEF Kept
<1> QED
  BY <1>1, <1>2 DEF Next
-----------------------------------------------------------------------------
\* When ApplyAll has returned, every goroutine is done.
LEMMA ReturnedDone ==
  ASSUME IInv, main = "returned"
  PROVE  \A c \in Manifests : pc[c] = "done"
BY DEF IInv, ControlInv, LoopInv

\* With a range variable per iteration, no rerun leaves anything prunable of an
\* earlier installation in a namespace it uses, in whatever order and however
\* often kubectl calls fail before.
THEOREM StaleRemovedHolds == ~SharedLoopVar => (Spec => []StaleRemoved)
<1> SUFFICES ASSUME ~SharedLoopVar
             PROVE  Spec => []StaleRemoved
  OBVIOUS
<1>1. Init => OwnObjects /\ Gone
  BY DEF Init, OwnObjects, Gone
<1>2. IInv /\ OwnObjects /\ Gone /\ [Next]_vars => OwnObjects' /\ Gone'
  BY OwnObjectsStep, GoneStep
<1>3. IInv /\ Gone => StaleRemoved
  BY ReturnedDone DEF Gone, StaleRemoved, Wanted
<1> QED
  BY <1>1, <1>2, <1>3, Invariance, PTL DEF Spec

\* If the components have namespaces of their own besides, every object of every
\* manifest is in the cluster when ApplyAll has returned from a real run.
THEOREM InstallCompleteHolds ==
  ~SharedLoopVar /\ OwnNamespacePerComponent => (Spec => []InstallComplete)
<1> SUFFICES ASSUME ~SharedLoopVar, OwnNamespacePerComponent
             PROVE  Spec => []InstallComplete
  OBVIOUS
<1>1. Init => OwnObjects /\ Kept
  BY DEF Init, OwnObjects, Kept
<1>2. IInv /\ OwnObjects /\ Kept /\ [Next]_vars => OwnObjects' /\ Kept'
  BY OwnObjectsStep, KeptStep
<1>3. IInv /\ Kept => InstallComplete
  BY ReturnedDone DEF Kept, InstallComplete
<1> QED
  BY <1>1, <1>2, <1>3, Invariance, PTL DEF Spec

\* With a range variable per iteration a goroutine labels only objects of its
\* own component's manifest.
THEOREM LabelsHold == ~SharedLoopVar => (Spec => []LabelsNameComponent)
<1> SUFFICES ASSUME ~SharedLoopVar
             PROVE  Spec => []LabelsNameComponent
  OBVIOUS
<1>1. Init => OwnObjects /\ LabelsNameComponent
  BY DEF Init, OwnObjects, LabelsNameComponent
<1>2. IInv /\ OwnObjects /\ LabelsNameComponent /\ [Next]_vars =>
        OwnObjects' /\ LabelsNameComponent'
  <2> SUFFICES ASSUME IInv, OwnObjects, LabelsNameComponent, [Next]_vars
               PROVE  LabelsNameComponent'
    BY OwnObjectsStep
  <2>1. CASE \E c \in Manifests : Goroutine(c)
    <3>1. PICK c \in Manifests : Effect(c)
      BY <2>1, GoroutineEffect
    <3> QED
      BY <3>1 DEF Effect, LabelsNameComponent
  <2>2. CASE Main \/ Rerun \/ (\E o \in CRD : Establish(o)) \/ UNCHANGED vars
    BY <2>2, OtherEffect DEF LabelsNameComponent
  <2> QED
    BY <2>1, <2>2 DEF Next
<1> QED
  BY <1>1, <1>2, Invariance, PTL DEF Spec
\* The three parts hold together: in namespaces of its own a goroutine's work is
\* undone by no other one, whichever kubectl calls fail and whoever runs again.
THEOREM ResultInvariance ==
  ~SharedLoopVar /\ OwnNamespacePerComponent => (Spec => []ResultInv)
<1> SUFFICES ASSUME ~SharedLoopVar, OwnNamespacePerComponent
             PROVE  Spec => []ResultInv
  OBVIOUS
<1>1. Init => ResultInv
  BY DEF Init, ResultInv, OwnObjects, Kept, Gone
<1>2. IInv /\ ResultInv /\ [Next]_vars => ResultInv'
  BY OwnObjectsStep, KeptStep, GoneStep DEF ResultInv
<1> QED
  BY <1>1, <1>2, Invariance, PTL DEF Spec

=============================================================================
