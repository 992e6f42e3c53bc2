--------------------------- MODULE InstallerProofs ---------------------------
(***************************************************************************)
(* Proofs about Installer for every dependency table, manifest map, object *)
(* set and bound: type correctness, the order of components, the counter   *)
(* of the WaitGroup, the channels, the CRDs, and the implementation of     *)
(* InstallOrder.  Runs of MCInstaller check the same formulas, and the     *)
(* invariant IInv, on a small instance.                                    *)
(***************************************************************************)
EXTENDS Installer, FiniteSetTheorems, TLAPS

\* The steps of a goroutine inside applyManifest.
Inside == {"ready", "crdApply", "crdPrune", "crdWait", "apply", "prune"}

\* The goroutines that have called wg.Add(1) and not wg.Done().
Pending == {c \in Manifests : pc[c] \notin {"unborn", "done"}}

WgInv == wg = Cardinality(Pending)

\* The loop variable is set once a goroutine runs; the loop's progress.
LoopInv ==
  /\ toSpawn = {c \in Manifests : pc[c] = "unborn"}
  /\ main # "running" => main = "returned" \/ toSpawn = Manifests
  /\ toSpawn # Manifests => loopVar \in Manifests
  /\ main = "returned" => \A c \in Manifests : pc[c] = "done"

\* A token is in a child's channel only after the parent was applied.
TokenInv ==
  \A p \in Component : \A ch \in Dependencies[p] :
    tokens[ch] = 1 => p \in Applied /\ ch \notin toSignal[p]

\* What is still to be signalled was neither sent nor received yet.
SignalInv ==
  \A c \in Manifests :
    /\ pc[c] # "signal" => toSignal[c] = {}
    /\ toSignal[c] \subseteq Dependencies[c]
    /\ \A ch \in toSignal[c] :
         /\ tokens[ch] = 0
         /\ ch \in Manifests => pc[ch] \in {"unborn", "started"}

\* A goroutine that has not parsed its manifest holds no objects.
ObjsInv ==
  \A c \in Manifests : pc[c] \in {"unborn", "started", "ready"} => objs[c] = {}

ControlInv == WgInv /\ LoopInv /\ DependencyOrder /\ TokenInv /\ SignalInv
DataInv == TypeOK /\ ObjsInv /\ CRDsFirst
\* The inductive invariant: the WaitGroup's counter, the channels and the goroutines fit
\* together, and so do the objects they hold and the CRDs they wait for.
IInv == ControlInv /\ DataInv
-----------------------------------------------------------------------------
\* The set of pending goroutines is finite, so its cardinality is a number.
LEMMA PendingFinite == IsFiniteSet(Pending) /\ Cardinality(Pending) \in Nat
BY ComponentAssumption, FS_Subset, FS_CardinalityType DEF Pending

\* A goroutine that moves on inside applyManifest, or fails there, keeps the
\* control invariant: it neither signals nor leaves the WaitGroup.
LEMMA StayInside ==
  ASSUME IInv, NEW c \in Manifests, NEW step \in Inside \cup {"failed"},
         pc[c] \in Inside, GoTo(c, step),
         UNCHANGED <<main, toSpawn, loopVar, wg, toSignal, tokens>>
  PROVE  ControlInv'
<1> USE DEF IInv, ControlInv, DataInv, TypeOK, GoTo, Inside
<1>1. Pending' = Pending
  BY DEF Pending
<1>2. WgInv'
  BY <1>1 DEF WgInv
<1>3. LoopInv'
  BY DEF LoopInv
<1>4. Applied' = Applied
  BY DEF Applied
<1>5. DependencyOrder'
  BY <1>4 DEF DependencyOrder
<1>6. TokenInv'
  BY <1>4 DEF TokenInv
<1>7. SignalInv'
  BY DEF SignalInv
<1> QED
  BY <1>2, <1>3, <1>5, <1>6, <1>7

\* A goroutine whose applyManifest returns nil keeps the control invariant:
\* its children are all waiting, and none of their channels holds a token.
LEMMA LeaveInside ==
  ASSUME IInv, NEW c \in Manifests, pc[c] \in Inside, Succeed(c)
  PROVE  ControlInv'
<1> USE DEF IInv, ControlInv, DataInv, TypeOK, GoTo, Inside, Succeed
<1>1. Pending' = Pending
  BY DEF Pending
<1>2. WgInv'
  BY <1>1 DEF WgInv
<1>3. LoopInv'
  BY DEF LoopInv
<1>4. Applied' = Applied \cup {c}
  BY DEF Applied
<1>5. DependencyOrder'
  BY <1>4 DEF DependencyOrder
<1>6. c \notin Applied
  BY DEF Applied
<1>7. \A ch \in Dependencies[c] :
         tokens[ch] = 0 /\ (ch \in Manifests => pc[ch] \in {"unborn", "started"})
  <2> TAKE ch \in Dependencies[c]
  <2>1. c \in Component /\ ch \in Component /\ c \in Parents(ch)
    BY ComponentAssumption DEF Parents
  <2>2. tokens[ch] # 1
    BY <1>6, <2>1 DEF TokenInv
  <2>3. ch \in Manifests => pc[ch] \in {"unborn", "started"}
    BY <1>6, <2>1 DEF DependencyOrder
  <2> QED
    BY <2>1, <2>2, <2>3
<1>8. \A p \in Component : p # c => Dependencies[p] \cap Dependencies[c] = {}
  BY ComponentAssumption, ParentAssumption DEF Parents
<1>9. TokenInv'
  BY <1>4, <1>7, ComponentAssumption DEF TokenInv
<1>10. c \notin Dependencies[c]
  BY ComponentAssumption, ParentAssumption DEF Parents
<1>11. SignalInv'
  <2> SUFFICES ASSUME NEW d \in Manifests
               PROVE  /\ pc'[d] # "signal" => toSignal'[d] = {}
                      /\ toSignal'[d] \subseteq Dependencies[d]
                      /\ \A ch \in toSignal'[d] :
                           /\ tokens'[ch] = 0
                           /\ ch \in Manifests => pc'[ch] \in {"unborn", "started"}
    BY DEF SignalInv
  <2>1. CASE d = c
    BY <2>1, <1>7, <1>10, ComponentAssumption
  <2>2. CASE d # c
    BY <2>2, ComponentAssumption DEF SignalInv
  <2> QED
    BY <2>1, <2>2
<1> QED
  BY <1>2, <1>3, <1>5, <1>9, <1>11
-----------------------------------------------------------------------------
\* The steps inside applyManifest, one lemma for each way kubectl, the parser
\* and the CRD wait can go.

\* Parsing os, or failing to: the goroutine holds exactly the objects parsed.
LEMMA ParseStep ==
  ASSUME IInv, NEW c \in Manifests, pc[c] = "ready", NEW os \in SUBSET Object,
         Parse(c, os)
  PROVE  IInv'
<1>1. objs[c] = {}
  BY DEF IInv, DataInv, ObjsInv
<1>2. CASE Succeed(c) /\ UNCHANGED external
  <2>1. ControlInv'
    BY <1>2, LeaveInside DEF Inside
  <2>2. DataInv'
    BY <1>1, <1>2, ComponentAssumption
    DEF IInv, DataInv, TypeOK, ObjsInv, CRDsFirst, Succeed, GoTo, external, Steps
  <2> QED
    BY <2>1, <2>2 DEF IInv
<1>3. CASE /\ objs' = [objs EXCEPT ![c] = os]
           /\ GoTo(c, "crdApply")
           /\ UNCHANGED <<dryRun, main, toSpawn, loopVar, wg, polls, toSignal, tokens, reruns>>
           /\ UNCHANGED external
  <2>1. ControlInv'
    BY <1>3, StayInside DEF Inside
  <2>2. DataInv'
    BY <1>3 DEF IInv, DataInv, TypeOK, ObjsInv, CRDsFirst, GoTo, external, Steps
  <2> QED
    BY <2>1, <2>2 DEF IInv
<1> QED
  BY <1>2, <1>3 DEF Parse

\* Failing inside applyManifest, whatever the failure did to the cluster.
LEMMA FailStep ==
  ASSUME IInv, NEW c \in Manifests, pc[c] \in Inside, Fail(c),
         cluster' \in SUBSET Object, UNCHANGED established
  PROVE  IInv'
<1>1. ControlInv'
  BY StayInside DEF Fail
<1>2. DataInv'
  BY DEF IInv, DataInv, TypeOK, ObjsInv, CRDsFirst, Fail, GoTo, Inside, Steps
<1> QED
  BY <1>1, <1>2 DEF IInv

\* Moving on inside applyManifest; to "apply" only with the CRDs established.
LEMMA ProceedStep ==
  ASSUME IInv, NEW c \in Manifests, pc[c] \in Inside \ {"ready"},
         NEW step \in Inside \ {"ready"}, Proceed(c, step),
         ~dryRun /\ step \in {"apply", "prune"} => objs[c] \cap CRD \subseteq established,
         cluster' \in SUBSET Object, UNCHANGED established
  PROVE  IInv'
<1>1. ControlInv'
  BY StayInside DEF Proceed
<1>2. DataInv'
  BY DEF IInv, DataInv, TypeOK, ObjsInv, CRDsFirst, Proceed, GoTo, Inside, Steps
<1> QED
  BY <1>1, <1>2 DEF IInv

\* Finishing the last kubectl call.
LEMMA SucceedStep ==
  ASSUME IInv, NEW c \in Manifests, pc[c] = "prune", Succeed(c),
         cluster' \in SUBSET Object, UNCHANGED established
  PROVE  IInv'
<1>1. ControlInv'
  BY LeaveInside DEF Inside
<1>2. DataInv'
  BY ComponentAssumption
  DEF IInv, DataInv, TypeOK, ObjsInv, CRDsFirst, Succeed, GoTo, Steps
<1> QED
  BY <1>1, <1>2 DEF IInv

\* Both kubectl calls that create objects.
LEMMA CreateStep ==
  ASSUME IInv, NEW c \in Manifests, NEW S \in SUBSET Object,
         NEW from \in {"crdApply", "apply"},
         Create(c, from, S, IF from = "crdApply" THEN "crdPrune" ELSE "prune")
  PROVE  IInv'
<1> DEFINE to == IF from = "crdApply" THEN "crdPrune" ELSE "prune"
<1>1. pc[c] = from /\ UNCHANGED established
  BY DEF Create
<1>2. cluster \in SUBSET Object
  BY DEF IInv, DataInv, TypeOK
<1>3. ~dryRun /\ to \in {"apply", "prune"} => objs[c] \cap CRD \subseteq established
  BY <1>1 DEF IInv, DataInv, CRDsFirst
<1>4. CASE Proceed(c, to) /\ cluster' \in SUBSET Object
  BY <1>1, <1>3, <1>4, ProceedStep DEF Inside
<1>5. CASE Fail(c) /\ cluster' \in SUBSET Object
  BY <1>1, <1>5, FailStep DEF Inside
<1> QED
  BY <1>2, <1>4, <1>5 DEF Create

\* What the two prune phases may do to the cluster.
LEMMA PruneType ==
  ASSUME IInv, NEW S \in SUBSET Object
  PROVE  /\ Prune(S) => cluster' \in SUBSET Object /\ UNCHANGED established
         /\ \A c \in Manifests : PruneFails(c, S) =>
              cluster' \in SUBSET Object /\ UNCHANGED established /\ Fail(c)
BY DEF IInv, DataInv, TypeOK, Prune, PruneFails

\* Every step of a goroutine preserves the invariant.
LEMMA GoroutineStep ==
  ASSUME IInv, NEW c \in Manifests, Goroutine(c)
  PROVE  IInv'
<1>t. TypeOK
  BY DEF IInv, DataInv
<1>1. CASE Receive(c)
  <2> USE <1>1, <1>t DEF IInv, ControlInv, DataInv, Receive, GoTo, external
  <2>1. Pending' = Pending
    BY DEF Pending, TypeOK
  <2>2. Applied' = Applied
    BY DEF Applied, TypeOK
  <2>3. c \in Component /\ Parents(c) \subseteq Applied
    BY ComponentAssumption DEF HasChannel, TokenInv, Parents, TypeOK
  <2>4. WgInv' /\ LoopInv'
    BY <2>1 DEF WgInv, LoopInv, TypeOK
  <2>5. DependencyOrder'
    BY <2>2, <2>3 DEF DependencyOrder, TypeOK
  <2>6. TokenInv'
    BY <2>2, ComponentAssumption DEF TokenInv, TypeOK
  <2>7. \A d \in Manifests : c \notin toSignal[d]
    <3> SUFFICES ASSUME NEW d \in Manifests, c \in toSignal[d]
                 PROVE  FALSE
      OBVIOUS
    <3>1. d \in Parents(c) /\ tokens[c] = 0
      BY ComponentAssumption DEF SignalInv, Parents
    <3> QED
      BY <3>1 DEF HasChannel
  <2>8. SignalInv'
    BY <2>7 DEF SignalInv, TypeOK
  <2>9. DataInv'
    BY <2>3 DEF ObjsInv, CRDsFirst, TypeOK, Steps
  <2> QED
    BY <2>4, <2>5, <2>6, <2>8, <2>9
<1>2. CASE ReadManifest(c)
  <2> DEFINE m == IF SharedLoopVar THEN loopVar ELSE c
  <2>1. pc[c] = "ready" /\ c \notin toSpawn
    BY <1>2 DEF ReadManifest, IInv, ControlInv, LoopInv
  <2>2. m \in Manifests
    BY <2>1 DEF IInv, ControlInv, LoopInv
  <2>3. CASE Parse(c, ObjectsOf[m])
    BY <2>1, <2>2, <2>3, ParseStep, ObjectAssumption
  <2>4. CASE Fail(c) /\ UNCHANGED external
    BY <1>t, <2>1, <2>4, FailStep DEF external, TypeOK, Inside
  <2> QED
    BY <1>2, <2>3, <2>4 DEF ReadManifest
<1>3. CASE TornRead(c)
  <2>1. pc[c] = "ready"
    BY <1>3 DEF TornRead
  <2>2. PICK n \in toSpawn : (\E os \in SUBSET ObjectsOf[n] : Parse(c, os))
                              \/ (Fail(c) /\ UNCHANGED external)
    BY <1>3 DEF TornRead
  <2>3. CASE \E os \in SUBSET ObjectsOf[n] : Parse(c, os)
    <3>1. PICK os \in SUBSET ObjectsOf[n] : Parse(c, os)
      BY <2>3
    <3>2. os \in SUBSET Object
      BY <1>t, ObjectAssumption DEF TypeOK
    <3> QED
      BY <2>1, <3>1, <3>2, ParseStep
  <2>4. CASE Fail(c) /\ UNCHANGED external
    BY <1>t, <2>1, <2>4, FailStep DEF external, TypeOK, Inside
  <2> QED
    BY <2>2, <2>3, <2>4
<1>4. CASE ApplyCRDs(c)
  <2>s. objs[c] \cap CRD \in SUBSET Object
    BY <1>t DEF TypeOK
  <2>1. CASE Create(c, "crdApply", objs[c] \cap CRD, "crdPrune")
    BY <2>s, <2>1, CreateStep
  <2>2. CASE pc[c] = "crdPrune" /\ Prune(objs[c] \cap CRD) /\ Proceed(c, "crdWait")
    BY <2>s, <2>2, PruneType, ProceedStep DEF Inside
  <2>3. CASE pc[c] = "crdPrune" /\ PruneFails(c, objs[c] \cap CRD)
    BY <2>s, <2>3, PruneType, FailStep DEF Inside
  <2> QED
    BY <1>4, <2>1, <2>2, <2>3 DEF ApplyCRDs
<1>5. CASE PollCRDs(c)
  <2>1. pc[c] = "crdWait" /\ UNCHANGED established /\ cluster' \in SUBSET Object
    BY <1>5, <1>t DEF PollCRDs, external, TypeOK
  <2>2. CASE Proceed(c, "apply") /\ (dryRun \/ CRDsReady(c))
    BY <2>1, <2>2, ProceedStep DEF CRDsReady, Inside
  <2>3. CASE Fail(c)
    BY <2>1, <2>3, FailStep DEF Inside
  <2>4. CASE /\ ~LastPoll(c)
             /\ polls' = [polls EXCEPT ![c] = @ + 1]
             /\ UNCHANGED <<dryRun, main, toSpawn, loopVar, wg, pc, objs, toSignal,
                            tokens, reruns>>
    <3>1. ControlInv'
      BY <2>4 DEF IInv, ControlInv, WgInv, Pending, LoopInv, DependencyOrder, TokenInv,
                  SignalInv, Applied
    <3>2. DataInv'
      BY <2>1, <2>4, BoundAssumption DEF IInv, DataInv, TypeOK, ObjsInv, CRDsFirst, LastPoll
    <3> QED
      BY <3>1, <3>2 DEF IInv
  <2> QED
    BY <1>5, <2>2, <2>3, <2>4 DEF PollCRDs
<1>6. CASE ApplyObjects(c)
  <2>s. objs[c] \in SUBSET Object
    BY <1>t DEF TypeOK
  <2>1. CASE Create(c, "apply", objs[c], "prune")
    BY <2>s, <2>1, CreateStep
  <2>2. CASE pc[c] = "prune" /\ Prune(objs[c]) /\ Succeed(c)
    BY <2>s, <2>2, PruneType, SucceedStep
  <2>3. CASE pc[c] = "prune" /\ PruneFails(c, objs[c])
    BY <2>s, <2>3, PruneType, FailStep DEF Inside
  <2> QED
    BY <1>6, <2>1, <2>2, <2>3 DEF ApplyObjects
<1>7. ASSUME NEW ch \in Component, Signal(c, ch)
      PROVE  IInv'
  <2> USE <1>7, <1>t DEF IInv, ControlInv, DataInv, Signal, external
  <2>1. Pending' = Pending /\ Applied' = Applied
    BY DEF Pending, Applied
  <2>2. WgInv' /\ LoopInv' /\ DependencyOrder'
    BY <2>1 DEF WgInv, LoopInv, DependencyOrder
  <2>3. c \in Parents(ch) /\ c \in Applied /\ Parents(ch) = {c}
    <3>1. c \in Parents(ch)
      BY ComponentAssumption DEF SignalInv, Parents
    <3> QED
      BY <3>1, ParentAssumption DEF Applied
  <2>4. TokenInv'
    BY <2>1, <2>3, ComponentAssumption DEF TokenInv, TypeOK, Parents
  <2>5. SignalInv'
    BY <2>3, ComponentAssumption DEF SignalInv, TypeOK, Parents
  <2>6. DataInv'
    BY DEF ObjsInv, CRDsFirst, TypeOK
  <2> QED
    BY <2>2, <2>4, <2>5, <2>6
<1>8. CASE Done(c)
  <2> USE <1>8, <1>t DEF IInv, ControlInv, DataInv, Done, GoTo, external
  <2>1. Pending' = Pending \ {c} /\ c \in Pending
    BY DEF Pending, TypeOK
  <2>2. Cardinality(Pending') = wg - 1 /\ wg - 1 \in Nat
    <3>1. IsFiniteSet(Pending')
      BY <2>1, PendingFinite, FS_Subset
    <3>2. Cardinality(Pending') \in Nat
      BY <3>1, FS_CardinalityType
    <3>3. Cardinality(Pending') = Cardinality(Pending) - 1
      BY <2>1, PendingFinite, FS_RemoveElement
    <3> QED
      BY <3>2, <3>3 DEF WgInv
  <2>3. Applied' = Applied
    BY DEF Applied, TypeOK
  <2>4. WgInv' /\ LoopInv'
    BY <2>2 DEF WgInv, LoopInv, TypeOK
  <2>5. DependencyOrder'
    BY <2>3 DEF DependencyOrder, TypeOK
  <2>6. TokenInv'
    BY <2>3 DEF TokenInv
  <2>7. SignalInv'
    BY DEF SignalInv, TypeOK
  <2>8. DataInv'
    BY <2>2 DEF ObjsInv, CRDsFirst, TypeOK, Steps
  <2> QED
    BY <2>4, <2>5, <2>6, <2>7, <2>8
<1> QED
  BY <1>1, <1>2, <1>3, <1>4, <1>5, <1>6, <1>7, <1>8 DEF Goroutine

\* The goroutine of ApplyAll, the API server and a rerun preserve it too.
LEMMA MainStep ==
  ASSUME IInv, Main
  PROVE  IInv'
<1> USE DEF IInv, ControlInv, DataInv, external
<1>1. CASE ConfigFails \/ StartApply \/ Return
  <2> USE <1>1 DEF ConfigFails, StartApply, Return
  <2>1. Pending' = Pending /\ Applied' = Applied
    BY DEF Pending, Applied
  <2>2. CASE ConfigFails \/ StartApply
    <3>1. toSpawn = Manifests
      BY <2>2 DEF LoopInv
    <3>2. ControlInv'
      BY <2>1, <2>2, <3>1 DEF WgInv, LoopInv, DependencyOrder, TokenInv, SignalInv
    <3> QED
      BY <2>2, <3>2 DEF TypeOK, ObjsInv, CRDsFirst
  <2>3. CASE Return
    <3>1. Pending = {}
      BY <2>3, PendingFinite, FS_EmptySet, ComponentAssumption, FS_Subset DEF WgInv
    <3>2. \A c \in Manifests : pc[c] = "done"
      BY <2>3, <3>1 DEF Pending, LoopInv
    <3>3. ControlInv'
      BY <2>1, <2>3, <3>2 DEF WgInv, LoopInv, DependencyOrder, TokenInv, SignalInv
    <3> QED
      BY <2>3, <3>3 DEF TypeOK, ObjsInv, CRDsFirst
  <2> QED
    BY <1>1, <2>2, <2>3
<1>2. ASSUME NEW c \in Manifests, Spawn(c)
      PROVE  IInv'
  <2> USE <1>2 DEF Spawn, GoTo
  <2>1. pc[c] = "unborn"
    BY DEF LoopInv
  <2>2. Pending' = Pending \cup {c} /\ c \notin Pending
    BY <2>1 DEF Pending, TypeOK
  <2>3. Cardinality(Pending') = wg + 1
    BY <2>2, PendingFinite, FS_AddElement DEF WgInv
  <2>4. Applied' = Applied
    BY <2>1 DEF Applied, TypeOK
  <2>5. WgInv' /\ LoopInv'
    BY <2>3 DEF WgInv, LoopInv, TypeOK
  <2>6. DependencyOrder' /\ TokenInv' /\ SignalInv'
    BY <2>1, <2>4 DEF DependencyOrder, TokenInv, SignalInv, TypeOK
  <2>7. DataInv'
    BY <2>1 DEF TypeOK, ObjsInv, CRDsFirst, Steps
  <2> QED
    BY <2>5, <2>6, <2>7
<1> QED
  BY <1>1, <1>2 DEF Main

\* The API server establishing a CRD, and a new run of the program.
LEMMA EnvironmentStep ==
  ASSUME IInv, Rerun \/ (\E o \in CRD : Establish(o))
  PROVE  IInv'
<1>1. ASSUME NEW o \in CRD, Establish(o)
      PROVE  IInv'
  <2>1. ControlInv'
    BY <1>1 DEF IInv, ControlInv, WgInv, Pending, LoopInv, DependencyOrder, TokenInv,
                SignalInv, Applied, Establish, process
  <2>2. DataInv'
    BY <1>1 DEF IInv, DataInv, TypeOK, ObjsInv, CRDsFirst, Establish, process
  <2> QED
    BY <2>1, <2>2 DEF IInv
<1>2. CASE Rerun
  <2>1. Pending' = {} /\ Applied' = {}
    BY <1>2 DEF Rerun, Pending, Applied
  <2>2. WgInv'
    BY <1>2, <2>1, FS_EmptySet DEF WgInv, Rerun
  <2>3. LoopInv' /\ DependencyOrder' /\ TokenInv' /\ SignalInv'
    BY <1>2, <2>1, ComponentAssumption
    DEF Rerun, LoopInv, DependencyOrder, TokenInv, SignalInv
  <2>4. DataInv'
    BY <1>2, BoundAssumption
    DEF Rerun, external, IInv, DataInv, TypeOK, ObjsInv, CRDsFirst, Steps
  <2> QED
    BY <2>2, <2>3, <2>4 DEF IInv, ControlInv
<1> QED
  BY <1>1, <1>2

\* A fresh process satisfies the invariant.
LEMMA InitIInv == Init => IInv
<1> SUFFICES ASSUME Init
             PROVE  IInv
  OBVIOUS
<1>1. Pending = {} /\ Applied = {}
  BY DEF Init, Pending, Applied
<1>2. WgInv
  BY <1>1, FS_EmptySet DEF WgInv, Init
<1>3. LoopInv /\ DependencyOrder /\ TokenInv /\ SignalInv
  BY <1>1, ComponentAssumption DEF Init, LoopInv, DependencyOrder, TokenInv, SignalInv
<1>4. DataInv
  BY BoundAssumption, ObjectAssumption DEF Init, DataInv, TypeOK, ObjsInv, CRDsFirst, Steps
<1> QED
  BY <1>2, <1>3, <1>4 DEF IInv, ControlInv

\* The invariant is inductive.
LEMMA NextIInv == IInv /\ [Next]_vars => IInv'
<1> SUFFICES ASSUME IInv, [Next]_vars
             PROVE  IInv'
  OBVIOUS
<1>1. CASE Next
  BY <1>1, MainStep, GoroutineStep, EnvironmentStep DEF Next
<1>2. CASE UNCHANGED vars
  BY <1>2 DEF vars, process, external, IInv, ControlInv, DataInv, WgInv, Pending, LoopInv,
              DependencyOrder, TokenInv, SignalInv, Applied, TypeOK, ObjsInv, CRDsFirst
<1> QED
  BY <1>1, <1>2

\* In every state of every behaviour, the WaitGroup counts the goroutines that
\* have not called wg.Done, and tokens, signals and waits fit together.
THEOREM Invariance == Spec => []IInv
BY InitIInv, NextIInv, PTL DEF Spec
-----------------------------------------------------------------------------
\* Every variable keeps its type: in particular no channel ever holds two
\* values, and wg.Done never drives the counter below zero.
THEOREM TypeCorrect == Spec => []TypeOK
<1>1. IInv => TypeOK
  BY DEF IInv, DataInv
<1> QED
  BY <1>1, Invariance, PTL

\* For every dependency table and every interleaving, a component is applied
\* only after the component it depends on was applied without an error.
THEOREM DependencyOrderHolds == Spec => []DependencyOrder
<1>1. IInv => DependencyOrder
  BY DEF IInv, ControlInv
<1> QED
  BY <1>1, Invariance, PTL

\* ApplyAll returns nil only when every component was applied.
THEOREM ReturnMeansAppliedHolds == Spec => []ReturnMeansApplied
<1>1. IInv => ReturnMeansApplied
  BY DEF IInv, ControlInv, LoopInv, ReturnMeansApplied, Applied
<1> QED
  BY <1>1, Invariance, PTL

\* No goroutine ever blocks on signalling a child: one token per channel.
THEOREM SignalNeverBlocksHolds == Spec => []SignalNeverBlocks
<1>1. IInv => SignalNeverBlocks
  BY DEF IInv, ControlInv, SignalInv, SignalNeverBlocks
<1> QED
  BY <1>1, Invariance, PTL

\* The CRDs of a manifest are established before its other objects exist.
THEOREM CRDsFirstHolds == Spec => []CRDsFirst
<1>1. IInv => CRDsFirst
  BY DEF IInv, DataInv
<1> QED
  BY <1>1, Invariance, PTL

\* A goroutine's step keeps what a dry run promises: kubectl and the polls are
\* not reached, and text that does not parse leaves no objects behind.
LEMMA DryRunStep ==
  ASSUME IInv, DryRunNeedsNoCluster, NEW c \in Manifests, Goroutine(c)
  PROVE  DryRunNeedsNoCluster'
<1> USE DEF DryRunNeedsNoCluster, IInv, DataInv, TypeOK, GoTo
<1>1. ASSUME NEW step \in Steps \ {"failed"}, Proceed(c, step)
      PROVE  DryRunNeedsNoCluster'
  BY <1>1 DEF Proceed
<1>2. ASSUME Succeed(c)
      PROVE  DryRunNeedsNoCluster'
  BY <1>2 DEF Succeed
<1>3. ASSUME Fail(c), ~dryRun \/ objs[c] = {}
      PROVE  DryRunNeedsNoCluster'
  BY <1>3 DEF Fail
<1>4. ASSUME NEW os, pc[c] = "ready", Parse(c, os)
      PROVE  DryRunNeedsNoCluster'
  BY <1>2, <1>4 DEF Parse
<1>5. pc[c] = "ready" => objs[c] = {}
  BY DEF ObjsInv
<1>6. CASE Receive(c) \/ Done(c) \/ (\E ch \in Component : Signal(c, ch))
  BY <1>6 DEF Receive, Done, Signal
<1>7. CASE ReadManifest(c)
  BY <1>3, <1>4, <1>5, <1>7 DEF ReadManifest
<1>8. CASE TornRead(c)
  BY <1>3, <1>4, <1>5, <1>8 DEF TornRead
<1>9. CASE ApplyCRDs(c)
  BY <1>1, <1>3, <1>9 DEF ApplyCRDs, Create, PruneFails, Steps
<1>10. CASE PollCRDs(c)
  BY <1>1, <1>3, <1>10 DEF PollCRDs, Steps
<1>11. CASE ApplyObjects(c)
  BY <1>1, <1>2, <1>3, <1>11 DEF ApplyObjects, Create, PruneFails, Steps
<1> QED
  BY <1>6, <1>7, <1>8, <1>9, <1>10, <1>11 DEF Goroutine

\* Whatever the cluster, kubectl and the other goroutines do, a goroutine of a
\* dry run fails only when it gets text that does not parse.
THEOREM DryRunHolds == Spec => []DryRunNeedsNoCluster
<1>1. Init => DryRunNeedsNoCluster
  BY DEF Init, DryRunNeedsNoCluster
<1>2. IInv /\ DryRunNeedsNoCluster /\ [Next]_vars => DryRunNeedsNoCluster'
  <2> SUFFICES ASSUME IInv, DryRunNeedsNoCluster, [Next]_vars
               PROVE  DryRunNeedsNoCluster'
    OBVIOUS
  <2> USE DEF DryRunNeedsNoCluster
  <2>1. CASE ConfigFails \/ StartApply \/ Return
    BY <2>1 DEF ConfigFails, StartApply, Return
  <2>2. CASE \E c \in Manifests : Spawn(c)
    BY <2>2 DEF Spawn, GoTo, IInv, DataInv, TypeOK
  <2>3. CASE \E c \in Manifests : Goroutine(c)
    BY <2>3, DryRunStep
  <2>4. CASE Rerun
    BY <2>4 DEF Rerun
  <2>5. CASE \E o \in CRD : Establish(o)
    BY <2>5 DEF Establish, process
  <2>6. CASE UNCHANGED vars
    BY <2>6 DEF vars, process
  <2> QED
    BY <2>1, <2>2, <2>3, <2>4, <2>5, <2>6 DEF Next, Main
<1> QED
  BY <1>1, <1>2, Invariance, PTL DEF Spec
-----------------------------------------------------------------------------
(* Installer implements InstallOrder.                                       *)

\* A step that changes no goroutine's "applied" status and does not return.
Invisible == Applied' = Applied /\ (main' = "returned" <=> main = "returned")

\* A goroutine that moves inside applyManifest is invisible.
LEMMA InsideInvisible ==
  ASSUME IInv, NEW c \in Manifests, pc[c] \in Inside, UNCHANGED main,
         NEW step \in Inside \cup {"failed"}, GoTo(c, step)
  PROVE  Invisible
BY DEF IInv, DataInv, TypeOK, Inside, GoTo, Invisible, Applied

\* A goroutine whose applyManifest returns nil takes the abstract step Apply:
\* its parents are applied because it is past its wait.
LEMMA SucceedApplies ==
  ASSUME IInv, NEW c \in Manifests, pc[c] \in Inside, Succeed(c)
  PROVE  Order!Apply(c)
<1> USE DEF IInv, ControlInv, DataInv, Inside
<1>1. Applied' = Applied \cup {c} /\ c \notin Applied
  BY DEF Succeed, GoTo, Applied, TypeOK
<1>2. main # "returned" /\ main' = main
  BY DEF LoopInv, Succeed
<1>3. Order!Parents(c) \subseteq Applied
  BY DEF DependencyOrder, Parents, Order!Parents
<1> QED
  BY <1>1, <1>2, <1>3 DEF Order!Apply

\* A goroutine's step is invisible, or it is the abstract Apply of its component.
LEMMA GoroutineImplements ==
  ASSUME IInv, NEW c \in Manifests, Goroutine(c)
  PROVE  Invisible \/ Order!Apply(c)
<1> USE DEF Inside
<1>1. CASE Receive(c) \/ Done(c)
  BY <1>1 DEF IInv, DataInv, TypeOK, Receive, Done, GoTo, Invisible, Applied
<1>2. CASE \E ch \in Component : Signal(c, ch)
  BY <1>2 DEF Signal, Invisible, Applied
<1>3. ASSUME NEW os, pc[c] = "ready", Parse(c, os)
      PROVE  Invisible \/ Order!Apply(c)
  BY <1>3, InsideInvisible, SucceedApplies DEF Parse
<1>4. ASSUME pc[c] \in Inside, Fail(c)
      PROVE  Invisible
  BY <1>4, InsideInvisible DEF Fail
<1>5. ASSUME pc[c] \in Inside, NEW step \in Inside, Proceed(c, step)
      PROVE  Invisible
  BY <1>5, InsideInvisible DEF Proceed
<1>6. CASE ReadManifest(c)
  BY <1>3, <1>4, <1>6 DEF ReadManifest
<1>7. CASE TornRead(c)
  BY <1>3, <1>4, <1>7 DEF TornRead
<1>8. CASE ApplyCRDs(c)
  BY <1>4, <1>5, <1>8 DEF ApplyCRDs, Create, PruneFails
<1>9. CASE PollCRDs(c)
  <2>1. CASE UNCHANGED <<main, pc>>
    BY <2>1 DEF Invisible, Applied
  <2> QED
    BY <1>4, <1>5, <1>9, <2>1 DEF PollCRDs
<1>10. CASE ApplyObjects(c)
  BY <1>4, <1>5, <1>10, SucceedApplies DEF ApplyObjects, Create, PruneFails
<1> QED
  BY <1>1, <1>2, <1>6, <1>7, <1>8, <1>9, <1>10 DEF Goroutine

\* A step of the goroutine of ApplyAll is invisible, or it is the abstract
\* Finish: it returns only when the counter of the WaitGroup is zero.
LEMMA MainImplements ==
  ASSUME IInv, IInv', Main
  PROVE  Invisible \/ Order!Finish
<1>1. CASE ConfigFails \/ StartApply
  BY <1>1 DEF ConfigFails, StartApply, Invisible, Applied
<1>2. CASE \E c \in Manifests : Spawn(c)
  BY <1>2 DEF Spawn, GoTo, Invisible, Applied, IInv, ControlInv, LoopInv, DataInv, TypeOK
<1>3. CASE Return
  <2>1. \A c \in Manifests : pc[c] = "done"
    BY <1>3 DEF IInv, ControlInv, LoopInv, Return
  <2> QED
    BY <1>3, <2>1 DEF Return, Order!Finish, Applied
<1> QED
  BY <1>1, <1>2, <1>3 DEF Main

\* Every run applies each component at most once, parents first, and returns
\* only after all of them, however the goroutines interleave and fail.
THEOREM Refinement == Spec => ImplementsOrder
<1>1. Init => Order!Init
  BY DEF Init, Order!Init, Applied
<1>2. IInv /\ IInv' /\ [Next]_vars => [Order!Next]_(Order!vars)
  <2> SUFFICES ASSUME IInv, IInv', [Next]_vars
               PROVE  Order!Next \/ UNCHANGED <<Applied, main = "returned">>
    BY DEF Order!vars
  <2>1. Invisible => UNCHANGED <<Applied, main = "returned">>
    BY DEF Invisible
  <2>2. CASE Main
    BY <2>1, <2>2, MainImplements DEF Order!Next
  <2>3. CASE \E c \in Manifests : Goroutine(c)
    BY <2>1, <2>3, GoroutineImplements DEF Order!Next
  <2>4. CASE Rerun
    BY <2>4 DEF Rerun, Order!Next, Order!Rerun, Applied
  <2>5. CASE \E o \in CRD : Establish(o)
    BY <2>5 DEF Establish, process, Applied
  <2>6. CASE UNCHANGED vars
    BY <2>6 DEF vars, process, Applied
  <2> QED
    BY <2>2, <2>3, <2>4, <2>5, <2>6 DEF Next
<1> QED
  BY <1>1, <1>2, Invariance, PTL DEF Spec, ImplementsOrder, Order!Spec
=============================================================================
