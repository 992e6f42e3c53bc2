---------------------- MODULE ComponentManifestProofs -----------------------
(***************************************************************************)
(* Proofs about ComponentManifest: no object of a chart gets lost or is    *)
(* doubled between the two loops of YAMLManifestPatch, for all charts,     *)
(* overlays and patches and in all orders of the loops; and of the values  *)
(* the last layer that says something decides, for all values.             *)
(***************************************************************************)
EXTENDS ComponentManifest, TreeProofs

\* A chart that can be rendered gives a sequence of objects.
ChartGivesObjects == \A v : Chart(v) = Bad \/ IsSeq(Chart(v))

\* What StartRest leaves to the loop that copies.
Rest == {h \in Hashes : h \in Overridden => NilPatches(h)}

Patching == {"patch", "rest", "done"}

\* What is in the manifest of one object: from the overlays that were visited, and
\* from the objects that were copied.
FromPatches(h) ==
  IF h \in Overridden /\ ~PatchFails(h) /\ (step = "patch" => h \notin todo) THEN 1 ELSE 0
FromRest(h) ==
  IF h \in Rest /\ step \in {"rest", "done"} /\ h \notin todo THEN 1 ELSE 0

LoopInv ==
  /\ IsSeq(objects) /\ IsSeq(manifest)
  /\ step \in {"start", "enablement", "chart", "settings"} => manifest = <<>>
  /\ step = "patch" => todo \subseteq Overridden
  /\ step = "rest" => todo \subseteq Rest

Accounted ==
  step \in Patching /\ OverlaysGiven =>
    /\ step = "done" => todo = {}
    /\ \A i \in DOMAIN manifest : Hash(manifest[i]) \in Hashes
    /\ \A h \in Hashes : Copies(h) = FromPatches(h) + FromRest(h)

ObjectsInv == LoopInv /\ Accounted
-----------------------------------------------------------------------------
(* Sequences.                                                               *)

\* A set of indexes has a largest one.
LEMMA LargestIndex ==
  ASSUME NEW n \in Nat, NEW I, I \subseteq 1 .. n, I # {}
  PROVE  \E x \in I : \A y \in I : x >= y
<1> DEFINE Above(x) == {y \in I : y > x}
           T == {Above(x) : x \in I}
<1>1. IsFiniteSet(I)
  <2>1. IsFiniteSet(1 .. n)
    BY FS_Interval
  <2> QED
    BY <2>1, FS_Subset
<1>2. T # {}
  OBVIOUS
<1>3. \A m \in T : m \in SUBSET I /\ IsFiniteSet(m)
  BY <1>1, FS_Subset
<1>4. T \subseteq FiniteSubsetsOf(I)
  BY <1>3, Zenon DEF FiniteSubsetsOf
<1>5. \E m \in T : \A t \in T : ~(<<t, m>> \in StrictSubsetOrdering(I))
  <2>1. IsWellFoundedOn(StrictSubsetOrdering(I), FiniteSubsetsOf(I))
    BY FS_StrictSubsetOrderingWellFounded
  <2> HIDE DEF T
  <2> QED
    BY <1>2, <1>4, <2>1, WFMin
<1>6. PICK x \in I : \A t \in T : ~(<<t, Above(x)>> \in StrictSubsetOrdering(I))
  BY <1>5
<1>7. \A y \in I : y \in Nat
  OBVIOUS
<1>8. ASSUME NEW y \in I, y > x PROVE FALSE
  <2>1. Above(y) \in T
    OBVIOUS
  <2>2. Above(y) \in SUBSET I /\ Above(x) \in SUBSET I
    OBVIOUS
  <2>3. Above(y) \subseteq Above(x)
    <3>1. \A z \in I : z > y => z > x
      BY <1>7, <1>8
    <3> QED
      BY <3>1
  <2>4. y \in Above(x) /\ y \notin Above(y)
    BY <1>7, <1>8
  <2> HIDE DEF Above
  <2>5. <<Above(y), Above(x)>> \in StrictSubsetOrdering(I)
    BY <2>2, <2>3, <2>4 DEF StrictSubsetOrdering
  <2> QED
    BY <1>6, <2>1, <2>5
<1> QED
  BY <1>6, <1>7, <1>8

\* Of the objects with a hash the last one has this hash.
LEMMA LastObject ==
  ASSUME NEW s, IsSeq(s), NEW i \in DOMAIN s
  PROVE  LastWith(Hash(s[i]), s) \in DOMAIN s /\ Hash(s[LastWith(Hash(s[i]), s)]) = Hash(s[i])
<1> DEFINE h == Hash(s[i])
           I == {j \in 1 .. Len(s) : Hash(s[j]) = h}
<1>1. Len(s) \in Nat /\ DOMAIN s = 1 .. Len(s)
  BY LenProperties DEF IsSeq
<1>2. I \subseteq 1 .. Len(s) /\ I # {}
  BY <1>1
<1>3. LastWith(h, s) = Max(I)
  BY <1>2 DEF LastWith, SelectLastInSeq
<1> HIDE DEF h
<1>4. Max(I) \in I
  BY <1>1, <1>2, LargestIndex DEF Max
<1> QED
  BY <1>1, <1>3, <1>4 DEF h

\* How often a hash occurs.
Count(s, h) == Cardinality({i \in DOMAIN s : Hash(s[i]) = h})

LEMMA EmptyCount ==
  ASSUME NEW s, s = <<>>
  PROVE  IsSeq(s) /\ DOMAIN s = {} /\ \A h : Count(s, h) = 0
<1>1. DOMAIN <<>> = {}
  OBVIOUS
<1>2. DOMAIN s = {}
  BY <1>1
<1>3. IsSeq(s)
  BY EmptySeq DEF IsSeq
<1>4. ASSUME NEW h PROVE Count(s, h) = 0
  <2>1. {i \in DOMAIN s : Hash(s[i]) = h} = {}
    BY <1>2
  <2> QED
    BY <2>1, FS_EmptySet DEF Count
<1> QED
  BY <1>2, <1>3, <1>4

LEMMA AppendCount ==
  ASSUME NEW s, IsSeq(s), NEW o
  PROVE  /\ IsSeq(Append(s, o))
         /\ \A i \in DOMAIN Append(s, o) : Append(s, o)[i] = o \/ \E j \in DOMAIN s : Append(s, o)[i] = s[j]
         /\ \A h : Count(Append(s, o), h) = Count(s, h) + (IF Hash(o) = h THEN 1 ELSE 0)
         /\ \A h : Count(s, h) \in Nat
<1> DEFINE S == {s[i] : i \in DOMAIN s} \cup {o}
           t == Append(s, o)
           n == Len(s) + 1
<1>1. s \in Seq(S) /\ o \in S
  BY SeqMonotonic DEF IsSeq
<1>2. /\ Len(s) \in Nat /\ DOMAIN s = 1 .. Len(s)
      /\ t \in Seq(S) /\ Len(t) = n
      /\ \A i \in 1 .. Len(s) : t[i] = s[i]
      /\ t[n] = o
  BY <1>1, AppendProperties, LenProperties
<1>3. DOMAIN t = 1 .. n
  BY <1>2, LenProperties
<1>4. IsSeq(t)
  <2>1. \A i \in 1 .. n : t[i] \in {t[j] : j \in DOMAIN t}
    BY <1>3
  <2>2. t = [i \in 1 .. n |-> t[i]]
    BY <1>2, <1>3, LenProperties
  <2>3. [i \in 1 .. n |-> t[i]] \in Seq({t[j] : j \in DOMAIN t})
    BY <1>2, <2>1
  <2> QED
    BY <2>2, <2>3 DEF IsSeq
<1>5. \A i \in DOMAIN t : i = n \/ i \in DOMAIN s
  BY <1>2, <1>3
<1>6. \A i \in DOMAIN t : t[i] = o \/ \E j \in DOMAIN s : t[i] = s[j]
  BY <1>2, <1>5
<1>7. ASSUME NEW h
      PROVE  Count(t, h) = Count(s, h) + (IF Hash(o) = h THEN 1 ELSE 0) /\ Count(s, h) \in Nat
  <2> DEFINE A == {i \in DOMAIN s : Hash(s[i]) = h}
             B == {i \in DOMAIN t : Hash(t[i]) = h}
  <2>1. IsFiniteSet(A)
    <3>1. IsFiniteSet(DOMAIN s)
      BY <1>2, FS_Interval
    <3> QED
      BY <3>1, FS_Subset
  <2>2. Count(s, h) = Cardinality(A) /\ Count(t, h) = Cardinality(B) /\ Cardinality(A) \in Nat
    BY <2>1, FS_CardinalityType DEF Count
  <2>3. CASE Hash(o) = h
    <3>1. n \notin A /\ B = A \cup {n}
      BY <1>2, <1>3, <1>5, <2>3
    <3>2. Cardinality(B) = Cardinality(A) + 1
      BY <2>1, <3>1, FS_AddElement
    <3> HIDE DEF A, B, t
    <3> QED
      BY <2>2, <2>3, <3>2
  <2>5. CASE Hash(o) # h
    <3>1. B = A
      BY <1>2, <1>3, <1>5, <2>5
    <3> HIDE DEF A, B, t
    <3> QED
      BY <2>2, <2>5, <3>1
  <2> QED
    BY <2>3, <2>5
<1> QED
  BY <1>4, <1>6, <1>7
-----------------------------------------------------------------------------
(* The steps.                                                               *)

\* While spec and objects stay, so do the overlays and what they come to.
LEMMA SameOverlays ==
  ASSUME UNCHANGED <<spec, objects>>
  PROVE  /\ OverlaysField' = OverlaysField /\ (OverlaysGiven' <=> OverlaysGiven)
         /\ Overlays' = Overlays /\ Overridden' = Overridden
         /\ Hashes' = Hashes /\ Rest' = Rest
         /\ \A h : ObjectAt(h)' = ObjectAt(h) /\ PatchesFor(h)' = PatchesFor(h)
         /\ \A h : PatchFails(h)' <=> PatchFails(h)
<1>0. OverlaysField' = OverlaysField /\ (OverlaysGiven' <=> OverlaysGiven)
  BY DEF OverlaysField, OverlaysGiven
<1>1. Overlays' = Overlays
  BY <1>0 DEF Overlays
<1>2. Overridden' = Overridden /\ Hashes' = Hashes
  BY <1>1 DEF Overridden, Hashes
<1>3. \A h : ObjectAt(h)' = ObjectAt(h) /\ PatchesFor(h)' = PatchesFor(h)
  BY <1>1 DEF ObjectAt, PatchesFor
<1>4. Rest' = Rest
  <2>1. \A h : NilPatches(h)' <=> NilPatches(h)
    BY <1>1 DEF NilPatches
  <2> QED
    BY <1>2, <2>1 DEF Rest
<1>5. \A h : PatchFails(h)' <=> PatchFails(h)
  BY <1>3 DEF PatchFails
<1> QED
  BY <1>0, <1>1, <1>2, <1>3, <1>4, <1>5

\* The object of a hash has this hash.
LEMMA ObjectHash ==
  ASSUME IsSeq(objects), NEW h \in Hashes PROVE Hash(ObjectAt(h)) = h
BY LastObject DEF Hashes, ObjectAt

LEMMA CopiesCount == \A h : Copies(h) = Count(manifest, h) /\ Copies(h)' = Count(manifest', h)
BY DEF Copies, Count

\* Before the overlays nothing is in the manifest.
LEMMA BeforePatching ==
  ASSUME LoopInv, ChartGivesObjects,
         SkipDisabled \/ TranslateLeaves \/ MergeValues \/ RenderChart
           \/ (\E p \in DOMAIN FeatureComponentToValues : setEnablementAndNamespaces(p))
           \/ (\E f \in DOMAIN KubernetesMapping : OverlayK8sSetting(f))
  PROVE  ObjectsInv'
<1> USE DEF ReturnError
<1>1. /\ manifest = <<>> /\ manifest' = manifest
      /\ step' \in {"disabled", "error", "enablement", "chart", "settings"}
  BY DEF LoopInv, SkipDisabled, TranslateLeaves, MergeValues, RenderChart,
         setEnablementAndNamespaces, OverlayK8sSetting
<1>2. IsSeq(objects')
  <2>1. CASE objects' = objects
    BY <2>1 DEF LoopInv
  <2>2. CASE RenderChart /\ objects' # objects
    <3>1. Chart(values) # Bad /\ objects' = Chart(values)
      BY <2>2 DEF RenderChart
    <3> QED
      BY <3>1 DEF ChartGivesObjects
  <2>3. ASSUME NEW f \in DOMAIN KubernetesMapping, OverlayK8sSetting(f), objects' # objects
        PROVE  IsSeq(objects')
    <3>1. PICK at, merged : objects' = [objects EXCEPT ![at] = merged]
      BY <2>3 DEF OverlayK8sSetting
    <3>2. Len(objects) \in Nat /\ DOMAIN objects = 1 .. Len(objects)
      BY LenProperties DEF LoopInv, IsSeq
    <3>3. objects' = [i \in 1 .. Len(objects) |-> objects'[i]]
      BY <3>1, <3>2
    <3>4. [i \in 1 .. Len(objects) |-> objects'[i]] \in Seq({objects'[i] : i \in 1 .. Len(objects)})
      BY <3>2
    <3> QED
      BY <3>2, <3>3, <3>4 DEF IsSeq
  <2>4. CASE SkipDisabled \/ TranslateLeaves \/ MergeValues
               \/ \E p \in DOMAIN FeatureComponentToValues : setEnablementAndNamespaces(p)
    BY <2>1, <2>4 DEF SkipDisabled, TranslateLeaves, MergeValues, setEnablementAndNamespaces
  <2> QED
    BY <2>1, <2>2, <2>3, <2>4
<1> QED
  BY <1>1, <1>2 DEF ObjectsInv, LoopInv, Accounted, Patching

LEMMA StartPatchingStep ==
  ASSUME ObjectsInv, StartPatching PROVE ObjectsInv'
<1>1. /\ step = "settings" /\ manifest = <<>> /\ IsSeq(objects)
      /\ UNCHANGED <<spec, objects>>
  BY DEF ObjectsInv, LoopInv, StartPatching
<1>2. CASE ~OverlaysGiven
  <2>1. step' \in {"done", "error"} /\ manifest' \in {objects, manifest}
    BY <1>2 DEF StartPatching, OverlaysGiven, ReturnError
  <2> QED
    BY <1>1, <1>2, <2>1, SameOverlays DEF ObjectsInv, LoopInv, Accounted
<1>3. CASE OverlaysGiven
  <2>1. step' = "patch" /\ todo' = Overridden /\ manifest' = manifest
    BY <1>3 DEF StartPatching, OverlaysGiven
  <2>2. LoopInv'
    BY <1>1, <2>1, SameOverlays, EmptyCount DEF LoopInv
  <2>3. DOMAIN manifest' = {} /\ \A h : Count(manifest', h) = 0
    BY <1>1, <2>1, EmptyCount
  <2>4. \A h : FromPatches(h)' = 0 /\ FromRest(h)' = 0
    BY <2>1, <1>1, SameOverlays DEF FromPatches, FromRest
  <2>5. Accounted'
    BY <2>1, <2>3, <2>4, CopiesCount DEF Accounted
  <2> QED
    BY <2>2, <2>5 DEF ObjectsInv
<1> QED
  BY <1>2, <1>3

LEMMA PatchObjectStep ==
  ASSUME ObjectsInv, PatchesKeepNames, NEW h \in Overridden, PatchObject(h) PROVE ObjectsInv'
<1> DEFINE patched == applyPatches(ObjectAt(h), PatchesFor(h))
           appended == h \in Hashes /\ ~PatchFails(h)
<1>1. /\ step = "patch" /\ h \in todo /\ todo \subseteq Overridden /\ todo' = todo \ {h}
      /\ IsSeq(objects) /\ IsSeq(manifest)
      /\ UNCHANGED <<spec, objects>>
      /\ step' \in {"patch", "panic"}
  BY DEF ObjectsInv, LoopInv, PatchObject
<1>2. /\ appended => manifest' = Append(manifest, patched)
      /\ ~appended => manifest' = manifest
  BY DEF PatchObject, PatchFails, Failed
<1>3. appended => Hash(patched) = h
  BY <1>1 DEF PatchesKeepNames, PatchFails
<1> HIDE DEF patched
<1>4. IsSeq(manifest')
  BY <1>1, <1>2, AppendCount
<1>5. LoopInv'
  BY <1>1, <1>4, SameOverlays DEF LoopInv
<1>6. ASSUME step' = "patch", OverlaysGiven' PROVE Accounted'
  <2>1. /\ \A i \in DOMAIN manifest : Hash(manifest[i]) \in Hashes
        /\ \A k \in Hashes : Copies(k) = FromPatches(k) + FromRest(k)
    BY <1>1, <1>6, SameOverlays DEF ObjectsInv, Accounted, Patching
  <2>2. \A i \in DOMAIN manifest' : Hash(manifest'[i]) \in Hashes
    <3>1. CASE appended
      <4>1. \A i \in DOMAIN manifest' : manifest'[i] = patched \/ \E j \in DOMAIN manifest : manifest'[i] = manifest[j]
        BY <1>1, <1>2, <3>1, AppendCount
      <4> QED
        BY <1>3, <2>1, <3>1, <4>1
    <3>2. CASE ~appended
      BY <1>2, <2>1, <3>2
    <3> QED
      BY <3>1, <3>2
  <2>3. ASSUME NEW k \in Hashes
        PROVE  Copies(k)' = FromPatches(k)' + FromRest(k)'
    <3>1. FromRest(k) = 0 /\ FromRest(k)' = 0
      BY <1>1, <1>6 DEF FromRest
    <3>2. FromPatches(k)' = FromPatches(k) + (IF appended /\ k = h THEN 1 ELSE 0)
      BY <1>1, <1>6, SameOverlays DEF FromPatches
    <3>3. Copies(k)' = Copies(k) + (IF appended /\ k = h THEN 1 ELSE 0)
      <4>1. Count(manifest, k) \in Nat
        BY <1>1, AppendCount
      <4>2. CASE appended
        <5>1. manifest' = Append(manifest, patched)
          BY <1>2, <4>2
        <5>2. Count(Append(manifest, patched), k)
                = Count(manifest, k) + (IF Hash(patched) = k THEN 1 ELSE 0)
          <6> HIDE DEF appended
          <6> QED
            BY <1>1, AppendCount
        <5>3. Count(manifest', k) = Count(manifest, k) + (IF Hash(patched) = k THEN 1 ELSE 0)
          BY <5>1, <5>2
        <5> QED
          BY <1>3, <4>2, <5>3, CopiesCount
      <4>3. CASE ~appended
        <5>1. Count(manifest', k) = Count(manifest, k)
          BY <1>2, <4>3
        <5> QED
          BY <4>1, <4>3, <5>1, CopiesCount
      <4> QED
        BY <4>2, <4>3
    <3>4. FromPatches(k) \in Nat
      BY DEF FromPatches
    <3> HIDE DEF appended
    <3> QED
      BY <2>1, <3>1, <3>2, <3>3, <3>4
  <2> QED
    BY <1>1, <1>6, <2>2, <2>3, SameOverlays DEF Accounted
<1>7. Accounted'
  BY <1>1, <1>6 DEF Accounted, Patching
<1> QED
  BY <1>5, <1>7 DEF ObjectsInv

LEMMA StartRestStep ==
  ASSUME ObjectsInv, StartRest PROVE ObjectsInv'
<1>1. /\ step = "patch" /\ todo = {} /\ step' = "rest" /\ todo' = Rest
      /\ IsSeq(objects) /\ IsSeq(manifest)
      /\ UNCHANGED <<spec, objects, manifest>>
  BY DEF ObjectsInv, LoopInv, StartRest, Rest
<1>2. LoopInv'
  BY <1>1, SameOverlays DEF LoopInv
<1>3. ASSUME NEW k \in Hashes
      PROVE  FromPatches(k)' = FromPatches(k) /\ FromRest(k)' = 0 /\ FromRest(k) = 0
  BY <1>1, SameOverlays DEF FromPatches, FromRest
<1>4. \A k : Copies(k)' = Copies(k)
  BY <1>1 DEF Copies
<1>5. Accounted'
  BY <1>1, <1>3, <1>4, SameOverlays DEF ObjectsInv, Accounted, Patching
<1> QED
  BY <1>2, <1>5 DEF ObjectsInv

LEMMA CopyObjectStep ==
  ASSUME ObjectsInv, NEW h \in Hashes, CopyObject(h) PROVE ObjectsInv'
<1>1. /\ step = "rest" /\ step' = "rest" /\ h \in todo /\ todo \subseteq Rest /\ todo' = todo \ {h}
      /\ IsSeq(objects) /\ IsSeq(manifest)
      /\ UNCHANGED <<spec, objects>>
      /\ manifest' = Append(manifest, ObjectAt(h))
  BY DEF ObjectsInv, LoopInv, CopyObject
<1>2. Hash(ObjectAt(h)) = h
  BY <1>1, ObjectHash
<1>3. /\ IsSeq(manifest')
      /\ \A i \in DOMAIN manifest' : manifest'[i] = ObjectAt(h) \/ \E j \in DOMAIN manifest : manifest'[i] = manifest[j]
      /\ \A k : Count(manifest', k) = Count(manifest, k) + (IF h = k THEN 1 ELSE 0)
      /\ \A k : Count(manifest, k) \in Nat
  BY <1>1, <1>2, AppendCount
<1>4. LoopInv'
  BY <1>1, <1>3, SameOverlays DEF LoopInv
<1>5. ASSUME OverlaysGiven' PROVE Accounted'
  <2>1. /\ \A i \in DOMAIN manifest : Hash(manifest[i]) \in Hashes
        /\ \A k \in Hashes : Copies(k) = FromPatches(k) + FromRest(k)
    BY <1>1, <1>5, SameOverlays DEF ObjectsInv, Accounted, Patching
  <2>2. \A i \in DOMAIN manifest' : Hash(manifest'[i]) \in Hashes
    BY <1>2, <1>3, <2>1
  <2>3. ASSUME NEW k \in Hashes
        PROVE  Copies(k)' = FromPatches(k)' + FromRest(k)'
    <3>1. FromPatches(k)' = FromPatches(k) /\ FromPatches(k) \in Nat
      BY <1>1, SameOverlays DEF FromPatches
    <3>2. FromRest(k)' = FromRest(k) + (IF h = k THEN 1 ELSE 0) /\ FromRest(k) \in Nat
      BY <1>1, SameOverlays DEF FromRest
    <3>3. Copies(k)' = Copies(k) + (IF h = k THEN 1 ELSE 0)
      BY <1>3, CopiesCount
    <3> QED
      BY <2>1, <3>1, <3>2, <3>3
  <2> QED
    BY <1>1, <2>2, <2>3, SameOverlays DEF Accounted
<1>6. Accounted'
  BY <1>5 DEF Accounted
<1> QED
  BY <1>4, <1>6 DEF ObjectsInv

LEMMA FinishRestStep ==
  ASSUME ObjectsInv, FinishRest PROVE ObjectsInv'
<1>1. /\ step = "rest" /\ step' = "done" /\ todo = {} /\ todo' = {}
      /\ IsSeq(objects) /\ IsSeq(manifest)
      /\ UNCHANGED <<spec, objects, manifest>>
  BY DEF ObjectsInv, LoopInv, FinishRest
<1>2. LoopInv'
  BY <1>1, SameOverlays DEF LoopInv
<1>3. ASSUME NEW k \in Hashes
      PROVE  FromPatches(k)' = FromPatches(k) /\ FromRest(k)' = FromRest(k)
  BY <1>1, SameOverlays DEF FromPatches, FromRest
<1>4. \A k : Copies(k)' = Copies(k)
  BY <1>1 DEF Copies
<1>5. Accounted'
  BY <1>1, <1>3, <1>4, SameOverlays DEF ObjectsInv, Accounted, Patching
<1> QED
  BY <1>2, <1>5 DEF ObjectsInv
-----------------------------------------------------------------------------
LEMMA InitObjects == Init => ObjectsInv
<1> SUFFICES ASSUME Init PROVE ObjectsInv
  OBVIOUS
<1>1. objects = <<>> /\ manifest = <<>> /\ step = "start"
  BY DEF Init
<1> QED
  BY <1>1, EmptyCount DEF ObjectsInv, LoopInv, Accounted, Patching

LEMMA StutterObjects ==
  ASSUME ObjectsInv, UNCHANGED vars PROVE ObjectsInv'
<1>1. UNCHANGED <<spec, objects, step, todo, manifest>>
  BY DEF vars
<1>2. \A k : /\ Copies(k)' = Copies(k)
             /\ FromPatches(k)' = FromPatches(k) /\ FromRest(k)' = FromRest(k)
  BY <1>1, SameOverlays DEF Copies, FromPatches, FromRest
<1> QED
  BY <1>1, <1>2, SameOverlays DEF ObjectsInv, LoopInv, Accounted

\* The invariant is kept as long as patches keep the names of objects.
LEMMA StepObjects ==
  ASSUME ChartGivesObjects, ObjectsInv, PatchesKeepNames, [Next]_vars PROVE ObjectsInv'
BY BeforePatching, StartPatchingStep, PatchObjectStep, StartRestStep, CopyObjectStep,
   FinishRestStep, StutterObjects DEF Next, ObjectsInv

\* Of the last patch too an object comes out once.
LEMMA OnceWhenDone ==
  ASSUME ObjectsInv, PatchesKeepNames PROVE EveryObjectOnce
<1> SUFFICES ASSUME step = "done", OverlaysGiven
             PROVE  /\ {Hash(manifest[i]) : i \in DOMAIN manifest} \subseteq Hashes
                    /\ \A h \in Hashes :
                         Copies(h) = CASE Patched(h) /\ PatchFails(h) -> 0
                                       [] h \in Overridden /\ ~Patched(h) -> 2
                                       [] OTHER -> 1
  BY DEF EveryObjectOnce
<1>1. /\ todo = {} /\ \A i \in DOMAIN manifest : Hash(manifest[i]) \in Hashes
      /\ \A h \in Hashes : Copies(h) = FromPatches(h) + FromRest(h)
  BY DEF ObjectsInv, Accounted, Patching
<1>2. ASSUME NEW h \in Hashes
      PROVE  Copies(h) = CASE Patched(h) /\ PatchFails(h) -> 0
                           [] h \in Overridden /\ ~Patched(h) -> 2
                           [] OTHER -> 1
  <2>1. CASE Patched(h) /\ PatchFails(h)
    <3>1. FromPatches(h) = 0 /\ FromRest(h) = 0
      BY <1>1, <2>1 DEF FromPatches, FromRest, Patched, Rest
    <3> QED
      BY <1>1, <2>1, <3>1
  <2>2. CASE Patched(h) /\ ~PatchFails(h)
    <3>1. FromPatches(h) = 1 /\ FromRest(h) = 0
      BY <1>1, <2>2 DEF FromPatches, FromRest, Patched, Rest
    <3> QED
      BY <1>1, <2>2, <3>1
  <2>3. CASE h \in Overridden /\ ~Patched(h)
    <3>1. NilPatches(h) /\ PatchesFor(h) = <<>> /\ h \in Hashes \cap Overridden
      BY <2>3 DEF Patched, PatchesFor, PatchesOf, NilPatches
    <3>2. ~PatchFails(h)
      BY <3>1 DEF PatchesKeepNames, PatchFails
    <3>3. h \in Rest
      BY <3>1 DEF Rest
    <3>4. FromPatches(h) = 1 /\ FromRest(h) = 1
      BY <1>1, <2>3, <3>2, <3>3 DEF FromPatches, FromRest
    <3> QED
      BY <1>1, <2>3, <3>4
  <2>4. CASE h \notin Overridden
    <3>1. FromPatches(h) = 0 /\ FromRest(h) = 1 /\ ~Patched(h)
      BY <1>1, <2>4 DEF FromPatches, FromRest, Patched, Rest
    <3> QED
      BY <1>1, <2>4, <3>1
  <2> QED
    BY <2>1, <2>2, <2>3, <2>4
<1> QED
  BY <1>1, <1>2

\* For every chart and all overlays whose patches keep the names of the objects,
\* YAMLManifestPatch writes each object once, but for those that it drops because
\* a patch fails and those whose overlay has nil patches, which it writes twice.
THEOREM EveryObjectOnceHolds ==
  ChartGivesObjects => (Spec /\ []PatchesKeepNames => []EveryObjectOnce)
<1> SUFFICES ASSUME ChartGivesObjects PROVE Spec /\ []PatchesKeepNames => []EveryObjectOnce
  OBVIOUS
<1>1. Init => ObjectsInv
  BY InitObjects
<1>2. ObjectsInv /\ PatchesKeepNames /\ [Next]_vars => ObjectsInv'
  BY StepObjects
<1>3. ObjectsInv /\ PatchesKeepNames => EveryObjectOnce
  BY OnceWhenDone
<1> QED
  BY <1>1, <1>2, <1>3, PTL DEF Spec
-----------------------------------------------------------------------------
(* The values.                                                              *)

ValuesInv ==
  values \notin {Null, Bad} => DOMAIN layers = 1 .. 4 /\ values = mergeTrees(layers)

LEMMA StepValues ==
  ASSUME ValuesInv, [Next]_vars PROVE ValuesInv'
<1>1. CASE MergeValues
  <2>1. PICK a, b, c, d :
          \/ UNCHANGED <<layers, values>>
          \/ layers' = <<a, b, c, d>> /\ values' = mergeTrees(<<a, b, c, d>>)
    BY <1>1 DEF MergeValues
  <2>2. DOMAIN <<a, b, c, d>> = 1 .. 4
    OBVIOUS
  <2> QED
    BY <2>1, <2>2 DEF ValuesInv
<1>2. CASE UNCHANGED <<layers, values>>
  BY <1>2 DEF ValuesInv
<1>3. [Next]_vars => MergeValues \/ UNCHANGED <<layers, values>>
  <2> USE DEF vars
  <2>1. SkipDisabled \/ TranslateLeaves \/ RenderChart \/ StartPatching \/ StartRest \/ FinishRest =>
          UNCHANGED <<layers, values>>
    BY DEF SkipDisabled, TranslateLeaves, RenderChart, StartPatching, StartRest, FinishRest
  <2>2. (\E p \in DOMAIN FeatureComponentToValues : setEnablementAndNamespaces(p)) =>
          UNCHANGED <<layers, values>>
    BY DEF setEnablementAndNamespaces
  <2>3. (\E f \in DOMAIN KubernetesMapping : OverlayK8sSetting(f)) => UNCHANGED <<layers, values>>
    BY DEF OverlayK8sSetting
  <2>4. (\E h \in Overridden : PatchObject(h)) \/ (\E h \in Hashes : CopyObject(h)) =>
          UNCHANGED <<layers, values>>
    BY DEF PatchObject, CopyObject
  <2> QED
    BY <2>1, <2>2, <2>3, <2>4 DEF Next
<1> QED
  BY <1>1, <1>2, <1>3

\* Of four trees the last that says something decides.
LEMMA LastDecides ==
  ASSUME MergingRecursion, NEW trees, DOMAIN trees = 1 .. 4, mergeTrees(trees) # Bad,
         NEW p, IsSeq(p), p # <<>>
  PROVE  LET touching == {i \in DOMAIN trees : Touches(trees[i], p)}
             said == Said(trees[Max(touching)], p)
             m == mergeTrees(trees)
         IN  /\ touching = {} => ~Present(m, p)
             /\ touching # {} =>
                  /\ IF IsMap(said) THEN IsMap(Said(m, p)) ELSE Said(m, p) = said
                  /\ said = Null /\ Max(touching) # 1 => ~Present(m, p)
<1> DEFINE touching == {i \in DOMAIN trees : Touches(trees[i], p)}
           T(i) == Touches(trees[i], p)
           m2 == OverlayYAML(trees[1], trees[2])
           m3 == OverlayYAML(m2, trees[3])
           m == OverlayYAML(m3, trees[4])
           E == {p[i] : i \in DOMAIN p}
           Agree(t, i) == IF IsMap(Said(trees[i], p)) THEN IsMap(Said(t, p)) ELSE Said(t, p) = Said(trees[i], p)
<1>1. m # Bad /\ m3 # Bad /\ m2 # Bad
  <2>1. ~IsMap(Bad)
    BY DEF Bad, IsMap
  <2>2. \A a, b : OverlayYAML(a, b) # Bad => IsMap(a)
    BY DEF OverlayYAML
  <2>3. m # Bad
    BY DEF mergeTrees
  <2> HIDE DEF m3, m2
  <2>4. m3 # Bad
    BY <2>1, <2>2, <2>3
  <2>5. m2 # Bad
    BY <2>1, <2>2, <2>4 DEF m3
  <2> QED
    BY <2>3, <2>4, <2>5
<1>2. p \in Seq(E)
  BY DEF IsSeq
<1>3. Decides(m, m3, trees[4], p) /\ Decides(m3, m2, trees[3], p) /\ Decides(m2, trees[1], trees[2], p)
  <2> HIDE DEF m2, m3, E
  <2>1. Decides(m, m3, trees[4], p)
    BY <1>1, <1>2, OverlaidTexts DEF MergingRecursion
  <2>2. Decides(m3, m2, trees[3], p)
    BY <1>1, <1>2, OverlaidTexts DEF MergingRecursion, m3
  <2>3. Decides(m2, trees[1], trees[2], p)
    BY <1>1, <1>2, OverlaidTexts DEF MergingRecursion, m2
  <2> QED
    BY <2>1, <2>2, <2>3
<1>4. ~T(1) => ~Present(trees[1], p) /\ Said(trees[1], p) = Null
  <2>1. Present(trees[1], p) => T(1)
    <3> HIDE DEF E
    <3> QED
      BY <1>2, PresentTouches DEF MergingRecursion
  <2> QED
    BY <2>1 DEF Said
<1> HIDE DEF m, m2, m3, E
<1>5. /\ T(4) => Agree(m, 4) /\ (Said(trees[4], p) = Null => ~Present(m, p))
      /\ ~T(4) /\ T(3) => Agree(m, 3) /\ (Said(trees[3], p) = Null => ~Present(m, p))
      /\ ~T(4) /\ ~T(3) /\ T(2) => Agree(m, 2) /\ (Said(trees[2], p) = Null => ~Present(m, p))
      /\ ~T(4) /\ ~T(3) /\ ~T(2) => Said(m, p) = Said(trees[1], p) /\ (Present(m, p) <=> Present(trees[1], p))
  BY <1>3 DEF Decides
<1>6. /\ T(4) => Max(touching) = 4
      /\ ~T(4) /\ T(3) => Max(touching) = 3
      /\ ~T(4) /\ ~T(3) /\ T(2) => Max(touching) = 2
      /\ ~T(4) /\ ~T(3) /\ ~T(2) /\ T(1) => Max(touching) = 1
  <2>1. touching \subseteq 1 .. 4 /\ \A i \in 1 .. 4 : i \in touching <=> T(i)
    OBVIOUS
  <2>2. ASSUME NEW n \in touching, \A i \in touching : i <= n PROVE Max(touching) = n
    <3>1. \A x \in touching : (\A y \in touching : x >= y) => x = n
      BY <2>1, <2>2
    <3>2. \A y \in touching : n >= y
      BY <2>1, <2>2
    <3> HIDE DEF touching
    <3> QED
      BY <3>1, <3>2 DEF Max
  <2> HIDE DEF touching, T
  <2> QED
    BY <2>1, <2>2
<1>7. touching = {} <=> ~T(1) /\ ~T(2) /\ ~T(3) /\ ~T(4)
  OBVIOUS
<1>8. mergeTrees(trees) = m
  BY DEF mergeTrees, m, m3, m2
<1> HIDE DEF touching, T
<1>9. touching = {} => ~Present(m, p)
  BY <1>4, <1>5, <1>7
<1>10. touching # {} =>
         Agree(m, Max(touching)) /\ (Said(trees[Max(touching)], p) = Null /\ Max(touching) # 1 => ~Present(m, p))
  <2>1. CASE T(4)
    BY <1>5, <1>6, <2>1
  <2>2. CASE ~T(4) /\ T(3)
    BY <1>5, <1>6, <2>2
  <2>3. CASE ~T(4) /\ ~T(3) /\ T(2)
    BY <1>5, <1>6, <2>3
  <2>4. CASE ~T(4) /\ ~T(3) /\ ~T(2) /\ T(1)
    <3>1. Said(m, p) = Said(trees[1], p) /\ Max(touching) = 1
      BY <1>5, <1>6, <2>4
    <3> QED
      BY <3>1
  <2> QED
    BY <1>7, <2>1, <2>2, <2>3, <2>4
<1> QED
  BY <1>8, <1>9, <1>10 DEF touching, T

\* Of the values the last layer that says something of a path decides, for every
\* spec, whatever the layers say.
THEOREM ValuesPrecedenceHolds == MergingRecursion => (Spec => []ValuesPrecedence)
<1> SUFFICES ASSUME MergingRecursion PROVE Spec => []ValuesPrecedence
  OBVIOUS
<1>1. Init => ValuesInv
  BY DEF Init, ValuesInv
<1>2. ValuesInv /\ [Next]_vars => ValuesInv'
  BY StepValues
<1>3. ValuesInv => ValuesPrecedence
  <2> SUFFICES ASSUME ValuesInv, values \notin {Null, Bad},
                      NEW p \in Nodes(values) \cup UNION {Nodes(layers[i]) : i \in DOMAIN layers}
               PROVE  LET touching == {i \in DOMAIN layers : Touches(layers[i], p)}
                          said == Said(layers[Max(touching)], p)
                      IN  /\ touching = {} => ~Present(values, p)
                          /\ touching # {} =>
                               /\ IF IsMap(said) THEN IsMap(Said(values, p)) ELSE Said(values, p) = said
                               /\ said = Null /\ Max(touching) # 1 => ~Present(values, p)
    BY DEF ValuesPrecedence
  <2>1. IsSeq(p) /\ p # <<>>
    BY NodePaths DEF MergingRecursion
  <2>2. DOMAIN layers = 1 .. 4 /\ values = mergeTrees(layers) /\ mergeTrees(layers) # Bad
    BY DEF ValuesInv
  <2> QED
    BY <2>1, <2>2, LastDecides
<1> QED
  BY <1>1, <1>2, <1>3, PTL DEF Spec
=============================================================================
