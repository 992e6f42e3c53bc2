---------------------------- MODULE ObjectsProofs ---------------------------
(***************************************************************************)
(* Proofs about the objects of ComponentManifest, for all specs, all       *)
(* charts with room for the settings and every order of the loops: each    *)
(* Kubernetes setting ends up where the mapping puts it, the settings      *)
(* leave alone what the chart has elsewhere, and the patches keep the      *)
(* names of an object or fail for what is missing in it.                   *)
(***************************************************************************)
EXTENDS ComponentManifestProofs
-----------------------------------------------------------------------------
(* The paths of the mapping.                                                *)

\* The fields that go into the container, with their keys there.
ContainerKeys ==
  [Affinity |-> "affinity", Env |-> "env", ImagePullPolicy |-> "imagePullPolicy",
   NodeSelector |-> "nodeSelector", ReadinessProbe |-> "readinessProbe", Resources |-> "resources"]

InnerKeys == {"affinity", "env", "imagePullPolicy", "nodeSelector", "readinessProbe", "resources"}
OuterKeys == {"spec", "template", "metadata", "annotations", "containers", "priorityClassName", "replicas"}
Elements == {Key(k) : k \in InnerKeys \cup OuterKeys} \cup {Item("name", ContainerName)}

PriorityPath == <<Key("spec"), Key("template"), Key("spec"), Key("priorityClassName")>>

AnnotationsPath == <<Key("spec"), Key("template"), Key("metadata"), Key("annotations")>>
ReplicasPath == <<Key("spec"), Key("replicas")>>
SpecPath == <<Key("spec")>>

\* The paths without the empty name at the end of one of them.
PlainPath(f) == IF f = "PriorityClassName" THEN PriorityPath ELSE KubernetesMapping[f][2]

LEMMA KeysDiffer ==
  ASSUME NEW j, NEW k
  PROVE  /\ ~Key(k).brackets /\ NameOf(Key(k)) = k /\ ~IsName(Key(k))
         /\ Key(j) = Key(k) <=> j = k
         /\ Item("name", ContainerName).brackets
         /\ Item("name", ContainerName) # Key(k)
         /\ Item("name", ContainerName).parts[2] = ContainerName
BY DEF Key, NameOf, IsName, IsKVPathElement, Item

LEMMA ElementsWellFormed == WellFormed(Elements)
<1> SUFFICES ASSUME NEW e \in Elements
             PROVE  /\ ~e.brackets => e = Key(NameOf(e))
                    /\ IsName(e) => e = Item("name", e.parts[2])
  BY DEF WellFormed
<1>1. CASE \E k \in InnerKeys \cup OuterKeys : e = Key(k)
  BY <1>1, KeysDiffer
<1>2. CASE e = Item("name", ContainerName)
  <2>1. e.brackets /\ e.parts[2] = ContainerName
    BY <1>2 DEF Item
  <2> QED
    BY <1>2, <2>1
<1> QED
  BY <1>1, <1>2 DEF Elements

LEMMA KeysOfPaths ==
  /\ \A k \in InnerKeys \cup OuterKeys : Key(k) \in Elements
  /\ Item("name", ContainerName) \in Elements
  /\ Key("spec") \in Elements /\ Key("template") \in Elements /\ Key("metadata") \in Elements
  /\ Key("annotations") \in Elements /\ Key("containers") \in Elements
  /\ Key("priorityClassName") \in Elements /\ Key("replicas") \in Elements
<1>1. \A k \in InnerKeys \cup OuterKeys : Key(k) \in Elements
  BY DEF Elements
<1>2. Item("name", ContainerName) \in Elements
  BY DEF Elements
<1> HIDE DEF Elements
<1> QED
  BY <1>1, <1>2 DEF OuterKeys

\* No name of a path is empty.
LEMMA NoneEmpty == \A e \in Elements : e # EmptyKey
<1>1. \A k \in InnerKeys \cup OuterKeys : k # ""
  BY Zenon DEF InnerKeys, OuterKeys
<1> QED
  BY <1>1, KeysDiffer, Zenon DEF Elements, EmptyKey

LEMMA Container ==
  ASSUME NEW k \in InnerKeys
  PROVE  /\ InContainer(k) \in Seq(Elements) /\ Len(InContainer(k)) = 6
         /\ InContainer(k)[1] = Key("spec") /\ InContainer(k)[2] = Key("template")
         /\ InContainer(k)[3] = Key("spec") /\ InContainer(k)[4] = Key("containers")
         /\ InContainer(k)[5] = Item("name", ContainerName) /\ InContainer(k)[6] = Key(k)
<1>1. Key(k) \in Elements
  BY KeysOfPaths
<1> HIDE DEF Elements
<1> QED
  BY <1>1, KeysOfPaths DEF InContainer

LEMMA OtherPaths ==
  /\ PriorityPath \in Seq(Elements) /\ Len(PriorityPath) = 4
  /\ PriorityPath[1] = Key("spec") /\ PriorityPath[2] = Key("template")
  /\ PriorityPath[3] = Key("spec") /\ PriorityPath[4] = Key("priorityClassName")
  /\ AnnotationsPath \in Seq(Elements) /\ Len(AnnotationsPath) = 4
  /\ AnnotationsPath[1] = Key("spec") /\ AnnotationsPath[2] = Key("template")
  /\ AnnotationsPath[3] = Key("metadata") /\ AnnotationsPath[4] = Key("annotations")
  /\ ReplicasPath \in Seq(Elements) /\ Len(ReplicasPath) = 2
  /\ ReplicasPath[1] = Key("spec") /\ ReplicasPath[2] = Key("replicas")
  /\ SpecPath \in Seq(Elements) /\ Len(SpecPath) = 1 /\ SpecPath[1] = Key("spec")
<1> HIDE DEF Elements
<1>1. PriorityPath \in Seq(Elements) /\ AnnotationsPath \in Seq(Elements)
  BY KeysOfPaths DEF PriorityPath, AnnotationsPath
<1>2. ReplicasPath \in Seq(Elements) /\ SpecPath \in Seq(Elements)
  BY KeysOfPaths DEF ReplicasPath, SpecPath
<1> QED
  BY <1>1, <1>2 DEF PriorityPath, AnnotationsPath, ReplicasPath, SpecPath

\* Which path a setting has, and in which kind of object.
LEMMA Mapping ==
  ASSUME NEW f \in DOMAIN KubernetesMapping
  PROVE  \/ /\ f \in DOMAIN ContainerKeys /\ KubernetesMapping[f][1] = "Deployment"
            /\ PlainPath(f) = InContainer(ContainerKeys[f]) /\ ContainerKeys[f] \in InnerKeys
         \/ /\ f = "PriorityClassName" /\ KubernetesMapping[f][1] = "Deployment"
            /\ PlainPath(f) = PriorityPath
         \/ /\ f = "PodAnnotations" /\ KubernetesMapping[f][1] = "Deployment"
            /\ PlainPath(f) = AnnotationsPath
         \/ /\ f = "ReplicaCount" /\ KubernetesMapping[f][1] = "Deployment"
            /\ PlainPath(f) = ReplicasPath
         \/ /\ f = "HpaSpec" /\ KubernetesMapping[f][1] = "HorizontalPodAutoscaler"
            /\ PlainPath(f) = SpecPath
         \/ /\ f = "PodDisruptionBudget" /\ KubernetesMapping[f][1] = "PodDisruptionBudget"
            /\ PlainPath(f) = SpecPath
<1> USE DEF KubernetesMapping, ContainerKeys, InnerKeys, PlainPath, AnnotationsPath, ReplicasPath, SpecPath
<1>1. CASE f = "Affinity"
  BY <1>1
<1>2. CASE f = "Env"
  BY <1>2
<1>3. CASE f = "HpaSpec"
  BY <1>3
<1>4. CASE f = "ImagePullPolicy"
  BY <1>4
<1>5. CASE f = "NodeSelector"
  BY <1>5
<1>6. CASE f = "PodDisruptionBudget"
  BY <1>6
<1>7. CASE f = "PodAnnotations"
  BY <1>7
<1>8. CASE f = "PriorityClassName"
  BY <1>8
<1>9. CASE f = "ReadinessProbe"
  BY <1>9
<1>10. CASE f = "ReplicaCount"
  BY <1>10
<1>11. CASE f = "Resources"
  BY <1>11
<1> QED
  BY <1>1, <1>2, <1>3, <1>4, <1>5, <1>6, <1>7, <1>8, <1>9, <1>10, <1>11

LEMMA PlainPaths ==
  ASSUME NEW f \in DOMAIN KubernetesMapping
  PROVE  PlainPath(f) \in Seq(Elements) /\ Len(PlainPath(f)) > 0 /\ PlainPath(f)[1] = Key("spec")
BY Mapping, Container, OtherPaths

\* PathFromString gives the plain path.
LEMMA SettingPaths ==
  ASSUME NEW f \in DOMAIN KubernetesMapping PROVE SettingPath(f) = PlainPath(f)
<1>1. CASE f = "PriorityClassName"
  <2> DEFINE s == <<Key("spec"), Key("template"), Key("spec"), Key("priorityClassName"), EmptyKey>>
             E == Elements \cup {EmptyKey}
  <2>1. KubernetesMapping[f][2] = s
    BY <1>1 DEF KubernetesMapping
  <2>2. /\ s \in Seq(E) /\ Len(s) = 5 /\ s[5] = EmptyKey
        /\ \A i \in 1 .. 4 : s[i] = PriorityPath[i] /\ s[i] \in Elements
    <3> HIDE DEF Elements
    <3> QED
      BY KeysOfPaths DEF PriorityPath
  <2> HIDE DEF s
  <2>3. /\ 4 \in 0 .. Len(s) /\ \A i \in 1 .. 4 : s[i] # EmptyKey
        /\ \A i \in 4 + 1 .. Len(s) : s[i] = EmptyKey
    BY <2>2, NoneEmpty
  <2>4. PathFromString(s) = SubSeq(s, 1, 4)
    BY <2>2, <2>3, PathWithoutEnd
  <2>5. SubSeq(s, 1, 4) = PriorityPath
    <3>1. \A i \in 1 .. 4 : s[i] \in E
      BY <2>2
    <3>2. /\ SubSeq(s, 1, 4) \in Seq(E) /\ Len(SubSeq(s, 1, 4)) = 4
          /\ \A i \in 1 .. 4 : SubSeq(s, 1, 4)[i] = s[i]
      <4>1. /\ SubSeq(s, 1, 4) \in Seq(E) /\ Len(SubSeq(s, 1, 4)) = IF 1 <= 4 THEN 4 - 1 + 1 ELSE 0
            /\ \A i \in 1 .. 4 - 1 + 1 : SubSeq(s, 1, 4)[i] = s[1 + i - 1]
        BY <3>1, SubSeqProperties
      <4> QED
        BY <4>1
    <3>3. PriorityPath \in Seq(E) /\ Len(PriorityPath) = 4
      BY OtherPaths, SeqMonotonic
    <3> QED
      BY <2>2, <3>2, <3>3, SeqEqual
  <2> QED
    BY <1>1, <2>1, <2>4, <2>5 DEF SettingPath, PlainPath
<1>2. CASE f # "PriorityClassName"
  <2> DEFINE s == KubernetesMapping[f][2]
  <2>1. s = PlainPath(f)
    BY <1>2 DEF PlainPath
  <2>2. s \in Seq(Elements) /\ Len(s) \in Nat /\ \A i \in 1 .. Len(s) : s[i] \in Elements
    BY <2>1, PlainPaths, LenProperties, ElementOfSeq
  <2> HIDE DEF s
  <2>3. PathFromString(s) = SubSeq(s, 1, Len(s))
    <3>1. /\ Len(s) \in 0 .. Len(s) /\ \A i \in 1 .. Len(s) : s[i] # EmptyKey
          /\ \A i \in Len(s) + 1 .. Len(s) : s[i] = EmptyKey
      BY <2>2, NoneEmpty
    <3> QED
      BY <2>2, <3>1, PathWithoutEnd
  <2>4. SubSeq(s, 1, Len(s)) = s
    BY <2>2, SubSeqFull
  <2> QED
    BY <2>1, <2>3, <2>4 DEF SettingPath, s
<1> QED
  BY <1>1, <1>2

LEMMA ApartSymmetric ==
  ASSUME NEW E, NEW p \in Seq(E), NEW q \in Seq(E), Apart(p, q) PROVE Apart(q, p)
<1>1. Len(p) \in Nat /\ Len(q) \in Nat
  BY LenProperties
<1>2. PICK i \in 1 .. Len(p) :
        /\ i <= Len(q)
        /\ \A j \in 1 .. i - 1 : p[j] = q[j]
        /\ ~p[i].brackets /\ ~q[i].brackets /\ NameOf(p[i]) # NameOf(q[i])
  BY Zenon DEF Apart
<1>3. i \in 1 .. Len(q) /\ i <= Len(p)
  BY <1>1, <1>2
<1> QED
  BY <1>2, <1>3, Zenon DEF Apart

\* Two paths that part with two keys.
LEMMA PartAt ==
  ASSUME NEW p \in Seq(Elements), NEW q \in Seq(Elements), NEW i \in 1 .. Len(p), i <= Len(q),
         \A j \in 1 .. i - 1 : p[j] = q[j],
         ~p[i].brackets, ~q[i].brackets, p[i] # q[i]
  PROVE  Apart(p, q)
<1>1. p[i] \in Elements /\ q[i] \in Elements
  <2>1. Len(p) \in Nat /\ Len(q) \in Nat
    BY LenProperties
  <2>2. i \in 1 .. Len(q)
    BY <2>1
  <2> QED
    BY <2>2, ElementOfSeq
<1>2. p[i] = Key(NameOf(p[i])) /\ q[i] = Key(NameOf(q[i]))
  BY <1>1, ElementsWellFormed DEF WellFormed
<1>3. NameOf(p[i]) # NameOf(q[i])
  BY <1>2
<1> QED
  BY <1>3, Zenon DEF Apart

LEMMA KeysApart ==
  /\ \A k : ~Key(k).brackets
  /\ Key("containers") # Key("priorityClassName") /\ Key("spec") # Key("metadata")
  /\ Key("template") # Key("replicas")
BY KeysDiffer

\* Different settings of one kind of object have paths apart.
LEMMA PathsApart ==
  ASSUME NEW f \in DOMAIN KubernetesMapping, NEW g \in DOMAIN KubernetesMapping, f # g,
         KubernetesMapping[f][1] = KubernetesMapping[g][1]
  PROVE  Apart(SettingPath(f), SettingPath(g))
<1>1. ASSUME NEW j \in InnerKeys, NEW k \in InnerKeys, j # k
      PROVE  Apart(InContainer(j), InContainer(k))
  <2> DEFINE p == InContainer(j)
             q == InContainer(k)
  <2>1. /\ p \in Seq(Elements) /\ q \in Seq(Elements) /\ 6 \in 1 .. Len(p) /\ 6 <= Len(q)
        /\ \A i \in 1 .. 6 - 1 : p[i] = q[i]
        /\ p[6] = Key(j) /\ q[6] = Key(k)
    BY Container
  <2>2. Key(j) # Key(k)
    BY <1>1, KeysDiffer
  <2> HIDE DEF p, q
  <2>3. ~p[6].brackets /\ ~q[6].brackets /\ p[6] # q[6]
    BY <2>1, <2>2, KeysApart
  <2>4. Apart(p, q)
    BY <2>1, <2>3, PartAt
  <2> QED
    BY <2>4 DEF p, q
<1>2. ASSUME NEW j \in InnerKeys PROVE Apart(InContainer(j), PriorityPath)
  <2> DEFINE p == InContainer(j)
             q == PriorityPath
  <2>1. /\ p \in Seq(Elements) /\ q \in Seq(Elements) /\ 4 \in 1 .. Len(p) /\ 4 <= Len(q)
        /\ \A i \in 1 .. 4 - 1 : p[i] = q[i]
        /\ p[4] = Key("containers") /\ q[4] = Key("priorityClassName")
    BY Container, OtherPaths
  <2> HIDE DEF p, q
  <2>2. ~p[4].brackets /\ ~q[4].brackets /\ p[4] # q[4]
    BY <2>1, KeysApart
  <2>3. Apart(p, q)
    BY <2>1, <2>2, PartAt
  <2> QED
    BY <2>3 DEF p, q
<1>3. ASSUME NEW j \in InnerKeys PROVE Apart(InContainer(j), AnnotationsPath)
  <2> DEFINE p == InContainer(j)
             q == AnnotationsPath
  <2>1. /\ p \in Seq(Elements) /\ q \in Seq(Elements) /\ 3 \in 1 .. Len(p) /\ 3 <= Len(q)
        /\ \A i \in 1 .. 3 - 1 : p[i] = q[i]
        /\ p[3] = Key("spec") /\ q[3] = Key("metadata")
    BY Container, OtherPaths
  <2> HIDE DEF p, q
  <2>2. ~p[3].brackets /\ ~q[3].brackets /\ p[3] # q[3]
    BY <2>1, KeysApart
  <2>3. Apart(p, q)
    BY <2>1, <2>2, PartAt
  <2> QED
    BY <2>3 DEF p, q
<1>4. ASSUME NEW j \in InnerKeys PROVE Apart(InContainer(j), ReplicasPath)
  <2> DEFINE p == InContainer(j)
             q == ReplicasPath
  <2>1. /\ p \in Seq(Elements) /\ q \in Seq(Elements) /\ 2 \in 1 .. Len(p) /\ 2 <= Len(q)
        /\ \A i \in 1 .. 2 - 1 : p[i] = q[i]
        /\ p[2] = Key("template") /\ q[2] = Key("replicas")
    BY Container, OtherPaths
  <2> HIDE DEF p, q
  <2>2. ~p[2].brackets /\ ~q[2].brackets /\ p[2] # q[2]
    BY <2>1, KeysApart
  <2>3. Apart(p, q)
    BY <2>1, <2>2, PartAt
  <2> QED
    BY <2>3 DEF p, q
<1>5. Apart(PriorityPath, AnnotationsPath)
  <2> DEFINE p == PriorityPath
             q == AnnotationsPath
  <2>1. /\ p \in Seq(Elements) /\ q \in Seq(Elements) /\ 3 \in 1 .. Len(p) /\ 3 <= Len(q)
        /\ \A i \in 1 .. 3 - 1 : p[i] = q[i]
        /\ p[3] = Key("spec") /\ q[3] = Key("metadata")
    BY OtherPaths
  <2> HIDE DEF p, q
  <2>2. ~p[3].brackets /\ ~q[3].brackets /\ p[3] # q[3]
    BY <2>1, KeysApart
  <2>3. Apart(p, q)
    BY <2>1, <2>2, PartAt
  <2> QED
    BY <2>3 DEF p, q
<1>6. Apart(PriorityPath, ReplicasPath)
  <2> DEFINE p == PriorityPath
             q == ReplicasPath
  <2>1. /\ p \in Seq(Elements) /\ q \in Seq(Elements) /\ 2 \in 1 .. Len(p) /\ 2 <= Len(q)
        /\ \A i \in 1 .. 2 - 1 : p[i] = q[i]
        /\ p[2] = Key("template") /\ q[2] = Key("replicas")
    BY OtherPaths
  <2> HIDE DEF p, q
  <2>2. ~p[2].brackets /\ ~q[2].brackets /\ p[2] # q[2]
    BY <2>1, KeysApart
  <2>3. Apart(p, q)
    BY <2>1, <2>2, PartAt
  <2> QED
    BY <2>3 DEF p, q
<1>7. Apart(AnnotationsPath, ReplicasPath)
  <2> DEFINE p == AnnotationsPath
             q == ReplicasPath
  <2>1. /\ p \in Seq(Elements) /\ q \in Seq(Elements) /\ 2 \in 1 .. Len(p) /\ 2 <= Len(q)
        /\ \A i \in 1 .. 2 - 1 : p[i] = q[i]
        /\ p[2] = Key("template") /\ q[2] = Key("replicas")
    BY OtherPaths
  <2> HIDE DEF p, q
  <2>2. ~p[2].brackets /\ ~q[2].brackets /\ p[2] # q[2]
    BY <2>1, KeysApart
  <2>3. Apart(p, q)
    BY <2>1, <2>2, PartAt
  <2> QED
    BY <2>3 DEF p, q
<1>8. /\ PlainPath(f) \in Seq(Elements) /\ PlainPath(g) \in Seq(Elements)
      /\ SettingPath(f) = PlainPath(f) /\ SettingPath(g) = PlainPath(g)
  BY PlainPaths, SettingPaths
<1>9. f \in DOMAIN ContainerKeys /\ g \in DOMAIN ContainerKeys => ContainerKeys[f] # ContainerKeys[g]
  BY DEF ContainerKeys
<1>10. ASSUME NEW h \in DOMAIN KubernetesMapping, h \in DOMAIN ContainerKeys
       PROVE  KubernetesMapping[h][1] = "Deployment" /\ \E j \in InnerKeys : PlainPath(h) = InContainer(j)
  <2>1. h \notin {"PriorityClassName", "PodAnnotations", "ReplicaCount", "HpaSpec", "PodDisruptionBudget"}
    BY <1>10 DEF ContainerKeys
  <2> QED
    BY <2>1, Mapping
<1>11. ASSUME NEW h \in DOMAIN KubernetesMapping, h \notin DOMAIN ContainerKeys,
              KubernetesMapping[h][1] = "Deployment"
       PROVE  PlainPath(h) \in {PriorityPath, AnnotationsPath, ReplicasPath}
  BY <1>11, Mapping
<1>12. Apart(PlainPath(f), PlainPath(g)) \/ Apart(PlainPath(g), PlainPath(f))
  <2>1. CASE f \in DOMAIN ContainerKeys /\ g \in DOMAIN ContainerKeys
    <3>1. ContainerKeys[f] \in InnerKeys /\ ContainerKeys[g] \in InnerKeys
      BY <2>1 DEF ContainerKeys, InnerKeys
    <3>2. PlainPath(f) = InContainer(ContainerKeys[f]) /\ PlainPath(g) = InContainer(ContainerKeys[g])
      <4>1. \A h \in DOMAIN ContainerKeys :
              h \notin {"PriorityClassName", "PodAnnotations", "ReplicaCount", "HpaSpec", "PodDisruptionBudget"}
        BY DEF ContainerKeys
      <4> QED
        BY <2>1, <4>1, Mapping
    <3> QED
      BY <1>1, <1>9, <2>1, <3>1, <3>2
  <2>2. CASE f \in DOMAIN ContainerKeys /\ g \notin DOMAIN ContainerKeys
    BY <1>2, <1>3, <1>4, <1>10, <1>11, <2>2
  <2>3. CASE g \in DOMAIN ContainerKeys /\ f \notin DOMAIN ContainerKeys
    BY <1>2, <1>3, <1>4, <1>10, <1>11, <2>3
  <2>4. CASE f \notin DOMAIN ContainerKeys /\ g \notin DOMAIN ContainerKeys
    BY <1>5, <1>6, <1>7, <2>4, Mapping
  <2> QED
    BY <2>1, <2>2, <2>3, <2>4
<1> QED
  BY <1>8, <1>12, ApartSymmetric
-----------------------------------------------------------------------------
(* Objects by their kind and name.                                          *)

\* The last object of a kind and name, or 0.
LastOf(s, w) == SelectLastInSeq(s, LAMBDA o : NameKind(o) = w)

LEMMA LastOfCases ==
  ASSUME NEW s, IsSeq(s), NEW w, LastOf(s, w) # 0
  PROVE  LastOf(s, w) \in DOMAIN s /\ NameKind(s[LastOf(s, w)]) = w
<1> DEFINE I == {i \in 1 .. Len(s) : NameKind(s[i]) = w}
<1>1. Len(s) \in Nat /\ DOMAIN s = 1 .. Len(s)
  BY LenProperties DEF IsSeq
<1>2. LastOf(s, w) = IF I # {} THEN Max(I) ELSE 0
  BY DEF LastOf, SelectLastInSeq
<1>3. I # {} /\ LastOf(s, w) = Max(I)
  BY <1>2
<1>4. Max(I) \in I
  <2>1. I \subseteq 1 .. Len(s)
    OBVIOUS
  <2> HIDE DEF I
  <2> QED
    BY <1>1, <1>3, <2>1, LargestIndex DEF Max
<1> QED
  BY <1>1, <1>3, <1>4

LEMMA LastOfSame ==
  ASSUME NEW s, NEW t, Len(s) = Len(t), NEW w,
         \A i \in 1 .. Len(s) : NameKind(s[i]) = NameKind(t[i])
  PROVE  LastOf(s, w) = LastOf(t, w)
<1>1. {i \in 1 .. Len(s) : NameKind(s[i]) = w} = {i \in 1 .. Len(t) : NameKind(t[i]) = w}
  OBVIOUS
<1> QED
  BY <1>1 DEF LastOf, SelectLastInSeq

\* A sequence with one object replaced.
LEMMA Replaced ==
  ASSUME NEW s, IsSeq(s), NEW at \in DOMAIN s, NEW o
  PROVE  LET t == [s EXCEPT ![at] = o]
         IN  /\ IsSeq(t) /\ Len(t) = Len(s) /\ DOMAIN t = DOMAIN s
             /\ t[at] = o /\ \A i \in DOMAIN s : i # at => t[i] = s[i]
<1> DEFINE t == [s EXCEPT ![at] = o]
<1>1. Len(s) \in Nat /\ DOMAIN s = 1 .. Len(s)
  BY LenProperties DEF IsSeq
<1>2. t = [i \in 1 .. Len(s) |-> t[i]]
  BY <1>1
<1>3. [i \in 1 .. Len(s) |-> t[i]] \in Seq({t[i] : i \in 1 .. Len(s)})
  BY <1>1
<1>4. DOMAIN t = 1 .. Len(s)
  BY <1>1
<1>5. IsSeq(t)
  <2> HIDE DEF t
  <2> QED
    BY <1>2, <1>3, <1>4 DEF IsSeq
<1>6. Len(t) = Len(s)
  <2> HIDE DEF t
  <2> QED
    BY <1>1, <1>4, <1>5, LenProperties DEF IsSeq
<1> QED
  BY <1>1, <1>4, <1>5, <1>6
-----------------------------------------------------------------------------
(* The invariant.                                                           *)

\* What the operations on trees do below a node is what they do; see Tree.
Recursion == SetRecursion /\ LookupRecursion /\ FitsRecursion /\ LeavesRecursion

Wanted(f) == <<KubernetesMapping[f][1], Leaf(ResourceName)>>
ValueOf(f) == AsYAML(K8sSetting(f).value)

\* An object is still the chart's but for the settings, for which it has room.
LeavesKept(i) ==
  \A l \in Leaves(rendered[i]) :
    \/ l \in Leaves(objects[i])
    \/ \E f \in GivenSettings : LastOf(objects, Wanted(f)) = i /\ IsPrefix(SettingPath(f), l[1])

ObjectInv(i) ==
  /\ IsMap(objects[i])
  /\ NameKind(objects[i]) = NameKind(rendered[i])
  /\ \A f \in GivenSettings : NameKind(objects[i]) = Wanted(f) => Fits(objects[i], SettingPath(f))
  /\ LeavesKept(i)

ReadBack(f) ==
  /\ LastOf(objects, Wanted(f)) # 0
  /\ Lookup(objects[LastOf(objects, Wanted(f))], SettingPath(f)) = ValueOf(f)

SettingsInv ==
  /\ IsSeq(objects) /\ IsSeq(rendered) /\ Len(objects) = Len(rendered)
  /\ step = "settings" => todo \subseteq GivenSettings
  /\ \A i \in DOMAIN objects : ObjectInv(i)
  /\ \A f \in GivenSettings : SettingDone(f) => ReadBack(f)

LEMMA TargetIsLast == \A f : Target(f) = LastOf(objects, Wanted(f))
BY DEF Target, LastOf, Wanted

\* A setting in one object: it is there, the other settings of the object are as
\* they were, and so are the name, the kind and the leaves that are not below it.
LEMMA SettingWritten ==
  ASSUME Recursion, NEW f \in DOMAIN KubernetesMapping, NEW v, ~Failed(v),
         NEW t, IsMap(t), Fits(t, SettingPath(f))
  PROVE  LET new == setTree(t, SettingPath(f), v)
         IN  /\ ~Failed(new) /\ IsMap(new) /\ NameKind(new) = NameKind(t)
             /\ Lookup(new, SettingPath(f)) = v /\ Fits(new, SettingPath(f))
             /\ \A l \in Leaves(t) : l \in Leaves(new) \/ IsPrefix(SettingPath(f), l[1])
             /\ \A g \in DOMAIN KubernetesMapping :
                  g # f /\ KubernetesMapping[g][1] = KubernetesMapping[f][1] /\ Fits(t, SettingPath(g)) =>
                    Lookup(new, SettingPath(g)) = Lookup(t, SettingPath(g)) /\ Fits(new, SettingPath(g))
<1> DEFINE p == SettingPath(f)
           new == setTree(t, p, v)
<1>1. p \in Seq(Elements) /\ p # <<>> /\ p[1] = Key("spec")
  BY SettingPaths, PlainPaths
<1>2. SetRecursion /\ LookupRecursion /\ FitsRecursion /\ LeavesRecursion
  BY DEF Recursion
<1> HIDE DEF p
<1>3. Written(t, p, v)
  BY <1>1, <1>2, SetThenLookup DEF p
<1>4. /\ ~Failed(new) /\ IsMap(new) /\ Lookup(new, p) = v /\ Fits(new, p)
      /\ \A k : k # NameOf(p[1]) => Entry(new, k) = Entry(t, k)
  BY <1>3 DEF Written
<1>5. KeepsLeaves(t, p, new)
  BY <1>1, <1>2, ElementsWellFormed, SetKeepsLeaves DEF p
<1>6. NameKind(new) = NameKind(t)
  <2>1. NameOf(p[1]) = "spec"
    BY <1>1, KeysDiffer
  <2>2. Entry(new, "kind") = Entry(t, "kind") /\ Entry(new, "metadata") = Entry(t, "metadata")
    BY <1>4, <2>1
  <2> HIDE DEF new
  <2> QED
    BY <2>2 DEF NameKind, KindOf, Metadata
<1>7. ASSUME NEW g \in DOMAIN KubernetesMapping, g # f,
             KubernetesMapping[g][1] = KubernetesMapping[f][1], Fits(t, SettingPath(g))
      PROVE  Lookup(new, SettingPath(g)) = Lookup(t, SettingPath(g)) /\ Fits(new, SettingPath(g))
  <2>1. SettingPath(g) \in Seq(Elements)
    BY SettingPaths, PlainPaths
  <2>2. Apart(SettingPath(g), p)
    BY <1>7, PathsApart DEF p
  <2>3. Fits(t, p)
    BY DEF p
  <2>4. Untouched(t, SettingPath(g), new)
    BY <1>1, <1>2, <1>7, <2>1, <2>2, <2>3, SetElsewhere
  <2> QED
    BY <2>4 DEF Untouched
<1>8. \A l \in Leaves(t) : l \in Leaves(new) \/ IsPrefix(p, l[1])
  BY <1>5 DEF KeepsLeaves
<1> HIDE DEF new
<1>9. /\ ~Failed(new) /\ IsMap(new) /\ NameKind(new) = NameKind(t)
      /\ Lookup(new, p) = v /\ Fits(new, p)
  BY <1>4, <1>6
<1> QED
  BY <1>7, <1>8, <1>9 DEF new, p

\* Steps that leave the objects alone.
LEMMA SameObjects ==
  ASSUME SettingsInv, UNCHANGED <<spec, rendered, objects>>,
         \A f : SettingDone(f)' => SettingDone(f), step' = "settings" => todo' \subseteq GivenSettings
  PROVE  SettingsInv'
<1>1. GivenSettings' = GivenSettings /\ \A f : K8sSetting(f)' = K8sSetting(f)
  BY DEF GivenSettings, K8sSetting
<1>2. \A f : ValueOf(f)' = ValueOf(f) /\ Wanted(f)' = Wanted(f) /\ SettingPath(f)' = SettingPath(f)
  BY <1>1 DEF ValueOf, Wanted, SettingPath
<1>3. \A i : ObjectInv(i)' <=> ObjectInv(i)
  BY <1>1, <1>2 DEF ObjectInv, LeavesKept
<1>4. \A f : ReadBack(f)' <=> ReadBack(f)
  BY <1>1, <1>2 DEF ReadBack
<1> QED
  BY <1>1, <1>2, <1>3, <1>4 DEF SettingsInv

\* The objects of the chart are as the chart has them.
LEMMA ChartObjects ==
  ASSUME SettingsInv, ChartGivesObjects, SettingsFit', RenderChart PROVE SettingsInv'
<1>1. CASE Chart(values) = Bad
  <2>1. UNCHANGED <<spec, rendered, objects>> /\ step' = "error"
    BY <1>1 DEF RenderChart, ReturnError
  <2> QED
    BY <2>1, SameObjects DEF SettingDone
<1>2. CASE Chart(values) # Bad
  <2>1. /\ rendered' = objects' /\ IsSeq(objects') /\ spec' = spec
        /\ step' = "settings" /\ todo' = GivenSettings
    BY <1>2 DEF RenderChart, ChartGivesObjects
  <2>2. GivenSettings' = GivenSettings
    BY <2>1 DEF GivenSettings, K8sSetting
  <2>3. \A f \in GivenSettings' : ~SettingDone(f)'
    BY <2>1, <2>2 DEF SettingDone
  <2>4. ASSUME NEW i \in DOMAIN objects' PROVE ObjectInv(i)'
    <3>1. /\ IsMap(rendered'[i])
          /\ \A f \in GivenSettings' : NameKind(rendered'[i]) = Wanted(f)' => Fits(rendered'[i], SettingPath(f)')
      BY <2>1, <2>4 DEF SettingsFit, Wanted
    <3>2. LeavesKept(i)'
      BY <2>1 DEF LeavesKept
    <3> QED
      BY <2>1, <3>1, <3>2 DEF ObjectInv
  <2> QED
    BY <2>1, <2>2, <2>3, <2>4 DEF SettingsInv
<1> QED
  BY <1>1, <1>2

\* One turn of the loop writes one setting.
LEMMA SettingStep ==
  ASSUME Recursion, SettingsInv, SettingsFit,
         NEW f \in DOMAIN KubernetesMapping, OverlayK8sSetting(f)
  PROVE  SettingsInv'
<1> DEFINE at == LastOf(objects, Wanted(f))
           new == setTree(objects[at], SettingPath(f), ValueOf(f))
<1>1. step = "settings" /\ f \in todo /\ f \in GivenSettings /\ UNCHANGED <<spec, rendered>>
  BY DEF OverlayK8sSetting, SettingsInv
<1>2. CASE at = 0
  <2>1. UNCHANGED objects /\ step' = "error"
    BY <1>2, TargetIsLast DEF OverlayK8sSetting, ReturnError
  <2> QED
    BY <1>1, <2>1, SameObjects DEF SettingDone
<1>3. CASE at # 0
  <2>1. at \in DOMAIN objects /\ NameKind(objects[at]) = Wanted(f)
    BY <1>3, LastOfCases DEF SettingsInv
  <2>2. /\ IsMap(objects[at]) /\ LeavesKept(at) /\ NameKind(objects[at]) = NameKind(rendered[at])
        /\ \A g \in GivenSettings : NameKind(objects[at]) = Wanted(g) => Fits(objects[at], SettingPath(g))
    BY <2>1 DEF SettingsInv, ObjectInv
  <2>3. ~Failed(ValueOf(f))
    BY <1>1 DEF SettingsFit, ValueOf
  <2>4. Fits(objects[at], SettingPath(f))
    BY <1>1, <2>1, <2>2
  <2>5. /\ ~Failed(new) /\ IsMap(new) /\ NameKind(new) = NameKind(objects[at])
        /\ Lookup(new, SettingPath(f)) = ValueOf(f) /\ Fits(new, SettingPath(f))
        /\ \A l \in Leaves(objects[at]) : l \in Leaves(new) \/ IsPrefix(SettingPath(f), l[1])
        /\ \A g \in DOMAIN KubernetesMapping :
             g # f /\ KubernetesMapping[g][1] = KubernetesMapping[f][1] /\ Fits(objects[at], SettingPath(g)) =>
               Lookup(new, SettingPath(g)) = Lookup(objects[at], SettingPath(g)) /\ Fits(new, SettingPath(g))
    BY <2>2, <2>3, <2>4, SettingWritten
  <2>6. objects' = [objects EXCEPT ![at] = new] /\ todo' = todo \ {f} /\ step' = "settings"
    <3>1. Target(f) = at
      BY TargetIsLast
    <3>2. new # Bad
      BY <2>5 DEF Failed
    <3> HIDE DEF at
    <3> QED
      BY <1>1, <1>3, <3>1, <3>2 DEF OverlayK8sSetting, ValueOf
  <2> HIDE DEF new
  <2>7. /\ IsSeq(objects') /\ Len(objects') = Len(objects) /\ DOMAIN objects' = DOMAIN objects
        /\ objects'[at] = new /\ \A i \in DOMAIN objects : i # at => objects'[i] = objects[i]
    <3> HIDE DEF at
    <3> QED
      BY <2>1, <2>6, Replaced DEF SettingsInv
  <2>8. \A i \in DOMAIN objects : NameKind(objects'[i]) = NameKind(objects[i])
    BY <2>5, <2>7
  <2>9. ASSUME NEW w PROVE LastOf(objects', w) = LastOf(objects, w)
    <3>1. DOMAIN objects' = 1 .. Len(objects')
      BY <2>7, LenProperties DEF IsSeq
    <3> QED
      BY <2>7, <2>8, <3>1, LastOfSame
  <2>10. /\ GivenSettings' = GivenSettings
         /\ \A g : ValueOf(g)' = ValueOf(g) /\ Wanted(g)' = Wanted(g) /\ SettingPath(g)' = SettingPath(g)
    BY <1>1 DEF GivenSettings, K8sSetting, ValueOf, Wanted, SettingPath
  <2> HIDE DEF at
  <2>11. ASSUME NEW g \in GivenSettings, NameKind(objects[at]) = Wanted(g), g # f
         PROVE  Lookup(new, SettingPath(g)) = Lookup(objects[at], SettingPath(g)) /\ Fits(new, SettingPath(g))
    <3>1. KubernetesMapping[g][1] = KubernetesMapping[f][1] /\ g \in DOMAIN KubernetesMapping
      <4>1. g \in DOMAIN KubernetesMapping
        BY DEF GivenSettings
      <4>2. Wanted(g) = Wanted(f)
        BY <2>1, <2>11
      <4> QED
        BY <4>1, <4>2, Zenon DEF Wanted
    <3>2. Fits(objects[at], SettingPath(g))
      BY <2>2, <2>11
    <3> QED
      BY <2>5, <2>11, <3>1, <3>2
  <2>12. ASSUME NEW i \in DOMAIN objects PROVE ObjectInv(i)'
    <3>1. ObjectInv(i)
      BY DEF SettingsInv
    <3>2. LeavesKept(i)'
      <4>1. ASSUME NEW l \in Leaves(rendered[i])
            PROVE  \/ l \in Leaves(objects'[i])
                   \/ \E g \in GivenSettings : LastOf(objects, Wanted(g)) = i /\ IsPrefix(SettingPath(g), l[1])
        <5>1. \/ l \in Leaves(objects[i])
              \/ \E g \in GivenSettings : LastOf(objects, Wanted(g)) = i /\ IsPrefix(SettingPath(g), l[1])
          BY <3>1 DEF ObjectInv, LeavesKept
        <5>2. CASE i = at
          BY <1>1, <2>5, <2>7, <5>1, <5>2 DEF at
        <5>3. CASE i # at
          BY <2>7, <5>1, <5>3
        <5> QED
          BY <5>2, <5>3
      <4> QED
        BY <1>1, <2>9, <2>10, <4>1 DEF LeavesKept
    <3>3. CASE i = at
      <4>1. \A g \in GivenSettings : NameKind(objects'[i]) = Wanted(g) => Fits(objects'[i], SettingPath(g))
        BY <2>5, <2>7, <2>11, <3>3
      <4> QED
        BY <1>1, <2>2, <2>5, <2>7, <2>10, <3>2, <3>3, <4>1 DEF ObjectInv
    <3>4. CASE i # at
      BY <1>1, <2>7, <2>10, <3>1, <3>2, <3>4 DEF ObjectInv
    <3> QED
      BY <3>3, <3>4
  <2>13. ASSUME NEW g \in GivenSettings, SettingDone(g)'
         PROVE  ReadBack(g)'
    <3>1. LastOf(objects', Wanted(g)) # 0 /\ Lookup(objects'[LastOf(objects', Wanted(g))], SettingPath(g)) = ValueOf(g)
      <4>1. CASE g = f
        BY <1>3, <2>5, <2>7, <2>9, <4>1 DEF at
      <4>2. CASE g # f
        <5>1. ReadBack(g)
          BY <1>1, <2>6, <2>13, <4>2 DEF SettingsInv, SettingDone
        <5> DEFINE b == LastOf(objects, Wanted(g))
        <5>2. b # 0 /\ Lookup(objects[b], SettingPath(g)) = ValueOf(g)
          BY <5>1 DEF ReadBack
        <5>3. b \in DOMAIN objects /\ NameKind(objects[b]) = Wanted(g)
          BY <5>2, LastOfCases DEF SettingsInv
        <5>4. LastOf(objects', Wanted(g)) = b
          BY <2>9
        <5> HIDE DEF b
        <5>5. CASE b = at
          BY <2>7, <2>11, <4>2, <5>2, <5>3, <5>4, <5>5
        <5>6. CASE b # at
          BY <2>7, <5>2, <5>3, <5>4, <5>6
        <5> QED
          BY <5>5, <5>6
      <4> QED
        BY <4>1, <4>2
    <3> QED
      BY <2>10, <3>1 DEF ReadBack
  <2>14. step' = "settings" => todo' \subseteq GivenSettings'
    BY <1>1, <2>6, <2>10 DEF SettingsInv
  <2>15. IsSeq(rendered') /\ Len(objects') = Len(rendered')
    BY <1>1, <2>7 DEF SettingsInv
  <2> QED
    BY <2>7, <2>10, <2>12, <2>13, <2>14, <2>15 DEF SettingsInv
<1> QED
  BY <1>2, <1>3

LEMMA InitSettings == Init => SettingsInv
<1> SUFFICES ASSUME Init PROVE SettingsInv
  OBVIOUS
<1>1. objects = <<>> /\ rendered = <<>> /\ step = "start"
  BY DEF Init
<1>2. DOMAIN objects = {} /\ IsSeq(objects) /\ IsSeq(rendered)
  BY <1>1, EmptyCount
<1> QED
  BY <1>1, <1>2 DEF SettingsInv, SettingDone

LEMMA StepSettings ==
  ASSUME Recursion, ChartGivesObjects, SettingsInv, SettingsFit, SettingsFit', [Next]_vars
  PROVE  SettingsInv'
<1>1. CASE RenderChart
  BY <1>1, ChartObjects
<1>2. ASSUME NEW f \in DOMAIN KubernetesMapping, OverlayK8sSetting(f) PROVE SettingsInv'
  BY <1>2, SettingStep
<1>3. CASE \/ SkipDisabled \/ TranslateLeaves \/ MergeValues
           \/ \E p \in DOMAIN FeatureComponentToValues : setEnablementAndNamespaces(p)
  <2>1. /\ UNCHANGED <<spec, rendered, objects>>
        /\ step' \in {"disabled", "error", "enablement", "chart"}
    BY <1>3 DEF SkipDisabled, TranslateLeaves, MergeValues, setEnablementAndNamespaces, ReturnError
  <2> QED
    BY <2>1, SameObjects DEF SettingDone
<1>4. CASE StartPatching
  <2>1. /\ UNCHANGED <<spec, rendered, objects>>
        /\ step = "settings" /\ todo = {} /\ step' \in {"error", "done", "patch"}
    BY <1>4 DEF StartPatching, ReturnError
  <2> QED
    BY <2>1, SameObjects DEF SettingDone
<1>5. CASE \/ \E h \in Overridden : PatchObject(h)
           \/ StartRest
           \/ \E h \in Hashes : CopyObject(h)
           \/ FinishRest
  <2>1. /\ UNCHANGED <<spec, rendered, objects>>
        /\ step \in {"patch", "rest"} /\ step' \in {"panic", "patch", "rest", "done"}
    BY <1>5 DEF PatchObject, StartRest, CopyObject, FinishRest
  <2> QED
    BY <2>1, SameObjects DEF SettingDone
<1>6. CASE UNCHANGED vars
  <2>1. UNCHANGED <<spec, rendered, objects, step, todo>>
    BY <1>6 DEF vars
  <2>2. step' = "settings" => todo' \subseteq GivenSettings
    BY <2>1 DEF SettingsInv
  <2> QED
    BY <2>1, <2>2, SameObjects DEF SettingDone
<1> QED
  BY <1>1, <1>2, <1>3, <1>4, <1>5, <1>6 DEF Next

LEMMA SettingsInvGives ==
  ASSUME SettingsInv PROVE SettingsReadBack /\ SettingsFrame
<1>1. SettingsReadBack
  BY TargetIsLast DEF SettingsInv, SettingsReadBack, ReadBack, ValueOf
<1>2. SettingsFrame
  BY TargetIsLast DEF SettingsInv, SettingsFrame, ObjectInv, LeavesKept
<1> QED
  BY <1>1, <1>2

\* OverlayK8sSettings: for every spec, and every chart whose objects have room for
\* the settings, a setting that is done is found where the mapping puts it, in
\* whatever order the loop over the map visits the settings.
THEOREM SettingsReadBackHolds ==
  Recursion /\ ChartGivesObjects => (Spec /\ []SettingsFit => []SettingsReadBack)
<1> SUFFICES ASSUME Recursion, ChartGivesObjects PROVE Spec /\ []SettingsFit => []SettingsReadBack
  OBVIOUS
<1>1. Init => SettingsInv
  BY InitSettings
<1>2. SettingsInv /\ SettingsFit /\ SettingsFit' /\ [Next]_vars => SettingsInv'
  BY StepSettings
<1>3. SettingsInv => SettingsReadBack
  BY SettingsInvGives
<1> QED
  BY <1>1, <1>2, <1>3, PTL DEF Spec

\* Of what the chart says the settings change nothing but what is at or below their
\* own paths, in the objects that they go into.
THEOREM SettingsFrameHolds ==
  Recursion /\ ChartGivesObjects => (Spec /\ []SettingsFit => []SettingsFrame)
<1> SUFFICES ASSUME Recursion, ChartGivesObjects PROVE Spec /\ []SettingsFit => []SettingsFrame
  OBVIOUS
<1>1. Init => SettingsInv
  BY InitSettings
<1>2. SettingsInv /\ SettingsFit /\ SettingsFit' /\ [Next]_vars => SettingsInv'
  BY StepSettings
<1>3. SettingsInv => SettingsFrame
  BY SettingsInvGives
<1> QED
  BY <1>1, <1>2, <1>3, PTL DEF Spec
-----------------------------------------------------------------------------
(* Patches.                                                                 *)

Spares(p) ==
  /\ NameOf(p[1]) # "kind"
  /\ NameOf(p[1]) = "metadata" => Len(p) > 1 /\ NameOf(p[2]) \notin {"name", "namespace"}

\* What is not of a map's own entries a patch leaves alone.
LEMMA PatchInMap ==
  ASSUME PatchRecursion, NEW E, NEW p \in Seq(E), p # <<>>, NEW t, IsMap(t), NEW v, ~Failed(Patch(t, p, v))
  PROVE  /\ IsMap(Patch(t, p, v))
         /\ \A k : k # NameOf(p[1]) => Entry(Patch(t, p, v), k) = Entry(t, k)
         /\ Len(p) > 1 => /\ ~Failed(Patch(Entry(t, NameOf(p[1])), Tail(p), v))
                          /\ Entry(Patch(t, p, v), NameOf(p[1])) = Patch(Entry(t, NameOf(p[1])), Tail(p), v)
<1> DEFINE k == NameOf(p[1])
           below == Patch(Entry(t, k), Tail(p), v)
           new == Patch(t, p, v)
<1>1. new = IF Len(p) = 1 THEN IF v = Null THEN t ELSE Put(t, k, v)
            ELSE IF Failed(below) THEN below ELSE Put(t, k, below)
  BY PatchedMap
<1>2. /\ \A x : IsMap(Put(t, k, x)) /\ Entry(Put(t, k, x), k) = x
      /\ \A x : \A j : j # k => Entry(Put(t, k, x), j) = Entry(t, j)
  BY Entries
<1>3. Len(p) \in Nat /\ ~Failed(new)
  BY PathParts
<1> HIDE DEF k, below, new
<1>4. new = t \/ \E x : new = Put(t, k, x)
  BY <1>1, <1>3
<1>5. Len(p) > 1 => ~Failed(below) /\ new = Put(t, k, below)
  <2>1. \A m \in Nat : m > 1 => m # 1
    OBVIOUS
  <2>2. Len(p) # 1 => ~Failed(below) /\ new = Put(t, k, below)
    BY <1>1, <1>3
  <2> QED
    BY <1>3, <2>1, <2>2
<1>6. IsMap(new) /\ \A j : j # k => Entry(new, j) = Entry(t, j)
  BY <1>2, <1>4
<1>7. Len(p) > 1 => ~Failed(below) /\ Entry(new, k) = below
  BY <1>2, <1>5
<1> QED
  BY <1>6, <1>7 DEF k, below, new

LEMMA PatchInList ==
  ASSUME PatchRecursion, NEW E, NEW p \in Seq(E), p # <<>>, NEW t, IsList(t), NEW v, ~Failed(Patch(t, p, v))
  PROVE  IsList(Patch(t, p, v))
<1>1. \/ Patch(t, p, v) = Bad
      \/ IsList(Patch(t, p, v))
      \/ \E x : Failed(x) /\ Patch(t, p, v) = x
  BY PatchedList
<1>2. Failed(Bad)
  BY DEF Failed
<1> QED
  BY <1>1, <1>2

\* Neither the kind nor what the metadata say of name and namespace.
LEMMA PatchSparesNames ==
  ASSUME PatchRecursion, NEW E, NEW p \in Seq(E), p # <<>> => Spares(p),
         NEW t, IsMap(t), NEW v, ~Failed(Patch(t, p, v))
  PROVE  IsMap(Patch(t, p, v)) /\ Hash(Patch(t, p, v)) = Hash(t)
<1> DEFINE new == Patch(t, p, v)
<1>0. \A q \in Seq(E) : \A s :
        q # <<>> /\ IsMap(s) /\ ~Failed(Patch(s, q, v)) =>
          IsMap(Patch(s, q, v)) /\ \A j : j # NameOf(q[1]) => Entry(Patch(s, q, v), j) = Entry(s, j)
  BY PatchInMap
<1>1. CASE p = <<>>
  <2>1. new = t
    BY <1>1 DEF Patch, Failed
  <2> QED
    BY <2>1
<1>2. CASE p # <<>>
  <2> DEFINE k == NameOf(p[1])
             data == Entry(t, "metadata")
             below == Patch(data, Tail(p), v)
  <2>1. /\ IsMap(new)
        /\ \A j : j # k => Entry(new, j) = Entry(t, j)
        /\ Len(p) > 1 /\ k = "metadata" => ~Failed(below) /\ Entry(new, "metadata") = below
    BY <1>2, PatchInMap
  <2>2. k # "kind" /\ (k = "metadata" => Len(p) > 1 /\ NameOf(p[2]) \notin {"name", "namespace"})
    BY <1>2 DEF Spares
  <2>3. k = "metadata" => Tail(p) \in Seq(E) /\ Tail(p) # <<>> /\ Tail(p)[1] = p[2]
    BY <1>2, <2>2, PathParts
  <2> HIDE DEF new, k
  <2>4. KindOf(new) = KindOf(t)
    BY <2>1, <2>2 DEF KindOf
  <2>5. ASSUME NEW n \in {"name", "namespace"} PROVE Metadata(new, n) = Metadata(t, n)
    <3>1. CASE k # "metadata"
      BY <2>1, <3>1 DEF Metadata
    <3>2. CASE k = "metadata" /\ IsMap(data)
      <4>1. NameOf(Tail(p)[1]) # n
        BY <2>2, <2>3, <2>5, <3>2
      <4>2. ~Failed(below) /\ Tail(p) \in Seq(E) /\ Tail(p) # <<>> /\ IsMap(data)
        BY <2>1, <2>2, <2>3, <3>2
      <4> HIDE DEF data
      <4>3. IsMap(below) /\ \A j : j # NameOf(Tail(p)[1]) => Entry(below, j) = Entry(data, j)
        BY <1>0, <4>2
      <4> HIDE DEF below
      <4> QED
        BY <2>1, <2>2, <3>2, <4>1, <4>3 DEF Metadata, data
    <3>3. CASE k = "metadata" /\ ~IsMap(data)
      <4>1. ~IsMap(below)
        <5>1. CASE IsList(data)
          <6>1. IsList(below)
            <7>1. ~Failed(below) /\ Tail(p) \in Seq(E) /\ Tail(p) # <<>>
              BY <2>1, <2>2, <2>3, <3>3
            <7> QED
              BY <5>1, <7>1, PatchInList
          <6> QED
            BY <6>1, NodesNotFailed
        <5>2. CASE ~IsList(data)
          BY <2>1, <2>2, <2>3, <3>3, <5>2 DEF Patch, Failed
        <5> QED
          BY <5>1, <5>2
      <4> HIDE DEF below
      <4> QED
        BY <2>1, <2>2, <3>3, <4>1 DEF Metadata
    <3> QED
      BY <3>1, <3>2, <3>3
  <2>6. Metadata(new, "name") = Metadata(t, "name") /\ Metadata(new, "namespace") = Metadata(t, "namespace")
    BY <2>5
  <2>7. Hash(new) = Hash(t)
    BY <2>4, <2>6 DEF Hash
  <2> QED
    BY <2>1, <2>7 DEF new
<1> QED
  BY <1>1, <1>2

LEMMA PatchPaths ==
  ASSUME NEW patch, IsSeq(patch.struct.Path.leaf)
  PROVE  PatchPath(patch) \in Seq({patch.struct.Path.leaf[i] : i \in DOMAIN patch.struct.Path.leaf})
BY PathElements DEF PatchPath, IsSeq

\* One turn of the loop of applyPatches.
TurnOf(r, patch) ==
  LET new == Patch(r.object, PatchPath(patch), Inserted(patch.struct.Value))
  IN  CASE r.result = Panic -> r
        [] r.result # Panic /\ new = Panic -> [r EXCEPT !.result = Panic]
        [] r.result # Panic /\ new = Bad -> [r EXCEPT !.result = Bad]
        [] OTHER -> [r EXCEPT !.object = new]

LEMMA TurnByTurn ==
  ASSUME NEW object, NEW patches, IsSeq(patches)
  PROVE  LET turn == Turns(object, patches)
         IN  /\ turn[0] = [object |-> object, result |-> Null]
             /\ \A i \in 1 .. Len(patches) : turn[i] = TurnOf(turn[i - 1], patches[i])
<1> DEFINE start == [object |-> object, result |-> Null]
           Step(f, i) == IF i = 0 THEN start ELSE TurnOf(f[i - 1], patches[i])
           Rec(f, n) == f = [i \in 0 .. n |-> Step(f, i)]
           turn == CHOOSE f : Rec(f, Len(patches))
           A == {n \in Nat : \E f : Rec(f, n)}
<1>1. Len(patches) \in Nat /\ Turns(object, patches) = turn
  BY LenProperties DEF IsSeq, Turns, TurnOf
<1> HIDE DEF start
<1>2. 0 \in A
  <2> DEFINE f == [i \in 0 .. 0 |-> start]
  <2>1. \A i \in 0 .. 0 : i = 0
    OBVIOUS
  <2>2. Rec(f, 0)
    BY <2>1
  <2> HIDE DEF Rec
  <2> QED
    BY <2>2
<1>3. ASSUME NEW n \in Nat, n \in A PROVE n + 1 \in A
  <2>1. PICK f : Rec(f, n)
    BY <1>3
  <2> DEFINE g == [i \in 0 .. n + 1 |-> IF i <= n THEN f[i] ELSE Step(f, i)]
  <2>2. \A i \in 0 .. n : f[i] = Step(f, i)
    <3> HIDE DEF Step
    <3> QED
      BY <2>1
  <2>3. \A i \in 0 .. n + 1 : i # 0 => g[i - 1] = f[i - 1]
    <3>1. \A i \in 0 .. n + 1 : i # 0 => i - 1 \in 0 .. n + 1 /\ i - 1 <= n
      OBVIOUS
    <3> HIDE DEF Step
    <3> QED
      BY <3>1
  <2>4. \A i \in 0 .. n + 1 : g[i] = Step(f, i)
    <3>1. \A i \in 0 .. n + 1 : i <= n => i \in 0 .. n
      OBVIOUS
    <3> HIDE DEF Step
    <3> QED
      BY <2>2, <3>1
  <2>5. g = [i \in 0 .. n + 1 |-> g[i]]
    OBVIOUS
  <2> HIDE DEF g
  <2>6. \A i \in 0 .. n + 1 : Step(g, i) = Step(f, i)
    BY <2>3
  <2>7. Rec(g, n + 1)
    <3> HIDE DEF Step
    <3> QED
      BY <2>4, <2>5, <2>6
  <2> HIDE DEF Rec
  <2> QED
    BY <2>7
<1>4. \E f : Rec(f, Len(patches))
  <2>1. \A n \in Nat : n \in A
    <3> HIDE DEF A
    <3> QED
      BY <1>2, <1>3, Induction
  <2> HIDE DEF Rec
  <2> QED
    BY <1>1, <2>1
<1>5. Rec(turn, Len(patches))
  <2> HIDE DEF Rec
  <2> QED
    BY <1>4
<1>6. \A i \in 0 .. Len(patches) : turn[i] = Step(turn, i)
  <2> HIDE DEF turn, Step
  <2> QED
    BY <1>5
<1> HIDE DEF turn
<1>7. turn[0] = start
  BY <1>1, <1>6
<1>8. \A i \in 1 .. Len(patches) : turn[i] = TurnOf(turn[i - 1], patches[i])
  <2>1. \A i \in 1 .. Len(patches) : i \in 0 .. Len(patches) /\ i # 0
    BY <1>1
  <2> QED
    BY <1>6, <2>1
<1> QED
  BY <1>1, <1>7, <1>8 DEF start

\* A result, and what a turn makes of it.
IsResult(r) ==
  r = [object |-> r.object, result |-> r.result] /\ r.result \in {Null, Bad, Panic} /\ ~Failed(r.object)

LEMMA TurnCases ==
  ASSUME NEW r, IsResult(r), NEW patch
  PROVE  LET new == Patch(r.object, PatchPath(patch), Inserted(patch.struct.Value))
             end == TurnOf(r, patch)
         IN  /\ IsResult(end)
             /\ end.object = r.object \/ (end.object = new /\ ~Failed(new))
             /\ end.result = r.result \/ (end.result = new /\ Failed(new))
<1> DEFINE new == Patch(r.object, PatchPath(patch), Inserted(patch.struct.Value))
           end == TurnOf(r, patch)
<1>1. end = CASE r.result = Panic -> r
              [] r.result # Panic /\ new = Panic -> [r EXCEPT !.result = Panic]
              [] r.result # Panic /\ new = Bad -> [r EXCEPT !.result = Bad]
              [] OTHER -> [r EXCEPT !.object = new]
  BY DEF TurnOf
<1> HIDE DEF new, end
<1>2. Bad # Panic
  BY DEF Bad, Panic
<1>3. CASE r.result = Panic
  <2>1. end = r
    BY <1>1, <1>3
  <2>2. IsResult(end) /\ end.object = r.object /\ end.result = r.result
    BY <2>1
  <2> QED
    BY <2>2 DEF new, end
<1>4. CASE r.result # Panic /\ new = Panic
  <2>1. end = [object |-> r.object, result |-> Panic]
    BY <1>1, <1>4 DEF IsResult
  <2>2. IsResult(end) /\ end.object = r.object /\ end.result = new /\ Failed(new)
    BY <1>4, <2>1 DEF IsResult, Failed
  <2> QED
    BY <2>2 DEF new, end
<1>5. CASE r.result # Panic /\ new = Bad
  <2>1. end = [object |-> r.object, result |-> Bad]
    BY <1>1, <1>2, <1>5 DEF IsResult
  <2>2. IsResult(end) /\ end.object = r.object /\ end.result = new /\ Failed(new)
    BY <1>5, <2>1 DEF IsResult, Failed
  <2> QED
    BY <2>2 DEF new, end
<1>6. CASE r.result # Panic /\ new # Panic /\ new # Bad
  <2>1. end = [object |-> new, result |-> r.result]
    BY <1>1, <1>6 DEF IsResult
  <2>2. IsResult(end) /\ end.object = new /\ end.result = r.result /\ ~Failed(new)
    BY <1>6, <2>1 DEF IsResult, Failed
  <2> QED
    BY <2>2 DEF new, end
<1> QED
  BY <1>3, <1>4, <1>5, <1>6

ListsOfPatches(patches) ==
  IsSeq(patches) /\ \A j \in DOMAIN patches : IsSeq(patches[j].struct.Path.leaf)

\* A step that holds of the start and of every turn holds of all of them.
LEMMA EveryTurn ==
  ASSUME NEW object, NEW patches, ListsOfPatches(patches), NEW A,
         0 \in A, \A i \in DOMAIN patches : i - 1 \in A => i \in A
  PROVE  \A i \in 0 .. Len(patches) : i \in A
<1> DEFINE B == {i \in Nat : i <= Len(patches) => i \in A}
<1>1. Len(patches) \in Nat /\ DOMAIN patches = 1 .. Len(patches)
  BY LenProperties DEF ListsOfPatches, IsSeq
<1>2. 0 \in B
  OBVIOUS
<1>3. ASSUME NEW n \in Nat, n \in B PROVE n + 1 \in B
  <2>1. SUFFICES ASSUME n + 1 <= Len(patches) PROVE n + 1 \in A
    OBVIOUS
  <2>2. n + 1 \in DOMAIN patches /\ (n + 1) - 1 = n /\ n <= Len(patches)
    BY <1>1, <2>1
  <2>3. n \in A
    BY <1>3, <2>2
  <2> QED
    BY <2>2, <2>3
<1>4. \A n \in Nat : n \in B
  <2> HIDE DEF B
  <2> QED
    BY <1>2, <1>3, Induction
<1> QED
  BY <1>1, <1>4

\* What a single patch fails for.
LEMMA PatchReason ==
  ASSUME PatchRecursion, LookupRecursion, NEW o, ~Failed(o), NEW patch, IsSeq(patch.struct.Path.leaf)
  PROVE  LET path == PatchPath(patch)
             new == Patch(o, path, Inserted(patch.struct.Value))
         IN  /\ new = Bad => Lookup(o, path) = Null
             /\ new = Panic => path = <<>> \/ Lookup(o, Front(path)) = Null
<1> DEFINE path == PatchPath(patch)
           v == Inserted(patch.struct.Value)
           E == {patch.struct.Path.leaf[i] : i \in DOMAIN patch.struct.Path.leaf}
<1>1. path \in Seq(E)
  BY PatchPaths
<1>2. CASE path = <<>>
  <2>1. Patch(o, path, v) = o \/ Patch(o, path, v) = Panic
    BY <1>2 DEF Patch
  <2>2. Patch(o, path, v) # Bad
    BY <2>1 DEF Failed, Bad, Panic
  <2> QED
    BY <1>2, <2>2
<1>3. CASE path # <<>>
  <2> HIDE DEF path, v, E
  <2>1. FailsForReason(o, path, v)
    BY <1>1, <1>3, PatchFailure
  <2> QED
    BY <2>1 DEF FailsForReason, path, v
<1> QED
  BY <1>2, <1>3

\* What a list of patches fails for.
LEMMA PatchesFail ==
  ASSUME PatchRecursion, LookupRecursion, NEW object, ~Failed(object),
         NEW patches, ListsOfPatches(patches)
  PROVE  LET Missing(i, path) == Lookup(Turns(object, patches)[i - 1].object, path) = Null
             result == applyPatches(object, patches)
         IN  /\ result = Bad => \E i \in DOMAIN patches : Missing(i, PatchPath(patches[i]))
             /\ result = Panic =>
                  \E i \in DOMAIN patches :
                    PatchPath(patches[i]) = <<>> \/ Missing(i, Front(PatchPath(patches[i])))
             /\ Len(patches) \in Nat /\ IsResult(Turns(object, patches)[Len(patches)])
<1> DEFINE turn == Turns(object, patches)
           Missing(i, path) == Lookup(turn[i - 1].object, path) = Null
           NoNode == \E i \in DOMAIN patches : Missing(i, PatchPath(patches[i]))
           NoParent == \E i \in DOMAIN patches :
                         PatchPath(patches[i]) = <<>> \/ Missing(i, Front(PatchPath(patches[i])))
           Explained(r) == IsResult(r) /\ (r.result = Bad => NoNode) /\ (r.result = Panic => NoParent)
           A == {i \in Nat : Explained(turn[i])}
<1>1. /\ Len(patches) \in Nat /\ DOMAIN patches = 1 .. Len(patches)
      /\ turn[0] = [object |-> object, result |-> Null]
      /\ \A i \in DOMAIN patches : turn[i] = TurnOf(turn[i - 1], patches[i])
  <2>1. IsSeq(patches)
    BY DEF ListsOfPatches
  <2>2. Len(patches) \in Nat /\ DOMAIN patches = 1 .. Len(patches)
    BY <2>1, LenProperties DEF IsSeq
  <2> HIDE DEF turn
  <2> QED
    BY <2>1, <2>2, TurnByTurn DEF turn
<1> HIDE DEF turn
<1>2. 0 \in A
  <2>1. Null # Bad /\ Null # Panic
    BY DEF Null, Bad, Panic
  <2>2. turn[0].object = object /\ turn[0].result = Null
    BY <1>1
  <2>3. IsResult(turn[0])
    BY <1>1, <2>2 DEF IsResult
  <2> HIDE DEF NoNode, NoParent
  <2> QED
    BY <2>1, <2>2, <2>3
<1>3. ASSUME NEW i \in DOMAIN patches, i - 1 \in A PROVE i \in A
  <2> DEFINE r == turn[i - 1]
             path == PatchPath(patches[i])
             new == Patch(r.object, path, Inserted(patches[i].struct.Value))
  <2>1. Explained(r) /\ i \in Nat
    BY <1>1, <1>3
  <2>2. /\ IsResult(turn[i])
        /\ turn[i].result = r.result \/ (turn[i].result = new /\ Failed(new))
    <3>1. IsResult(r) /\ turn[i] = TurnOf(r, patches[i])
      BY <1>1, <2>1
    <3> HIDE DEF r
    <3> QED
      BY <3>1, TurnCases
  <2>3. ~Failed(r.object) /\ IsSeq(patches[i].struct.Path.leaf)
    BY <2>1 DEF IsResult, ListsOfPatches
  <2>4. /\ new = Bad => Lookup(r.object, path) = Null
        /\ new = Panic => path = <<>> \/ Lookup(r.object, Front(path)) = Null
    <3> HIDE DEF r
    <3> QED
      BY <2>3, PatchReason
  <2> HIDE DEF new
  <2>5. new = Bad => NoNode
    BY <2>4
  <2>6. new = Panic => NoParent
    BY <2>4
  <2> HIDE DEF NoNode, NoParent, r
  <2>7. Explained(turn[i])
    BY <2>1, <2>2, <2>5, <2>6
  <2> QED
    BY <2>1, <2>7
<1>4. Explained(turn[Len(patches)])
  <2> HIDE DEF A
  <2>1. \A i \in 0 .. Len(patches) : i \in A
    BY <1>2, <1>3, EveryTurn
  <2>2. Len(patches) \in A
    BY <1>1, <2>1
  <2> HIDE DEF Explained
  <2> QED
    BY <2>2 DEF A
<1>5. applyPatches(object, patches) =
        IF turn[Len(patches)].result = Null THEN turn[Len(patches)].object ELSE turn[Len(patches)].result
  BY DEF applyPatches, turn
<1>6. Failed(Bad) /\ Failed(Panic) /\ ~Failed(Null)
  BY DEF Failed, Bad, Panic, Null
<1>7. /\ applyPatches(object, patches) = Bad => NoNode
      /\ applyPatches(object, patches) = Panic => NoParent
  <2> HIDE DEF NoNode, NoParent
  <2> QED
    BY <1>4, <1>5, <1>6 DEF IsResult
<1> QED
  BY <1>1, <1>4, <1>7 DEF turn

\* Patches that spare the names of an object keep them, or fail.
LEMMA PatchesKeepHash ==
  ASSUME PatchRecursion, NEW object, IsMap(object), NEW patches, ListsOfPatches(patches),
         \A j \in DOMAIN patches : PatchPath(patches[j]) # <<>> => Spares(PatchPath(patches[j]))
  PROVE  /\ Failed(applyPatches(object, patches)) \/ Hash(applyPatches(object, patches)) = Hash(object)
         /\ patches = <<>> => applyPatches(object, patches) = object
<1> DEFINE turn == Turns(object, patches)
           Kept(r) == IsResult(r) /\ IsMap(r.object) /\ Hash(r.object) = Hash(object)
           A == {i \in Nat : Kept(turn[i])}
<1>1. /\ Len(patches) \in Nat /\ DOMAIN patches = 1 .. Len(patches)
      /\ turn[0] = [object |-> object, result |-> Null]
      /\ \A i \in DOMAIN patches : turn[i] = TurnOf(turn[i - 1], patches[i])
  <2>1. IsSeq(patches)
    BY DEF ListsOfPatches
  <2>2. Len(patches) \in Nat /\ DOMAIN patches = 1 .. Len(patches)
    BY <2>1, LenProperties DEF IsSeq
  <2> HIDE DEF turn
  <2> QED
    BY <2>1, <2>2, TurnByTurn DEF turn
<1> HIDE DEF turn
<1>2. 0 \in A
  <2>1. turn[0].object = object /\ turn[0].result = Null
    BY <1>1
  <2>2. IsResult(turn[0])
    BY <1>1, <2>1, NodesNotFailed DEF IsResult
  <2> QED
    BY <2>1, <2>2
<1>3. ASSUME NEW i \in DOMAIN patches, i - 1 \in A PROVE i \in A
  <2> DEFINE r == turn[i - 1]
             path == PatchPath(patches[i])
             v == Inserted(patches[i].struct.Value)
             new == Patch(r.object, path, v)
  <2>1. Kept(r) /\ i \in Nat
    BY <1>1, <1>3
  <2>2. IsResult(turn[i]) /\ (turn[i].object = r.object \/ (turn[i].object = new /\ ~Failed(new)))
    <3>1. IsResult(r) /\ turn[i] = TurnOf(r, patches[i])
      BY <1>1, <2>1
    <3> HIDE DEF r
    <3> QED
      BY <3>1, TurnCases
  <2>3. path \in Seq({patches[i].struct.Path.leaf[j] : j \in DOMAIN patches[i].struct.Path.leaf})
    BY PatchPaths DEF ListsOfPatches
  <2> HIDE DEF path, v, r
  <2>4. ~Failed(new) => IsMap(new) /\ Hash(new) = Hash(r.object)
    <3>1. path # <<>> => Spares(path)
      BY DEF path
    <3> QED
      BY <2>1, <2>3, <3>1, PatchSparesNames
  <2> HIDE DEF new
  <2>5. Kept(turn[i])
    BY <2>1, <2>2, <2>4
  <2> QED
    BY <2>1, <2>5
<1>4. Kept(turn[Len(patches)])
  <2> HIDE DEF A
  <2>1. \A i \in 0 .. Len(patches) : i \in A
    BY <1>2, <1>3, EveryTurn
  <2>2. Len(patches) \in A
    BY <1>1, <2>1
  <2> HIDE DEF Kept
  <2> QED
    BY <2>2 DEF A
<1>5. applyPatches(object, patches) =
        IF turn[Len(patches)].result = Null THEN turn[Len(patches)].object ELSE turn[Len(patches)].result
  BY DEF applyPatches, turn
<1>6. Failed(Bad) /\ Failed(Panic)
  BY DEF Failed
<1>7. Failed(applyPatches(object, patches)) \/ Hash(applyPatches(object, patches)) = Hash(object)
  BY <1>4, <1>5, <1>6 DEF IsResult
<1>8. patches = <<>> => applyPatches(object, patches) = object
  <2>1. patches = <<>> => Len(patches) = 0
    BY EmptySeq
  <2> QED
    BY <1>1, <1>5, <2>1
<1> QED
  BY <1>7, <1>8

\* The overlay for an object is one of the overlays.
LEMMA OverlayFor ==
  ASSUME IsSeq(Overlays), NEW h \in Overridden
  PROVE  LastFor(h, Overlays) \in DOMAIN Overlays
<1> DEFINE I == {j \in 1 .. Len(Overlays) : OverlayHash(Overlays[j]) = h}
<1>1. Len(Overlays) \in Nat /\ DOMAIN Overlays = 1 .. Len(Overlays)
  BY LenProperties DEF IsSeq
<1>2. I \subseteq 1 .. Len(Overlays) /\ I # {}
  BY <1>1 DEF Overridden
<1>3. LastFor(h, Overlays) = Max(I)
  BY <1>2 DEF LastFor, SelectLastInSeq
<1>4. Max(I) \in I
  BY <1>1, <1>2, LargestIndex DEF Max
<1> QED
  BY <1>1, <1>3, <1>4

LEMMA PatchesOfOverlay ==
  ASSUME PatchesGiven, NEW h \in Overridden
  PROVE  /\ ListsOfPatches(PatchesFor(h))
         /\ PatchesSpareNames => \A j \in DOMAIN PatchesFor(h) :
              PatchPath(PatchesFor(h)[j]) # <<>> => Spares(PatchPath(PatchesFor(h)[j]))
<1> DEFINE i == LastFor(h, Overlays)
<1>1. i \in DOMAIN Overlays
  BY OverlayFor DEF PatchesGiven
<1>2. PatchesFor(h) = PatchesOf(Overlays[i])
  BY DEF PatchesFor
<1> HIDE DEF i
<1> QED
  BY <1>1, <1>2 DEF PatchesGiven, ListsOfPatches, PatchesSpareNames, Spares

\* The object with a hash is a map, and has this hash.
LEMMA ObjectOf ==
  ASSUME SettingsInv, NEW h \in Hashes
  PROVE  IsMap(ObjectAt(h)) /\ ~Failed(ObjectAt(h)) /\ Hash(ObjectAt(h)) = h
<1>1. IsSeq(objects)
  BY DEF SettingsInv
<1>2. PICK i \in DOMAIN objects : h = Hash(objects[i])
  BY DEF Hashes
<1>3. LastWith(h, objects) \in DOMAIN objects
  BY <1>1, <1>2, LastObject
<1>4. IsMap(ObjectAt(h))
  BY <1>3 DEF SettingsInv, ObjectInv, ObjectAt
<1> QED
  BY <1>1, <1>4, ObjectHash, NodesNotFailed

LEMMA NamesKept ==
  ASSUME PatchRecursion, SettingsInv, PatchesGiven, PatchesSpareNames
  PROVE  PatchesKeepNames
<1> SUFFICES ASSUME NEW h \in Hashes \cap Overridden
             PROVE  LET patched == applyPatches(ObjectAt(h), PatchesFor(h))
                    IN  /\ PatchesFor(h) = <<>> => patched = ObjectAt(h) /\ ~Failed(patched)
                        /\ Failed(patched) \/ Hash(patched) = h
  BY DEF PatchesKeepNames
<1>1. IsMap(ObjectAt(h)) /\ ~Failed(ObjectAt(h)) /\ Hash(ObjectAt(h)) = h
  BY ObjectOf
<1>2. /\ ListsOfPatches(PatchesFor(h))
      /\ \A j \in DOMAIN PatchesFor(h) :
           PatchPath(PatchesFor(h)[j]) # <<>> => Spares(PatchPath(PatchesFor(h)[j]))
  BY PatchesOfOverlay
<1> QED
  BY <1>1, <1>2, PatchesKeepHash

LEMMA FailuresExplained ==
  ASSUME PatchRecursion, LookupRecursion, SettingsInv, PatchesGiven
  PROVE  FailureNamesMissingNode
<1>1. ASSUME NEW h \in Overridden \cap Hashes
      PROVE  /\ ~Failed(ObjectAt(h)) /\ ListsOfPatches(PatchesFor(h))
  BY ObjectOf, PatchesOfOverlay
<1> QED
  BY <1>1, PatchesFail DEF FailureNamesMissingNode

\* Patches keep the kind, the namespace and the name of an object, or fail, when none
\* of them is for these: what EveryObjectOnceHolds assumes of patches.
THEOREM PatchesKeepNamesHolds ==
  Recursion /\ PatchRecursion /\ ChartGivesObjects =>
    (Spec /\ []SettingsFit /\ []PatchesGiven /\ []PatchesSpareNames => []PatchesKeepNames)
<1> SUFFICES ASSUME Recursion, PatchRecursion, ChartGivesObjects
             PROVE  Spec /\ []SettingsFit /\ []PatchesGiven /\ []PatchesSpareNames => []PatchesKeepNames
  OBVIOUS
<1>1. Init => SettingsInv
  BY InitSettings
<1>2. SettingsInv /\ SettingsFit /\ SettingsFit' /\ [Next]_vars => SettingsInv'
  BY StepSettings
<1>3. SettingsInv /\ PatchesGiven /\ PatchesSpareNames => PatchesKeepNames
  BY NamesKept
<1> QED
  BY <1>1, <1>2, <1>3, PTL DEF Spec

\* YAMLManifestPatch loses and doubles no object but for the reasons that
\* EveryObjectOnce names: for every spec whose patches are not for names, and every
\* chart with room for the settings.
THEOREM EveryObjectOnceForPatches ==
  Recursion /\ PatchRecursion /\ ChartGivesObjects =>
    (Spec /\ []SettingsFit /\ []PatchesGiven /\ []PatchesSpareNames => []EveryObjectOnce)
BY PatchesKeepNamesHolds, EveryObjectOnceHolds, PTL

\* "All path intermediate nodes must exist": for every spec and every chart with room
\* for the settings, a patch that fails names something that is missing in the object
\* as the patches before it leave it.
THEOREM FailureNamesMissingNodeHolds ==
  Recursion /\ PatchRecursion /\ ChartGivesObjects =>
    (Spec /\ []SettingsFit /\ []PatchesGiven => []FailureNamesMissingNode)
<1> SUFFICES ASSUME Recursion, PatchRecursion, ChartGivesObjects
             PROVE  Spec /\ []SettingsFit /\ []PatchesGiven => []FailureNamesMissingNode
  OBVIOUS
<1>1. Init => SettingsInv
  BY InitSettings
<1>2. SettingsInv /\ SettingsFit /\ SettingsFit' /\ [Next]_vars => SettingsInv'
  BY StepSettings
<1>3. SettingsInv /\ PatchesGiven => FailureNamesMissingNode
  BY FailuresExplained DEF Recursion
<1> QED
  BY <1>1, <1>2, <1>3, PTL DEF Spec
=============================================================================
