----------------------------- MODULE TreeProofs -----------------------------
(***************************************************************************)
(* What the operations on trees promise each other, for all trees and all  *)
(* paths: what setTree has written is what Lookup finds, and the rest of   *)
(* the tree is as it was.  The operations call themselves through the      *)
(* constants of Tree; what is assumed of a constant is the equation that   *)
(* the configurations of the model checker bind it by.                     *)
(***************************************************************************)
EXTENDS Tree, SequenceTheorems, FiniteSetTheorems, WellFoundedInduction, TLAPS

SetRecursion == \A t, path, value : SetBelow(t, path, value) = setTree(t, path, value)
LookupRecursion == \A t, path : LookupBelow(t, path) = Lookup(t, path)
FitsRecursion == \A t, path : FitsBelow(t, path) = Fits(t, path)

\* The path of a leaf, to which Leaves puts one element for each node on the way, is
\* a finite sequence.
LeavesRecursion == \A t : LeavesBelow(t) = Leaves(t) /\ \A l \in Leaves(t) : IsSeq(l[1])
MergeRecursion ==
  /\ \A t : PruneBelow(t) = PruneNulls(t)
  /\ \A a, b : MergeBelow(a, b) = Merge(a, b)
PresentRecursion == \A t, path : PresentBelow(t, path) = Present(t, path)
TouchesRecursion == \A t, path : TouchesBelow(t, path) = Touches(t, path)
NodesRecursion == \A t : NodesBelow(t) = Nodes(t) /\ \A p \in Nodes(t) : IsSeq(p)
\* The operations that trees are merged and read with.
MergingRecursion ==
  MergeRecursion /\ PresentRecursion /\ LookupRecursion /\ TouchesRecursion /\ NodesRecursion
-----------------------------------------------------------------------------
(* Numbers, sequences and maps.                                             *)

\* A set that has 0, and the next number of each that it has, has all of them.
LEMMA Induction ==
  ASSUME NEW A, 0 \in A, \A n \in Nat : n \in A => n + 1 \in A
  PROVE  \A n \in Nat : n \in A
<1> SUFFICES ASSUME NEW k \in Nat, k \notin A PROVE FALSE
  OBVIOUS
<1> DEFINE T == {1 .. m : m \in Nat \ A}
<1>1. T # {}
  OBVIOUS
<1>2. T \subseteq FiniteSubsetsOf(Nat)
  <2>1. \A m \in Nat : 1 .. m \in SUBSET Nat /\ IsFiniteSet(1 .. m)
    BY FS_Interval
  <2> QED
    BY <2>1 DEF FiniteSubsetsOf
<1>3. \E s \in T : \A t \in T : ~(<<t, s>> \in StrictSubsetOrdering(Nat))
  <2>1. IsWellFoundedOn(StrictSubsetOrdering(Nat), FiniteSubsetsOf(Nat))
    BY FS_StrictSubsetOrderingWellFounded
  <2> HIDE DEF T
  <2> QED
    BY <1>1, <1>2, <2>1, WFMin
<1>4. PICK n \in Nat \ A : \A t \in T : ~(<<t, 1 .. n>> \in StrictSubsetOrdering(Nat))
  BY <1>3
<1>5. n - 1 \in Nat \ A
  <2>1. n # 0 /\ n - 1 \in Nat /\ (n - 1) + 1 = n
    OBVIOUS
  <2> QED
    BY <1>4, <2>1
<1>6. 1 .. (n - 1) \in T
  BY <1>5
<1>7. <<1 .. (n - 1), 1 .. n>> \in StrictSubsetOrdering(Nat)
  <2>1. 1 .. (n - 1) \subseteq 1 .. n /\ n \in 1 .. n /\ n \notin 1 .. (n - 1)
    BY <1>5
  <2>2. 1 .. (n - 1) \in SUBSET Nat /\ 1 .. n \in SUBSET Nat
    OBVIOUS
  <2> HIDE DEF T
  <2> QED
    BY <2>1, <2>2 DEF StrictSubsetOrdering
<1> QED
  BY <1>4, <1>6, <1>7

\* A set of indexes has a smallest one, which is the one that no other precedes.
LEMMA SmallestIndex ==
  ASSUME NEW n \in Nat, NEW I, I \subseteq 1 .. n
  PROVE  /\ I # {} => Min(I) \in I /\ \A j \in I : Min(I) <= j
         /\ \A i \in I : (\A j \in I : i <= j) => Min(I) = i
<1> DEFINE A == {m \in Nat : \A i \in I : i <= m => \E x \in I : \A y \in I : x <= y}
<1>1. \A i \in I : i \in Nat /\ i > 0 /\ i <= n
  OBVIOUS
<1>2. 0 \in A
  BY <1>1
<1>3. ASSUME NEW m \in Nat, m \in A PROVE m + 1 \in A
  <2>1. SUFFICES ASSUME NEW i \in I, i <= m + 1 PROVE \E x \in I : \A y \in I : x <= y
    OBVIOUS
  <2>2. CASE \E j \in I : j <= m
    BY <1>3, <2>2
  <2>3. CASE ~\E j \in I : j <= m
    <3>1. \A j \in I : i <= j
      BY <1>1, <2>1, <2>3
    <3> QED
      BY <3>1
  <2> QED
    BY <2>2, <2>3
<1>4. n \in A
  <2> HIDE DEF A
  <2> QED
    BY <1>2, <1>3, Induction
<1>5. I # {} => \E x \in I : \A y \in I : x <= y
  BY <1>1, <1>4
<1>6. ASSUME NEW i \in I, \A j \in I : i <= j PROVE Min(I) = i
  <2> DEFINE m == Min(I)
  <2>1. m \in I /\ \A y \in I : m <= y
    BY <1>6 DEF Min
  <2> HIDE DEF m
  <2>2. m <= i /\ i <= m /\ m \in Nat /\ i \in Nat
    BY <1>1, <1>6, <2>1
  <2>3. m = i
    BY <2>2
  <2> QED
    BY <2>3 DEF m
<1> QED
  BY <1>5, <1>6 DEF Min

LEMMA Entries ==
  ASSUME NEW t, IsMap(t), NEW k, NEW v
  PROVE  /\ IsMap(Put(t, k, v)) /\ Has(Put(t, k, v), k) /\ Entry(Put(t, k, v), k) = v
         /\ \A j : j # k => Entry(Put(t, k, v), j) = Entry(t, j) /\ (Has(Put(t, k, v), j) <=> Has(t, j))
BY DEF IsMap, Put, Has, Entry, Map

LEMMA NoEntries == IsMap(EmptyMap) /\ \A k : ~Has(EmptyMap, k)
BY DEF IsMap, EmptyMap, Map, Has

\* Neither a map nor a list is an error.
LEMMA NodesNotFailed ==
  ASSUME NEW t
  PROVE  (IsMap(t) \/ IsList(t)) => ~Failed(t) /\ t # Null /\ ~(IsMap(t) /\ IsList(t))
BY DEF IsMap, IsList, Failed, Null, Bad, Panic

LEMMA PathParts ==
  ASSUME NEW E, NEW p \in Seq(E), p # <<>>
  PROVE  /\ Len(p) \in Nat /\ Len(p) > 0 /\ p[1] \in E
         /\ Tail(p) \in Seq(E) /\ Len(Tail(p)) = Len(p) - 1
         /\ Len(p) = 1 => Tail(p) = <<>>
         /\ Len(p) > 1 => Tail(p) # <<>> /\ Tail(p)[1] = p[2]
         /\ \A i \in 1 .. Len(Tail(p)) : Tail(p)[i] = p[i + 1]
         /\ (\A i \in 2 .. Len(p) : ~p[i].brackets) => \A i \in 1 .. Len(Tail(p)) : ~Tail(p)[i].brackets
<1>1. /\ Len(p) \in Nat /\ Len(p) > 0 /\ p[1] \in E
      /\ Tail(p) \in Seq(E) /\ Len(Tail(p)) = Len(p) - 1
      /\ \A i \in 1 .. Len(Tail(p)) : Tail(p)[i] = p[i + 1]
  BY EmptySeq, LenProperties, HeadTailProperties, ElementOfSeq
<1>2. Len(p) = 1 => Tail(p) = <<>>
  <2>1. Len(p) = 1 => Len(Tail(p)) = 0
    BY <1>1
  <2> QED
    BY <1>1, <2>1, EmptySeq
<1>3. Len(p) > 1 => Tail(p) # <<>> /\ Tail(p)[1] = p[2]
  <2>1. Len(p) > 1 => 1 \in 1 .. Len(Tail(p)) /\ Len(Tail(p)) # 0
    BY <1>1
  <2> QED
    BY <1>1, <2>1, EmptySeq
<1>4. \A i \in 1 .. Len(Tail(p)) : Tail(p)[i] = p[i + 1] /\ i + 1 \in 2 .. Len(p)
  BY <1>1
<1> QED
  BY <1>1, <1>2, <1>3, <1>4

LEMMA LongPath ==
  ASSUME NEW E, NEW p \in Seq(E), p # <<>>, Len(p) # 1
  PROVE  /\ Len(p) > 1 /\ Tail(p) \in Seq(E) /\ Tail(p) # <<>> /\ Tail(p)[1] = p[2]
         /\ Len(Tail(p)) \in Nat /\ Len(Tail(p)) > 0
         /\ (\A i \in 2 .. Len(p) : ~p[i].brackets) => \A i \in 1 .. Len(Tail(p)) : ~Tail(p)[i].brackets
<1>1. Len(p) \in Nat /\ Len(p) > 0 /\ Len(Tail(p)) = Len(p) - 1
  BY PathParts
<1>2. Len(p) > 1 /\ Len(Tail(p)) \in Nat /\ Len(Tail(p)) > 0
  BY <1>1
<1> QED
  BY <1>2, PathParts
-----------------------------------------------------------------------------
(* Lists whose items are found by their names.                              *)

IsName(pe) == IsKVPathElement(pe) /\ pe.parts[1] = "name"

Named(s, v) ==
  /\ s \in Seq(Range(s))
  /\ \A i \in DOMAIN s :
       IsMap(s[i]) /\ (Printed(Entry(s[i], "name")) = v => Entry(s[i], "name") = Leaf(v))

\* The first item with a name, or 0.
At(s, v) == SelectInSeq(s, LAMBDA i : Entry(i, "name") = Leaf(v))

With(s, v) == {i \in 1 .. Len(s) : Entry(s[i], "name") = Leaf(v)}

LEMMA SequenceOfItems ==
  ASSUME NEW s, s \in Seq(Range(s))
  PROVE  Len(s) \in Nat /\ DOMAIN s = 1 .. Len(s)
BY LenProperties

LEMMA AtFirst ==
  ASSUME NEW s, NEW v, Named(s, v)
  PROVE  /\ At(s, v) \in 0 .. Len(s)
         /\ At(s, v) = 0 <=> With(s, v) = {}
         /\ At(s, v) # 0 => At(s, v) \in With(s, v) /\ \A i \in With(s, v) : At(s, v) <= i
         /\ \A i \in With(s, v) : (\A j \in With(s, v) : i <= j) => At(s, v) = i
<1>1. Len(s) \in Nat
  BY SequenceOfItems DEF Named
<1>2. At(s, v) = IF With(s, v) # {} THEN Min(With(s, v)) ELSE 0
  BY DEF At, With, SelectInSeq
<1>3. With(s, v) \subseteq 1 .. Len(s)
  BY DEF With
<1>4. /\ With(s, v) # {} => Min(With(s, v)) \in With(s, v) /\ \A j \in With(s, v) : Min(With(s, v)) <= j
      /\ \A i \in With(s, v) : (\A j \in With(s, v) : i <= j) => Min(With(s, v)) = i
  BY <1>1, <1>3, SmallestIndex
<1> QED
  BY <1>1, <1>2, <1>3, <1>4

\* The search of getNode and that of setTree stop at the same item.
LEMMA SameSearch ==
  ASSUME NEW s, NEW pe, IsName(pe), Named(s, pe.parts[2])
  PROVE  /\ SelectInSeq(s, LAMBDA i : StopsAt(i, pe)) = At(s, pe.parts[2])
         /\ SelectInSeq(s, LAMBDA i : ~IsMap(i) \/ Entry(i, pe.parts[1]) = Leaf(pe.parts[2]))
              = At(s, pe.parts[2])
<1> DEFINE I == {i \in 1 .. Len(s) : StopsAt(s[i], pe)}
           J == {i \in 1 .. Len(s) : ~IsMap(s[i]) \/ Entry(s[i], pe.parts[1]) = Leaf(pe.parts[2])}
<1>1. DOMAIN s = 1 .. Len(s)
  BY SequenceOfItems DEF Named
<1>2. \A v : Printed(Leaf(v)) = v
  BY DEF Printed, Leaf
<1>3. \A i \in 1 .. Len(s) : StopsAt(s[i], pe) <=> Entry(s[i], "name") = Leaf(pe.parts[2])
  BY <1>1, <1>2 DEF Named, IsName, StopsAt
<1>4. I = With(s, pe.parts[2])
  BY <1>3 DEF With
<1>5. J = With(s, pe.parts[2])
  BY <1>1 DEF With, Named, IsName
<1>6. SelectInSeq(s, LAMBDA i : StopsAt(i, pe)) = At(s, pe.parts[2])
  BY <1>4 DEF SelectInSeq, At, With
<1>7. SelectInSeq(s, LAMBDA i : ~IsMap(i) \/ Entry(i, pe.parts[1]) = Leaf(pe.parts[2]))
        = At(s, pe.parts[2])
  BY <1>5 DEF SelectInSeq, At, With
<1> QED
  BY <1>6, <1>7, Zenon

LEMMA AppendNamed ==
  ASSUME NEW s, NEW v, Named(s, v), At(s, v) = 0, NEW item, IsMap(item), Entry(item, "name") = Leaf(v)
  PROVE  LET new == Append(s, item)
         IN  /\ Named(new, v) /\ At(new, v) = Len(s) + 1 /\ new[Len(s) + 1] = item
             /\ With(new, v) = {Len(s) + 1}
<1> DEFINE new == Append(s, item)
           n == Len(s) + 1
<1>1. Len(s) \in Nat /\ DOMAIN s = 1 .. Len(s) /\ s \in Seq(Range(s) \cup {item})
  BY SequenceOfItems, SeqMonotonic DEF Named
<1>2. /\ new \in Seq(Range(s) \cup {item}) /\ Len(new) = n /\ DOMAIN new = 1 .. n
      /\ new[n] = item /\ \A i \in 1 .. Len(s) : new[i] = s[i]
  BY <1>1, AppendProperties, LenProperties
<1>3. n \in Nat /\ n # 0 /\ \A i \in 1 .. n : i \in 1 .. Len(s) \/ i = n
  BY <1>1
<1> HIDE DEF new, n
<1>4. new \in Seq(Range(new))
  <2>1. Range(s) \cup {item} \subseteq Range(new)
    BY <1>1, <1>2, <1>3 DEF Range, n
  <2> QED
    BY <1>2, <2>1, SeqMonotonic
<1>5. Named(new, v)
  BY <1>1, <1>2, <1>3, <1>4 DEF Named
<1>6. With(s, v) = {}
  BY AtFirst
<1>7. With(new, v) = {n}
  BY <1>1, <1>2, <1>3, <1>6 DEF With
<1>8. At(new, v) = n
  BY <1>3, <1>5, <1>7, AtFirst
<1> QED
  BY <1>2, <1>5, <1>7, <1>8 DEF new, n

LEMMA ReplaceNamed ==
  ASSUME NEW s, NEW v, Named(s, v), At(s, v) # 0, NEW item, IsMap(item), Entry(item, "name") = Leaf(v)
  PROVE  LET new == ReplaceAt(s, At(s, v), item)
         IN  /\ Named(new, v) /\ At(new, v) = At(s, v) /\ new[At(s, v)] = item
             /\ With(new, v) = With(s, v) /\ \A i \in With(s, v) : i # At(s, v) => new[i] = s[i]
<1> DEFINE a == At(s, v)
           new == [s EXCEPT ![a] = item]
<1>1. Len(s) \in Nat /\ DOMAIN s = 1 .. Len(s) /\ s \in Seq(Range(s) \cup {item})
  BY SequenceOfItems, SeqMonotonic DEF Named
<1>2. a \in With(s, v) /\ a \in 1 .. Len(s)
  BY AtFirst DEF With
<1> HIDE DEF a
<1>3. new \in Seq(Range(s) \cup {item}) /\ Len(new) = Len(s)
  BY <1>1, <1>2, ExceptSeq
<1>4. DOMAIN new = 1 .. Len(s) /\ \A i \in 1 .. Len(s) : new[i] = IF i = a THEN item ELSE s[i]
  BY <1>1, <1>2
<1>5. Range(new) = {new[i] : i \in 1 .. Len(s)}
  BY <1>4 DEF Range
<1> HIDE DEF new
<1>6. new \in Seq(Range(new))
  <2>1. \A i \in 1 .. Len(new) : new[i] \in Range(new)
    BY <1>3, <1>5
  <2>2. new \in [1 .. Len(new) -> Range(new)]
    <3>1. new \in [1 .. Len(new) -> Range(s) \cup {item}]
      BY <1>3, LenProperties
    <3> QED
      BY <2>1, <3>1
  <2> QED
    BY <1>1, <1>3, <2>2, SeqDef
<1>7. Named(new, v)
  BY <1>1, <1>2, <1>4, <1>6 DEF Named
<1>8. With(new, v) = With(s, v)
  BY <1>2, <1>3, <1>4 DEF With
<1>9. At(new, v) = a
  BY <1>7, <1>8, AtFirst DEF a
<1>10. new[a] = item /\ \A i \in With(s, v) : i # a => new[i] = s[i]
  BY <1>2, <1>4 DEF With
<1> QED
  BY <1>7, <1>8, <1>9, <1>10 DEF new, a, ReplaceAt

\* The list that setTree makes: the item with the name is the new one.
WithNew(s, v, new) == IF At(s, v) = 0 THEN Append(s, new) ELSE ReplaceAt(s, At(s, v), new)

LEMMA ListWithNew ==
  ASSUME NEW s, NEW v, Named(s, v), NEW new, IsMap(new), Entry(new, "name") = Leaf(v)
  PROVE  LET list == WithNew(s, v, new)
         IN  /\ Named(list, v) /\ At(list, v) # 0 /\ list[At(list, v)] = new
             /\ \A i \in With(list, v) : list[i] = new \/ (i \in With(s, v) /\ list[i] = s[i])
<1> DEFINE at == At(s, v)
           list == WithNew(s, v, new)
<1>1. Len(s) \in Nat
  BY SequenceOfItems DEF Named
<1>2. CASE at = 0
  <2>1. /\ Named(Append(s, new), v) /\ At(Append(s, new), v) = Len(s) + 1
        /\ Append(s, new)[Len(s) + 1] = new /\ With(Append(s, new), v) = {Len(s) + 1}
    BY <1>2, AppendNamed
  <2>2. list = Append(s, new)
    BY <1>2 DEF WithNew
  <2> HIDE DEF at, list
  <2>3. Len(s) + 1 # 0
    BY <1>1
  <2>4. ASSUME NEW i \in With(list, v) PROVE list[i] = new
    <3>1. i \in With(Append(s, new), v)
      BY <2>2, Zenon
    <3>2. i = Len(s) + 1
      BY <2>1, <3>1
    <3> QED
      BY <2>1, <2>2, <3>2
  <2>5. Named(list, v) /\ At(list, v) # 0 /\ list[At(list, v)] = new
    BY <2>1, <2>2, <2>3
  <2> QED
    BY <2>4, <2>5 DEF list
<1>3. CASE at # 0
  <2> DEFINE replaced == ReplaceAt(s, at, new)
  <2>1. /\ Named(replaced, v) /\ At(replaced, v) = at /\ replaced[at] = new
        /\ With(replaced, v) = With(s, v)
        /\ \A i \in With(s, v) : i # at => replaced[i] = s[i]
    BY <1>3, ReplaceNamed
  <2>2. list = replaced
    BY <1>3 DEF WithNew
  <2> HIDE DEF replaced, at, list
  <2>3. \A i \in With(list, v) : list[i] = new \/ (i \in With(s, v) /\ list[i] = s[i])
    BY <2>1, <2>2
  <2>4. Named(list, v) /\ At(list, v) # 0 /\ list[At(list, v)] = new
    BY <1>3, <2>1, <2>2
  <2> QED
    BY <2>3, <2>4 DEF list
<1> QED
  BY <1>2, <1>3

LEMMA LookupInList ==
  ASSUME LookupRecursion, NEW t, IsList(t), NEW p, p # <<>>, IsName(p[1]), Named(t.list, p[1].parts[2])
  PROVE  LET at == At(t.list, p[1].parts[2])
         IN  Lookup(t, p) = IF at = 0 THEN Null ELSE Lookup(t.list[at], Tail(p))
<1>1. ~IsMap(t)
  BY NodesNotFailed
<1>2. SelectInSeq(t.list, LAMBDA i : StopsAt(i, p[1])) = At(t.list, p[1].parts[2])
  BY SameSearch
<1>3. At(t.list, p[1].parts[2]) # 0 => ElementFits(t.list[At(t.list, p[1].parts[2])], p[1])
  <2> DEFINE at == At(t.list, p[1].parts[2])
  <2>1. at # 0 => at \in DOMAIN t.list
    BY AtFirst, SequenceOfItems DEF Named, With
  <2>2. at # 0 => IsMap(t.list[at])
    BY <2>1 DEF Named
  <2> HIDE DEF at
  <2>3. at # 0 => ElementFits(t.list[at], p[1])
    BY <2>2 DEF ElementFits, IsName
  <2> QED
    BY <2>3 DEF at
<1> QED
  BY <1>1, <1>2, <1>3 DEF Lookup, LookupRecursion

\* The item that setTree goes on with: the one with the name, or a new one.
ItemFor(s, v) == IF At(s, v) = 0 THEN Put(EmptyMap, "name", Leaf(v)) ELSE s[At(s, v)]

LEMMA SetInListWithNames ==
  ASSUME SetRecursion, NEW t, IsList(t), NEW p, p # <<>>, Len(p) # 1,
         IsName(p[1]), Named(t.list, p[1].parts[2]), NEW v,
         ~Failed(setTree(ItemFor(t.list, p[1].parts[2]), Tail(p), v))
  PROVE  setTree(t, p, v) =
           List(WithNew(t.list, p[1].parts[2], setTree(ItemFor(t.list, p[1].parts[2]), Tail(p), v)))
<1> DEFINE label == p[1].parts[2]
           at == At(t.list, label)
<1>1. ~IsMap(t) /\ setTree(t, p, v) = SetInList(t, p, v)
  BY NodesNotFailed DEF setTree
<1>2. SelectInSeq(t.list, LAMBDA i : ~IsMap(i) \/ Entry(i, p[1].parts[1]) = Leaf(p[1].parts[2])) = at
  BY SameSearch
<1>3. at # 0 => IsMap(t.list[at])
  <2>1. at # 0 => at \in DOMAIN t.list
    BY AtFirst, SequenceOfItems DEF With, Named
  <2> QED
    BY <2>1 DEF Named
<1> HIDE DEF at
<1>4. IsKVPathElement(p[1]) /\ p[1].parts[1] = "name"
  BY DEF IsName
<1> DEFINE nn == Put(EmptyMap, p[1].parts[1], Leaf(p[1].parts[2]))
           new == CASE at = 0 -> SetBelow(nn, Tail(p), v)
                    [] at # 0 /\ ~IsMap(t.list[at]) -> Bad
                    [] OTHER -> SetBelow(t.list[at], Tail(p), v)
<1>5. SetInList(t, p, v) = CASE Failed(new) -> new
                             [] ~Failed(new) /\ at = 0 -> List(Append(t.list, new))
                             [] OTHER -> List(ReplaceAt(t.list, at, new))
  <2> HIDE DEF at
  <2> QED
    BY <1>2, <1>4 DEF SetInList
<1> DEFINE item == ItemFor(t.list, label)
<1>6. new = setTree(item, Tail(p), v)
  <2>1. at = 0 => item = nn /\ new = SetBelow(nn, Tail(p), v)
    BY <1>4 DEF at, label, ItemFor
  <2>2. at # 0 => item = t.list[at] /\ new = SetBelow(item, Tail(p), v)
    BY <1>3 DEF at, label, ItemFor
  <2> HIDE DEF new, nn, item
  <2> QED
    BY <2>1, <2>2 DEF SetRecursion
<1>7. SetInList(t, p, v) = List(IF at = 0 THEN Append(t.list, new) ELSE ReplaceAt(t.list, at, new))
  <2>1. ~Failed(new)
    BY <1>6
  <2> HIDE DEF new, at
  <2> QED
    BY <1>5, <2>1
<1> HIDE DEF new
<1> QED
  BY <1>1, <1>6, <1>7 DEF at, label, WithNew

LEMMA LookupInMap ==
  ASSUME LookupRecursion, NEW t, IsMap(t), NEW p, p # <<>>
  PROVE  Lookup(t, p) = Lookup(Entry(t, NameOf(p[1])), Tail(p))
<1>1. ~IsList(t)
  BY NodesNotFailed
<1>2. Lookup(t, p) = LookupBelow(Entry(t, NameOf(p[1])), Tail(p))
  BY <1>1 DEF Lookup
<1> QED
  BY <1>2, Zenon DEF LookupRecursion

\* The child that the rest of a path is set in: a null entry counts as none.
Child(t, k) == IF Entry(t, k) = Null THEN EmptyMap ELSE Entry(t, k)

LEMMA SetInMapEntry ==
  ASSUME SetRecursion, NEW t, IsMap(t), NEW p, p # <<>>, NEW v
  PROVE  LET k == NameOf(p[1])
             new == IF Len(p) = 1 THEN v ELSE setTree(Child(t, k), Tail(p), v)
         IN  setTree(t, p, v) = IF Failed(new) THEN new ELSE Put(t, k, new)
<1>1. setTree(t, p, v) = SetInMap(t, p, v)
  BY NodesNotFailed DEF setTree
<1> QED
  BY <1>1 DEF SetInMap, SetRecursion, Child

\* The cases of Fits.
FitsMap(t, p) ==
  /\ IsMap(t) /\ ~p[1].brackets
  /\ Len(p) > 1 =>
       IF Has(t, NameOf(p[1])) THEN Fits(Entry(t, NameOf(p[1])), Tail(p))
       ELSE \A i \in 2 .. Len(p) : ~p[i].brackets

FitsList(t, p) ==
  /\ IsList(t) /\ Named(t.list, p[1].parts[2]) /\ IsName(p[1])
  /\ Len(p) > 1 /\ NameOf(p[2]) # "name"
  /\ \A i \in 2 .. Len(p) : ~p[i].brackets
  /\ \A i \in With(t.list, p[1].parts[2]) : Fits(t.list[i], Tail(p))

LEMMA FitsCases ==
  ASSUME FitsRecursion, NEW t, NEW p, Fits(t, p)
  PROVE  FitsMap(t, p) \/ FitsList(t, p)
<1> DEFINE v == p[1].parts[2]
<1>1. CASE IsMap(t) /\ ~p[1].brackets
  <2>1. ~IsList(t)
    BY <1>1, NodesNotFailed
  <2> QED
    BY <1>1, <2>1 DEF Fits, FitsMap, FitsRecursion
<1>2. CASE ~(IsMap(t) /\ ~p[1].brackets)
  <2>1. /\ IsList(t) /\ t.list \in Seq(Range(t.list))
        /\ IsName(p[1]) /\ Len(p) > 1 /\ NameOf(p[2]) # "name"
        /\ \A i \in 2 .. Len(p) : ~p[i].brackets
        /\ \A i \in DOMAIN t.list :
             /\ IsMap(t.list[i])
             /\ Printed(Entry(t.list[i], "name")) = v =>
                  Entry(t.list[i], "name") = Leaf(v) /\ Fits(t.list[i], Tail(p))
    BY <1>2 DEF Fits, FitsRecursion, IsName
  <2>2. Named(t.list, v)
    BY <2>1 DEF Named
  <2>3. ASSUME NEW i \in With(t.list, v) PROVE Fits(t.list[i], Tail(p))
    <3>1. i \in DOMAIN t.list /\ Entry(t.list[i], "name") = Leaf(v)
      BY <2>1, SequenceOfItems DEF With
    <3>2. Printed(Leaf(v)) = v
      BY DEF Printed, Leaf
    <3> QED
      BY <2>1, <3>1, <3>2
  <2> QED
    BY <2>1, <2>2, <2>3 DEF FitsList
<1> QED
  BY <1>1, <1>2

LEMMA MapFits ==
  ASSUME FitsRecursion, NEW t, NEW p, FitsMap(t, p)
  PROVE  Fits(t, p)
BY DEF Fits, FitsMap, FitsRecursion

LEMMA ListFits ==
  ASSUME FitsRecursion, NEW t, NEW p, FitsList(t, p)
  PROVE  Fits(t, p)
<1> DEFINE v == p[1].parts[2]
<1>1. ASSUME NEW i \in DOMAIN t.list, Printed(Entry(t.list[i], "name")) = v
      PROVE  Entry(t.list[i], "name") = Leaf(v) /\ FitsBelow(t.list[i], Tail(p))
  <2>1. Entry(t.list[i], "name") = Leaf(v)
    BY <1>1 DEF FitsList, Named
  <2>2. i \in With(t.list, v)
    BY <2>1, SequenceOfItems DEF FitsList, Named, With
  <2> QED
    BY <2>1, <2>2 DEF FitsList, FitsRecursion
<1> QED
  BY <1>1 DEF Fits, FitsList, Named, IsName

LEMMA FitsNothing ==
  ASSUME NEW t, IsMap(t), NEW p, p # <<>>, Len(p) \in Nat, Len(p) > 0, ~Has(t, NameOf(p[1])),
         \A i \in 1 .. Len(p) : ~p[i].brackets
  PROVE  Fits(t, p)
<1>1. ~p[1].brackets /\ \A i \in 2 .. Len(p) : ~p[i].brackets
  OBVIOUS
<1> QED
  BY <1>1 DEF Fits

LEMMA NothingBelowNull == \A p : Lookup(Null, p) = Null
BY DEF Lookup, Null, IsMap, IsList

LEMMA ListItem ==
  ASSUME FitsRecursion, LookupRecursion, NEW E, NEW t, NEW p \in Seq(E), p # <<>>, FitsList(t, p)
  PROVE  LET item == ItemFor(t.list, p[1].parts[2])
         IN  /\ Tail(p) \in Seq(E) /\ Tail(p) # <<>> /\ NameOf(Tail(p)[1]) # "name"
             /\ IsMap(item) /\ Entry(item, "name") = Leaf(p[1].parts[2])
             /\ Fits(item, Tail(p))
             /\ At(t.list, p[1].parts[2]) = 0 => Lookup(item, Tail(p)) = Null
<1> DEFINE label == p[1].parts[2]
           at == At(t.list, label)
           q == Tail(p)
<1>1. IsList(t) /\ Named(t.list, label) /\ IsName(p[1]) /\ Len(p) # 1
  BY DEF FitsList
<1>2. /\ q \in Seq(E) /\ q # <<>> /\ Len(q) \in Nat /\ Len(q) > 0
      /\ NameOf(q[1]) # "name" /\ \A i \in 1 .. Len(q) : ~q[i].brackets
  BY <1>1, LongPath DEF FitsList
<1>3. CASE at = 0
  <2> DEFINE nn == Put(EmptyMap, "name", Leaf(label))
  <2>1. /\ IsMap(nn) /\ Entry(nn, "name") = Leaf(label)
        /\ \A j : j # "name" => (Has(nn, j) <=> Has(EmptyMap, j))
    BY NoEntries, Entries
  <2>2. ~Has(nn, NameOf(q[1]))
    BY <1>2, <2>1, NoEntries
  <2> HIDE DEF nn
  <2>3. Fits(nn, q)
    BY <1>2, <2>1, <2>2, FitsNothing
  <2>4. Lookup(nn, q) = Null
    <3>1. Lookup(nn, q) = Lookup(Entry(nn, NameOf(q[1])), Tail(q))
      BY <1>2, <2>1, LookupInMap
    <3> QED
      BY <2>2, <3>1, NothingBelowNull DEF Entry
  <2>5. ItemFor(t.list, label) = nn
    BY <1>3 DEF ItemFor, nn
  <2> QED
    BY <1>2, <2>1, <2>3, <2>4, <2>5
<1>4. CASE at # 0
  <2>1. at \in With(t.list, label)
    BY <1>1, <1>4, AtFirst
  <2>2. Fits(t.list[at], q)
    BY <2>1 DEF FitsList
  <2>3. Entry(t.list[at], "name") = Leaf(label)
    BY <2>1 DEF With
  <2>4. at \in DOMAIN t.list
    BY <1>1, <2>1, SequenceOfItems DEF With, Named
  <2>5. IsMap(t.list[at])
    BY <1>1, <2>4 DEF Named
  <2>6. ItemFor(t.list, label) = t.list[at]
    BY <1>4 DEF ItemFor
  <2> HIDE DEF at
  <2> QED
    BY <1>2, <1>4, <2>2, <2>3, <2>5, <2>6 DEF at
<1> QED
  BY <1>3, <1>4
-----------------------------------------------------------------------------
(* What is set is found.                                                    *)

Written(t, p, v) ==
  LET new == setTree(t, p, v)
  IN  /\ ~Failed(new)
      /\ Lookup(new, p) = v
      /\ Fits(new, p)
      /\ IsMap(t) => /\ IsMap(new)
                     /\ \A k : k # NameOf(p[1]) => Entry(new, k) = Entry(t, k) /\ (Has(new, k) <=> Has(t, k))

LEMMA WrittenInMap ==
  ASSUME SetRecursion, LookupRecursion, FitsRecursion, NEW E, NEW v, ~Failed(v),
         NEW t, NEW p \in Seq(E), p # <<>>, FitsMap(t, p),
         Len(p) # 1 => \A s : Fits(s, Tail(p)) => Written(s, Tail(p), v)
  PROVE  Written(t, p, v)
<1> DEFINE q == Tail(p)
           k == NameOf(p[1])
<1>0. /\ q \in Seq(E) /\ Len(p) \in Nat
      /\ Len(p) = 1 => q = <<>>
      /\ Len(p) # 1 => q # <<>> /\ Len(p) > 1 /\ Len(q) \in Nat /\ Len(q) > 0 /\ q[1] = p[2]
      /\ (\A i \in 2 .. Len(p) : ~p[i].brackets) => \A i \in 1 .. Len(q) : ~q[i].brackets
  BY PathParts, LongPath
<1> DEFINE new == IF Len(p) = 1 THEN v ELSE setTree(Child(t, k), q, v)
<1>1. setTree(t, p, v) = IF Failed(new) THEN new ELSE Put(t, k, new)
  BY SetInMapEntry DEF FitsMap
<1>2. ~Failed(new) /\ Lookup(new, q) = v /\ (Len(p) # 1 => Fits(new, q))
  <2>1. CASE Len(p) = 1
    BY <1>0, <2>1 DEF Lookup
  <2>2. CASE Len(p) # 1
    <3>1. Fits(Child(t, k), q)
      <4>1. CASE Has(t, k)
        <5>1. Fits(Entry(t, k), q)
          BY <1>0, <2>2, <4>1 DEF FitsMap
        <5>2. Entry(t, k) # Null
          BY <5>1, NodesNotFailed DEF Fits
        <5> QED
          BY <5>1, <5>2 DEF Child
      <4>2. CASE ~Has(t, k)
        <5>1. Child(t, k) = EmptyMap
          BY <4>2 DEF Child, Entry
        <5>2. \A i \in 1 .. Len(q) : ~q[i].brackets
          BY <1>0, <2>2, <4>2 DEF FitsMap
        <5>3. q # <<>> /\ Len(q) \in Nat /\ Len(q) > 0
          BY <1>0, <2>2
        <5>4. Fits(EmptyMap, q)
          BY <5>2, <5>3, NoEntries, FitsNothing
        <5> QED
          BY <5>1, <5>4
      <4> QED
        BY <4>1, <4>2
    <3> QED
      BY <2>2, <3>1 DEF Written
  <2> QED
    BY <2>1, <2>2
<1> HIDE DEF new
<1>3. IsMap(t) /\ setTree(t, p, v) = Put(t, k, new)
  BY <1>1, <1>2 DEF FitsMap
<1>4. /\ IsMap(Put(t, k, new)) /\ Entry(Put(t, k, new), k) = new
      /\ \A j : j # k => Entry(Put(t, k, new), j) = Entry(t, j) /\ (Has(Put(t, k, new), j) <=> Has(t, j))
  BY <1>3, Entries
<1>5. Lookup(Put(t, k, new), p) = v
  BY <1>2, <1>4, LookupInMap
<1>6. Fits(Put(t, k, new), p)
  <2>1. Has(Put(t, k, new), k)
    BY <1>3, Entries
  <2>2. FitsMap(Put(t, k, new), p)
    BY <1>0, <1>2, <1>4, <2>1 DEF FitsMap
  <2> QED
    BY <2>2, MapFits
<1> QED
  BY <1>3, <1>4, <1>5, <1>6, NodesNotFailed DEF Written

LEMMA WrittenInList ==
  ASSUME SetRecursion, LookupRecursion, FitsRecursion, NEW E, NEW v, ~Failed(v),
         NEW t, NEW p \in Seq(E), p # <<>>, FitsList(t, p),
         \A s : Fits(s, Tail(p)) => Written(s, Tail(p), v)
  PROVE  Written(t, p, v)
<1> DEFINE q == Tail(p)
           label == p[1].parts[2]
           item == ItemFor(t.list, label)
           new == setTree(item, q, v)
           list == WithNew(t.list, label, new)
<1>1. IsList(t) /\ Named(t.list, label) /\ IsName(p[1]) /\ Len(p) # 1
  BY DEF FitsList
<1>2. NameOf(q[1]) # "name" /\ IsMap(item) /\ Entry(item, "name") = Leaf(label) /\ Fits(item, q)
  BY ListItem
<1>3. /\ ~Failed(new) /\ Lookup(new, q) = v /\ Fits(new, q)
      /\ IsMap(new) /\ Entry(new, "name") = Leaf(label)
  <2>1. Written(item, q, v)
    BY <1>2
  <2> HIDE DEF item
  <2> QED
    BY <1>2, <2>1 DEF Written
<1>4. setTree(t, p, v) = List(list)
  BY <1>1, <1>3, SetInListWithNames
<1> HIDE DEF new
<1>5. /\ Named(list, label) /\ At(list, label) # 0 /\ list[At(list, label)] = new
      /\ \A i \in With(list, label) : list[i] = new \/ (i \in With(t.list, label) /\ list[i] = t.list[i])
  BY <1>1, <1>3, ListWithNew
<1> HIDE DEF list
<1>6. IsList(List(list)) /\ List(list).list = list
  BY DEF IsList, List
<1>7. Lookup(List(list), p) = v
  <2>1. Lookup(List(list), p) =
          LET a == At(list, label) IN IF a = 0 THEN Null ELSE Lookup(list[a], q)
    BY <1>1, <1>5, <1>6, LookupInList
  <2> QED
    BY <1>3, <1>5, <2>1
<1>8. ~IsMap(t) /\ ~Failed(List(list))
  BY <1>1, <1>6, NodesNotFailed
<1>9. Fits(List(list), p)
  <2>1. \A i \in With(list, label) : Fits(list[i], q)
    BY <1>3, <1>5 DEF FitsList
  <2>2. FitsList(List(list), p)
    BY <1>5, <1>6, <2>1 DEF FitsList
  <2> QED
    BY <2>2, ListFits
<1> QED
  BY <1>4, <1>7, <1>8, <1>9 DEF Written

\* Setting a value where a path fits succeeds, and the path then leads to it, while
\* the other entries of a map are left alone (setTree, pkg/translate/tree.go).
THEOREM SetThenLookup ==
  ASSUME SetRecursion, LookupRecursion, FitsRecursion, NEW E, NEW v, ~Failed(v)
  PROVE  \A t : \A p \in Seq(E) : p # <<>> /\ Fits(t, p) => Written(t, p, v)
<1> DEFINE A == {n \in Nat : \A t : \A p \in Seq(E) :
                   Len(p) = n /\ p # <<>> /\ Fits(t, p) => Written(t, p, v)}
<1>1. 0 \in A
  BY EmptySeq
<1>2. ASSUME NEW n \in Nat, n \in A PROVE n + 1 \in A
  <2>1. SUFFICES ASSUME NEW t, NEW p \in Seq(E), Len(p) = n + 1, p # <<>>, Fits(t, p)
                 PROVE  Written(t, p, v)
    OBVIOUS
  <2>3. Len(p) # 1 => \A s : Fits(s, Tail(p)) => Written(s, Tail(p), v)
    <3>1. Len(p) # 1 => Tail(p) \in Seq(E) /\ Len(Tail(p)) = n /\ Tail(p) # <<>>
      BY <2>1, PathParts
    <3> QED
      BY <1>2, <3>1
  <2> HIDE DEF A
  <2>4. CASE FitsMap(t, p)
    BY <2>1, <2>3, <2>4, WrittenInMap
  <2>5. CASE FitsList(t, p)
    <3>1. Len(p) # 1
      BY <2>5 DEF FitsList
    <3> QED
      BY <2>1, <2>3, <2>5, <3>1, WrittenInList
  <2> QED
    BY <2>1, <2>4, <2>5, FitsCases
<1>3. \A n \in Nat : n \in A
  <2> HIDE DEF A
  <2> QED
    BY <1>1, <1>2, Induction
<1> QED
  <2>1. \A p \in Seq(E) : Len(p) \in Nat
    BY LenProperties
  <2> QED
    BY <1>3, <2>1
-----------------------------------------------------------------------------
(* What is set is all that changes.                                         *)

\* Two paths part where they have the names of different keys.
Apart(p, q) ==
  \E i \in 1 .. Len(p) :
    /\ i <= Len(q)
    /\ \A j \in 1 .. i - 1 : p[j] = q[j]
    /\ ~p[i].brackets /\ ~q[i].brackets /\ NameOf(p[i]) # NameOf(q[i])

LEMMA ApartCases ==
  ASSUME NEW E, NEW p \in Seq(E), NEW q \in Seq(E), Apart(p, q)
  PROVE  /\ p # <<>> /\ q # <<>>
         /\ \/ ~p[1].brackets /\ ~q[1].brackets /\ NameOf(p[1]) # NameOf(q[1])
            \/ /\ p[1] = q[1] /\ Len(p) # 1 /\ Len(q) # 1
               /\ Apart(Tail(p), Tail(q))
<1>1. PICK i \in 1 .. Len(p) :
        /\ i <= Len(q)
        /\ \A j \in 1 .. i - 1 : p[j] = q[j]
        /\ ~p[i].brackets /\ ~q[i].brackets /\ NameOf(p[i]) # NameOf(q[i])
  BY DEF Apart
<1>2. Len(p) \in Nat /\ Len(q) \in Nat /\ i \in Nat /\ i > 0
  BY LenProperties
<1>3. p # <<>> /\ q # <<>>
  BY <1>1, <1>2, EmptySeq
<1>4. CASE i = 1
  BY <1>1, <1>3, <1>4
<1>5. CASE i # 1
  <2>1. /\ Len(Tail(p)) = Len(p) - 1 /\ \A j \in 1 .. Len(Tail(p)) : Tail(p)[j] = p[j + 1]
        /\ Len(Tail(q)) = Len(q) - 1 /\ \A j \in 1 .. Len(Tail(q)) : Tail(q)[j] = q[j + 1]
    BY <1>3, HeadTailProperties
  <2>2. 1 \in 1 .. i - 1 /\ p[1] = q[1] /\ Len(p) # 1 /\ Len(q) # 1
    BY <1>1, <1>2, <1>5
  <2>3. i - 1 \in 1 .. Len(Tail(p)) /\ i - 1 <= Len(Tail(q)) /\ i - 1 \in 1 .. Len(Tail(q))
    BY <1>1, <1>2, <1>5, <2>1
  <2>4. Tail(p)[i - 1] = p[i] /\ Tail(q)[i - 1] = q[i]
    <3>1. (i - 1) + 1 = i
      BY <1>2
    <3> QED
      BY <2>1, <2>3, <3>1
  <2>5. ASSUME NEW j \in 1 .. (i - 1) - 1 PROVE Tail(p)[j] = Tail(q)[j]
    <3>1. j \in 1 .. Len(Tail(p)) /\ j \in 1 .. Len(Tail(q)) /\ j + 1 \in 1 .. i - 1
      BY <1>2, <2>3
    <3> QED
      BY <1>1, <2>1, <3>1
  <2>6. Apart(Tail(p), Tail(q))
    BY <1>1, <2>3, <2>4, <2>5 DEF Apart
  <2> QED
    BY <1>3, <2>2, <2>6
<1> QED
  BY <1>4, <1>5

Untouched(t, p, new) == Lookup(new, p) = Lookup(t, p) /\ Fits(new, p)

LEMMA UntouchedInMap ==
  ASSUME SetRecursion, LookupRecursion, FitsRecursion, NEW E, NEW v, ~Failed(v),
         NEW t, NEW p \in Seq(E), NEW q \in Seq(E), FitsMap(t, p), FitsMap(t, q), Apart(p, q),
         Len(p) # 1 /\ Len(q) # 1 /\ Apart(Tail(p), Tail(q)) =>
           \A s : Fits(s, Tail(p)) /\ Fits(s, Tail(q)) => Untouched(s, Tail(p), setTree(s, Tail(q), v))
  PROVE  Untouched(t, p, setTree(t, q, v))
<1> DEFINE k == NameOf(q[1])
           new == setTree(t, q, v)
<1>1. Fits(t, q) /\ p # <<>> /\ q # <<>>
  BY MapFits, ApartCases
<1>2. Written(t, q, v) /\ IsMap(t)
  BY <1>1, SetThenLookup DEF FitsMap
<1>3. IsMap(new) /\ \A j : j # k => Entry(new, j) = Entry(t, j) /\ (Has(new, j) <=> Has(t, j))
  BY <1>2 DEF Written
<1>4. CASE NameOf(p[1]) # k
  <2> HIDE DEF new, k
  <2>1. Lookup(new, p) = Lookup(t, p)
    BY <1>1, <1>2, <1>3, <1>4, LookupInMap
  <2>2. FitsMap(new, p)
    BY <1>3, <1>4 DEF FitsMap
  <2> QED
    BY <2>1, <2>2, MapFits DEF Untouched, new
<1>5. CASE NameOf(p[1]) = k
  <2> DEFINE below == setTree(Child(t, k), Tail(q), v)
  <2>1. p[1] = q[1] /\ Len(p) # 1 /\ Len(q) # 1 /\ Apart(Tail(p), Tail(q))
    BY <1>5, ApartCases
  <2>2. new = IF Failed(below) THEN below ELSE Put(t, k, below)
    BY <1>1, <1>2, <2>1, SetInMapEntry
  <2>3. /\ Tail(p) \in Seq(E) /\ Tail(p) # <<>> /\ Tail(q) # <<>>
        /\ Len(p) > 1 /\ Len(q) > 1
        /\ Len(Tail(p)) \in Nat /\ Len(Tail(p)) > 0 /\ Len(Tail(q)) \in Nat /\ Len(Tail(q)) > 0
        /\ (\A i \in 2 .. Len(p) : ~p[i].brackets) => \A i \in 1 .. Len(Tail(p)) : ~Tail(p)[i].brackets
        /\ (\A i \in 2 .. Len(q) : ~q[i].brackets) => \A i \in 1 .. Len(Tail(q)) : ~Tail(q)[i].brackets
    BY <1>1, <2>1, LongPath
  <2>4. Fits(Child(t, k), Tail(p)) /\ Fits(Child(t, k), Tail(q))
    <3>1. CASE Has(t, k)
      <4>1. Fits(Entry(t, k), Tail(p)) /\ Fits(Entry(t, k), Tail(q))
        BY <1>5, <2>3, <3>1 DEF FitsMap
      <4>2. Entry(t, k) # Null
        BY <4>1, NodesNotFailed DEF Fits
      <4> QED
        BY <4>1, <4>2 DEF Child
    <3>2. CASE ~Has(t, k)
      <4>1. Child(t, k) = EmptyMap
        BY <3>2 DEF Child, Entry
      <4>2. /\ \A i \in 1 .. Len(Tail(p)) : ~Tail(p)[i].brackets
            /\ \A i \in 1 .. Len(Tail(q)) : ~Tail(q)[i].brackets
        BY <1>5, <2>3, <3>2 DEF FitsMap
      <4>3. Fits(EmptyMap, Tail(p))
        BY <2>3, <4>2, NoEntries, FitsNothing
      <4>4. Fits(EmptyMap, Tail(q))
        BY <2>3, <4>2, NoEntries, FitsNothing
      <4> QED
        BY <4>1, <4>3, <4>4
    <3> QED
      BY <3>1, <3>2
  <2>5. Untouched(Child(t, k), Tail(p), below)
    BY <2>1, <2>4
  <2>6. ~Failed(below)
    BY <1>2, <2>2 DEF Written
  <2> HIDE DEF below, new
  <2>7. Has(new, k) /\ Entry(new, k) = below
    BY <1>2, <2>2, <2>6, Entries
  <2>8. Lookup(new, p) = Lookup(below, Tail(p))
    BY <1>1, <1>3, <1>5, <2>7, LookupInMap
  <2>9. Lookup(t, p) = Lookup(Child(t, k), Tail(p))
    <3>1. Lookup(t, p) = Lookup(Entry(t, k), Tail(p))
      BY <1>1, <1>2, <1>5, LookupInMap
    <3>2. CASE Entry(t, k) = Null
      <4>1. Lookup(EmptyMap, Tail(p)) = Lookup(Entry(EmptyMap, NameOf(Tail(p)[1])), Tail(Tail(p)))
        BY <2>3, NoEntries, LookupInMap
      <4>2. Entry(EmptyMap, NameOf(Tail(p)[1])) = Null
        BY NoEntries DEF Entry
      <4> QED
        BY <3>1, <3>2, <4>1, <4>2, NothingBelowNull DEF Child
    <3> QED
      BY <3>1, <3>2 DEF Child
  <2>10. FitsMap(new, p)
    BY <1>3, <1>5, <2>3, <2>5, <2>7 DEF FitsMap, Untouched
  <2> QED
    BY <2>5, <2>8, <2>9, <2>10, MapFits DEF Untouched, new
<1> QED
  BY <1>4, <1>5

LEMMA UntouchedInList ==
  ASSUME SetRecursion, LookupRecursion, FitsRecursion, NEW E, NEW v, ~Failed(v),
         NEW t, NEW p \in Seq(E), NEW q \in Seq(E), FitsList(t, p), FitsList(t, q), Apart(p, q),
         Len(p) # 1 /\ Len(q) # 1 /\ Apart(Tail(p), Tail(q)) =>
           \A s : Fits(s, Tail(p)) /\ Fits(s, Tail(q)) => Untouched(s, Tail(p), setTree(s, Tail(q), v))
  PROVE  Untouched(t, p, setTree(t, q, v))
<1> DEFINE label == p[1].parts[2]
           item == ItemFor(t.list, label)
           new == setTree(item, Tail(q), v)
           list == WithNew(t.list, label, new)
<1>1. /\ IsList(t) /\ Named(t.list, label) /\ IsName(p[1])
      /\ p[1] = q[1] /\ p # <<>> /\ q # <<>> /\ Len(p) # 1 /\ Len(q) # 1 /\ Apart(Tail(p), Tail(q))
  BY ApartCases DEF FitsList, IsName, IsKVPathElement
<1>2. /\ Fits(item, Tail(p)) /\ (At(t.list, label) = 0 => Lookup(item, Tail(p)) = Null)
      /\ IsMap(item) /\ Entry(item, "name") = Leaf(label)
  BY <1>1, ListItem
<1>3. Fits(item, Tail(q)) /\ Tail(q) \in Seq(E) /\ Tail(q) # <<>> /\ NameOf(Tail(q)[1]) # "name"
  BY <1>1, ListItem
<1>4. Untouched(item, Tail(p), new)
  BY <1>1, <1>2, <1>3
<1>5. ~Failed(new) /\ IsMap(new) /\ Entry(new, "name") = Leaf(label)
  <2>1. Written(item, Tail(q), v)
    BY <1>3, SetThenLookup
  <2> HIDE DEF item
  <2> QED
    BY <1>2, <1>3, <2>1 DEF Written
<1>6. setTree(t, q, v) = List(list)
  BY <1>1, <1>5, SetInListWithNames
<1> HIDE DEF new
<1>7. /\ Named(list, label) /\ At(list, label) # 0 /\ list[At(list, label)] = new
      /\ \A i \in With(list, label) : list[i] = new \/ (i \in With(t.list, label) /\ list[i] = t.list[i])
  BY <1>1, <1>5, ListWithNew
<1> HIDE DEF list
<1>8. IsList(List(list)) /\ List(list).list = list
  BY DEF IsList, List
<1>9. Lookup(List(list), p) = Lookup(new, Tail(p))
  BY <1>1, <1>7, <1>8, LookupInList
<1>10. Lookup(t, p) = Lookup(item, Tail(p))
  <2>1. Lookup(t, p) = IF At(t.list, label) = 0 THEN Null ELSE Lookup(t.list[At(t.list, label)], Tail(p))
    BY <1>1, LookupInList
  <2>2. At(t.list, label) # 0 => item = t.list[At(t.list, label)]
    BY DEF ItemFor
  <2> HIDE DEF item
  <2> QED
    BY <1>2, <2>1, <2>2
<1>11. FitsList(List(list), p)
  <2>1. \A i \in With(list, label) : Fits(list[i], Tail(p))
    BY <1>4, <1>7 DEF Untouched, FitsList
  <2> QED
    BY <1>7, <1>8, <2>1 DEF FitsList
<1> QED
  BY <1>4, <1>6, <1>9, <1>10, <1>11, ListFits DEF Untouched

\* Setting a value at one path changes nothing at another that parts from it, and does
\* not take the room of what is to be set there.
THEOREM SetElsewhere ==
  ASSUME SetRecursion, LookupRecursion, FitsRecursion, NEW E, NEW v, ~Failed(v)
  PROVE  \A t : \A p, q \in Seq(E) :
           Apart(p, q) /\ Fits(t, p) /\ Fits(t, q) => Untouched(t, p, setTree(t, q, v))
<1> DEFINE A == {n \in Nat : \A t : \A p, q \in Seq(E) :
                   Len(p) = n /\ Apart(p, q) /\ Fits(t, p) /\ Fits(t, q) => Untouched(t, p, setTree(t, q, v))}
<1>1. 0 \in A
  <2>1. \A p, q \in Seq(E) : Len(p) = 0 => ~Apart(p, q)
    BY DEF Apart
  <2> QED
    BY <2>1
<1>2. ASSUME NEW n \in Nat, n \in A PROVE n + 1 \in A
  <2>1. SUFFICES ASSUME NEW t, NEW p \in Seq(E), NEW q \in Seq(E), Len(p) = n + 1,
                        Apart(p, q), Fits(t, p), Fits(t, q)
                 PROVE  Untouched(t, p, setTree(t, q, v))
    OBVIOUS
  <2>2. Len(p) # 1 /\ Len(q) # 1 /\ Apart(Tail(p), Tail(q)) =>
          \A s : Fits(s, Tail(p)) /\ Fits(s, Tail(q)) => Untouched(s, Tail(p), setTree(s, Tail(q), v))
    <3>1. Tail(p) \in Seq(E) /\ Len(Tail(p)) = n /\ Tail(q) \in Seq(E)
      BY <2>1, ApartCases, PathParts
    <3> QED
      BY <1>2, <3>1
  <2> HIDE DEF A
  <2>3. (FitsMap(t, p) \/ FitsList(t, p)) /\ (FitsMap(t, q) \/ FitsList(t, q))
    BY <2>1, FitsCases
  <2>4. ~(IsMap(t) /\ IsList(t))
    BY NodesNotFailed
  <2>5. CASE FitsMap(t, p) /\ FitsMap(t, q)
    BY <2>1, <2>2, <2>5, UntouchedInMap
  <2>6. CASE FitsList(t, p) /\ FitsList(t, q)
    BY <2>1, <2>2, <2>6, UntouchedInList
  <2> QED
    BY <2>3, <2>4, <2>5, <2>6 DEF FitsMap, FitsList
<1>3. \A n \in Nat : n \in A
  <2> HIDE DEF A
  <2> QED
    BY <1>1, <1>2, Induction
<1> QED
  <2>1. \A p \in Seq(E) : Len(p) \in Nat
    BY LenProperties
  <2> QED
    BY <1>3, <2>1
-----------------------------------------------------------------------------
(* The leaves that stay.                                                    *)

\* Elements that are nothing but a key, or a name in brackets.
WellFormed(E) ==
  \A e \in E : /\ ~e.brackets => e = Key(NameOf(e))
               /\ IsName(e) => e = Item("name", e.parts[2])

LEMMA PrefixBelow ==
  ASSUME NEW E, NEW q \in Seq(E), q # <<>>, NEW m, IsSeq(m), IsPrefix(Tail(q), m)
  PROVE  IsPrefix(q, <<q[1]>> \o m)
<1> DEFINE S == E \cup {m[i] : i \in DOMAIN m}
           s == <<q[1]>> \o m
           r == Tail(q)
<1>1. /\ Len(q) \in Nat /\ Len(q) > 0 /\ q[1] \in E
      /\ r \in Seq(E) /\ Len(r) = Len(q) - 1
      /\ \A i \in 1 .. Len(r) : r[i] = q[i + 1]
  BY PathParts
<1>2. m \in Seq(S) /\ <<q[1]>> \in Seq(S) /\ Len(m) \in Nat /\ Len(<<q[1]>>) = 1 /\ <<q[1]>>[1] = q[1]
  <2>1. m \in Seq(S) /\ Len(m) \in Nat
    BY SeqMonotonic, LenProperties DEF IsSeq
  <2>2. q[1] \in S
    BY <1>1
  <2> HIDE DEF S
  <2> QED
    BY <2>1, <2>2
<1> HIDE DEF S
<1>3. /\ s \in Seq(S) /\ Len(s) = 1 + Len(m)
      /\ \A i \in 1 .. 1 + Len(m) : s[i] = IF i <= 1 THEN q[1] ELSE m[i - 1]
  BY <1>2, ConcatProperties
<1>4. Len(r) \in Nat /\ Len(r) <= Len(m)
  BY <1>1 DEF IsPrefix
<1>5. ASSUME NEW i \in 1 .. Len(r) PROVE r[i] = m[i]
  <2>1. \A j \in 1 .. Len(r) : r[j] \in E
    BY <1>1, ElementOfSeq
  <2>2. \A j \in 1 .. Len(r) : m[j] \in S
    BY <1>2, <1>4, ElementOfSeq
  <2>3. SubSeq(r, 1, Len(r))[i] = r[1 + i - 1]
    BY <1>4, <2>1, SubSeqProperties
  <2>4. SubSeq(m, 1, Len(r))[i] = m[1 + i - 1]
    BY <1>4, <2>2, SubSeqProperties
  <2>5. 1 + i - 1 = i
    BY <1>4
  <2> QED
    BY <2>3, <2>4, <2>5 DEF IsPrefix
<1> DEFINE n == Len(q)
<1> HIDE DEF s
<1>6. ASSUME NEW i \in 1 .. n PROVE q[i] = s[i] /\ s[i] \in S
  <2>1. i \in 1 .. 1 + Len(m) /\ s[i] = IF i <= 1 THEN q[1] ELSE m[i - 1]
    BY <1>1, <1>3, <1>4
  <2>2. i # 1 => i - 1 \in 1 .. Len(r) /\ r[i - 1] = q[i]
    <3>1. i # 1 => i - 1 \in 1 .. Len(r) /\ (i - 1) + 1 = i
      BY <1>1
    <3> QED
      BY <1>1, <3>1
  <2>3. q[i] = s[i]
    <3>1. CASE i = 1
      BY <2>1, <3>1
    <3>2. CASE i # 1
      <4>1. ~(i <= 1)
        BY <1>1, <3>2
      <4> QED
        BY <1>5, <2>1, <2>2, <3>2, <4>1
    <3> QED
      BY <3>1, <3>2
  <2>4. s[i] \in S
    BY <1>3, <2>1, ElementOfSeq
  <2> QED
    BY <2>3, <2>4
<1>7. \A i \in 1 .. n : q[i] \in S
  BY <1>6
<1>8. /\ SubSeq(q, 1, n) \in Seq(S) /\ Len(SubSeq(q, 1, n)) = n
      /\ \A i \in 1 .. n : SubSeq(q, 1, n)[i] = q[i]
  <2>1. /\ SubSeq(q, 1, n) \in Seq(S) /\ Len(SubSeq(q, 1, n)) = IF 1 <= n THEN n - 1 + 1 ELSE 0
        /\ \A i \in 1 .. n - 1 + 1 : SubSeq(q, 1, n)[i] = q[1 + i - 1]
    BY <1>1, <1>7, SubSeqProperties
  <2> QED
    BY <1>1, <2>1
<1>9. /\ SubSeq(s, 1, n) \in Seq(S) /\ Len(SubSeq(s, 1, n)) = n
      /\ \A i \in 1 .. n : SubSeq(s, 1, n)[i] = s[i]
  <2>1. /\ SubSeq(s, 1, n) \in Seq(S) /\ Len(SubSeq(s, 1, n)) = IF 1 <= n THEN n - 1 + 1 ELSE 0
        /\ \A i \in 1 .. n - 1 + 1 : SubSeq(s, 1, n)[i] = s[1 + i - 1]
    BY <1>1, <1>6, SubSeqProperties
  <2> QED
    BY <1>1, <2>1
<1>10. SubSeq(q, 1, n) = SubSeq(s, 1, n)
  BY <1>6, <1>8, <1>9, SeqEqual
<1>11. n <= Len(s)
  BY <1>1, <1>3, <1>4
<1> QED
  BY <1>10, <1>11 DEF IsPrefix, s

LEMMA LeavesOfMap ==
  ASSUME LeavesRecursion, NEW t, IsMap(t), NEW l
  PROVE  l \in Leaves(t) <=>
           \E k \in DOMAIN t.map : \E m \in Leaves(t.map[k]) : l = <<<<Key(k)>> \o m[1], m[2]>>
<1> DEFINE Below(k) == {<<<<Key(k)>> \o m[1], m[2]>> : m \in LeavesBelow(t.map[k])}
<1>1. Leaves(t) = UNION {Below(k) : k \in DOMAIN t.map}
  BY NodesNotFailed DEF Leaves
<1>2. \A k : l \in Below(k) <=> \E m \in Leaves(t.map[k]) : l = <<<<Key(k)>> \o m[1], m[2]>>
  BY DEF LeavesRecursion
<1> HIDE DEF Below
<1> QED
  BY <1>1, <1>2, Zenon

LEMMA LeavesOfList ==
  ASSUME LeavesRecursion, NEW t, IsList(t), NEW l
  PROVE  l \in Leaves(t) <=>
           \E i \in DOMAIN t.list : \E m \in Leaves(t.list[i]) :
             l = <<<<Selector(t.list[i])>> \o m[1], m[2]>>
<1> DEFINE Below(i) == {<<<<Selector(t.list[i])>> \o m[1], m[2]>> : m \in LeavesBelow(t.list[i])}
<1>1. Leaves(t) = UNION {Below(i) : i \in DOMAIN t.list}
  BY NodesNotFailed DEF Leaves
<1>2. \A i : l \in Below(i) <=> \E m \in Leaves(t.list[i]) : l = <<<<Selector(t.list[i])>> \o m[1], m[2]>>
  BY DEF LeavesRecursion
<1> HIDE DEF Below
<1> QED
  BY <1>1, <1>2, Zenon

\* The leaves that are not under a path are among those of another tree.
KeepsLeaves(t, q, new) == \A l \in Leaves(t) : ~IsPrefix(q, l[1]) => l \in Leaves(new)

LEMMA NotPrefixBelow ==
  ASSUME LeavesRecursion, NEW E, NEW q \in Seq(E), q # <<>>, NEW s, NEW m \in Leaves(s),
         ~IsPrefix(q, <<q[1]>> \o m[1])
  PROVE  ~IsPrefix(Tail(q), m[1]) /\ Len(q) # 1
<1>1. IsSeq(m[1])
  BY DEF LeavesRecursion
<1>2. ~IsPrefix(Tail(q), m[1])
  BY <1>1, PrefixBelow
<1>3. ASSUME Len(q) = 1 PROVE FALSE
  <2>1. Tail(q) = <<>>
    BY <1>3, PathParts
  <2>2. Len(m[1]) \in Nat
    BY <1>1, LenProperties DEF IsSeq
  <2>3. Len(<<>>) = 0
    BY EmptySeq
  <2>4. SubSeq(<<>>, 1, 0) = <<>> /\ SubSeq(m[1], 1, 0) = <<>>
    BY SubSeqEmpty
  <2>5. IsPrefix(<<>>, m[1])
    BY <2>2, <2>3, <2>4 DEF IsPrefix
  <2> QED
    BY <1>2, <2>1, <2>5
<1> QED
  BY <1>2, <1>3

LEMMA LeavesKeptInMap ==
  ASSUME SetRecursion, LookupRecursion, FitsRecursion, LeavesRecursion,
         NEW E, WellFormed(E), NEW v, ~Failed(v), NEW t, NEW q \in Seq(E), q # <<>>, FitsMap(t, q),
         Len(q) # 1 => \A s : Fits(s, Tail(q)) => KeepsLeaves(s, Tail(q), setTree(s, Tail(q), v))
  PROVE  KeepsLeaves(t, q, setTree(t, q, v))
<1> DEFINE k == NameOf(q[1])
           new == setTree(t, q, v)
<1>1. Written(t, q, v) /\ IsMap(t)
  BY MapFits, SetThenLookup DEF FitsMap
<1>2. IsMap(new) /\ \A j : j # k => Entry(new, j) = Entry(t, j) /\ (Has(new, j) <=> Has(t, j))
  BY <1>1 DEF Written
<1>0. \A l \in Leaves(t) :
        \E j \in DOMAIN t.map : \E m \in Leaves(t.map[j]) : l = <<<<Key(j)>> \o m[1], m[2]>>
  BY <1>1, LeavesOfMap
<1>3. SUFFICES ASSUME NEW j \in DOMAIN t.map, NEW m \in Leaves(t.map[j]),
                      ~IsPrefix(q, <<Key(j)>> \o m[1])
               PROVE  \E i \in DOMAIN new.map : \E n \in Leaves(new.map[i]) :
                        <<<<Key(j)>> \o m[1], m[2]>> = <<<<Key(i)>> \o n[1], n[2]>>
  <2>1. SUFFICES ASSUME NEW l \in Leaves(t), ~IsPrefix(q, l[1]) PROVE l \in Leaves(new)
    BY DEF KeepsLeaves
  <2>2. PICK j \in DOMAIN t.map : \E m \in Leaves(t.map[j]) : l = <<<<Key(j)>> \o m[1], m[2]>>
    BY <1>0, Zenon
  <2>3. PICK m \in Leaves(t.map[j]) : l = <<<<Key(j)>> \o m[1], m[2]>>
    BY <2>2
  <2>4. ~IsPrefix(q, <<Key(j)>> \o m[1])
    BY <2>1, <2>3
  <2> HIDE DEF new
  <2> QED
    BY <1>2, <1>3, <2>3, <2>4, LeavesOfMap
<1>4. CASE j # k
  <2> HIDE DEF new
  <2>1. j \in DOMAIN new.map /\ new.map[j] = t.map[j]
    BY <1>2, <1>4 DEF Has, Entry
  <2> QED
    BY <2>1
<1>5. CASE j = k
  <2>1. q[1] = Key(j)
    <3>1. q[1] \in E /\ ~q[1].brackets
      BY PathParts DEF FitsMap
    <3> QED
      BY <1>5, <3>1 DEF WellFormed
  <2>2. ~IsPrefix(Tail(q), m[1]) /\ Len(q) # 1
    BY <1>3, <2>1, NotPrefixBelow
  <2>3. Fits(t.map[j], Tail(q)) /\ Child(t, k) = t.map[j]
    <3>1. Has(t, k) /\ Entry(t, k) = t.map[j]
      BY <1>5 DEF Has, Entry
    <3>2. Fits(Entry(t, k), Tail(q))
      BY <2>2, <3>1, LongPath DEF FitsMap
    <3>3. Entry(t, k) # Null
      BY <3>2, NodesNotFailed DEF Fits
    <3> QED
      BY <3>1, <3>2, <3>3 DEF Child
  <2> DEFINE below == setTree(Child(t, k), Tail(q), v)
  <2>4. m \in Leaves(below)
    BY <2>2, <2>3 DEF KeepsLeaves
  <2>5. new = IF Failed(below) THEN below ELSE Put(t, k, below)
    BY <1>1, <2>2, SetInMapEntry
  <2>6. ~Failed(below)
    BY <1>1, <2>5 DEF Written
  <2> HIDE DEF below, new
  <2>7. Has(new, k) /\ Entry(new, k) = below
    BY <1>1, <2>5, <2>6, Entries
  <2>8. j \in DOMAIN new.map /\ new.map[j] = below
    BY <1>5, <2>7 DEF Has, Entry
  <2> QED
    BY <2>4, <2>8
<1> QED
  BY <1>4, <1>5

LEMMA LeavesKeptInList ==
  ASSUME SetRecursion, LookupRecursion, FitsRecursion, LeavesRecursion,
         NEW E, WellFormed(E), NEW v, ~Failed(v), NEW t, NEW q \in Seq(E), q # <<>>, FitsList(t, q),
         \A s : Fits(s, Tail(q)) => KeepsLeaves(s, Tail(q), setTree(s, Tail(q), v))
  PROVE  KeepsLeaves(t, q, setTree(t, q, v))
<1> DEFINE label == q[1].parts[2]
           at == At(t.list, label)
           item == ItemFor(t.list, label)
           new == setTree(item, Tail(q), v)
           list == WithNew(t.list, label, new)
<1>1. /\ IsList(t) /\ Named(t.list, label) /\ IsName(q[1]) /\ Len(q) # 1
      /\ Len(t.list) \in Nat /\ DOMAIN t.list = 1 .. Len(t.list)
  BY SequenceOfItems DEF FitsList, Named
<1>2. at # 0 => /\ at \in DOMAIN t.list /\ IsMap(t.list[at]) /\ Fits(t.list[at], Tail(q))
                /\ Entry(t.list[at], "name") = Leaf(label)
  <2>1. at # 0 => at \in With(t.list, label)
    BY <1>1, AtFirst
  <2> HIDE DEF at
  <2> QED
    BY <1>1, <2>1 DEF FitsList, With, Named
<1>3. setTree(t, q, v) = List(list) /\ IsMap(new) /\ Entry(new, "name") = Leaf(label)
  <2>1. /\ Tail(q) \in Seq(E) /\ Tail(q) # <<>> /\ NameOf(Tail(q)[1]) # "name"
        /\ IsMap(item) /\ Entry(item, "name") = Leaf(label) /\ Fits(item, Tail(q))
    BY ListItem
  <2>2. Written(item, Tail(q), v)
    BY <2>1, SetThenLookup
  <2>3. ~Failed(new) /\ IsMap(new) /\ Entry(new, "name") = Leaf(label)
    <3> HIDE DEF item
    <3> QED
      BY <2>1, <2>2 DEF Written
  <2>4. setTree(t, q, v) = List(list)
    BY <1>1, <2>3, SetInListWithNames
  <2> QED
    BY <2>3, <2>4
<1>4. /\ \A i \in DOMAIN t.list : i # at => i \in DOMAIN list /\ list[i] = t.list[i]
      /\ at # 0 => at \in DOMAIN list /\ list[at] = new
  <2> HIDE DEF new
  <2>1. t.list \in Seq(Range(t.list) \cup {new})
    BY <1>1, SeqMonotonic DEF Named
  <2>2. CASE at = 0
    <3>1. /\ Len(Append(t.list, new)) = Len(t.list) + 1
          /\ Append(t.list, new) \in Seq(Range(t.list) \cup {new})
          /\ \A i \in 1 .. Len(t.list) : Append(t.list, new)[i] = t.list[i]
      BY <2>1, AppendProperties
    <3>2. DOMAIN Append(t.list, new) = 1 .. Len(t.list) + 1
      BY <3>1, LenProperties
    <3>3. \A i \in 1 .. Len(t.list) : i \in 1 .. Len(t.list) + 1
      BY <1>1
    <3>4. list = Append(t.list, new)
      BY <2>2 DEF WithNew
    <3> HIDE DEF at, list
    <3> QED
      BY <1>1, <2>2, <3>1, <3>2, <3>3, <3>4
  <2>3. CASE at # 0
    <3>1. list = [t.list EXCEPT ![at] = new]
      BY <2>3 DEF ReplaceAt, WithNew
    <3> HIDE DEF at, list
    <3> QED
      BY <1>1, <1>2, <2>3, <3>1
  <2> QED
    BY <2>2, <2>3
<1>5. \A i : IsMap(i) /\ Entry(i, "name") = Leaf(label) => Selector(i) = Item("name", label)
  <2>1. Leaf(label) # Null /\ Printed(Leaf(label)) = label
    BY DEF Leaf, Null, Printed
  <2> QED
    BY <2>1 DEF Selector, Entry
<1>6. IsList(List(list)) /\ List(list).list = list
  BY DEF IsList, List
<1>0. \A l \in Leaves(t) :
        \E i \in DOMAIN t.list : \E m \in Leaves(t.list[i]) : l = <<<<Selector(t.list[i])>> \o m[1], m[2]>>
  BY <1>1, LeavesOfList
<1>7. SUFFICES ASSUME NEW i \in DOMAIN t.list, NEW m \in Leaves(t.list[i]),
                      ~IsPrefix(q, <<Selector(t.list[i])>> \o m[1])
               PROVE  \E j \in DOMAIN list : \E n \in Leaves(list[j]) :
                        <<<<Selector(t.list[i])>> \o m[1], m[2]>> = <<<<Selector(list[j])>> \o n[1], n[2]>>
  <2>1. SUFFICES ASSUME NEW l \in Leaves(t), ~IsPrefix(q, l[1]) PROVE l \in Leaves(List(list))
    BY <1>3 DEF KeepsLeaves
  <2> HIDE DEF list
  <2>2. PICK i \in DOMAIN t.list : \E m \in Leaves(t.list[i]) :
          l = <<<<Selector(t.list[i])>> \o m[1], m[2]>>
    BY <1>0, Zenon
  <2>3. PICK m \in Leaves(t.list[i]) : l = <<<<Selector(t.list[i])>> \o m[1], m[2]>>
    BY <2>2
  <2>4. ~IsPrefix(q, <<Selector(t.list[i])>> \o m[1])
    BY <2>1, <2>3
  <2>5. \E j \in DOMAIN list : \E n \in Leaves(list[j]) : l = <<<<Selector(list[j])>> \o n[1], n[2]>>
    BY <1>7, <2>3, <2>4
  <2> QED
    BY <1>6, <2>5, LeavesOfList
<1> HIDE DEF list
<1>8. CASE i # at
  BY <1>4, <1>8
<1>9. CASE i = at
  <2>1. at # 0
    BY <1>1, <1>9
  <2>2. q[1] = Item("name", label)
    BY <1>1, PathParts DEF WellFormed
  <2>3. Selector(t.list[i]) = q[1] /\ Selector(new) = q[1]
    BY <1>2, <1>3, <1>5, <1>9, <2>1, <2>2
  <2>4. ~IsPrefix(Tail(q), m[1])
    BY <1>7, <2>3, NotPrefixBelow
  <2>5. item = t.list[i] /\ Fits(item, Tail(q))
    BY <1>2, <1>9, <2>1 DEF ItemFor
  <2>6. m \in Leaves(new)
    <3> HIDE DEF item
    <3> QED
      BY <2>4, <2>5 DEF KeepsLeaves
  <2>7. i \in DOMAIN list /\ list[i] = new
    BY <1>4, <1>9, <2>1
  <2> HIDE DEF new
  <2> QED
    BY <2>3, <2>6, <2>7
<1> QED
  BY <1>8, <1>9

\* Setting a value at a path leaves every leaf alone that is not under this path.
THEOREM SetKeepsLeaves ==
  ASSUME SetRecursion, LookupRecursion, FitsRecursion, LeavesRecursion,
         NEW E, WellFormed(E), NEW v, ~Failed(v)
  PROVE  \A t : \A q \in Seq(E) : q # <<>> /\ Fits(t, q) => KeepsLeaves(t, q, setTree(t, q, v))
<1> DEFINE A == {n \in Nat : \A t : \A q \in Seq(E) :
                   Len(q) = n /\ q # <<>> /\ Fits(t, q) => KeepsLeaves(t, q, setTree(t, q, v))}
<1>1. 0 \in A
  BY EmptySeq
<1>2. ASSUME NEW n \in Nat, n \in A PROVE n + 1 \in A
  <2>1. SUFFICES ASSUME NEW t, NEW q \in Seq(E), Len(q) = n + 1, q # <<>>, Fits(t, q)
                 PROVE  KeepsLeaves(t, q, setTree(t, q, v))
    OBVIOUS
  <2>2. Len(q) # 1 => \A s : Fits(s, Tail(q)) => KeepsLeaves(s, Tail(q), setTree(s, Tail(q), v))
    <3>1. Len(q) # 1 => Tail(q) \in Seq(E) /\ Len(Tail(q)) = n /\ Tail(q) # <<>>
      BY <2>1, PathParts
    <3> QED
      BY <1>2, <3>1
  <2> HIDE DEF A
  <2>3. CASE FitsMap(t, q)
    BY <2>1, <2>2, <2>3, LeavesKeptInMap
  <2>4. CASE FitsList(t, q)
    <3>1. Len(q) # 1
      BY <2>4 DEF FitsList
    <3> QED
      BY <2>1, <2>2, <2>4, <3>1, LeavesKeptInList
  <2> QED
    BY <2>1, <2>3, <2>4, FitsCases
<1>3. \A n \in Nat : n \in A
  <2> HIDE DEF A
  <2> QED
    BY <1>1, <1>2, Induction
<1> QED
  <2>1. \A q \in Seq(E) : Len(q) \in Nat
    BY LenProperties
  <2> QED
    BY <1>3, <2>1
-----------------------------------------------------------------------------
\* A path whose empty elements are all at its end loses them and no others.
LEMMA PathWithoutEnd ==
  ASSUME NEW E, NEW s \in Seq(E), NEW n \in 0 .. Len(s),
         \A i \in 1 .. n : s[i] # EmptyKey, \A i \in n + 1 .. Len(s) : s[i] = EmptyKey
  PROVE  PathFromString(s) = SubSeq(s, 1, n)
<1> DEFINE Step(f, i) == IF i = 0 THEN <<>> ELSE IF s[i] = EmptyKey THEN f[i - 1] ELSE Append(f[i - 1], s[i])
           Rec(f) == f = [i \in 0 .. Len(s) |-> Step(f, i)]
           P(i) == SubSeq(s, 1, IF i <= n THEN i ELSE n)
           r == CHOOSE f : Rec(f)
<1>1. Len(s) \in Nat /\ n \in Nat /\ n <= Len(s)
  BY LenProperties
<1>2. PathFromString(s) = r[Len(s)]
  BY DEF PathFromString
<1>3. P(0) = <<>> /\ \A i \in 1 .. Len(s) : P(i) = IF s[i] = EmptyKey THEN P(i - 1) ELSE Append(P(i - 1), s[i])
  <2>1. P(0) = <<>>
    BY <1>1, SubSeqEmpty
  <2>2. ASSUME NEW i \in 1 .. Len(s), i <= n PROVE P(i) = Append(P(i - 1), s[i]) /\ s[i] # EmptyKey
    <3>1. i \in Nat /\ i - 1 <= n /\ i \in 1 .. n /\ i - 1 \in Nat
      BY <1>1, <2>2
    <3>2. \A j \in 1 .. i : s[j] \in E
      BY <1>1, ElementOfSeq
    <3>3. /\ SubSeq(s, 1, i) \in Seq(E) /\ Len(SubSeq(s, 1, i)) = i
          /\ \A j \in 1 .. i : SubSeq(s, 1, i)[j] = s[j]
      <4>1. /\ SubSeq(s, 1, i) \in Seq(E) /\ Len(SubSeq(s, 1, i)) = IF 1 <= i THEN i - 1 + 1 ELSE 0
            /\ \A j \in 1 .. i - 1 + 1 : SubSeq(s, 1, i)[j] = s[1 + j - 1]
        BY <3>1, <3>2, SubSeqProperties
      <4> QED
        BY <3>1, <4>1
    <3>4. /\ SubSeq(s, 1, i - 1) \in Seq(E) /\ Len(SubSeq(s, 1, i - 1)) = i - 1
          /\ \A j \in 1 .. i - 1 : SubSeq(s, 1, i - 1)[j] = s[j]
      <4>1. /\ SubSeq(s, 1, i - 1) \in Seq(E)
            /\ Len(SubSeq(s, 1, i - 1)) = IF 1 <= i - 1 THEN (i - 1) - 1 + 1 ELSE 0
            /\ \A j \in 1 .. (i - 1) - 1 + 1 : SubSeq(s, 1, i - 1)[j] = s[1 + j - 1]
        BY <3>1, <3>2, SubSeqProperties
      <4> QED
        BY <3>1, <4>1
    <3> DEFINE a == Append(SubSeq(s, 1, i - 1), s[i])
    <3>5. /\ a \in Seq(E) /\ Len(a) = i /\ a[i] = s[i]
          /\ \A j \in 1 .. i - 1 : a[j] = SubSeq(s, 1, i - 1)[j]
      BY <3>1, <3>2, <3>4, AppendProperties
    <3> HIDE DEF a
    <3>6. \A j \in 1 .. i : a[j] = s[j]
      <4>1. \A j \in 1 .. i : j = i \/ j \in 1 .. i - 1
        BY <3>1
      <4> QED
        BY <3>4, <3>5, <4>1
    <3>7. SubSeq(s, 1, i) = a
      BY <3>3, <3>5, <3>6, SeqEqual
    <3> QED
      BY <2>2, <3>1, <3>7 DEF a
  <2>3. ASSUME NEW i \in 1 .. Len(s), ~(i <= n) PROVE P(i) = P(i - 1) /\ s[i] = EmptyKey
    <3>1. i \in n + 1 .. Len(s) /\ (i - 1 <= n => i - 1 = n)
      BY <1>1, <2>3
    <3> QED
      BY <2>3, <3>1
  <2> HIDE DEF P
  <2> QED
    BY <2>1, <2>2, <2>3
<1> HIDE DEF P
<1>4. Rec(r)
  <2> DEFINE w == [i \in 0 .. Len(s) |-> P(i)]
  <2>1. \A i \in 0 .. Len(s) : Step(w, i) = P(i)
    <3>1. \A i \in 1 .. Len(s) : i - 1 \in 0 .. Len(s) /\ w[i - 1] = P(i - 1)
      BY <1>1
    <3>2. \A i \in 0 .. Len(s) : i = 0 \/ (i # 0 /\ i \in 1 .. Len(s))
      BY <1>1
    <3> HIDE DEF w
    <3> QED
      BY <1>3, <3>1, <3>2
  <2>2. Rec(w)
    <3> HIDE DEF Step
    <3> QED
      BY <2>1
  <2> HIDE DEF w, Rec
  <2> QED
    BY <2>2
<1>5. \A i \in 0 .. Len(s) : r[i] = Step(r, i)
  <2> HIDE DEF r
  <2>1. r = [i \in 0 .. Len(s) |-> Step(r, i)]
    BY <1>4
  <2> HIDE DEF Step
  <2> QED
    BY <2>1
<1> HIDE DEF r
<1> DEFINE A == {i \in Nat : i <= Len(s) => r[i] = P(i)}
<1>6. \A i \in Nat : i \in A
  <2>1. 0 \in A
    BY <1>1, <1>3, <1>5
  <2>2. ASSUME NEW i \in Nat, i \in A PROVE i + 1 \in A
    <3>1. SUFFICES ASSUME i + 1 <= Len(s) PROVE r[i + 1] = P(i + 1)
      OBVIOUS
    <3>2. /\ i <= Len(s) /\ i + 1 \in 1 .. Len(s) /\ i + 1 \in 0 .. Len(s)
          /\ (i + 1) - 1 = i /\ i + 1 # 0
      BY <1>1, <3>1
    <3>3. r[i] = P(i)
      BY <2>2, <3>2
    <3> HIDE DEF A
    <3>4. r[i + 1] = IF s[i + 1] = EmptyKey THEN r[i] ELSE Append(r[i], s[i + 1])
      BY <1>5, <3>2
    <3>5. P(i + 1) = IF s[i + 1] = EmptyKey THEN P(i) ELSE Append(P(i), s[i + 1])
      BY <1>3, <3>2
    <3> QED
      BY <3>3, <3>4, <3>5
  <2> HIDE DEF A
  <2> QED
    BY <2>1, <2>2, Induction
<1>7. r[Len(s)] = P(Len(s))
  BY <1>1, <1>6
<1>8. P(Len(s)) = SubSeq(s, 1, n)
  <2>1. Len(s) <= n => Len(s) = n
    BY <1>1
  <2> QED
    BY <2>1 DEF P
<1> QED
  BY <1>2, <1>7, <1>8

\* The elements of a path are those of what it is made from.
LEMMA PathElements ==
  ASSUME NEW E, NEW s \in Seq(E) PROVE PathFromString(s) \in Seq(E)
<1> DEFINE Step(f, i) == IF i = 0 THEN <<>> ELSE IF s[i] = EmptyKey THEN f[i - 1] ELSE Append(f[i - 1], s[i])
           Rec(f, n) == f = [i \in 0 .. n |-> Step(f, i)]
           r == CHOOSE f : Rec(f, Len(s))
           A == {n \in Nat : n <= Len(s) => \E f : Rec(f, n)}
<1>1. Len(s) \in Nat /\ PathFromString(s) = r[Len(s)]
  BY LenProperties DEF PathFromString
<1>2. 0 \in A
  <2> DEFINE f == [i \in 0 .. 0 |-> <<>>]
  <2>1. \A i \in 0 .. 0 : i = 0
    OBVIOUS
  <2>2. Rec(f, 0)
    BY <2>1
  <2> HIDE DEF Rec
  <2> QED
    BY <2>2
<1>3. ASSUME NEW n \in Nat, n \in A PROVE n + 1 \in A
  <2> HIDE DEF Rec
  <2>1. SUFFICES ASSUME n + 1 <= Len(s) PROVE \E f : Rec(f, n + 1)
    OBVIOUS
  <2> USE DEF Rec
  <2>2. n <= Len(s)
    BY <1>1, <2>1
  <2>3. PICK f : Rec(f, n)
    BY <1>3, <2>2
  <2> DEFINE g == [i \in 0 .. n + 1 |-> IF i <= n THEN f[i] ELSE Step(f, i)]
  <2>4. \A i \in 0 .. n : f[i] = Step(f, i)
    <3> HIDE DEF Step
    <3> QED
      BY <2>3
  <2>5. \A i \in 0 .. n + 1 : i # 0 => g[i - 1] = f[i - 1]
    <3>1. \A i \in 0 .. n + 1 : i # 0 => i - 1 \in 0 .. n + 1 /\ i - 1 <= n
      OBVIOUS
    <3> HIDE DEF Step
    <3> QED
      BY <3>1
  <2>6. \A i \in 0 .. n + 1 : g[i] = Step(f, i)
    <3>1. \A i \in 0 .. n + 1 : i <= n => i \in 0 .. n
      OBVIOUS
    <3> HIDE DEF Step
    <3> QED
      BY <2>4, <3>1
  <2>7. g = [i \in 0 .. n + 1 |-> g[i]]
    OBVIOUS
  <2> HIDE DEF g
  <2>8. \A i \in 0 .. n + 1 : Step(g, i) = Step(f, i)
    BY <2>5
  <2>9. Rec(g, n + 1)
    <3> HIDE DEF Step
    <3> QED
      BY <2>6, <2>7, <2>8
  <2> HIDE DEF Rec
  <2> QED
    BY <2>9
<1>4. \E f : Rec(f, Len(s))
  <2>1. \A n \in Nat : n \in A
    <3> HIDE DEF A
    <3> QED
      BY <1>2, <1>3, Induction
  <2> HIDE DEF Rec
  <2> QED
    BY <1>1, <2>1
<1>5. Rec(r, Len(s))
  <2> HIDE DEF Rec
  <2> QED
    BY <1>4
<1>6. \A i \in 0 .. Len(s) : r[i] = Step(r, i)
  <2> HIDE DEF r, Step
  <2> QED
    BY <1>5
<1> HIDE DEF r
<1> DEFINE B == {i \in Nat : i <= Len(s) => r[i] \in Seq(E)}
<1>7. 0 \in B
  <2>1. r[0] = <<>>
    BY <1>1, <1>6
  <2> QED
    BY <2>1, EmptySeq
<1>8. ASSUME NEW i \in Nat, i \in B PROVE i + 1 \in B
  <2>1. SUFFICES ASSUME i + 1 <= Len(s) PROVE r[i + 1] \in Seq(E)
    OBVIOUS
  <2>2. /\ i <= Len(s) /\ i + 1 \in 1 .. Len(s) /\ i + 1 \in 0 .. Len(s)
        /\ (i + 1) - 1 = i /\ i + 1 # 0
    BY <1>1, <2>1
  <2>3. r[i + 1] = IF s[i + 1] = EmptyKey THEN r[i] ELSE Append(r[i], s[i + 1])
    BY <1>6, <2>2
  <2>4. r[i] \in Seq(E) /\ s[i + 1] \in E
    BY <1>8, <2>2, ElementOfSeq
  <2> QED
    BY <2>3, <2>4, AppendProperties
<1>9. \A i \in Nat : i \in B
  <2> HIDE DEF B
  <2> QED
    BY <1>7, <1>8, Induction
<1> QED
  BY <1>1, <1>9
-----------------------------------------------------------------------------
(* Patches.                                                                 *)

PatchRecursion == \A t, path, value : PatchBelow(t, path, value) = Patch(t, path, value)

\* An error names something that is not there, and so does a panic, of the path
\* without its last element.
FailsForReason(t, p, v) ==
  /\ Patch(t, p, v) = Bad => Lookup(t, p) = Null
  /\ Patch(t, p, v) = Panic => Lookup(t, Front(p)) = Null

LEMMA FrontOfPath ==
  ASSUME NEW E, NEW p \in Seq(E), p # <<>>
  PROVE  /\ Len(p) = 1 => Front(p) = <<>>
         /\ Len(p) # 1 => /\ Front(p) # <<>> /\ Front(p)[1] = p[1]
                          /\ Tail(Front(p)) = Front(Tail(p))
<1>1. Len(p) \in Nat /\ Len(p) > 0 /\ \A j \in 1 .. Len(p) : p[j] \in E
  BY PathParts, ElementOfSeq
<1>2. /\ Front(p) \in Seq(E) /\ Len(Front(p)) = Len(p) - 1
      /\ \A j \in 1 .. Len(p) - 1 : Front(p)[j] = p[j]
  <2>1. /\ SubSeq(p, 1, Len(p) - 1) \in Seq(E)
        /\ Len(SubSeq(p, 1, Len(p) - 1)) = IF 1 <= Len(p) - 1 THEN (Len(p) - 1) - 1 + 1 ELSE 0
        /\ \A j \in 1 .. (Len(p) - 1) - 1 + 1 : SubSeq(p, 1, Len(p) - 1)[j] = p[1 + j - 1]
    <3>1. \A j \in 1 .. Len(p) - 1 : p[j] \in E
      BY <1>1
    <3> QED
      BY <1>1, <3>1, SubSeqProperties
  <2>2. \A m \in Nat : m - 1 + 1 = m /\ (1 <= m \/ m = 0) /\ \A j \in 1 .. m : 1 + j - 1 = j
    OBVIOUS
  <2>3. Len(p) - 1 \in Nat
    BY <1>1
  <2> QED
    BY <2>1, <2>2, <2>3 DEF Front
<1>3. Len(p) = 1 => Front(p) = <<>>
  BY <1>2, EmptySeq
<1>4. ASSUME Len(p) # 1
      PROVE  Front(p) # <<>> /\ Front(p)[1] = p[1] /\ Tail(Front(p)) = Front(Tail(p))
  <2>1. /\ Tail(p) \in Seq(E) /\ Tail(p) # <<>> /\ Len(Tail(p)) = Len(p) - 1
        /\ \A i \in 1 .. Len(Tail(p)) : Tail(p)[i] = p[i + 1]
    BY <1>4, LongPath, PathParts
  <2>2. Front(p) # <<>> /\ Front(p)[1] = p[1]
    BY <1>1, <1>2, <1>4, EmptySeq
  <2>3. /\ Tail(Front(p)) \in Seq(E) /\ Len(Tail(Front(p))) = Len(Front(p)) - 1
        /\ \A i \in 1 .. Len(Tail(Front(p))) : Tail(Front(p))[i] = Front(p)[i + 1]
    BY <1>2, <2>2, PathParts
  <2>4. /\ Front(Tail(p)) \in Seq(E) /\ Len(Front(Tail(p))) = Len(Tail(p)) - 1
        /\ \A i \in 1 .. Len(Tail(p)) - 1 : Front(Tail(p))[i] = Tail(p)[i]
    <3>1. \A j \in 1 .. Len(Tail(p)) : Tail(p)[j] \in E
      BY <2>1, ElementOfSeq
    <3>2. /\ SubSeq(Tail(p), 1, Len(Tail(p)) - 1) \in Seq(E)
          /\ Len(SubSeq(Tail(p), 1, Len(Tail(p)) - 1)) =
               IF 1 <= Len(Tail(p)) - 1 THEN (Len(Tail(p)) - 1) - 1 + 1 ELSE 0
          /\ \A j \in 1 .. (Len(Tail(p)) - 1) - 1 + 1 :
               SubSeq(Tail(p), 1, Len(Tail(p)) - 1)[j] = Tail(p)[1 + j - 1]
      <4>1. \A j \in 1 .. Len(Tail(p)) - 1 : Tail(p)[j] \in E
        BY <1>1, <2>1, <3>1
      <4>2. Len(Tail(p)) - 1 \in Int
        BY <1>1, <2>1
      <4> QED
        BY <4>1, <4>2, SubSeqProperties
    <3>3. Len(Tail(p)) \in Nat /\ Len(Tail(p)) > 0
      BY <1>4, LongPath
    <3>4. \A m \in Nat : m - 1 + 1 = m /\ (1 <= m \/ m = 0) /\ \A j \in 1 .. m : 1 + j - 1 = j
      OBVIOUS
    <3>5. Len(Tail(p)) - 1 \in Nat
      BY <3>3
    <3> QED
      BY <3>2, <3>4, <3>5 DEF Front
  <2>5. \A i \in 1 .. Len(p) - 2 : Tail(Front(p))[i] = Front(Tail(p))[i]
    <3>1. ASSUME NEW i \in 1 .. Len(p) - 2 PROVE Tail(Front(p))[i] = Front(Tail(p))[i]
      <4>1. i \in 1 .. Len(Tail(Front(p))) /\ i + 1 \in 1 .. Len(p) - 1 /\ i \in 1 .. Len(Tail(p)) - 1 /\ i \in 1 .. Len(Tail(p))
        BY <1>1, <1>2, <2>1, <2>3
      <4> QED
        BY <1>2, <2>1, <2>3, <2>4, <4>1
    <3> QED
      BY <3>1
  <2>6. Len(Tail(Front(p))) = Len(p) - 2 /\ Len(Front(Tail(p))) = Len(p) - 2
    BY <1>1, <1>2, <2>1, <2>3, <2>4
  <2>7. Tail(Front(p)) = Front(Tail(p))
    BY <2>3, <2>4, <2>5, <2>6, SeqEqual
  <2> QED
    BY <2>2, <2>7
<1> QED
  BY <1>3, <1>4

\* What a patch makes of a map, and of a list.
LEMMA PatchedMap ==
  ASSUME PatchRecursion, NEW E, NEW p \in Seq(E), p # <<>>, NEW t, IsMap(t), NEW v
  PROVE  LET k == NameOf(p[1])
             below == Patch(Entry(t, k), Tail(p), v)
         IN  Patch(t, p, v) = IF Len(p) = 1 THEN IF v = Null THEN t ELSE Put(t, k, v)
                              ELSE IF Failed(below) THEN below ELSE Put(t, k, below)
<1> DEFINE k == NameOf(p[1])
           below == Patch(Entry(t, k), Tail(p), v)
<1>1. ~IsList(t) /\ t # Null /\ Len(p) \in Nat
  BY NodesNotFailed, PathParts
<1>2. Patch(t, p, v) = PatchMap(t, p, v)
  BY <1>1 DEF Patch
<1>3. PatchBelow(Entry(t, k), Tail(p), v) = below
  BY DEF PatchRecursion
<1> HIDE DEF below
<1>4. PatchMap(t, p, v) = IF Len(p) = 1 THEN IF v = Null THEN t ELSE Put(t, k, v)
                              ELSE IF Failed(below) THEN below ELSE Put(t, k, below)
  BY <1>3 DEF PatchMap
<1> QED
  BY <1>2, <1>4 DEF below

LEMMA PatchedList ==
  ASSUME PatchRecursion, NEW E, NEW p \in Seq(E), p # <<>>, NEW t, IsList(t), NEW v
  PROVE  LET at == SelectInSeq(t.list, LAMBDA i : StopsAt(i, p[1]))
             below == Patch(t.list[at], Tail(p), v)
         IN  IF at = 0 \/ ~ElementFits(t.list[at], p[1]) THEN Patch(t, p, v) = Bad
             ELSE \/ IsList(Patch(t, p, v))
                  \/ Len(p) # 1 /\ Failed(below) /\ Patch(t, p, v) = below
<1> DEFINE at == SelectInSeq(t.list, LAMBDA i : StopsAt(i, p[1]))
           below == Patch(t.list[at], Tail(p), v)
           fits == ElementFits(t.list[at], p[1])
<1>1. ~IsMap(t) /\ t # Null /\ Len(p) \in Nat /\ Len(p) > 0
  BY NodesNotFailed, PathParts
<1>2. Patch(t, p, v) = PatchList(t, p, v)
  BY <1>1 DEF Patch
<1>3. PatchBelow(t.list[at], Tail(p), v) = below
  BY DEF PatchRecursion
<1>4. \A s : IsList(List(s))
  BY DEF IsList, List
<1> DEFINE removed == List(RemoveAt(t.list, at))
           replaced == List(ReplaceAt(t.list, at, v))
           replacedBelow == List(ReplaceAt(t.list, at, below))
<1>5. PatchList(t, p, v) =
        CASE at = 0 -> Bad
          [] at # 0 /\ ~fits -> Bad
          [] at # 0 /\ fits /\ Len(p) > 1 -> IF Failed(below) THEN below ELSE replacedBelow
          [] at # 0 /\ fits /\ Len(p) = 1 /\ v = Null -> removed
          [] OTHER -> replaced
  <2> HIDE DEF below
  <2> QED
    BY <1>3 DEF PatchList
<1>6. IsList(removed) /\ IsList(replaced) /\ IsList(replacedBelow)
  BY <1>4
<1> HIDE DEF at, below, fits, removed, replaced, replacedBelow
<1>7. CASE at = 0
  BY <1>2, <1>5, <1>7 DEF at, below, fits
<1>8. CASE at # 0 /\ ~fits
  <2>1. Patch(t, p, v) = Bad
    BY <1>2, <1>5, <1>8
  <2> QED
    BY <1>8, <2>1 DEF at, below, fits
<1>9. CASE at # 0 /\ fits
  <2>1. Len(p) = 1 => IsList(Patch(t, p, v))
    <3>1. Len(p) = 1 => PatchList(t, p, v) \in {removed, replaced}
      BY <1>5, <1>9
    <3> QED
      BY <1>2, <1>6, <3>1
  <2>2. Len(p) # 1 => Patch(t, p, v) = IF Failed(below) THEN below ELSE replacedBelow
    <3>1. Len(p) # 1 => Len(p) > 1
      BY LongPath
    <3>2. Len(p) # 1 => PatchList(t, p, v) = IF Failed(below) THEN below ELSE replacedBelow
      BY <1>5, <1>9, <3>1
    <3> QED
      BY <1>2, <3>2
  <2> QED
    <3>1. \/ IsList(Patch(t, p, v))
          \/ Len(p) # 1 /\ Failed(below) /\ Patch(t, p, v) = below
      BY <1>6, <2>1, <2>2
    <3> QED
      BY <1>9, <3>1 DEF at, below, fits
<1> QED
  BY <1>7, <1>8, <1>9

\* A patch fails for what is missing in the tree, wherever it is missing.
THEOREM PatchFailure ==
  ASSUME PatchRecursion, LookupRecursion, NEW E, NEW v
  PROVE  \A t : \A p \in Seq(E) : p # <<>> => FailsForReason(t, p, v)
<1> DEFINE A == {n \in Nat : \A t : \A p \in Seq(E) : Len(p) = n /\ p # <<>> => FailsForReason(t, p, v)}
<1>1. 0 \in A
  BY EmptySeq
<1>2. ASSUME NEW n \in Nat, n \in A PROVE n + 1 \in A
  <2>1. SUFFICES ASSUME NEW t, NEW p \in Seq(E), Len(p) = n + 1, p # <<>>
                 PROVE  FailsForReason(t, p, v)
    OBVIOUS
  <2>2. Len(p) # 1 => \A s : FailsForReason(s, Tail(p), v)
    <3>1. Len(p) # 1 => Tail(p) \in Seq(E) /\ Len(Tail(p)) = n /\ Tail(p) # <<>>
      BY <2>1, PathParts
    <3> QED
      BY <1>2, <3>1
  <2> HIDE DEF A
  <2>3. Bad # Panic /\ ~Failed(Null) /\ \A s : Failed(s) <=> s = Bad \/ s = Panic
    BY DEF Bad, Panic, Failed, Null
  <2>4. CASE IsMap(t)
    <3> DEFINE k == NameOf(p[1])
               below == Patch(Entry(t, k), Tail(p), v)
    <3>1. Failed(Patch(t, p, v)) => Len(p) # 1 /\ Patch(t, p, v) = below
      <4>1. ~Failed(t) /\ \A u : ~Failed(Put(t, k, u))
        BY <2>4, Entries, NodesNotFailed
      <4>2. Patch(t, p, v) = IF Len(p) = 1 THEN IF v = Null THEN t ELSE Put(t, k, v)
                              ELSE IF Failed(below) THEN below ELSE Put(t, k, below)
        BY <2>1, <2>4, PatchedMap
      <4> HIDE DEF below, k
      <4> QED
        BY <4>1, <4>2
    <3>2. Lookup(t, p) = Lookup(Entry(t, k), Tail(p))
      BY <2>1, <2>4, LookupInMap
    <3>3. Len(p) # 1 => Lookup(t, Front(p)) = Lookup(Entry(t, k), Front(Tail(p)))
      BY <2>1, <2>4, FrontOfPath, LookupInMap
    <3> HIDE DEF below, k
    <3>4. Failed(Patch(t, p, v)) => (below = Bad => Lookup(Entry(t, k), Tail(p)) = Null)
      BY <2>2, <3>1 DEF FailsForReason, below
    <3>5. Failed(Patch(t, p, v)) => (below = Panic => Lookup(Entry(t, k), Front(Tail(p))) = Null)
      BY <2>2, <3>1 DEF FailsForReason, below
    <3> QED
      BY <2>3, <3>1, <3>2, <3>3, <3>4, <3>5 DEF FailsForReason
  <2>5. CASE IsList(t)
    <3> DEFINE at == SelectInSeq(t.list, LAMBDA i : StopsAt(i, p[1]))
               found == ~(at = 0 \/ ~ElementFits(t.list[at], p[1]))
               below == Patch(t.list[at], Tail(p), v)
    <3>1. /\ ~found => Patch(t, p, v) = Bad
          /\ found => \/ IsList(Patch(t, p, v))
                      \/ Len(p) # 1 /\ Failed(below) /\ Patch(t, p, v) = below
      BY <2>1, <2>5, PatchedList
    <3>2. ~IsMap(t)
      BY <2>5, NodesNotFailed
    <3>3. \A q : q # <<>> /\ q[1] = p[1] =>
            Lookup(t, q) = IF found THEN Lookup(t.list[at], Tail(q)) ELSE Null
      <4>1. ASSUME NEW q, q # <<>>, q[1] = p[1]
            PROVE  Lookup(t, q) = IF found THEN Lookup(t.list[at], Tail(q)) ELSE Null
        <5> DEFINE stop == SelectInSeq(t.list, LAMBDA i : StopsAt(i, q[1]))
        <5>1. stop = at
          <6>1. {i \in 1 .. Len(t.list) : StopsAt(t.list[i], q[1])}
                  = {i \in 1 .. Len(t.list) : StopsAt(t.list[i], p[1])}
            BY <4>1
          <6> QED
            BY <6>1 DEF SelectInSeq
        <5>2. Lookup(t, q) = IF stop = 0 \/ ~ElementFits(t.list[stop], q[1]) THEN Null
                             ELSE LookupBelow(t.list[stop], Tail(q))
          BY <2>5, <3>2, <4>1 DEF Lookup
        <5> HIDE DEF stop, at
        <5> QED
          BY <4>1, <5>1, <5>2 DEF LookupRecursion
      <4> QED
        BY <4>1
    <3> HIDE DEF at
    <3> HIDE DEF found, below
    <3>4. Lookup(t, p) = IF found THEN Lookup(t.list[at], Tail(p)) ELSE Null
      BY <2>1, <3>3
    <3>5. Len(p) # 1 => Lookup(t, Front(p)) = IF found THEN Lookup(t.list[at], Front(Tail(p))) ELSE Null
      BY <2>1, <3>3, FrontOfPath
    <3>6. Patch(t, p, v) = Bad => Lookup(t, p) = Null
      <4>1. Patch(t, p, v) = Bad /\ found => Len(p) # 1 /\ below = Bad
        BY <2>3, <3>1, NodesNotFailed
      <4>2. Len(p) # 1 /\ below = Bad => Lookup(t.list[at], Tail(p)) = Null
        BY <2>2 DEF FailsForReason, below
      <4> QED
        BY <3>4, <4>1, <4>2
    <3>7. Patch(t, p, v) = Panic => Lookup(t, Front(p)) = Null
      <4>1. Patch(t, p, v) = Panic => found /\ Len(p) # 1 /\ below = Panic
        BY <2>3, <3>1, NodesNotFailed
      <4>2. Len(p) # 1 /\ below = Panic => Lookup(t.list[at], Front(Tail(p))) = Null
        BY <2>2 DEF FailsForReason, below
      <4> QED
        BY <3>5, <4>1, <4>2
    <3> QED
      BY <3>6, <3>7 DEF FailsForReason
  <2>6. CASE ~IsMap(t) /\ ~IsList(t)
    <3>1. Lookup(t, p) = Null
      BY <2>1, <2>6 DEF Lookup
    <3>2. Patch(t, p, v) = Panic => t = Null
      BY <2>1, <2>3, <2>6 DEF Patch
    <3>3. Lookup(Null, Front(p)) = Null
      BY NothingBelowNull
    <3> QED
      BY <3>1, <3>2, <3>3 DEF FailsForReason
  <2> QED
    BY <2>4, <2>5, <2>6
<1>3. \A n \in Nat : n \in A
  <2> HIDE DEF A
  <2> QED
    BY <1>1, <1>2, Induction
<1> QED
  <2>1. \A p \in Seq(E) : Len(p) \in Nat
    BY LenProperties
  <2> QED
    BY <1>3, <2>1
-----------------------------------------------------------------------------
(* A tree laid over another one.                                            *)

\* The entries of merged trees; a base that is not a map counts as an empty one.
LEMMA MergedEntries ==
  ASSUME MergeRecursion, NEW a, NEW b, IsMap(b)
  PROVE  /\ IsMap(Merge(a, b))
         /\ \A k : LET in == IF IsMap(a) THEN Entry(a, k) ELSE Null
                   IN  /\ ~Has(b, k) => /\ Has(Merge(a, b), k) <=> IsMap(a) /\ Has(a, k)
                                        /\ Entry(Merge(a, b), k) = in
                       /\ Has(b, k) /\ Entry(b, k) = Null => ~Has(Merge(a, b), k)
                       /\ Has(b, k) /\ Entry(b, k) # Null =>
                            Has(Merge(a, b), k) /\ Entry(Merge(a, b), k) = Merge(in, Entry(b, k))
<1>1. CASE IsMap(a)
  <2> DEFINE deleted == {k \in DOMAIN b.map : b.map[k] = Null}
             m == [k \in (DOMAIN a.map \cup DOMAIN b.map) \ deleted |->
                     IF k \notin DOMAIN b.map THEN a.map[k] ELSE Merge(Entry(a, k), b.map[k])]
  <2>1. Merge(a, b) = Map(m)
    <3> DEFINE raw == [k \in (DOMAIN a.map \cup DOMAIN b.map) \ deleted |->
                         IF k \notin DOMAIN b.map THEN a.map[k] ELSE MergeBelow(Entry(a, k), b.map[k])]
    <3>1. Merge(a, b) = Map(raw)
      BY <1>1 DEF Merge
    <3>2. raw = m
      <4>1. \A x, y : MergeBelow(x, y) = Merge(x, y)
        BY DEF MergeRecursion
      <4> HIDE DEF deleted
      <4> QED
        BY <4>1
    <3> QED
      BY <3>1, <3>2, Zenon
  <2>2. IsMap(Map(m)) /\ Map(m).map = m
    BY DEF Map, IsMap
  <2>3. DOMAIN m = (DOMAIN a.map \cup DOMAIN b.map) \ deleted
    OBVIOUS
  <2>4. \A k \in DOMAIN m : m[k] = IF k \notin DOMAIN b.map THEN a.map[k] ELSE Merge(Entry(a, k), b.map[k])
    OBVIOUS
  <2> HIDE DEF m
  <2>5. IsMap(Merge(a, b)) /\ Merge(a, b).map = m
    BY <2>1, <2>2
  <2> QED
    BY <1>1, <2>3, <2>4, <2>5 DEF Has, Entry
<1>2. CASE ~IsMap(a)
  <2> DEFINE m == [k \in {j \in DOMAIN b.map : b.map[j] # Null} |-> PruneNulls(b.map[k])]
  <2>1. Merge(a, b) = Map(m)
    <3>1. PruneNulls(b) = Map([k \in {j \in DOMAIN b.map : b.map[j] # Null} |-> PruneBelow(b.map[k])])
      BY DEF PruneNulls
    <3>2. PruneNulls(b) = Map(m)
      BY <3>1 DEF MergeRecursion
    <3> QED
      BY <1>2, <3>2 DEF Merge
  <2>2. IsMap(Map(m)) /\ Map(m).map = m
    BY DEF Map, IsMap
  <2>3. /\ DOMAIN m = {j \in DOMAIN b.map : b.map[j] # Null}
        /\ \A k \in DOMAIN m : m[k] = PruneNulls(b.map[k])
    OBVIOUS
  <2> HIDE DEF m
  <2>4. IsMap(Merge(a, b)) /\ Merge(a, b).map = m
    BY <2>1, <2>2
  <2>5. \A t : Merge(Null, t) = PruneNulls(t)
    BY DEF Merge, IsMap, Null
  <2> QED
    BY <1>2, <2>3, <2>4, <2>5 DEF Has, Entry
<1> QED
  BY <1>1, <1>2

LEMMA MergedWithNoMap ==
  ASSUME NEW a, NEW b, ~IsMap(b) PROVE Merge(a, b) = b
BY DEF Merge, PruneNulls

\* What there is at a path that begins with a key, from what there is below it.
LEMMA SaidBelow ==
  ASSUME PresentRecursion, LookupRecursion, NEW t, NEW p, p # <<>>, Len(p) = 1 => Tail(p) = <<>>
  PROVE  LET k == NameOf(p[1])
         IN  /\ Present(t, p) <=> /\ IsMap(t) /\ Has(t, k)
                                  /\ Len(p) = 1 \/ Present(Entry(t, k), Tail(p))
             /\ Said(t, p) = IF IsMap(t) /\ Has(t, k)
                             THEN IF Len(p) = 1 THEN Entry(t, k) ELSE Said(Entry(t, k), Tail(p))
                             ELSE Null
<1> DEFINE k == NameOf(p[1])
<1>1. Present(t, p) <=> IsMap(t) /\ Has(t, k) /\ Present(Entry(t, k), Tail(p))
  BY DEF Present, PresentRecursion
<1>2. Len(p) = 1 => Present(Entry(t, k), Tail(p))
  BY DEF Present
<1>3. Len(p) = 1 => Lookup(Entry(t, k), Tail(p)) = Entry(t, k)
  BY DEF Lookup
<1>4. IsMap(t) => Lookup(t, p) = Lookup(Entry(t, k), Tail(p))
  BY LookupInMap
<1> QED
  BY <1>1, <1>2, <1>3, <1>4 DEF Said

LEMMA TouchesCases ==
  ASSUME TouchesRecursion, NEW t, NEW p
  PROVE  Touches(t, p) <=>
           /\ IsMap(t) /\ Has(t, NameOf(p[1]))
           /\ Len(p) = 1 \/ ~IsMap(Entry(t, NameOf(p[1]))) \/ Touches(Entry(t, NameOf(p[1])), Tail(p))
BY DEF Touches, TouchesRecursion

\* At a path the tree that is laid over another one decides if it says something.
Decides(m, a, b, p) ==
  /\ Touches(b, p) =>
       /\ IF IsMap(Said(b, p)) THEN IsMap(Said(m, p)) ELSE Said(m, p) = Said(b, p)
       /\ Said(b, p) = Null => ~Present(m, p)
  /\ ~Touches(b, p) => Said(m, p) = Said(a, p) /\ (Present(m, p) <=> Present(a, p))

THEOREM OverlayDecides ==
  ASSUME MergeRecursion, PresentRecursion, LookupRecursion, TouchesRecursion, NEW E
  PROVE  \A a, b : \A p \in Seq(E) : IsMap(b) /\ p # <<>> => Decides(Merge(a, b), a, b, p)
<1> DEFINE A == {n \in Nat : \A a, b : \A p \in Seq(E) :
                   Len(p) = n /\ IsMap(b) /\ p # <<>> => Decides(Merge(a, b), a, b, p)}
<1>1. 0 \in A
  BY EmptySeq, LenProperties
<1>2. ASSUME NEW n \in Nat, n \in A PROVE n + 1 \in A
  <2> SUFFICES ASSUME NEW a, NEW b, NEW p \in Seq(E), Len(p) = n + 1, IsMap(b), p # <<>>
               PROVE  Decides(Merge(a, b), a, b, p)
    BY <1>2
  <2> DEFINE k == NameOf(p[1])
             q == Tail(p)
             m == Merge(a, b)
             in == IF IsMap(a) THEN Entry(a, k) ELSE Null
             child == Entry(b, k)
  <2>1. /\ q \in Seq(E) /\ Len(q) = n
        /\ Len(p) = 1 => q = <<>>
        /\ Len(p) # 1 => q # <<>>
    BY PathParts, LongPath
  <2>2. /\ IsMap(m)
        /\ ~Has(b, k) => (Has(m, k) <=> IsMap(a) /\ Has(a, k)) /\ Entry(m, k) = in
        /\ Has(b, k) /\ child = Null => ~Has(m, k)
        /\ Has(b, k) /\ child # Null => Has(m, k) /\ Entry(m, k) = Merge(in, child)
    BY MergedEntries
  <2> HIDE DEF m, q, k
  <2>3. \A t : /\ Present(t, p) <=> /\ IsMap(t) /\ Has(t, k)
                                    /\ Len(p) = 1 \/ Present(Entry(t, k), q)
               /\ Said(t, p) = IF IsMap(t) /\ Has(t, k)
                               THEN IF Len(p) = 1 THEN Entry(t, k) ELSE Said(Entry(t, k), q)
                               ELSE Null
    BY <2>1, SaidBelow DEF q, k
  <2>4. Touches(b, p) <=> Has(b, k) /\ (Len(p) = 1 \/ ~IsMap(child) \/ Touches(child, q))
    BY TouchesCases DEF q, k
  <2>5. CASE ~Has(b, k)
    <3>1. ~Touches(b, p) /\ (Has(m, k) <=> IsMap(a) /\ Has(a, k)) /\ (IsMap(a) => Entry(m, k) = Entry(a, k))
      BY <2>2, <2>4, <2>5
    <3>2. Present(m, p) <=> Present(a, p)
      BY <2>2, <2>3, <3>1
    <3>3. Said(m, p) = Said(a, p)
      BY <2>2, <2>3, <3>1
    <3> QED
      BY <3>1, <3>2, <3>3 DEF Decides, m
  <2>6. CASE Has(b, k) /\ ~IsMap(child)
    <3>1. child # Null => Entry(m, k) = child
      BY <2>2, <2>6, MergedWithNoMap
    <3>2. q # <<>> => ~Present(child, q) /\ Said(child, q) = Null
      BY <2>6 DEF Present, Said
    <3>3. Touches(b, p)
      BY <2>4, <2>6
    <3>4. Said(b, p) = IF Len(p) = 1 THEN child ELSE Null
      BY <2>1, <2>3, <2>6, <3>2
    <3>5. Said(m, p) = Said(b, p)
      BY <2>1, <2>2, <2>3, <2>6, <3>1, <3>2, <3>4
    <3>6. Said(b, p) = Null => ~Present(m, p)
      BY <2>1, <2>2, <2>3, <2>6, <3>1, <3>2, <3>4
    <3>7. ~IsMap(Said(b, p))
      <4>1. ~IsMap(Null)
        BY DEF Null, IsMap
      <4> QED
        BY <2>6, <3>4, <4>1
    <3> QED
      BY <3>3, <3>5, <3>6, <3>7 DEF Decides, m
  <2>7. CASE Has(b, k) /\ IsMap(child)
    <3>1. child # Null /\ Has(m, k) /\ Entry(m, k) = Merge(in, child)
      BY <2>2, <2>7, NodesNotFailed
    <3>2. IsMap(Merge(in, child))
      BY <2>7, MergedEntries
    <3>3. CASE Len(p) = 1
      <4>1. Touches(b, p) /\ Said(b, p) = child /\ Said(m, p) = Merge(in, child)
        BY <2>2, <2>3, <2>4, <2>7, <3>1, <3>3
      <4>2. Said(b, p) # Null
        BY <3>1, <4>1
      <4> HIDE DEF in, child
      <4> QED
        BY <2>7, <3>1, <3>2, <4>1, <4>2 DEF Decides, m
    <3>4. CASE Len(p) # 1
      <4>1. Decides(Merge(in, child), in, child, q)
        BY <1>2, <2>1, <2>7, <3>4
      <4>2. in # Null => IsMap(a) /\ Has(a, k) /\ in = Entry(a, k)
        BY DEF Entry
      <4>3. ~Present(Null, q) /\ Said(Null, q) = Null
        BY <2>1, <3>4 DEF Present, Said, IsMap, Null
      <4>4. Said(a, p) = Said(in, q) /\ (Present(a, p) <=> Present(in, q))
        <5>1. CASE IsMap(a) /\ Has(a, k)
          BY <2>3, <3>4, <5>1
        <5>2. CASE ~(IsMap(a) /\ Has(a, k))
          BY <2>3, <4>2, <4>3, <5>2
        <5> QED
          BY <5>1, <5>2
      <4>5. /\ Said(b, p) = Said(child, q) /\ Said(m, p) = Said(Merge(in, child), q)
            /\ Present(m, p) <=> Present(Merge(in, child), q)
            /\ Touches(b, p) <=> Touches(child, q)
        BY <2>2, <2>3, <2>4, <2>7, <3>1, <3>4
      <4> HIDE DEF in, child
      <4> QED
        BY <4>1, <4>4, <4>5 DEF Decides, m
    <3> QED
      BY <3>3, <3>4
  <2> QED
    BY <2>5, <2>6, <2>7 DEF m
<1> HIDE DEF A
<1>3. \A n \in Nat : n \in A
  BY <1>1, <1>2, Induction
<1> QED
  BY <1>3, LenProperties DEF A

\* Who has something at a path says something of it.
LEMMA PresentTouches ==
  ASSUME PresentRecursion, LookupRecursion, TouchesRecursion, NEW E
  PROVE  \A t : \A p \in Seq(E) : p # <<>> /\ Present(t, p) => Touches(t, p)
<1> DEFINE A == {n \in Nat : \A t : \A p \in Seq(E) :
                   Len(p) = n /\ p # <<>> /\ Present(t, p) => Touches(t, p)}
<1>1. 0 \in A
  BY EmptySeq, LenProperties
<1>2. ASSUME NEW n \in Nat, n \in A PROVE n + 1 \in A
  <2> SUFFICES ASSUME NEW t, NEW p \in Seq(E), Len(p) = n + 1, p # <<>>, Present(t, p)
               PROVE  Touches(t, p)
    BY <1>2
  <2>1. /\ Tail(p) \in Seq(E) /\ Len(Tail(p)) = n
        /\ Len(p) = 1 => Tail(p) = <<>>
        /\ Len(p) # 1 => Tail(p) # <<>>
    BY PathParts, LongPath
  <2>2. /\ IsMap(t) /\ Has(t, NameOf(p[1]))
        /\ Len(p) = 1 \/ Present(Entry(t, NameOf(p[1])), Tail(p))
    BY <2>1, SaidBelow
  <2> QED
    BY <1>2, <2>1, <2>2, TouchesCases
<1> HIDE DEF A
<1>3. \A n \in Nat : n \in A
  BY <1>1, <1>2, Induction
<1> QED
  BY <1>3, LenProperties DEF A

\* The same of the two texts that OverlayYAML merges, of which the second may be empty.
LEMMA OverlaidTexts ==
  ASSUME MergeRecursion, PresentRecursion, LookupRecursion, TouchesRecursion, NEW E,
         NEW a, NEW b, OverlayYAML(a, b) # Bad
  PROVE  IsMap(a) /\ \A p \in Seq(E) : p # <<>> => Decides(OverlayYAML(a, b), a, b, p)
<1> DEFINE over == IF b = Null THEN EmptyMap ELSE b
<1>1. IsMap(a) /\ IsMap(over) /\ OverlayYAML(a, b) = Merge(a, over)
  BY DEF OverlayYAML
<1>2. \A p \in Seq(E) : p # <<>> => Decides(Merge(a, over), a, over, p)
  <2> HIDE DEF over
  <2> QED
    BY <1>1, OverlayDecides
<1>3. CASE b = Null
  <2>1. \A p : ~Touches(over, p) /\ ~Touches(b, p)
    BY <1>3, NoEntries DEF Touches, Null, IsMap
  <2> QED
    BY <1>1, <1>2, <2>1 DEF Decides
<1>4. CASE b # Null
  BY <1>1, <1>2, <1>4
<1> QED
  BY <1>1, <1>3, <1>4

\* A path to a node is not empty.
LEMMA NodePaths ==
  ASSUME NodesRecursion, NEW t, NEW p \in Nodes(t)
  PROVE  IsSeq(p) /\ p # <<>>
<1>1. IsSeq(p)
  BY DEF NodesRecursion
<1>2. IsMap(t) /\ \E k \in DOMAIN t.map :
        p = <<Key(k)>> \/ \E q \in Nodes(t.map[k]) : p = <<Key(k)>> \o q
  BY DEF Nodes, NodesRecursion
<1>3. PICK k \in DOMAIN t.map : p = <<Key(k)>> \/ \E q \in Nodes(t.map[k]) : p = <<Key(k)>> \o q
  BY <1>2
<1>4. CASE p = <<Key(k)>>
  BY <1>1, <1>4
<1>5. ASSUME NEW q \in Nodes(t.map[k]), p = <<Key(k)>> \o q PROVE p # <<>>
  <2> DEFINE S == {q[i] : i \in DOMAIN q} \cup {Key(k)}
  <2>1. q \in Seq(S)
    <3>1. IsSeq(q)
      BY DEF NodesRecursion
    <3> QED
      BY <3>1, SeqMonotonic DEF IsSeq
  <2>2. <<Key(k)>> \in Seq(S) /\ Len(<<Key(k)>>) = 1
    OBVIOUS
  <2> HIDE DEF S
  <2>3. Len(p) = 1 + Len(q) /\ Len(q) \in Nat
    BY <1>5, <2>1, <2>2, ConcatProperties, LenProperties
  <2> QED
    BY <2>3
<1> QED
  BY <1>1, <1>3, <1>4, <1>5
=============================================================================
