-------------------------------- MODULE Tree --------------------------------
(***************************************************************************)
(* YAML trees, and the operations of the program that read and write them  *)
(* by path: setTree (pkg/translate/tree.go), getNode and writeNode         *)
(* (pkg/patch/patch.go with pkg/util/reflect.go) and OverlayYAML           *)
(* (pkg/helm/helm.go).  The code edits trees in place; here an operation   *)
(* returns the edited tree, or Bad for an error, or Panic where the code   *)
(* panics.                                                                 *)
(*                                                                         *)
(* Lists whose items are lists are left out: no manifest and no mapping    *)
(* has one.                                                                *)
(***************************************************************************)
EXTENDS Naturals, SequencesExt, Node

CONSTANT RegexMatches  \* the pairs <<pattern, text>> that match, other than a text itself

\* Each of these is the operation of its name itself, for what is below a node:
\* SetBelow(t, path, value) is setTree(t, path, value), and so on.
\* Each of these operations is a LET: TLC -coverage unfolds such a constant without
\* end when its operator is anything else.
CONSTANTS
  SetBelow(_, _, _), PatchBelow(_, _, _), LookupBelow(_, _), LeavesBelow(_),
  PresentBelow(_, _), PruneBelow(_), MergeBelow(_, _), FitsBelow(_, _), NodesBelow(_), TouchesBelow(_, _)
-----------------------------------------------------------------------------
(* Path elements (pkg/util/path.go).                                        *)

IsKVPathElement(pe) == /\ pe.brackets
                       /\ Len(pe.parts) = 2
                       /\ pe.parts[1] # "" /\ pe.parts[2] # ""
IsVPathElement(pe) == pe.brackets /\ pe.parts # <<"">>

\* A map is read with the text of the element, brackets and all: an element in
\* brackets never names a key of a manifest.
NameOf(pe) == IF pe.brackets THEN "[]" ELSE pe.parts[1]

\* The regular expression is all the text within the brackets.
MatchesRegex(pe, text) == pe.parts = <<text>> \/ <<pe.parts, text>> \in RegexMatches
\* A finite sequence, of whatever.
IsSeq(s) == s \in Seq({s[i] : i \in DOMAIN s})
-----------------------------------------------------------------------------
(* setTree: set a value, creating the nodes on the way to it.               *)

AppendAlways(t, path, value) ==
  LET nn == Put(EmptyMap, path[1].parts[1], Leaf(path[1].parts[2]))
      new == IF Len(path) = 1 THEN nn ELSE SetBelow(nn, Tail(path), value)
  IN  IF Failed(new) THEN new ELSE List(Append(t.list, new))

\* Items are compared to the value of the element as strings: the first item
\* that is not a map ends the search with an error, and one whose entry is a
\* number is never the one.
SetInList(t, path, value) ==
  IF ~IsKVPathElement(path[1]) THEN Bad ELSE
  LET k == path[1].parts[1]
      v == path[1].parts[2]
      at == SelectInSeq(t.list, LAMBDA i : ~IsMap(i) \/ Entry(i, k) = Leaf(v))
      \* getTreeRootKV: the value has a single root, which becomes an entry of the item.
      merged == IF ~IsMap(value) \/ value = EmptyMap THEN Bad
                ELSE LET root == CHOOSE r \in DOMAIN value.map : TRUE
                     IN  Put(t.list[at], root, value.map[root])
      new == CASE at = 0 -> LET nn == Put(EmptyMap, k, Leaf(v))
                            IN  IF Len(path) = 1 THEN nn ELSE SetBelow(nn, Tail(path), value)
               [] at # 0 /\ ~IsMap(t.list[at]) -> Bad
               [] OTHER -> IF Len(path) = 1 THEN merged
                           ELSE SetBelow(t.list[at], Tail(path), value)
  IN  CASE Failed(new) -> new
        [] ~Failed(new) /\ at = 0 -> List(Append(t.list, new))
        [] OTHER -> List(ReplaceAt(t.list, at, new))

DropSiblings(t, path, value) ==
  LET k == NameOf(path[1])
      new == IF Len(path) = 1 THEN value ELSE SetBelow(EmptyMap, Tail(path), value)
  IN  IF Failed(new) THEN new ELSE Put(t, k, new)

SetInMap(t, path, value) ==
  LET k == NameOf(path[1])
      child == IF Entry(t, k) = Null THEN EmptyMap ELSE Entry(t, k)
      new == IF Len(path) = 1 THEN value ELSE SetBelow(child, Tail(path), value)
  IN  IF Failed(new) THEN new ELSE Put(t, k, new)

\* A scalar with one element left gives way to the value, whatever the element.
setTree(t, path, value) ==
  LET scalar == IF Len(path) = 1 THEN value ELSE Bad
  IN  CASE path = <<>> -> Bad
        [] path # <<>> /\ IsList(t) -> SetInList(t, path, value)
        [] path # <<>> /\ IsMap(t)  -> SetInMap(t, path, value)
        [] OTHER -> scalar
-----------------------------------------------------------------------------
(* getNode and writeNode: replace or delete a node that is there.           *)

ElementFits(item, pe) == IF IsMap(item) THEN IsKVPathElement(pe) ELSE IsVPathElement(pe)

\* Where the loop over a list stops: the first item that is selected, or that
\* the element does not fit.
StopsAt(item, pe) ==
  IF IsMap(item)
    THEN ~IsKVPathElement(pe) \/ Printed(Entry(item, pe.parts[1])) = pe.parts[2]
    ELSE ~IsVPathElement(pe) \/ MatchesRegex(pe, Printed(item))

PatchNext(t, path, value) ==
  LET pe == path[1]
      at == SelectInSeq(t.list, LAMBDA i : StopsAt(i, pe))
      next == IF at = Len(t.list) THEN at ELSE at + 1
  IN  CASE at = 0 -> Bad
        [] at # 0 /\ Len(path) > 1 ->
             LET new == PatchBelow(t.list[at], Tail(path), value)
             IN  IF Failed(new) THEN new ELSE List(ReplaceAt(t.list, at, new))
        [] at # 0 /\ Len(path) = 1 /\ value = Null -> List(RemoveAt(t.list, next))
        [] OTHER -> List(ReplaceAt(t.list, at, value))

PatchList(t, path, value) ==
  LET pe == path[1]
      at == SelectInSeq(t.list, LAMBDA i : StopsAt(i, pe))
      fits == ElementFits(t.list[at], pe)
  IN  CASE at = 0 -> Bad
        [] at # 0 /\ ~fits -> Bad
        [] at # 0 /\ fits /\ Len(path) > 1 ->
             LET new == PatchBelow(t.list[at], Tail(path), value)
             IN  IF Failed(new) THEN new ELSE List(ReplaceAt(t.list, at, new))
        [] at # 0 /\ fits /\ Len(path) = 1 /\ value = Null -> List(RemoveAt(t.list, at))
        [] OTHER -> List(ReplaceAt(t.list, at, value))

PatchMapUnchecked(t, path, value) ==
  LET k == NameOf(path[1])
  IN  CASE Len(path) = 1 /\ value = Null -> t
        [] Len(path) = 1 /\ value # Null -> Put(t, k, value)
        [] OTHER -> Put(t, k, PatchBelow(Entry(t, k), Tail(path), value))

PanicOnNewKey(t, path, value) ==
  LET k == NameOf(path[1])
      new == PatchBelow(Entry(t, k), Tail(path), value)
  IN  CASE Len(path) = 1 /\ value = Null -> t
        [] Len(path) = 1 /\ value # Null -> IF Has(t, k) THEN Put(t, k, value) ELSE Panic
        [] OTHER -> IF Failed(new) THEN new ELSE Put(t, k, new)

\* An entry of a map is replaced or added, and never deleted: the switch of
\* writeNode has no case for it.
PatchMap(t, path, value) ==
  LET k == NameOf(path[1])
      new == PatchBelow(Entry(t, k), Tail(path), value)
  IN  CASE Len(path) = 1 /\ value = Null -> t
        [] Len(path) = 1 /\ value # Null -> Put(t, k, value)
        [] OTHER -> IF Failed(new) THEN new ELSE Put(t, k, new)

\* A value that is written stays what the JSON package made of it: where getNode
\* looks for a map it takes one inside such a value for a leaf.
Inserted(value) ==
  LET AsLeaf(t) == IF IsMap(t) THEN Opaque(t) ELSE t
  IN  IF IsList(value) THEN List([i \in DOMAIN value.list |-> AsLeaf(value.list[i])])
      ELSE AsLeaf(value)

\* The root has no parent to write to, a missing node no type to look at.
Patch(t, path, value) ==
  LET root == IF value = Null THEN t ELSE Panic
  IN  CASE path = <<>> -> root
        [] path # <<>> /\ t = Null  -> Panic
        [] path # <<>> /\ IsList(t) -> PatchList(t, path, value)
        [] path # <<>> /\ IsMap(t)  -> PatchMap(t, path, value)
        [] OTHER -> Bad

\* What trees are checked with: the node that a path names, or Null.
Lookup(t, path) ==
  LET at == SelectInSeq(t.list, LAMBDA i : StopsAt(i, path[1]))
  IN  CASE path = <<>> -> t
        [] path # <<>> /\ IsMap(t) -> LookupBelow(Entry(t, NameOf(path[1])), Tail(path))
        [] path # <<>> /\ IsList(t) ->
             IF at = 0 \/ ~ElementFits(t.list[at], path[1]) THEN Null
             ELSE LookupBelow(t.list[at], Tail(path))
        [] OTHER -> Null

\* The leaves of a tree with their paths.  An item of a list has the element
\* that selects it: by its name or its only entry, or by its text.
Selector(item) ==
  IF ~IsMap(item) THEN Value(Printed(item))
  ELSE LET k == IF Has(item, "name") THEN "name" ELSE CHOOSE e \in DOMAIN item.map : TRUE
       IN  Item(k, Printed(Entry(item, k)))
Leaves(t) ==
  LET Below(pe, child) == {<<<<pe>> \o l[1], l[2]>> : l \in LeavesBelow(child)}
  IN  CASE IsMap(t) -> UNION {Below(Key(k), t.map[k]) : k \in DOMAIN t.map}
        [] IsList(t) -> UNION {Below(Selector(t.list[i]), t.list[i]) : i \in DOMAIN t.list}
        [] OTHER -> {<<(<<>>), t>>}

LeafPaths(t) == {l[1] : l \in Leaves(t)}

Present(t, path) ==
  LET k == NameOf(path[1])
  IN  path = <<>> \/ (IsMap(t) /\ Has(t, k) /\ PresentBelow(Entry(t, k), Tail(path)))

\* What setTree finds on its way through a tree when nothing is in its way: maps,
\* or nothing at all, and a list of maps with names, the one with the name that the
\* path gives among them or not.  A name is a text.
Fits(t, path) ==
  LET pe == path[1]
      onlyKeys == \A i \in 2..Len(path) : ~path[i].brackets
  IN  \/ /\ IsMap(t) /\ ~pe.brackets
         /\ Len(path) > 1 =>
              IF Has(t, NameOf(pe)) THEN FitsBelow(Entry(t, NameOf(pe)), Tail(path)) ELSE onlyKeys
      \/ /\ IsList(t) /\ t.list \in Seq(Range(t.list))
         /\ IsKVPathElement(pe) /\ pe.parts[1] = "name"
         /\ Len(path) > 1 /\ onlyKeys /\ NameOf(path[2]) # "name"
         /\ \A i \in DOMAIN t.list :
              LET item == t.list[i]
              IN  /\ IsMap(item)
                  /\ Printed(Entry(item, "name")) = pe.parts[2] =>
                       Entry(item, "name") = Leaf(pe.parts[2]) /\ FitsBelow(item, Tail(path))

\* The paths to the nodes of a tree that keys lead to.
Nodes(t) ==
  LET Below(k) == {<<Key(k)>>} \cup {<<Key(k)>> \o p : p \in NodesBelow(t.map[k])}
  IN  IF IsMap(t) THEN UNION {Below(k) : k \in DOMAIN t.map} ELSE {}

\* What a tree has at such a path, and whether it says something of it: it has a
\* node there, or something other than a map on the way.
Said(t, path) == IF Present(t, path) THEN Lookup(t, path) ELSE Null
Touches(t, path) ==
  LET k == NameOf(path[1])
      child == Entry(t, k)
  IN  /\ IsMap(t) /\ Has(t, k)
      /\ Len(path) = 1 \/ ~IsMap(child) \/ TouchesBelow(child, Tail(path))
-----------------------------------------------------------------------------
(* OverlayYAML: the JSON merge patch of the library that helm.go calls.     *)

PruneNulls(t) ==
  LET kept == {k \in DOMAIN t.map : t.map[k] # Null}
  IN  IF ~IsMap(t) THEN t ELSE Map([k \in kept |-> PruneBelow(t.map[k])])

\* A null deletes, two maps are merged, anything else is replaced.
Merge(base, overlay) ==
  LET deleted == {k \in DOMAIN overlay.map : overlay.map[k] = Null}
  IN  IF ~(IsMap(base) /\ IsMap(overlay)) THEN PruneNulls(overlay)
      ELSE Map([k \in (DOMAIN base.map \cup DOMAIN overlay.map) \ deleted |->
                  IF k \notin DOMAIN overlay.map THEN base.map[k]
                  ELSE MergeBelow(Entry(base, k), overlay.map[k])])

OverlayReversed(base, overlay) ==
  LET overlaid == IF overlay = Null THEN EmptyMap ELSE overlay
  IN  IF IsMap(base) /\ IsMap(overlaid) THEN Merge(overlaid, base) ELSE Bad

\* Each document is a map; the empty text is null as a base, which is an error,
\* and the empty map as an overlay.
OverlayYAML(base, overlay) ==
  LET overlaid == IF overlay = Null THEN EmptyMap ELSE overlay
  IN  IF IsMap(base) /\ IsMap(overlaid) THEN Merge(base, overlaid) ELSE Bad
=============================================================================
