----------------------------- MODULE SpecStruct -----------------------------
(***************************************************************************)
(* IstioControlPlaneSpec as the program sees it through reflection: a tree *)
(* of Go structs, with nil pointers, maps and slices.  The walks over it:  *)
(* GetFromStructPath and SetFromPath (pkg/name/name.go) with what they     *)
(* decide about a component, protoToValues and the mapping of paths        *)
(* (pkg/translate/translate.go), and validate (pkg/validate).              *)
(*                                                                         *)
(* The values of maps and the scalars are trees.  Debug output and the     *)
(* texts of errors are left out.                                           *)
(***************************************************************************)
EXTENDS Tree

CONSTANTS
  APIMapping,  \* path in the spec -> path in the values, both as sequences of names
  Lowered,     \* name -> the name with its first character in lower case
  ValidTexts   \* path of a validated field -> the texts its validator accepts

ASSUME MappingAssumption ==
  \A p \in DOMAIN APIMapping : p # <<>> /\ APIMapping[p] # <<>>
-----------------------------------------------------------------------------
(* GetFromStructPath and SetFromPath.                                       *)

\* Nothing but structs can be walked; what is nil is not found.
RECURSIVE GetFromStructPath(_, _)
GetFromStructPath(node, path) ==
  CASE path = <<>> -> IF node = Null THEN NotFound ELSE Found(node)
    [] path # <<>> /\ node = Null -> NotFound
    [] path # <<>> /\ node # Null /\ IsStruct(node) ->
         IF path[1] \in DOMAIN node.struct
           THEN GetFromStructPath(node.struct[path[1]], Tail(path)) ELSE NotFound
    [] OTHER -> Bad

\* SetFromPath into a variable for a "map" or a "slice": a value of another kind
\* is an error.
SetFromPath(node, path, kind, default) ==
  LET got == GetFromStructPath(node, path)
  IN  CASE got = Bad -> Bad
        [] got = NotFound -> default
        [] OTHER -> IF kind \in DOMAIN got.value THEN got.value ELSE Bad
-----------------------------------------------------------------------------
(* IsComponentEnabled and Namespace.                                        *)

\* The feature decides unless the component's own switch is there.
IsComponentEnabled(spec, feature, component) ==
  LET ofFeature == GetFromStructPath(spec, <<feature, "Enabled">>)
      ofComponent == GetFromStructPath(spec, CommonPath(feature, component) \o <<"Enabled">>)
  IN  /\ ofFeature \notin {Bad, NotFound}
      /\ ofFeature.value = BoolValue(True)
      /\ ofComponent \notin {Bad, NotFound} => ofComponent.value = BoolValue(True)

\* The dot that the path of the feature's namespace lacks makes it the path of
\* a field that no spec has.
Namespace(spec, feature, component) ==
  LET default == GetFromStructPath(spec, <<"DefaultNamespacePrefix">>)
      ofFeature == GetFromStructPath(spec, <<feature \o "Components", "Namespace">>)
      ofComponent == GetFromStructPath(spec, CommonPath(feature, component) \o <<"Namespace">>)
      Given(got) == got \notin {Bad, NotFound} /\ got.value # Leaf("")
  IN  CASE ~default.found -> Leaf("")
        [] default.found /\ ofFeature # Bad /\ Given(ofComponent) -> ofComponent.value
        [] OTHER -> IF Given(ofFeature) THEN ofFeature.value ELSE default.value
-----------------------------------------------------------------------------
(* protoToValues.                                                           *)

\* The leaves: the entries of maps, and the fields that are neither structs
\* nor slices; the elements of a slice have the path of the slice.  Of several
\* leaves with one path, which no mapping has, any one counts.
RECURSIVE LeavesOf(_, _)
LeavesOf(v, path) ==
  CASE v = Null -> {}
    [] v # Null /\ IsStruct(v) ->
         UNION {LeavesOf(v.struct[f], Append(path, f)) : f \in DOMAIN v.struct}
    [] v # Null /\ IsSlice(v) -> UNION {LeavesOf(v.slice[i], path) : i \in DOMAIN v.slice}
    [] v # Null /\ IsMap(v) -> {<<Append(path, k), v.map[k]>> : k \in DOMAIN v.map}
    [] OTHER -> {<<path, v>>}

\* The longest prefix of the path that has a mapping, or the empty path.
MappedPrefix(path) ==
  LET mapped == {n \in DOMAIN path : SubSeq(path, 1, n) \in DOMAIN APIMapping}
  IN  IF mapped = {} THEN <<>> ELSE SubSeq(path, 1, Max(mapped))

MappedWithoutRest(path) ==
  LET names == APIMapping[MappedPrefix(path)]
  IN  PathFromString(Keys([i \in DOMAIN names |-> Lowered[names[i]]]))

\* The mapped path with the rest of the path below it, each name with its first
\* character in lower case.
getValuesPathMapping(path) ==
  LET prefix == MappedPrefix(path)
      rest == SubSeq(path, Len(prefix) + 1, Len(path))
      names == APIMapping[prefix] \o rest
  IN  PathFromString(Keys([i \in DOMAIN names |-> Lowered[names[i]]]))

\* insertLeaf with defaultTranslationFunc: empty strings are not given.
InsertLeaf(root, leaf) ==
  IF MappedPrefix(leaf[1]) = <<>> \/ leaf[2] = Leaf("") THEN root
  ELSE setTree(root, getValuesPathMapping(leaf[1]), leaf[2])

\* Errors are collected, and any of them makes the translation fail.
ProtoToValues(spec) ==
  FoldSet(LAMBDA leaf, root : IF root = Bad THEN Bad ELSE InsertLeaf(root, leaf),
          EmptyMap, LeavesOf(spec, <<>>))
-----------------------------------------------------------------------------
(* validate: fields with a validator have a text that it accepts.           *)

\* The elements of a slice have the path of the struct that holds it, and must
\* be pointers; empty strings and nil are always valid.
RECURSIVE Validate(_, _)
Validate(v, path) ==
  \A f \in DOMAIN v.struct :
    LET field == v.struct[f]
        newPath == Append(path, f)
    IN  CASE field = Null -> TRUE
          [] field # Null /\ IsStruct(field) -> Validate(field, newPath)
          [] field # Null /\ IsSlice(field) ->
               \A i \in DOMAIN field.slice :
                 IsStruct(field.slice[i]) /\ Validate(field.slice[i], path)
          [] field # Null /\ IsMap(field) -> TRUE
          [] OTHER -> newPath \in DOMAIN ValidTexts /\ field # Leaf("") =>
                        /\ field = Leaf(Printed(field))
                        /\ Printed(field) \in ValidTexts[newPath]
=============================================================================
