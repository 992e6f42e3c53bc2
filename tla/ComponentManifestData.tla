----------------------- MODULE ComponentManifestData ------------------------
(***************************************************************************)
(* What ComponentManifest works on: the spec as a struct, values and       *)
(* objects as trees.  The operators that are constants of                  *)
(* ComponentManifest are those of SpecStruct and Tree, and the two below;  *)
(* the properties here are about what is in the values and the objects.    *)
(***************************************************************************)
EXTENDS ComponentManifest, SpecStruct

\* genManifests validates a spec before it is rendered.
ASSUME SpecsAssumption == \A s \in Specs : Validate(s, <<>>)

\* What YAML makes of the value of a field.
RECURSIVE Marshalled(_)
Marshalled(v) ==
  CASE v # Null /\ IsStruct(v) -> Map([f \in DOMAIN v.struct |-> Marshalled(v.struct[f])])
    [] v # Null /\ IsSlice(v) -> List([i \in DOMAIN v.slice |-> Marshalled(v.slice[i])])
    [] OTHER -> v

-----------------------------------------------------------------------------
RECURSIVE IsTree(_)
IsTree(t) == \/ IsScalar(t) \/ t = Null
             \/ "opaque" \in DOMAIN t /\ IsTree(t.opaque)
             \/ IsMap(t) /\ \A k \in DOMAIN t.map : IsTree(t.map[k])
             \/ IsList(t) /\ \A i \in DOMAIN t.list : IsTree(t.list[i]) /\ ~IsList(t.list[i])

Objects(seq) == \A i \in DOMAIN seq : IsMap(seq[i]) /\ IsTree(seq[i])

\* Every variable is of its kind, trees are trees without an error in them, and
\* an object keeps the kind, namespace and name that it was rendered with, also when
\* it is patched.
TypeOK ==
  /\ spec \in Specs
  /\ step \in {"start", "disabled", "error", "enablement", "chart", "settings", "patch",
               "rest", "done", "panic"}
  /\ IsMap(root) /\ IsTree(root)
  /\ \A i \in DOMAIN layers : IsMap(layers[i]) /\ IsTree(layers[i])
  /\ values = Bad => step = "error"
  /\ Objects(rendered) /\ Objects(objects) /\ Objects(manifest)
  /\ [i \in DOMAIN objects |-> Hash(objects[i])] = [i \in DOMAIN rendered |-> Hash(rendered[i])]
  /\ PatchesGiven /\ PatchesSpareNames /\ PatchesKeepNames /\ SettingsFit

Translated == \/ step = "enablement" /\ todo = {}
              \/ step \in {"chart", "settings", "patch", "rest", "done", "panic"}

\* Of a spec the charts are told what the mapping has for it: each leaf that
\* has a mapped prefix is, unless it is empty, where the longest of them sends
\* it, and beside these leaves there are only the enablement and the namespace
\* of the components in the table, each the one the spec gives to some component
\* that writes there.
MappedLeavesWritten ==
  LET MappedPrefixes(path) == {m \in DOMAIN APIMapping : IsPrefix(m, path)}
      Longest(path) == CHOOSE m \in MappedPrefixes(path) :
                         \A n \in MappedPrefixes(path) : Len(n) <= Len(m)
      Out(path) == [i \in 1..(Len(APIMapping[Longest(path)]) + Len(path) - Len(Longest(path))) |->
                      LET m == APIMapping[Longest(path)]
                      IN  Key(Lowered[IF i <= Len(m) THEN m[i]
                                      ELSE path[Len(Longest(path)) + i - Len(m)]])]
      mapped == {l \in LeavesOf(spec, <<>>) : MappedPrefixes(l[1]) # {} /\ l[2] # Leaf("")}
      table == FeatureComponentToValues
  IN  Translated =>
        /\ \A l \in mapped : Lookup(root, Out(l[1])) = l[2]
        /\ \A p \in DOMAIN table :
             /\ table[p].enabled # <<>> =>
                  (Lookup(root, Keys(table[p].enabled)) = True
                     <=> IsComponentEnabled(spec, p[1], p[2]))
             /\ table[p].namespace # <<>> =>
                  \E q \in DOMAIN table :
                    /\ table[q].namespace = table[p].namespace
                    /\ Lookup(root, Keys(table[p].namespace)) = Namespace(spec, q[1], q[2])
        /\ LeafPaths(root) \subseteq
             {Out(l[1]) : l \in mapped}
               \cup {Keys(table[p].enabled) : p \in DOMAIN table}
               \cup {Keys(table[p].namespace) : p \in DOMAIN table}

\* The leaf is named by the path of a patch, or is below what it names.
Covers(path, leafPath) ==
  /\ Len(path) <= Len(leafPath)
  /\ \A i \in DOMAIN path :
       \/ path[i] = leafPath[i]
       \/ /\ IsVPathElement(path[i]) /\ IsVPathElement(leafPath[i])
          /\ <<path[i].parts, leafPath[i].parts[1]>> \in RegexMatches

\* The last element of the path is not the entry that selects the item it is in.
StillNames(path) ==
  LET n == Len(path)
  IN  ~(n > 1 /\ path[n - 1].brackets /\ path[n - 1].parts[1] = path[n].parts[1])

\* What one patch does to the object it is for.  In a list the node that the path
\* names is replaced or, without a value, taken out, and the others keep their
\* order; in a map the value is what the path names afterwards, and without a
\* value nothing changes.
DoneAt(before, after, path, value) ==
  LET holder == Lookup(before, Front(path))
  IN  IF path # <<>> /\ IsList(holder)
        THEN \E at \in DOMAIN holder.list :
               /\ holder.list[at] = Lookup(before, path)
               /\ Lookup(after, Front(path)) =
                    List(IF value = Null THEN RemoveAt(holder.list, at)
                         ELSE ReplaceAt(holder.list, at, value))
        ELSE /\ value = Null => after = before
             /\ value # Null /\ StillNames(path) => Lookup(after, path) = value

\* Patches work where their paths point and nowhere else: a patched object keeps
\* the leaves of the rendered one that no patch names, through all patches before
\* and after, and at the path of the last patch it has what this patch makes of
\* the object that those before it leave.
PatchesTouchOnlyNamed ==
  step = "done" => \A i \in DOMAIN manifest :
    LET h == Hash(manifest[i])
        patches == IF Patched(h) THEN PatchesFor(h) ELSE <<>>
        last == patches[Len(patches)]
        before == Turns(ObjectAt(h), patches)[Len(patches) - 1].object
    IN  /\ \A l \in Leaves(ObjectAt(h)) :
             \/ l \in Leaves(manifest[i])
             \/ \E j \in DOMAIN patches : Covers(PatchPath(patches[j]), l[1])
        /\ patches # <<>> =>
             DoneAt(before, manifest[i], PatchPath(last), Inserted(last.struct.Value))
=============================================================================
