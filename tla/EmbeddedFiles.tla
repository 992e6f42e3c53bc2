---------------------------- MODULE EmbeddedFiles ---------------------------
(***************************************************************************)
(* The compiled-in charts and profiles: the accessors of                   *)
(* pkg/vfsgen/vfsgen.go and the renderer that loads charts with them       *)
(* (pkg/helm/vfs_renderer.go).  A path is a sequence of names; a file is   *)
(* its size, how it was compiled in, and its content as a tree or a text.  *)
(***************************************************************************)
EXTENDS SpecStruct

CONSTANTS
  Assets,  \* the root directory
  Window   \* the bytes that one Read of a compressed file returns at most

Dir(entries) == [dir |-> entries]
File(size, compressed, content) == [size |-> size, compressed |-> compressed, content |-> content]
IsDir(node) == "dir" \in DOMAIN node
IsFile(node) == "size" \in DOMAIN node

ASSUME AssetsAssumption == IsDir(Assets) /\ Window \in Nat \ {0}

\* The node at the path, or Null: opening what is not there gives a nil file,
\* and the deferred Close of that panics.
Open(path) ==
  FoldLeft(LAMBDA node, n : IF IsDir(node) /\ n \in DOMAIN node.dir THEN node.dir[n] ELSE Null,
           Assets, path)

\* One Read, of which only a result that comes together with io.EOF is taken: the
\* decompressor returns its window, when that is full, before it sees the end,
\* and an uncompressed file is at its end only on the next Read.
ReadFile(path) ==
  LET f == Open(path)
  IN  CASE f = Null -> Panic
        [] f # Null /\ IsDir(f) -> Bad
        [] OTHER -> IF f.compressed /\ f.size < Window THEN f.content ELSE Null

RECURSIVE getFlat(_, _)
getFlat(prefix, node) ==
  UNION {IF IsDir(node.dir[n]) THEN getFlat(prefix, node.dir[n])
         ELSE {Append(prefix, n)} : n \in DOMAIN node.dir}

RECURSIVE getFilesRecursive(_, _)
getFilesRecursive(prefix, node) ==
  UNION {IF IsDir(node.dir[n]) THEN getFilesRecursive(Append(prefix, n), node.dir[n])
         ELSE {Append(prefix, n)} : n \in DOMAIN node.dir}

GetFilesRecursive(path) ==
  LET root == Open(path)
  IN  CASE root = Null -> Panic
        [] root # Null /\ ~IsDir(root) -> Bad
        [] OTHER -> [files |-> getFilesRecursive(path, root)]
-----------------------------------------------------------------------------
stripPrefix(path, prefix) == SubSeq(path, Len(prefix) + 1, Len(path))

chartsRoot == <<"charts">>
profilesRoot == <<"profiles">>

\* The files of the chart, by their names relative to its directory; without its
\* metadata a chart does not load.
loadChart(helmChartDirPath) ==
  LET prefix == chartsRoot \o helmChartDirPath
      fnames == GetFilesRecursive(prefix)
  IN  IF Failed(fnames) THEN fnames ELSE
      LET chart == {[name |-> stripPrefix(f, prefix), data |-> ReadFile(f)] : f \in fnames.files}
      IN  IF \E bf \in chart : bf.name = <<"Chart.yaml">> /\ bf.data # Null
            THEN [files |-> chart] ELSE Bad

BuiltinProfileToFilename(name) == IF name = "" THEN "default.yaml" ELSE name \o ".yaml"

\* ProfileNames are the files of the profiles' directory without their suffix.
isBuiltinProfileName(name) ==
  name = "" \/ BuiltinProfileToFilename(name) \in DOMAIN Open(profilesRoot).dir

LoadValuesVFS(profileName) ==
  ReadFile(Append(profilesRoot, BuiltinProfileToFilename(profileName)))
=============================================================================
