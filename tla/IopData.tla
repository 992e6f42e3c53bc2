------------------------------- MODULE IopData ------------------------------
(***************************************************************************)
(* What Iop works on: CRs as trees, the spec as a struct, the embedded     *)
(* files.  The operators that are constants of Iop are those of            *)
(* SpecSchema, SpecStruct, Tree and EmbeddedFiles; the properties here     *)
(* are about what is in the CR, the spec and the charts.                   *)
(***************************************************************************)
EXTENDS Iop, SpecSchema, EmbeddedFiles

\* The validation of the whole spec.
ValidSpec(s) == Validate(s, <<>>)
-----------------------------------------------------------------------------
RECURSIVE CountFiles(_)
CountFiles(node) ==
  IF IsFile(node) THEN 1 ELSE FoldSet(LAMBDA n, sum : sum + CountFiles(node.dir[n]), 0, DOMAIN node.dir)

\* A chart is loaded with each file below its directory once, and under the name
\* that the file has there.
ChartComplete ==
  \A i \in DOMAIN charts :
    LET chart == charts[i].files
        root == chartsRoot \o HelmSubdir[Components[i][2]]
    IN  /\ \A bf \in chart : IsFile(Open(root \o bf.name))
        /\ Cardinality({bf.name : bf \in chart}) = CountFiles(Open(root))

\* "ReadFile reads the content of compiled in files at path and returns a buffer
\* with the data": a chart is loaded with the content of all its files.
EveryChartFileRead ==
  \A i \in DOMAIN charts : \A bf \in charts[i].files :
    bf.data = Open(chartsRoot \o HelmSubdir[Components[i][2]] \o bf.name).content
=============================================================================
