------------------------------ MODULE IopProofs -----------------------------
(***************************************************************************)
(* Proofs about Iop: its types, which profile the charts get, when the     *)
(* program panics, what is in the output directory, and that a dry run     *)
(* writes nothing, for all CRs, profiles, packages and components.         *)
(***************************************************************************)
EXTENDS Iop, TreeProofs

-----------------------------------------------------------------------------
Reading   == {"open", "writer", "CR", "profile"}
Dumping   == {"writer", "dump"}
Merged    == {"charts", "render", "apply", "print", "mkdir", "write", "logged"}
Rendered  == {"apply", "print", "mkdir", "write", "logged"}
ToDir     == {"mkdir", "write", "logged"}

\* Each command goes through its own steps.
CommandInv ==
  /\ step \in Dumping => cmd = "dump-profile"
  /\ step \in {"merge"} \cup Merged => cmd # "dump-profile"
  /\ step = "apply" => cmd = "install"
  /\ step = "print" => cmd = "manifest" /\ ~output
  /\ step \in ToDir => cmd = "manifest" /\ output

\* What is known of the CR and the profile at each step.  The merged spec names
\* the profile that it was built on, and does not enable the base component.
ReadInv ==
  /\ step \in Reading => base = Null /\ outFile \in {Leaf("as before"), Null}
  /\ step \in Reading \cup {"dump"} => stdout = <<>>
  /\ step = "profile" => user = ToStruct(input) /\ Valid(user)
  /\ step = "merge" => ToStruct(input) # Bad /\ base = ProfileOf(input)
  /\ step \in Reading \cup {"dump", "merge"} => spec = Null /\ charts = <<>>
  /\ step \in Merged =>
       spec # Null /\ GlobalValues = base /\ ~Enabled(BaseComponent)

\* The renderers that a sequence holds.
Renderers(s) == {s[i] : i \in DOMAIN s}

\* There is a renderer for each of the first components, with the profile that
\* genManifests read, and for all of them when they are rendered.
ChartsInv ==
  /\ charts \in Seq(Renderers(charts))
  /\ step = "charts" => Len(charts) < Len(Components)
  /\ step = "render" => Len(charts) = Len(Components)
  /\ ProfileOfCharts

\* The base component's manifest is never empty.
BaseHasText ==
  step \in Rendered =>
    manifests \in [Names -> {"text", "empty"}] /\ manifests[BaseComponent] = "text"

\* The components that RenderToDir has not come to: all of them wait for the base.
Waiting == IF BaseComponent \in todo THEN Names ELSE todo

FilesInv ==
  /\ step \notin {"write", "logged", "done"} => files = {}
  /\ step = "write" => /\ BaseComponent \in todo => todo = {BaseComponent}
                       /\ ~dryRun => files = {Append(DirOf(c), c) :
                                       c \in {n \in Names \ Waiting : manifests[n] = "text"}}

\* The inductive invariant: the properties with what their proofs need of the CR, the
\* charts, the rendered manifests and the loop of RenderToDir.
IInv == /\ TypeOK /\ CommandInv /\ ReadInv /\ ChartsInv /\ BaseHasText /\ FilesInv
        /\ DirComplete /\ DryRunWritesNoManifest /\ LoadPanicNamesPackage
-----------------------------------------------------------------------------
(* The values.                                                              *)

\* The two kinds of errors, and no value at all, are told apart.
LEMMA ErrorsDiffer == Null # Bad /\ Null # Panic /\ Bad # Panic
<1>1. DOMAIN Null = {"null"} /\ DOMAIN Bad = {"error"} /\ DOMAIN Panic = {"panic"}
  BY DEF Null, Bad, Panic
<1> QED
  BY <1>1

\* No profile that is read for a CR makes the program panic.
LEMMA ProfileNeverPanics ==
  ASSUME NEW cr \in Inputs, ToStruct(cr) # Bad
  PROVE  ProfileOf(cr) # Panic
<1> DEFINE p == ProfileName(ToStruct(cr))
<1>1. CASE IsBuiltin(p)
  BY <1>1, PackagedAssumption DEF ProfileOf, ReadValuesYAML
<1>2. CASE ~IsBuiltin(p) /\ p \in DOMAIN LocalFiles
  <2>1. ReadValuesYAML(p) = LocalFiles[p]
    BY <1>2 DEF ReadValuesYAML
  <2> QED
    BY <1>2, <2>1, PackagedAssumption DEF ProfileOf
<1>3. CASE ~IsBuiltin(p) /\ p \notin DOMAIN LocalFiles
  <2>1. ReadValuesYAML(p) = Bad
    BY <1>3 DEF ReadValuesYAML
  <2> QED
    BY <2>1, ErrorsDiffer DEF ProfileOf
<1> QED
  BY <1>1, <1>2, <1>3

\* The merged spec has the name of the CR's profile: what the CR says of it, and
\* nothing where it says nothing, for the default profile names no other one.
LEMMA SameProfile ==
  ASSUME NEW cr \in Mergeable
  PROVE  ReadValuesYAML(ProfileName(ToStruct(MergedWith(cr)))) = ProfileOf(cr)
<1> DEFINE merged == MergedWith(cr)
<1>1. ToStruct(cr) # Bad /\ ProfileName(ToStruct(cr)) = NamedProfile(cr)
  BY ProfileAssumption DEF Mergeable
<1>2. /\ merged # Null /\ ProfileName(ToStruct(merged)) = NamedProfile(merged)
      /\ Entry(merged, "profile") =
           IF Says(cr, "profile") THEN Entry(cr, "profile") ELSE Entry(ProfileOf(cr), "profile")
  BY ProfileAssumption
<1>3. CASE Says(cr, "profile")
  <2>1. cr # Null /\ Entry(merged, "profile") = Entry(cr, "profile")
    BY <1>2, <1>3 DEF Says
  <2>2. NamedProfile(merged) = NamedProfile(cr)
    BY <1>2, <2>1 DEF NamedProfile
  <2> QED
    BY <1>1, <1>2, <2>2 DEF ProfileOf
<1>4. CASE ~Says(cr, "profile")
  <2>1. cr = Null \/ Entry(cr, "profile") = Null
    BY <1>4 DEF Says, Entry
  <2>2. NamedProfile(cr) = ""
    BY <2>1 DEF NamedProfile
  <2>3. ProfileOf(cr) = Builtin("")
    BY <1>1, <2>2, ProfileAssumption DEF ProfileOf, ReadValuesYAML
  <2>4. Entry(merged, "profile") = Null
    BY <1>2, <1>4, <2>3, ProfileAssumption
  <2>5. NamedProfile(merged) = ""
    BY <2>4 DEF NamedProfile
  <2> QED
    BY <1>1, <1>2, <2>2, <2>5 DEF ProfileOf
<1> QED
  BY <1>3, <1>4

\* No renderers are a sequence of renderers.
LEMMA NoRenderers ==
  ASSUME NEW s, s = <<>>
  PROVE  s \in Seq(Renderers(s)) /\ DOMAIN s = {} /\ Len(s) = 0
<1>1. DOMAIN <<>> = {} /\ Len(<<>>) = 0
  OBVIOUS
<1> QED
  BY <1>1, EmptySeq

\* One more renderer makes a sequence of renderers again.
LEMMA AppendRenderer ==
  ASSUME NEW s, s \in Seq(Renderers(s)), NEW r
  PROVE  /\ Append(s, r) \in Seq(Renderers(Append(s, r)))
         /\ Len(Append(s, r)) = Len(s) + 1
         /\ DOMAIN Append(s, r) = DOMAIN s \cup {Len(s) + 1}
         /\ \A i \in DOMAIN s : Append(s, r)[i] = s[i]
         /\ Append(s, r)[Len(s) + 1] = r
<1> DEFINE S == Renderers(s) \cup {r}
           t == Append(s, r)
<1>1. s \in Seq(S) /\ r \in S
  BY SeqMonotonic
<1>2. /\ Len(s) \in Nat /\ DOMAIN s = 1 .. Len(s)
      /\ t \in Seq(S) /\ Len(t) = Len(s) + 1
      /\ \A i \in 1 .. Len(s) : t[i] = s[i]
      /\ t[Len(s) + 1] = r
  BY <1>1, AppendProperties, LenProperties
<1>3. DOMAIN t = 1 .. Len(t)
  BY <1>2, LenProperties
<1>4. DOMAIN t = DOMAIN s \cup {Len(s) + 1}
  BY <1>2, <1>3
<1>5. t \in Seq(Renderers(t))
  <2>1. \A i \in 1 .. Len(t) : t[i] \in Renderers(t)
    BY <1>3 DEF Renderers
  <2>2. t = [i \in 1 .. Len(t) |-> t[i]]
    BY <1>2, LenProperties
  <2>3. [i \in 1 .. Len(t) |-> t[i]] \in Seq(Renderers(t))
    BY <1>2, <2>1
  <2> QED
    BY <2>2, <2>3
<1> QED
  BY <1>2, <1>4, <1>5
-----------------------------------------------------------------------------
(* The steps.                                                               *)

LEMMA OpenInputStep ==
  ASSUME IInv, OpenInput PROVE IInv'
<1> USE DEF IInv, OpenInput, Stop, args, outVars
<1>1. TypeOK'
  BY DEF TypeOK
<1>2. CommandInv'
  BY DEF CommandInv, TypeOK, Dumping, Merged, ToDir
<1>3. ReadInv' /\ LoadPanicNamesPackage'
  BY ErrorsDiffer DEF ReadInv, Reading, Merged, LoadPanicNamesPackage
<1>4. ChartsInv'
  BY DEF ChartsInv, ProfileOfCharts
<1>5. BaseHasText'
  BY DEF BaseHasText, Rendered
<1>6. FilesInv' /\ DirComplete' /\ DryRunWritesNoManifest'
  BY DEF FilesInv, DirComplete, DryRunWritesNoManifest
<1> QED
  BY <1>1, <1>2, <1>3, <1>4, <1>5, <1>6

LEMMA getWriterStep ==
  ASSUME IInv, getWriter PROVE IInv'
<1> USE DEF IInv, getWriter, Stop, args
<1>1. TypeOK'
  BY DEF TypeOK
<1>2. CommandInv'
  BY DEF CommandInv, Dumping, Merged, ToDir
<1>3. ReadInv' /\ LoadPanicNamesPackage'
  BY ErrorsDiffer DEF ReadInv, Reading, Merged, LoadPanicNamesPackage
<1>4. ChartsInv'
  BY DEF ChartsInv, ProfileOfCharts
<1>5. BaseHasText'
  BY DEF BaseHasText, Rendered
<1>6. FilesInv' /\ DirComplete' /\ DryRunWritesNoManifest'
  BY DEF FilesInv, DirComplete, DryRunWritesNoManifest
<1> QED
  BY <1>1, <1>2, <1>3, <1>4, <1>5, <1>6

LEMMA CheckCRStep ==
  ASSUME IInv, CheckCR PROVE IInv'
<1> USE DEF IInv, CheckCR, Stop, args, outVars
<1>1. TypeOK'
  BY DEF TypeOK, Valid
<1>2. CommandInv'
  BY DEF CommandInv, Dumping, Merged, ToDir
<1>3. ReadInv' /\ LoadPanicNamesPackage'
  BY ErrorsDiffer DEF ReadInv, Reading, Merged, LoadPanicNamesPackage, Valid
<1>4. ChartsInv'
  BY DEF ChartsInv, ProfileOfCharts
<1>5. BaseHasText'
  BY DEF BaseHasText, Rendered
<1>6. FilesInv' /\ DirComplete' /\ DryRunWritesNoManifest'
  BY DEF FilesInv, DirComplete, DryRunWritesNoManifest
<1> QED
  BY <1>1, <1>2, <1>3, <1>4, <1>5, <1>6

LEMMA ReadProfileStep ==
  ASSUME IInv, ReadProfile PROVE IInv'
<1> DEFINE yaml == ProfileOf(input)
<1>1. /\ step = "profile" /\ input \in Inputs /\ ToStruct(input) # Bad
      /\ yaml = ReadValuesYAML(ProfileName(user)) /\ yaml # Panic
  <2>1. step = "profile" /\ input \in Inputs
    BY DEF IInv, TypeOK, ReadProfile
  <2>2. user = ToStruct(input) /\ ToStruct(input) # Bad
    BY <2>1 DEF IInv, ReadInv, Valid
  <2> QED
    BY <2>1, <2>2, ProfileNeverPanics DEF ProfileOf
<1>2. /\ spec = Null /\ charts = <<>> /\ base = Null /\ stdout = <<>>
      /\ outFile \in {Leaf("as before"), Null} /\ files = {}
  BY <1>1 DEF IInv, ReadInv, Reading, FilesInv
<1>3. \/ yaml = Bad /\ step' = "fatal" /\ base' = base
      \/ ~Failed(yaml) /\ base' = yaml /\ step' = IF cmd = "dump-profile" THEN "dump" ELSE "merge"
  BY <1>1 DEF ReadProfile, Stop, Failed
<1>4. UNCHANGED <<cmd, dryRun, output, input, user, spec, charts, manifests, todo,
                  dirs, files, outFile, stdout, cluster>>
  BY DEF ReadProfile, args, outVars
<1> HIDE DEF yaml
<1>5. TypeOK'
  <2>1. step' \in {"fatal", "dump", "merge"} /\ ~Failed(base')
    BY <1>3 DEF IInv, TypeOK
  <2>2. \A i \in DOMAIN charts' : ~Failed(charts'[i].values)
    <3>1. charts' = <<>>
      BY <1>2, <1>4
    <3>2. DOMAIN charts' = {}
      BY <3>1, NoRenderers
    <3> QED
      BY <3>2
  <2>3. outFile' \in {Leaf("as before"), Null, base'}
    BY <1>2, <1>4
  <2>4. IF cmd' = "dump-profile" THEN stdout' \in {<<>>, <<base'>>} ELSE stdout' \in Seq(Names)
    BY <1>2, <1>4, EmptySeq
  <2> QED
    BY <1>4, <2>1, <2>2, <2>3, <2>4 DEF IInv, TypeOK, Valid
<1>6. CommandInv'
  BY <1>3, <1>4 DEF CommandInv, Dumping, Merged, ToDir
<1>7. ReadInv'
  BY <1>1, <1>2, <1>3, <1>4 DEF ReadInv, Reading, Merged, ProfileOf, yaml
<1>8. ChartsInv'
  <2>1. charts' = <<>>
    BY <1>2, <1>4
  <2>2. charts' \in Seq(Renderers(charts')) /\ DOMAIN charts' = {}
    BY <2>1, NoRenderers
  <2> QED
    BY <1>3, <2>2 DEF ChartsInv, ProfileOfCharts
<1>9. BaseHasText' /\ FilesInv' /\ DirComplete' /\ DryRunWritesNoManifest' /\ LoadPanicNamesPackage'
  BY <1>2, <1>3, <1>4 DEF IInv, BaseHasText, Rendered, FilesInv, DirComplete,
                          DryRunWritesNoManifest, LoadPanicNamesPackage
<1> QED
  BY <1>5, <1>6, <1>7, <1>8, <1>9 DEF IInv

LEMMA DumpProfileStep ==
  ASSUME IInv, DumpProfile PROVE IInv'
<1>1. /\ step = "dump" /\ step' \in {"done", "fatal"} /\ cmd = "dump-profile"
      /\ stdout = <<>> /\ spec = Null /\ charts = <<>> /\ files = {}
  BY ErrorsDiffer DEF IInv, DumpProfile, Stop, CommandInv, Dumping, ReadInv, Reading, FilesInv
<1>2. UNCHANGED <<cmd, dryRun, output, input, user, base, spec, charts, manifests, todo,
                  dirs, files, cluster>>
  BY DEF DumpProfile, args
<1>3. \/ outFile' = base /\ stdout' = stdout
      \/ outFile' = outFile /\ stdout' \in {stdout, <<base>>}
  BY DEF DumpProfile
<1>4. TypeOK'
  <2>1. outFile' \in {Leaf("as before"), Null, base'}
    BY <1>2, <1>3 DEF IInv, TypeOK
  <2>2. stdout' \in {<<>>, <<base'>>}
    BY <1>1, <1>2, <1>3
  <2> QED
    BY <1>1, <1>2, <2>1, <2>2 DEF IInv, TypeOK, Valid
<1>5. CommandInv' /\ ReadInv' /\ BaseHasText' /\ FilesInv'
  BY <1>1, <1>2 DEF CommandInv, Dumping, Merged, ToDir, ReadInv, Reading, BaseHasText, Rendered,
                    FilesInv
<1>6. ChartsInv'
  BY <1>1, <1>2 DEF IInv, ChartsInv, ProfileOfCharts
<1>7. DirComplete' /\ DryRunWritesNoManifest' /\ LoadPanicNamesPackage'
  BY <1>1, <1>2 DEF IInv, DirComplete, DryRunWritesNoManifest, LoadPanicNamesPackage
<1> QED
  BY <1>4, <1>5, <1>6, <1>7 DEF IInv

LEMMA MergeSpecsStep ==
  ASSUME IInv, MergeSpecs PROVE IInv'
<1>1. /\ step = "merge" /\ cmd # "dump-profile" /\ spec = Null /\ charts = <<>> /\ files = {}
      /\ input \in Inputs /\ ToStruct(input) # Bad /\ base = ProfileOf(input) /\ ~Failed(base)
  BY DEF IInv, MergeSpecs, TypeOK, CommandInv, ReadInv, FilesInv
<1>2. UNCHANGED <<cmd, dryRun, output, input, user, base, charts, manifests, todo,
                  dirs, files, outFile, stdout, cluster>>
  BY DEF MergeSpecs, args, outVars
<1>3. \/ step' = "fatal" /\ spec' = spec
      \/ /\ step' = "charts" /\ spec' = ToStruct(MergedWith(input))
         /\ MergedWith(input) # Bad /\ Valid(spec')
  <2>1. MergedWith(input) = OverlayYAML(base, input)
    BY <1>1 DEF MergedWith
  <2> QED
    BY <2>1, ErrorsDiffer DEF MergeSpecs, Stop, Valid
<1>4. ASSUME step' = "charts" /\ spec' = ToStruct(MergedWith(input)),
             MergedWith(input) # Bad /\ Valid(spec')
      PROVE  spec' # Null /\ (GlobalValues = base)' /\ ~Enabled(BaseComponent)'
  <2>1. input \in Mergeable
    BY <1>1, <1>4 DEF Mergeable, Valid
  <2>2. spec' # Null /\ (GlobalValues = base)'
    BY <1>1, <1>2, <1>4, <2>1, SameProfile, ProfileAssumption DEF GlobalValues
  <2>3. ~Enabled(BaseComponent)'
    BY <1>4, <2>1, BaseAssumption DEF Enabled
  <2> QED
    BY <2>2, <2>3
<1>5. TypeOK'
  BY <1>2, <1>3 DEF IInv, TypeOK, Valid
<1>6. CommandInv'
  BY <1>1, <1>2, <1>3 DEF CommandInv, Dumping, Merged, ToDir
<1>7. ReadInv'
  BY <1>3, <1>4 DEF ReadInv, Reading, Merged
<1>8. ChartsInv'
  <2>1. charts' = <<>> /\ Len(charts') = 0
    BY <1>1, <1>2
  <2>2. charts' \in Seq(Renderers(charts')) /\ DOMAIN charts' = {}
    BY <2>1, NoRenderers
  <2> QED
    BY <1>3, <2>1, <2>2, TreeAssumption DEF ChartsInv, ProfileOfCharts
<1>9. BaseHasText' /\ FilesInv' /\ DirComplete' /\ DryRunWritesNoManifest' /\ LoadPanicNamesPackage'
  BY <1>1, <1>2, <1>3 DEF IInv, BaseHasText, Rendered, FilesInv, DirComplete,
                          DryRunWritesNoManifest, LoadPanicNamesPackage
<1> QED
  BY <1>5, <1>6, <1>7, <1>8, <1>9 DEF IInv

LEMMA LoadChartStep ==
  ASSUME IInv, LoadChart PROVE IInv'
<1> DEFINE component == Components[Len(charts) + 1][2]
           chart == ChartIn(CleanPath[PackagePath(spec)] \o HelmSubdir[component])
           renderer == [values |-> base, files |-> chart.files]
<1>1. /\ step = "charts" /\ cmd # "dump-profile" /\ files = {}
      /\ ~Failed(base) /\ spec # Null
      /\ GlobalValues = base /\ ~Enabled(BaseComponent)
  BY DEF IInv, LoadChart, TypeOK, CommandInv, Merged, ReadInv, FilesInv
<1>2. /\ charts \in Seq(Renderers(charts)) /\ Len(charts) \in Nat
      /\ Len(charts) < Len(Components) /\ ProfileOfCharts
  BY <1>1, LenProperties DEF IInv, ChartsInv
<1>3. component \in Names
  BY <1>2, TreeAssumption DEF Names
<1>4. UNCHANGED <<cmd, dryRun, output, input, user, base, spec, manifests, todo,
                  dirs, files, outFile, stdout, cluster>>
  BY DEF LoadChart, args, outVars
<1>5. \/ step' = "fatal" /\ charts' = charts
      \/ step' = "panic" /\ chart = Panic /\ charts' = charts
      \/ /\ charts' = Append(charts, renderer)
         /\ step' = IF Len(charts') = Len(Components) THEN "render" ELSE "charts"
  BY <1>1 DEF LoadChart, Stop, Failed
<1>6. chart = Panic => PackagePath(spec) # ""
  BY <1>3, PackagedAssumption
<1> HIDE DEF component, chart
<1>7. /\ charts' \in Seq(Renderers(charts'))
      /\ step' = "charts" => Len(charts') < Len(Components)
      /\ step' = "render" => Len(charts') = Len(Components)
      /\ \A i \in DOMAIN charts' : charts'[i].values = base
  <2>1. CASE charts' = charts /\ step' \notin {"charts", "render"}
    BY <1>2, <2>1 DEF ProfileOfCharts
  <2>2. CASE /\ charts' = Append(charts, renderer)
             /\ step' = IF Len(charts') = Len(Components) THEN "render" ELSE "charts"
    <3>1. charts' \in Seq(Renderers(charts')) /\ Len(charts') = Len(charts) + 1
      BY <1>2, <2>2, AppendRenderer
    <3>2. \A i \in DOMAIN charts' : charts'[i].values = base
      <4> SUFFICES ASSUME NEW i \in DOMAIN charts' PROVE charts'[i].values = base
        OBVIOUS
      <4>1. CASE i \in DOMAIN charts
        <5>1. charts'[i] = charts[i]
          BY <1>2, <2>2, <4>1, AppendRenderer
        <5> QED
          BY <1>2, <4>1, <5>1 DEF ProfileOfCharts
      <4>2. CASE i = Len(charts) + 1
        <5>1. charts'[i] = renderer
          BY <1>2, <2>2, <4>2, AppendRenderer
        <5> QED
          BY <5>1
      <4>3. i \in DOMAIN charts \/ i = Len(charts) + 1
        BY <1>2, <2>2, AppendRenderer
      <4> QED
        BY <4>1, <4>2, <4>3
    <3>3. step' = "charts" => Len(charts') < Len(Components)
      <4>1. step' = "charts" => Len(charts') # Len(Components)
        BY <2>2
      <4>2. Len(Components) \in Nat
        BY TreeAssumption
      <4> QED
        BY <1>2, <3>1, <4>1, <4>2
    <3>4. step' = "render" => Len(charts') = Len(Components)
      BY <2>2
    <3> QED
      BY <3>1, <3>2, <3>3, <3>4
  <2> QED
    BY <1>5, <2>1, <2>2
<1>8. step' \in {"charts", "render", "fatal", "panic"}
  BY <1>5
<1>9. TypeOK'
  <2>1. \A i \in DOMAIN charts' : ~Failed(charts'[i].values)
    BY <1>1, <1>7
  <2> QED
    BY <1>4, <1>8, <2>1 DEF IInv, TypeOK, Valid
<1>10. CommandInv' /\ ReadInv' /\ BaseHasText' /\ FilesInv'
  BY <1>1, <1>4, <1>8 DEF CommandInv, Dumping, Merged, ToDir, ReadInv, Reading, Enabled, GlobalValues,
                          BaseHasText, Rendered, FilesInv
<1>11. ChartsInv'
  BY <1>4, <1>7 DEF ChartsInv, ProfileOfCharts
<1>12. DirComplete' /\ DryRunWritesNoManifest'
  BY <1>4, <1>8 DEF IInv, DirComplete, DryRunWritesNoManifest
<1>13. LoadPanicNamesPackage'
  BY <1>1, <1>4, <1>5, <1>6 DEF LoadPanicNamesPackage
<1> QED
  BY <1>9, <1>10, <1>11, <1>12, <1>13 DEF IInv

LEMMA RenderManifestStep ==
  ASSUME IInv, RenderManifest PROVE IInv'
<1>1. /\ step = "render" /\ cmd \in {"install", "manifest"} /\ files = {}
      /\ spec # Null /\ GlobalValues = base /\ ~Enabled(BaseComponent)
  BY DEF IInv, RenderManifest, TypeOK, CommandInv, Merged, ReadInv, FilesInv
<1>2. UNCHANGED <<cmd, dryRun, output, input, user, base, spec, charts,
                  dirs, files, outFile, stdout, cluster>>
  BY DEF RenderManifest, args, outVars
<1>3. \/ /\ manifests' \in [Names -> {"text", "empty"}] /\ manifests'[BaseComponent] = "text"
         /\ todo' = Names
         /\ \/ step' = "apply" /\ cmd = "install"
            \/ step' = "mkdir" /\ cmd = "manifest" /\ output
            \/ step' = "print" /\ cmd = "manifest" /\ ~output
      \/ step' \in {"fatal", "panic"} /\ UNCHANGED <<manifests, todo>>
  <2>1. BaseComponent \in Names
    BY TreeAssumption
  <2> QED
    BY <1>1, <2>1, ErrorsDiffer DEF RenderManifest, Stop
<1>4. step' \in {"apply", "mkdir", "print", "fatal", "panic"}
  BY <1>3
<1>5. TypeOK'
  <2>1. manifests' \in [Names -> {"text", "empty"}] \cup {<<>>} /\ todo' \subseteq Names
    BY <1>3 DEF IInv, TypeOK
  <2> QED
    BY <1>2, <1>4, <2>1 DEF IInv, TypeOK, Valid
<1>6. CommandInv'
  BY <1>1, <1>2, <1>3 DEF CommandInv, Dumping, Merged, ToDir
<1>7. ReadInv' /\ LoadPanicNamesPackage'
  <2>1. Len(charts') = Len(Components) /\ Len(Components) \in Nat
    <3>1. Len(charts) = Len(Components)
      BY <1>1 DEF IInv, ChartsInv
    <3> QED
      BY <1>2, <3>1, TreeAssumption
  <2>2. ReadInv'
    BY <1>1, <1>2, <1>4 DEF ReadInv, Reading, Merged, Enabled, GlobalValues
  <2>3. LoadPanicNamesPackage'
    <3>1. ~(Len(charts') < Len(Components))
      BY <2>1
    <3> QED
      BY <3>1 DEF LoadPanicNamesPackage
  <2> QED
    BY <2>2, <2>3
<1>8. ChartsInv'
  BY <1>2, <1>4 DEF IInv, ChartsInv, ProfileOfCharts
<1>9. BaseHasText'
  BY <1>3 DEF BaseHasText, Rendered
<1>10. FilesInv' /\ DirComplete' /\ DryRunWritesNoManifest'
  BY <1>1, <1>2, <1>4 DEF IInv, FilesInv, DirComplete, DryRunWritesNoManifest
<1> QED
  BY <1>5, <1>6, <1>7, <1>8, <1>9, <1>10 DEF IInv

LEMMA ApplyAllStep ==
  ASSUME IInv, ApplyAll PROVE IInv'
<1>1. /\ step = "apply" /\ cmd = "install" /\ files = {}
      /\ step' \in {"done", "fatal", "hung"} /\ cluster' \subseteq Names
      /\ dryRun => cluster' = {}
  BY ErrorsDiffer DEF IInv, ApplyAll, Stop, CommandInv, FilesInv, TypeOK, DryRunWritesNoManifest
<1>2. UNCHANGED <<cmd, dryRun, output, input, user, base, spec, charts, manifests, todo,
                  dirs, files, outFile, stdout>>
  BY DEF ApplyAll, args
<1>3. TypeOK'
  BY <1>1, <1>2 DEF IInv, TypeOK, Valid
<1>4. CommandInv' /\ ReadInv' /\ BaseHasText' /\ FilesInv'
  BY <1>1, <1>2 DEF CommandInv, Dumping, Merged, ToDir, ReadInv, Reading,
                    BaseHasText, Rendered, FilesInv
<1>5. ChartsInv'
  BY <1>1, <1>2 DEF IInv, ChartsInv, ProfileOfCharts
<1>6. DirComplete' /\ DryRunWritesNoManifest' /\ LoadPanicNamesPackage'
  BY <1>1, <1>2 DEF IInv, DirComplete, DryRunWritesNoManifest, LoadPanicNamesPackage
<1> QED
  BY <1>3, <1>4, <1>5, <1>6 DEF IInv

LEMMA PrintManifestStep ==
  ASSUME IInv, NEW c \in Names, PrintManifest(c) PROVE IInv'
<1>1. /\ step = "print" /\ cmd = "manifest" /\ ~output /\ files = {} /\ todo \subseteq Names
      /\ stdout \in Seq(Names) /\ stdout' = Append(stdout, c) /\ todo' = todo \ {c}
      /\ step' \in {"done", "print"}
  BY DEF IInv, PrintManifest, CommandInv, FilesInv, TypeOK
<1>2. UNCHANGED <<cmd, dryRun, output, input, user, base, spec, charts, manifests,
                  dirs, files, outFile, cluster>>
  BY DEF PrintManifest, args
<1>3. TypeOK'
  <2>1. stdout' \in Seq(Names) /\ todo' \subseteq Names
    BY <1>1, AppendProperties
  <2> QED
    BY <1>1, <1>2, <2>1 DEF IInv, TypeOK, Valid
<1>4. CommandInv' /\ ReadInv' /\ BaseHasText'
  BY <1>1, <1>2 DEF IInv, CommandInv, Dumping, Merged, ToDir, ReadInv, Reading, Enabled, GlobalValues,
                    BaseHasText, Rendered
<1>5. ChartsInv'
  BY <1>1, <1>2 DEF IInv, ChartsInv, ProfileOfCharts
<1>6. FilesInv' /\ DirComplete' /\ DryRunWritesNoManifest' /\ LoadPanicNamesPackage'
  BY <1>1, <1>2 DEF IInv, FilesInv, DirComplete, DryRunWritesNoManifest, LoadPanicNamesPackage
<1> QED
  BY <1>3, <1>4, <1>5, <1>6 DEF IInv

LEMMA MakeOutputDirStep ==
  ASSUME IInv, MakeOutputDir PROVE IInv'
<1>1. /\ step = "mkdir" /\ cmd = "manifest" /\ output /\ files = {} /\ cluster' = cluster
      /\ \/ dirs' = {<<>>} /\ step' = "write" /\ todo' = {BaseComponent}
         \/ step' = "fatal" /\ UNCHANGED <<dirs, todo>>
  BY ErrorsDiffer DEF IInv, MakeOutputDir, Stop, CommandInv, ToDir, FilesInv
<1>2. UNCHANGED <<cmd, dryRun, output, input, user, base, spec, charts, manifests,
                  files, outFile, stdout, cluster>>
  BY DEF MakeOutputDir, args
<1>3. BaseComponent \in Names
  BY TreeAssumption
<1>4. TypeOK'
  <2>1. step' \in {"write", "fatal"}
    BY <1>1
  <2>2. dirs' \subseteq {<<>>} \cup {DirOf(c) : c \in Names} /\ todo' \subseteq Names
    BY <1>1, <1>3 DEF IInv, TypeOK
  <2> QED
    BY <1>2, <2>1, <2>2 DEF IInv, TypeOK, Valid
<1>5. CommandInv' /\ ReadInv' /\ BaseHasText'
  BY <1>1, <1>2 DEF IInv, CommandInv, Dumping, Merged, ToDir, ReadInv, Reading, Enabled, GlobalValues,
                    BaseHasText, Rendered
<1>6. ChartsInv'
  BY <1>1, <1>2 DEF IInv, ChartsInv, ProfileOfCharts
<1>7. FilesInv'
  <2>1. CASE step' = "write"
    <3>1. Waiting' = Names
      BY <1>1, <2>1 DEF Waiting
    <3> QED
      BY <1>1, <1>2, <2>1, <3>1 DEF FilesInv
  <2> QED
    BY <1>1, <1>2, <2>1 DEF FilesInv
<1>8. DirComplete' /\ DryRunWritesNoManifest' /\ LoadPanicNamesPackage'
  BY <1>1, <1>2 DEF IInv, DirComplete, DryRunWritesNoManifest, LoadPanicNamesPackage
<1> QED
  BY <1>4, <1>5, <1>6, <1>7, <1>8 DEF IInv

\* A component whose turn it is: below the base there is nothing more to come.
LEMMA Turn ==
  ASSUME IInv, step = "write", NEW c \in todo
  PROVE  /\ c \in Names /\ c \in Waiting
         /\ c = BaseComponent => todo = {c} /\ manifests[c] = "text"
         /\ Children[c] = IF c = BaseComponent THEN Names \ {c} ELSE {}
         /\ manifests[c] \in {"text", "empty"}
<1>1. /\ todo \subseteq Names /\ (BaseComponent \in todo => todo = {BaseComponent})
      /\ manifests \in [Names -> {"text", "empty"}] /\ manifests[BaseComponent] = "text"
  BY DEF IInv, TypeOK, FilesInv, BaseHasText, Rendered
<1> QED
  BY <1>1, TreeAssumption DEF Waiting

LEMMA WriteManifestStep ==
  ASSUME IInv, NEW c \in Names, WriteManifest(c) PROVE IInv'
<1> DEFINE path == Append(DirOf(c), c)
           FileMade(left) == {Append(DirOf(n), n) : n \in {m \in Names \ left : manifests[m] = "text"}}
<1>1. /\ step = "write" /\ cmd = "manifest" /\ output /\ c \in todo /\ todo \subseteq Names
      /\ dryRun \in BOOLEAN
  BY DEF IInv, WriteManifest, CommandInv, ToDir, TypeOK
<1>2. /\ BaseComponent \in todo => todo = {BaseComponent}
      /\ ~dryRun => files = FileMade(Waiting)
      /\ dryRun => files = {} /\ cluster = {} /\ dirs \subseteq {<<>>}
  BY <1>1 DEF IInv, FilesInv, DryRunWritesNoManifest
<1>3. /\ c \in Waiting /\ manifests[c] \in {"text", "empty"}
      /\ c = BaseComponent => todo = {c} /\ manifests[c] = "text"
      /\ Children[c] = IF c = BaseComponent THEN Names \ {c} ELSE {}
  BY <1>1, Turn
<1>4. UNCHANGED <<cmd, dryRun, output, input, user, base, spec, charts, manifests,
                  outFile, stdout, cluster>>
  BY DEF WriteManifest, args
<1>5. \/ manifests[c] = "empty" /\ todo' = todo \ {c} /\ UNCHANGED <<step, dirs, files>>
      \/ /\ manifests[c] = "text" /\ todo' = (todo \ {c}) \cup Children[c] /\ step' = step
         /\ IF dryRun THEN UNCHANGED <<dirs, files>>
            ELSE dirs' = dirs \cup {DirOf(c)} /\ files' = files \cup {path}
      \/ /\ ~dryRun /\ step' = "logged" /\ UNCHANGED <<todo, files>>
         /\ dirs' \in {dirs, dirs \cup {DirOf(c)}}
  BY <1>3 DEF WriteManifest
<1>6. step' = "write" => /\ BaseComponent \notin todo' /\ Waiting' = Waiting \ {c}
                         /\ todo' \subseteq Names
  <2>1. step' = "write" => todo' = (todo \ {c}) \cup Children[c]
    BY <1>1, <1>3, <1>5
  <2>2. CASE c = BaseComponent
    BY <1>2, <1>3, <2>1, <2>2 DEF Waiting
  <2>3. CASE c # BaseComponent
    BY <1>1, <1>2, <1>3, <2>1, <2>3 DEF Waiting
  <2> QED
    BY <2>2, <2>3
<1> HIDE DEF path
<1>7. TypeOK'
  <2>1. step' \in {"write", "logged"} /\ todo' \subseteq Names
    BY <1>1, <1>5, <1>6
  <2>2. files' \subseteq Paths
    <3>1. files \subseteq Paths /\ path \in Paths
      BY DEF IInv, TypeOK, Paths, path
    <3> QED
      BY <1>5, <3>1
  <2>3. dirs' \subseteq {<<>>} \cup {DirOf(n) : n \in Names}
    BY <1>5 DEF IInv, TypeOK
  <2> QED
    BY <1>4, <2>1, <2>2, <2>3 DEF IInv, TypeOK, Valid
<1>8. CommandInv' /\ ReadInv' /\ BaseHasText'
  <2>1. step' \in {"write", "logged"}
    BY <1>1, <1>5
  <2> QED
    BY <1>1, <1>4, <2>1 DEF IInv, CommandInv, Dumping, Merged, ToDir, ReadInv, Reading, Enabled, GlobalValues,
                            BaseHasText, Rendered
<1>9. ChartsInv'
  <2>1. step' \in {"write", "logged"}
    BY <1>1, <1>5
  <2> QED
    BY <1>4, <2>1 DEF IInv, ChartsInv, ProfileOfCharts
<1>10. FilesInv'
  <2>1. step' \in {"write", "logged"}
    BY <1>1, <1>5
  <2>2. ASSUME step' = "write", ~dryRun PROVE files' = FileMade(Waiting \ {c})
    <3>1. CASE manifests[c] = "empty"
      <4>1. files' = files
        BY <1>5, <2>2, <3>1
      <4> QED
        BY <1>2, <2>2, <3>1, <4>1
    <3>2. CASE manifests[c] = "text"
      <4>1. files' = files \cup {path}
        BY <1>5, <2>2, <3>2
      <4>2. FileMade(Waiting \ {c}) = FileMade(Waiting) \cup {path}
        BY <3>2 DEF path
      <4> QED
        BY <1>2, <2>2, <4>1, <4>2
    <3> QED
      BY <1>3, <3>1, <3>2
  <2> QED
    BY <1>4, <1>6, <2>1, <2>2 DEF FilesInv
<1>11. DirComplete' /\ DryRunWritesNoManifest' /\ LoadPanicNamesPackage'
  BY <1>1, <1>2, <1>4, <1>5 DEF DirComplete, DryRunWritesNoManifest, LoadPanicNamesPackage
<1> QED
  BY <1>7, <1>8, <1>9, <1>10, <1>11 DEF IInv

LEMMA RenderToDirReturnsStep ==
  ASSUME IInv, RenderToDirReturns PROVE IInv'
<1>1. /\ step = "write" /\ step' = "done" /\ todo = {} /\ cmd = "manifest"
      /\ ~dryRun => files = {Append(DirOf(c), c) : c \in {n \in Names \ Waiting : manifests[n] = "text"}}
  BY DEF IInv, RenderToDirReturns, CommandInv, ToDir, FilesInv
<1>2. UNCHANGED <<cmd, dryRun, output, input, user, base, spec, charts, manifests, todo,
                  dirs, files, outFile, stdout, cluster>>
  BY DEF RenderToDirReturns, args, outVars
<1>3. Names \ Waiting = Names
  BY <1>1 DEF Waiting
<1>4. TypeOK'
  BY <1>1, <1>2 DEF IInv, TypeOK, Valid
<1>5. CommandInv' /\ ReadInv' /\ BaseHasText' /\ FilesInv'
  BY <1>1 DEF CommandInv, Dumping, Merged, ToDir, ReadInv, Reading, BaseHasText, Rendered, FilesInv
<1>6. ChartsInv'
  BY <1>1, <1>2 DEF IInv, ChartsInv, ProfileOfCharts
<1>7. DirComplete'
  BY <1>1, <1>2, <1>3 DEF DirComplete
<1>8. DryRunWritesNoManifest' /\ LoadPanicNamesPackage'
  BY <1>1, <1>2 DEF IInv, DryRunWritesNoManifest, LoadPanicNamesPackage
<1> QED
  BY <1>4, <1>5, <1>6, <1>7, <1>8 DEF IInv
-----------------------------------------------------------------------------
LEMMA InitInv == Init => IInv
<1> SUFFICES ASSUME Init PROVE IInv
  OBVIOUS
<1>1. TypeOK
  <2>1. DOMAIN charts = {} /\ stdout \in Seq(Names)
    BY NoRenderers, EmptySeq DEF Init
  <2>2. ~Failed(base)
    BY ErrorsDiffer DEF Init, Failed
  <2> QED
    BY <2>1, <2>2 DEF Init, TypeOK
<1>2. CommandInv /\ ReadInv /\ BaseHasText /\ FilesInv
  BY DEF Init, CommandInv, Dumping, Merged, ToDir, ReadInv, Reading, BaseHasText, Rendered, FilesInv
<1>3. ChartsInv
  <2>1. charts \in Seq(Renderers(charts)) /\ DOMAIN charts = {}
                 /\ step \notin {"charts", "render"}
    BY NoRenderers DEF Init
  <2> QED
    BY <2>1 DEF ChartsInv, ProfileOfCharts
<1>4. DirComplete /\ DryRunWritesNoManifest /\ LoadPanicNamesPackage
  BY DEF Init, DirComplete, DryRunWritesNoManifest, LoadPanicNamesPackage
<1> QED
  BY <1>1, <1>2, <1>3, <1>4 DEF IInv

LEMMA StutterInv ==
  ASSUME IInv, UNCHANGED vars PROVE IInv'
<1> USE DEF vars
<1>1. TypeOK' /\ CommandInv'
  BY DEF IInv, TypeOK, Valid, CommandInv
<1>2. ReadInv' /\ ChartsInv'
  BY DEF IInv, ReadInv, Valid, Enabled, GlobalValues, ChartsInv, ProfileOfCharts
<1>3. BaseHasText' /\ FilesInv'
  BY DEF IInv, BaseHasText, FilesInv, Waiting
<1>4. DirComplete' /\ DryRunWritesNoManifest' /\ LoadPanicNamesPackage'
  BY DEF IInv, DirComplete, DryRunWritesNoManifest, LoadPanicNamesPackage
<1> QED
  BY <1>1, <1>2, <1>3, <1>4 DEF IInv

\* The parts above hold together at every step of every command.
THEOREM Invariance == Spec => []IInv
<1>1. IInv /\ [Next]_vars => IInv'
  BY OpenInputStep, getWriterStep, CheckCRStep, ReadProfileStep, DumpProfileStep, MergeSpecsStep,
     LoadChartStep, RenderManifestStep, ApplyAllStep, PrintManifestStep, MakeOutputDirStep,
     WriteManifestStep, RenderToDirReturnsStep, StutterInv DEF Next
<1> QED
  BY InitInv, <1>1, PTL DEF Spec
-----------------------------------------------------------------------------
\* The commands' state is well-formed; what is kept of the CR and of the merged
\* spec is valid.
THEOREM TypeCorrect == Spec => []TypeOK
<1>1. IInv => TypeOK
  BY DEF IInv
<1> QED
  BY Invariance, <1>1, PTL

\* All charts are rendered with the profile that the spec was built on, although
\* the profile is read a second time, for the merged spec.
THEOREM ProfileOfChartsHolds == Spec => []ProfileOfCharts
<1>1. IInv => ProfileOfCharts
  BY DEF IInv, ChartsInv
<1> QED
  BY Invariance, <1>1, PTL

\* Whatever the order in which RenderToDir visits the components, the directory
\* has in the end the file of each component with a manifest, and no other one.
THEOREM DirCompleteHolds == Spec => []DirComplete
<1>1. IInv => DirComplete
  BY DEF IInv
<1> QED
  BY Invariance, <1>1, PTL

\* No command writes or applies a manifest in a dry run.
THEOREM DryRunHolds == Spec => []DryRunWritesNoManifest
<1>1. IInv => DryRunWritesNoManifest
  BY DEF IInv
<1> QED
  BY Invariance, <1>1, PTL

\* Until all charts are loaded, only a package path of the CR or of its profile makes
\* the program panic.
THEOREM LoadPanicNamesPackageHolds == Spec => []LoadPanicNamesPackage
<1>1. IInv => LoadPanicNamesPackage
  BY DEF IInv
<1> QED
  BY Invariance, <1>1, PTL
-----------------------------------------------------------------------------
(* What is rendered.                                                        *)

\* Nothing gets lost on the way to the spec: marshalled again, it is the CR laid
\* over the profile it names.
SpecIsMerge ==
  spec # Null =>
    /\ ToStruct(input) # Bad /\ base = ProfileOf(input) /\ MergedWith(input) # Bad
    /\ spec = ToStruct(MergedWith(input)) /\ ToYAML(spec) = MergedWith(input)

LEMMA SpecIsMergeStep ==
  ASSUME IInv, SpecIsMerge, [Next]_vars PROVE SpecIsMerge'
<1>1. CASE UNCHANGED <<spec, base, input>>
  BY <1>1 DEF SpecIsMerge
<1>2. CASE CheckCR \/ ReadProfile
  <2>1. spec = Null /\ spec' = spec
    BY <1>2 DEF IInv, ReadInv, Reading, CheckCR, ReadProfile
  <2> QED
    BY <2>1 DEF SpecIsMerge
<1>3. CASE MergeSpecs
  <2>1. ToStruct(input) # Bad /\ base = ProfileOf(input) /\ UNCHANGED <<base, input>>
    BY <1>3 DEF IInv, ReadInv, MergeSpecs, args
  <2>2. CASE spec' = spec
    BY <2>1, <2>2 DEF SpecIsMerge
  <2>3. CASE spec' # spec
    <3>1. MergedWith(input) # Bad
      BY <1>3, <2>1, <2>3 DEF MergeSpecs, Valid, MergedWith
    <3>2. spec' = ToStruct(MergedWith(input)) /\ ToYAML(spec') = MergedWith(input)
      BY <1>3, <2>1, <2>3, <3>1 DEF MergeSpecs, MergedWith
    <3> QED
      BY <2>1, <3>1, <3>2 DEF SpecIsMerge
  <2> QED
    BY <2>2, <2>3
<1>4. CASE OpenInput \/ getWriter \/ DumpProfile \/ LoadChart \/ RenderManifest \/ ApplyAll
             \/ MakeOutputDir \/ RenderToDirReturns \/ UNCHANGED vars
             \/ \E c \in Names : PrintManifest(c) \/ WriteManifest(c)
  <2>1. UNCHANGED <<spec, base, input>>
    BY <1>4 DEF OpenInput, getWriter, DumpProfile, LoadChart, RenderManifest, ApplyAll,
                MakeOutputDir, RenderToDirReturns, PrintManifest, WriteManifest, vars, args
  <2> QED
    BY <1>1, <2>1
<1> QED
  BY <1>2, <1>3, <1>4 DEF Next

\* The spec that is rendered is the CR laid over its profile, or there is none.
THEOREM SpecIsMergeHolds == Spec => []SpecIsMerge
<1>1. Init => SpecIsMerge
  BY DEF Init, SpecIsMerge
<1>2. IInv /\ SpecIsMerge /\ [Next]_vars => SpecIsMerge'
  BY SpecIsMergeStep
<1> QED
  BY <1>1, <1>2, Invariance, PTL DEF Spec

\* For every CR and every profile, the spec says at each path what the CR says
\* there, and what the profile says where the CR says nothing.
THEOREM UserOverProfileHolds == MergingRecursion => (Spec => []UserOverProfile)
<1> SUFFICES ASSUME MergingRecursion PROVE Spec => []UserOverProfile
  OBVIOUS
<1>1. IInv /\ SpecIsMerge => UserOverProfile
  <2> SUFFICES ASSUME IInv, SpecIsMerge, spec # Null,
                      NEW p \in Nodes(ToYAML(spec)) \cup Nodes(input) \cup Nodes(base)
               PROVE  LET yaml == ToYAML(spec)
                          said == Said(IF Touches(input, p) THEN input ELSE base, p)
                      IN  /\ IF IsMap(said) THEN IsMap(Said(yaml, p)) ELSE Said(yaml, p) = said
                          /\ Touches(input, p) /\ said = Null => ~Present(yaml, p)
    BY DEF UserOverProfile
  <2> DEFINE E == {p[i] : i \in DOMAIN p}
             yaml == ToYAML(spec)
  <2>1. p \in Seq(E) /\ p # <<>>
    BY NodePaths DEF MergingRecursion, IsSeq
  <2>2. yaml = OverlayYAML(base, input) /\ yaml # Bad
    BY DEF SpecIsMerge, MergedWith
  <2> HIDE DEF yaml, E
  <2>3. Decides(yaml, base, input, p)
    BY <2>1, <2>2, OverlaidTexts DEF MergingRecursion
  <2> QED
    BY <2>3 DEF Decides, yaml
<1> QED
  BY <1>1, Invariance, SpecIsMergeHolds, PTL
=============================================================================
