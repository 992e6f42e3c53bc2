--------------------------------- MODULE Iop --------------------------------
(***************************************************************************)
(* The iop command line (cmd/iop): manifest, install and dump-profile, from *)
(* the user's CR to the manifests on disk, on standard output or in the    *)
(* cluster.  genManifests lays the CR over a profile and checks the        *)
(* result; the control plane loads the chart of every component            *)
(* (createHelmRenderer, EmbeddedFiles) and renders it, which               *)
(* ComponentManifest and ControlPlane model in detail; RenderToDir         *)
(* (pkg/manifest/installer.go) writes the manifests to a directory.        *)
(* What the commands do to trees, structs and embedded files are constants *)
(* here; IopData gives them their meaning.                                 *)
(*                                                                         *)
(* Logs and flags about logs are left out.                                 *)
(***************************************************************************)
EXTENDS Naturals, Sequences, Tree

CONSTANTS
  ToStruct(_),      \* UnmarshalWithJSONPB: the struct of a CR, or Bad
  ToYAML(_),        \* ToYAMLWithJSONPB
  IsValid(_),       \* validate, of a struct
  IsBuiltin(_),     \* isBuiltinProfileName
  Builtin(_),       \* LoadValuesVFS: the text of a built-in profile
  ChartIn(_),       \* loadChart: the files in a directory of charts
  IsEnabled(_, _, _)  \* IsComponentEnabled, of spec, feature and component

CONSTANTS
  Inputs,      \* the CRs considered, Null for none; Bad cannot be read
  LocalFiles,  \* text that begins with file:/// -> the profile in the file, if it can be read
  CleanPath,   \* package path -> the names in it that filepath.Join leaves
  Components,  \* <<feature, component>>, in the order the control plane runs them
  HelmSubdir,  \* component -> the directory of its chart, a sequence of names
  BaseComponent,
  Children,    \* component -> the components that depend on it
  MayFail      \* writing, rendering and applying may fail

Names == {Components[i][2] : i \in DOMAIN Components}

\* init builds the tree of two levels from the base component.
ASSUME TreeAssumption ==
  /\ Len(Components) \in Nat \ {0} /\ DOMAIN Components = 1 .. Len(Components)
  /\ BaseComponent \in Names
  /\ DOMAIN HelmSubdir = Names /\ DOMAIN Children = Names
  /\ \A c \in Names : Children[c] # {} => c = BaseComponent
  /\ Children[BaseComponent] = Names \ {BaseComponent}
  /\ MayFail \in BOOLEAN
-----------------------------------------------------------------------------
(* What a CR comes to.                                                      *)

ProfileName(s) == s.struct.Profile.leaf
PackagePath(s) == s.struct.CustomPackagePath.leaf

ReadAnyBuiltin(profile) ==
  IF profile \in DOMAIN LocalFiles THEN LocalFiles[profile] ELSE Builtin(profile)

ReadValuesYAML(profile) ==
  CASE IsBuiltin(profile) -> Builtin(profile)
    [] ~IsBuiltin(profile) /\ profile \in DOMAIN LocalFiles -> LocalFiles[profile]
    [] OTHER -> Bad

\* The profile of a CR, and the CR laid over it.
ProfileOf(cr) == ReadValuesYAML(ProfileName(ToStruct(cr)))
MergedWith(cr) == OverlayYAML(ProfileOf(cr), cr)
Mergeable == {cr \in Inputs : /\ ToStruct(cr) # Bad /\ ~Failed(ProfileOf(cr))
                              /\ MergedWith(cr) # Bad /\ ToStruct(MergedWith(cr)) # Bad}

\* The profile that a text names; the struct has the empty text for none.
Says(text, k) == text # Null /\ Has(text, k)
NamedProfile(text) ==
  IF text = Null \/ Entry(text, "profile") = Null THEN "" ELSE Entry(text, "profile").leaf

\* Unmarshalling and merging keep the name of the profile: the CR's, if it says
\* anything of it.  The default profile names no other one.
ASSUME ProfileAssumption ==
  /\ IsBuiltin("") /\ Entry(Builtin(""), "profile") = Null
  /\ \A cr \in Inputs : ToStruct(cr) # Bad =>
       ProfileName(ToStruct(cr)) = NamedProfile(cr)
  /\ \A cr \in Mergeable :
       /\ MergedWith(cr) # Null /\ ToStruct(MergedWith(cr)) # Null
       /\ ProfileName(ToStruct(MergedWith(cr))) = NamedProfile(MergedWith(cr))
       /\ Entry(MergedWith(cr), "profile") =
            IF Says(cr, "profile") THEN Entry(cr, "profile") ELSE Entry(ProfileOf(cr), "profile")

\* A spec has no field for the feature of the base component.
ASSUME BaseAssumption ==
  \A cr \in Mergeable : \A i \in DOMAIN Components :
    Components[i][2] = BaseComponent =>
      ~IsEnabled(ToStruct(MergedWith(cr)), Components[i][1], BaseComponent)

\* The built-in profiles and the charts of all components are compiled in.
ASSUME PackagedAssumption ==
  /\ \A cr \in Inputs : ToStruct(cr) # Bad /\ IsBuiltin(ProfileName(ToStruct(cr))) =>
       Builtin(ProfileName(ToStruct(cr))) # Panic
  /\ \A p \in DOMAIN LocalFiles : LocalFiles[p] # Panic
  /\ \A c \in Names : ChartIn(CleanPath[""] \o HelmSubdir[c]) # Panic

VARIABLES
  cmd, dryRun, output, input,  \* the command line; output: -o was given
  step,       \* what the command is doing
  user,       \* the CR as a struct
  base,       \* the text of the profile
  spec,       \* profile and CR merged
  charts,     \* the renderers, in the order of Components
  manifests,  \* component -> "text" or "empty"
  todo,       \* what the loop over a map has still to visit
  dirs, files,  \* paths below the output directory
  outFile,    \* what is in the output file of dump-profile
  stdout,     \* what was printed
  cluster     \* the components applied

vars == <<cmd, dryRun, output, input, step, user, base, spec, charts, manifests, todo,
          dirs, files, outFile, stdout, cluster>>
args == <<cmd, dryRun, output, input>>
outVars == <<dirs, files, outFile, stdout, cluster>>

Init ==
  /\ cmd \in {"install", "manifest", "dump-profile"}
  /\ dryRun \in BOOLEAN /\ output \in BOOLEAN /\ input \in Inputs
  /\ step = "open"
  /\ user = Null /\ base = Null /\ spec = Null
  /\ charts = <<>> /\ manifests = <<>> /\ todo = {}
  /\ dirs = {} /\ files = {} /\ cluster = {}
  /\ outFile = Leaf("as before") /\ stdout = <<>>
-----------------------------------------------------------------------------
(* Reading the CR and the profile.                                          *)

\* log.Fatalf ends the program, and so does a panic.
Stop(error) == step' = IF error = Panic THEN "panic" ELSE "fatal"

OpenInput ==
  /\ step = "open"
  /\ IF input = Bad THEN Stop(Bad)
     ELSE step' = IF cmd = "dump-profile" THEN "writer" ELSE "CR"
  /\ UNCHANGED <<args, user, base, spec, charts, manifests, todo, outVars>>

\* dump-profile empties its output file before it looks at the CR.
getWriter ==
  /\ step = "writer"
  /\ \/ output /\ outFile' = Null /\ step' = "CR"
     \/ output /\ MayFail /\ Stop(Bad) /\ UNCHANGED outFile
     \/ ~output /\ step' = "CR" /\ UNCHANGED outFile
  /\ UNCHANGED <<args, user, base, spec, charts, manifests, todo, dirs, files, stdout, cluster>>

Valid(s) == s # Bad /\ IsValid(s)

CheckFieldsOnly ==
  /\ step = "CR"
  /\ LET s == ToStruct(input)
     IN  IF s # Bad THEN user' = s /\ step' = "profile" ELSE Stop(Bad) /\ UNCHANGED user
  /\ UNCHANGED <<args, base, spec, charts, manifests, todo, outVars>>

CheckCR ==
  /\ step = "CR"
  /\ LET s == ToStruct(input)
     IN  IF Valid(s) THEN user' = s /\ step' = "profile" ELSE Stop(Bad) /\ UNCHANGED user
  /\ UNCHANGED <<args, base, spec, charts, manifests, todo, outVars>>

ReadProfile ==
  /\ step = "profile"
  /\ LET yaml == ReadValuesYAML(ProfileName(user))
     IN  IF Failed(yaml) THEN Stop(yaml) /\ UNCHANGED base
         ELSE base' = yaml /\ step' = IF cmd = "dump-profile" THEN "dump" ELSE "merge"
  /\ UNCHANGED <<args, user, spec, charts, manifests, todo, outVars>>

\* The profile goes out as it is.  What is written of it before an error is left out.
DumpProfile ==
  /\ step = "dump"
  /\ \/ output /\ outFile' = base /\ step' = "done" /\ UNCHANGED stdout
     \/ ~output /\ stdout' = <<base>> /\ step' = "done" /\ UNCHANGED outFile
     \/ MayFail /\ Stop(Bad) /\ UNCHANGED <<outFile, stdout>>
  /\ UNCHANGED <<args, user, base, spec, charts, manifests, todo, dirs, files, cluster>>

MergeUnchecked ==
  /\ step = "merge"
  /\ LET merged == OverlayYAML(base, input)
         s == IF merged = Bad THEN Bad ELSE ToStruct(merged)
     IN  IF Valid(ToStruct(base)) /\ Valid(s)
           THEN spec' = s /\ step' = "charts" ELSE Stop(Bad) /\ UNCHANGED spec
  /\ UNCHANGED <<args, user, base, charts, manifests, todo, outVars>>

\* The profile must be valid by itself; what is merged must be valid, and must
\* come out of the struct as it went in.
MergeSpecs ==
  /\ step = "merge"
  /\ LET merged == OverlayYAML(base, input)
         s == IF merged = Bad THEN Bad ELSE ToStruct(merged)
     IN  IF Valid(ToStruct(base)) /\ Valid(s) /\ ToYAML(s) = merged
           THEN spec' = s /\ step' = "charts" ELSE Stop(Bad) /\ UNCHANGED spec
  /\ UNCHANGED <<args, user, base, charts, manifests, todo, outVars>>
-----------------------------------------------------------------------------
(* The control plane.                                                       *)

DefaultValues == ReadValuesYAML("")

\* NewHelmRenderer reads the profile again, now the merged spec's.
GlobalValues == ReadValuesYAML(ProfileName(spec))

\* createHelmRenderer and Run of one component.  Joined to the package path,
\* file:/// is no longer a file path, so that the chart is always looked for among
\* the embedded ones.
LoadChart ==
  /\ step = "charts"
  /\ LET component == Components[Len(charts) + 1][2]
         values == GlobalValues
         chart == ChartIn(CleanPath[PackagePath(spec)] \o HelmSubdir[component])
     IN  IF Failed(values) \/ Failed(chart)
           THEN Stop(IF Failed(values) THEN values ELSE chart) /\ UNCHANGED charts
           ELSE /\ charts' = Append(charts, [values |-> values, files |-> chart.files])
                /\ step' = IF Len(charts') = Len(Components) THEN "render" ELSE "charts"
  /\ UNCHANGED <<args, user, base, spec, manifests, todo, outVars>>

Enabled(c) == \E i \in DOMAIN Components : Components[i][2] = c
                 /\ IsEnabled(spec, Components[i][1], c)

\* All manifests or an error; a patch may make the program panic, as
\* ComponentManifest has it.  A disabled component's manifest is a comment; a chart
\* may have no objects.
RenderManifest ==
  /\ step = "render"
  /\ \/ /\ manifests' \in [Names -> {"text", "empty"}]
        /\ \A c \in Names : ~Enabled(c) => manifests'[c] = "text"
        /\ step' = CASE cmd = "install" -> "apply"
                     [] cmd = "manifest" /\ output -> "mkdir"
                     [] OTHER -> "print"
        /\ todo' = Names
     \/ /\ MayFail
        /\ \E error \in {Bad, Panic} : Stop(error)
        /\ UNCHANGED <<manifests, todo>>
  /\ UNCHANGED <<args, user, base, spec, charts, outVars>>

\* ApplyAll, as Installer has it: there is no configuration to reach the cluster, or
\* the goroutine of some component fails, and the program waits for it for ever.
ApplyAll ==
  /\ step = "apply"
  /\ \/ cluster' = (IF dryRun THEN {} ELSE Names) /\ step' = "done"
     \/ MayFail /\ Stop(Bad) /\ UNCHANGED cluster
     \/ MayFail /\ step' = "hung" /\ cluster' \in (IF dryRun THEN {{}} ELSE SUBSET Names)
  /\ UNCHANGED <<args, user, base, spec, charts, manifests, todo, dirs, files, outFile, stdout>>

PrintManifest(c) ==
  /\ step = "print"
  /\ c \in todo
  /\ stdout' = Append(stdout, c)
  /\ todo' = todo \ {c}
  /\ step' = IF todo' = {} THEN "done" ELSE "print"
  /\ UNCHANGED <<args, user, base, spec, charts, manifests, dirs, files, outFile, cluster>>
-----------------------------------------------------------------------------
(* RenderToDir.                                                             *)

\* The directory is made in a dry run too.
MakeOutputDir ==
  /\ step = "mkdir"
  /\ \/ dirs' = {<<>>} /\ step' = "write" /\ todo' = {BaseComponent}
     \/ MayFail /\ Stop(Bad) /\ UNCHANGED <<dirs, todo>>
  /\ UNCHANGED <<args, user, base, spec, charts, manifests, files, outFile, stdout, cluster>>

\* A component's directory is within its parent's.
DirOf(c) == IF c = BaseComponent THEN <<c>> ELSE <<BaseComponent, c>>

WriteInDryRun(c) ==
  /\ step = "write"
  /\ c \in todo
  /\ dirs' = dirs \cup {DirOf(c)} /\ files' = files \cup {Append(DirOf(c), c)}
  /\ todo' = (todo \ {c}) \cup Children[c]
  /\ UNCHANGED <<args, step, user, base, spec, charts, manifests, outFile, stdout, cluster>>

ReturnAtLeaf(c) ==
  /\ step = "write"
  /\ c \in todo
  /\ IF manifests[c] = "empty" \/ dryRun THEN UNCHANGED <<dirs, files>>
     ELSE dirs' = dirs \cup {DirOf(c)} /\ files' = files \cup {Append(DirOf(c), c)}
  /\ todo' = IF manifests[c] = "empty" THEN todo \ {c} ELSE Children[c]
  /\ UNCHANGED <<args, step, user, base, spec, charts, manifests, outFile, stdout, cluster>>

\* One turn of renderRecursive; an empty manifest ends it, with the components
\* below, and an error ends all of it.
WriteManifest(c) ==
  /\ step = "write"
  /\ c \in todo
  /\ \/ /\ manifests[c] = "empty"
        /\ todo' = todo \ {c}
        /\ UNCHANGED <<step, dirs, files>>
     \/ /\ manifests[c] # "empty"
        /\ todo' = (todo \ {c}) \cup Children[c]
        /\ IF dryRun THEN UNCHANGED <<dirs, files>>
           ELSE dirs' = dirs \cup {DirOf(c)} /\ files' = files \cup {Append(DirOf(c), c)}
        /\ UNCHANGED step
     \/ /\ manifests[c] # "empty" /\ ~dryRun /\ MayFail
        /\ step' = "logged"
        /\ dirs' \in {dirs, dirs \cup {DirOf(c)}}
        /\ UNCHANGED <<todo, files>>
  /\ UNCHANGED <<args, user, base, spec, charts, manifests, outFile, stdout, cluster>>

\* The program ends without an error, also when one was logged.
RenderToDirReturns ==
  /\ step = "write" /\ todo = {}
  /\ step' = "done"
  /\ UNCHANGED <<args, user, base, spec, charts, manifests, todo, outVars>>

Next ==
  \/ OpenInput \/ getWriter \/ CheckCR \/ ReadProfile \/ DumpProfile
  \/ MergeSpecs \/ LoadChart \/ RenderManifest \/ ApplyAll
  \/ \E c \in Names : PrintManifest(c)
  \/ MakeOutputDir
  \/ \E c \in Names : WriteManifest(c)
  \/ RenderToDirReturns

Spec == Init /\ [][Next]_vars
-----------------------------------------------------------------------------
\* "the user CR (which is an overlay on the base profile)": at each path of keys
\* the spec that is rendered says what the CR says wherever the CR says something,
\* to the point of an explicit zero or null, what the profile says elsewhere, and
\* nothing else.  A CR of which something would get lost on the way is refused.
UserOverProfile ==
  spec # Null =>
    LET yaml == ToYAML(spec)
    IN  \A p \in Nodes(yaml) \cup Nodes(input) \cup Nodes(base) :
          LET said == Said(IF Touches(input, p) THEN input ELSE base, p)
          IN  /\ IF IsMap(said) THEN IsMap(Said(yaml, p)) ELSE Said(yaml, p) = said
              /\ Touches(input, p) /\ said = Null => ~Present(yaml, p)

Paths == {Append(DirOf(c), c) : c \in Names}

\* Every variable is of its kind; what is kept of the CR and of the merged spec
\* is valid, and a renderer has the text of a profile.
TypeOK ==
  /\ cmd \in {"install", "manifest", "dump-profile"}
  /\ {dryRun, output} \subseteq BOOLEAN /\ input \in Inputs
  /\ step \in {"open", "writer", "CR", "profile", "dump", "merge", "charts", "render",
               "apply", "hung", "print", "mkdir", "write", "logged", "done", "fatal", "panic"}
  /\ \A s \in {user, spec} : s = Null \/ Valid(s)
  /\ ~Failed(base)
  /\ \A i \in DOMAIN charts : ~Failed(charts[i].values)
  /\ manifests \in [Names -> {"text", "empty"}] \cup {<<>>}
  /\ todo \subseteq Names /\ cluster \subseteq Names
  /\ files \subseteq Paths
  /\ dirs \subseteq {<<>>} \cup {DirOf(c) : c \in Names}
  /\ outFile \in {Leaf("as before"), Null, base}
  /\ IF cmd = "dump-profile" THEN stdout \in {<<>>, <<base>>} ELSE stdout \in Seq(Names)

\* The profile is read twice, by genManifests for the CR and for each renderer
\* for the merged spec: all charts get the values of the profile that the spec
\* was built on.
ProfileOfCharts == \A i \in DOMAIN charts : charts[i].values = base

\* When the output directory has been written without an error, each component
\* with a manifest has its file there, in the directory of its parent, and no
\* other file was written: in whatever order the map was visited, neither a leaf
\* nor an empty manifest ends the loop.
DirComplete ==
  step = "done" /\ cmd = "manifest" /\ output /\ ~dryRun =>
    files = {Append(DirOf(c), c) : c \in {n \in Names : manifests[n] = "text"}}

\* "Dry run performs all steps except actually applying the manifests or creating
\* output dirs/files": no manifest is written or applied in a dry run.  (The
\* output directory itself and the file of dump-profile are created all the same.)
DryRunWritesNoManifest ==
  dryRun => files = {} /\ cluster = {} /\ dirs \subseteq {<<>>}

\* Until all charts are loaded the program panics only for a CR, or a profile, with a
\* package path of its own: neither reading the CR and the profiles, nor a chart that is
\* compiled in, is a reason.  (Afterwards a patch may be one.)
LoadPanicNamesPackage ==
  step = "panic" /\ Len(charts) < Len(Components) =>
    spec # Null /\ PackagePath(spec) # ""
=============================================================================
