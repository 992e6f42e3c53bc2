CONSTANTS
  SetBelow <- setTree
  PatchBelow <- Patch
  LookupBelow <- Lookup
  LeavesBelow <- Leaves
  PresentBelow <- Present
  PruneBelow <- PruneNulls
  MergeBelow <- Merge
  FitsBelow <- Fits
  NodesBelow <- Nodes
  TouchesBelow <- Touches
  RegexMatches = {}
  APIMapping <- MCNone
  Lowered <- MCNone
  ValidTexts <- MCValidTexts
  JSONName <- MCJSONName
  Assets <- MCAssets
  Window = 4
  ToStruct <- UnmarshalWithJSONPB
  ToYAML <- ToYAMLWithJSONPB
  IsValid <- ValidSpec
  IsBuiltin <- isBuiltinProfileName
  Builtin <- LoadValuesVFS
  ChartIn <- loadChart
  IsEnabled <- IsComponentEnabled
  Inputs <- MCInputs
  LocalFiles <- MCLocalFiles
  CleanPath <- MCCleanPath
  Components <- MCComponents
  HelmSubdir <- MCHelmSubdir
  BaseComponent = "crds"
  Children <- MCChildren
  MayFail = TRUE
SPECIFICATION Spec
INVARIANTS TypeOK IInv UserOverProfile ProfileOfCharts ChartComplete DirComplete DryRunWritesNoManifest LoadPanicNamesPackage
CHECK_DEADLOCK FALSE
