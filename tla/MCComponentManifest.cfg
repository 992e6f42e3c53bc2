CONSTANTS
  SetBelow <- setTree
  PatchBelow <- Patch
  LookupBelow <- Lookup
  LeavesBelow <- Leaves
  PresentBelow <- Present
  PruneBelow <- PruneNulls
  MergeBelow <- Merge
  FitsBelow <- Fits
  NodesBelow <- Nodes
  TouchesBelow <- Touches
  RegexMatches <- MCRegexMatches
  APIMapping <- MCAPIMapping
  Lowered <- MCLowered
  ValidTexts <- MCValidTexts
  Specs <- MCSpecs
  feature = "Policy"
  name = "Policy"
  BaseComponent = "crds"
  ToHelmValuesNames <- MCToHelmValuesNames
  ResourceName = "istio-policy"
  ContainerName = "mixer"
  FeatureComponentToValues <- MCTable
  Chart <- MCChart
  IsEnabled <- IsComponentEnabled
  NamespaceOf <- Namespace
  GetPath <- GetFromStructPath
  ReadPath <- SetFromPath
  ToValues <- ProtoToValues
  AsYAML <- Marshalled
SPECIFICATION Spec
INVARIANTS TypeOK MappedLeavesWritten ValuesPrecedence SettingsReadBack SettingsFrame EveryObjectOnce PatchesTouchOnlyNamed FailureNamesMissingNode
CHECK_DEADLOCK FALSE
