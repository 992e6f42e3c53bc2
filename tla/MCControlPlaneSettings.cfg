CONSTANTS
  Features <- MCFeatures
  ComponentsOf <- MCComponentsOf
  SpecFeatures <- MCSpecFeatures
  SpecPairs <- MCPairs
  ValuePairs <- MCPairs
  NamespacePath <- MCNamespacePath
  PilotComponentName = "Pilot"
  Namespaces = {"system", "control"}
  Setting = {"replicas", "hpaSpec"}
  NumericSetting = {"replicas"}
  TargetKind <- MCTargetKind
  ChartKinds <- MCChartKinds
  MayFail = FALSE
  Specs <- MCSpecs
  Unset = Unset
  NoPath = NoPath
  NoFeature = NoFeature
  Disabled = Disabled
  Empty = Empty
SPECIFICATION Spec
INVARIANT OnlyGivenSettings
CHECK_DEADLOCK FALSE
