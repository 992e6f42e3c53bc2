CONSTANTS
  Features <- MCFeatures
  ComponentsOf <- MCComponentsOf
  SpecFeatures <- MCSpecFeatures
  SpecPairs <- MCPairs
  ValuePairs <- MCPairs
  NamespacePath <- MCNamespacePath
  PilotComponentName = "Pilot"
  Namespaces = {"system", "control"}
  Setting = {"replicas", "hpaSpec"}
  NumericSetting = {"replicas"}
  TargetKind <- MCTargetKind
  ChartKinds <- MCChartKinds
  MayFail = TRUE
  Specs <- MCSpecs
  Unset = Unset
  NoPath = NoPath
  NoFeature = NoFeature
  Disabled = Disabled
  Empty = Empty
SPECIFICATION Spec
INVARIANTS TypeOK IInv ChartsAgreeWithManifests LaterFeatureDecides SettingsSurvive NamespacesFromWriters
PROPERTY ImplementsRendering
CHECK_DEADLOCK FALSE
