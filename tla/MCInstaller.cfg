CONSTANTS
  crds = crds
  pilot = pilot
  galley = galley
  ingress = ingress
  crd1 = crd1
  crd2 = crd2
  pilotCRD = pilotCRD
  galleyCRD = galleyCRD
  pilotDeploy = pilotDeploy
  galleyDeploy = galleyDeploy
  oldDeploy = oldDeploy
  nsCluster = nsCluster
  nsControl = nsControl
  nsConfig = nsConfig
  NoManifest = NoManifest
  Component <- MCComponent
  Dependencies <- MCDependencies
  Manifests <- MCManifests
  Object <- MCObject
  ObjectsOf <- MCObjectsOf
  CRD <- MCCRD
  Prunable <- MCPrunable
  Unparsable <- MCUnparsable
  Preinstalled <- MCPreinstalled
  SharedLoopVar = TRUE
  MayFail = TRUE
  MaxPolls = 2
  MaxReruns = 0
  NamespaceOf <- SharedNamespace
SPECIFICATION FairSpec
INVARIANTS TypeOK IInv DependencyOrder ReturnMeansApplied SignalNeverBlocks CRDsFirst DryRunNeedsNoCluster
PROPERTIES Progress ImplementsOrder
CHECK_DEADLOCK FALSE
