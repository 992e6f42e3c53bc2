CONSTANTS
  crds = crds
  pilot = pilot
  galley = galley
  ingress = ingress
  crd1 = crd1
  crd2 = crd2
  pilotCRD = pilotCRD
  galleyCRD = galleyCRD
  pilotDeploy = pilotDeploy
  galleyDeploy = galleyDeploy
  oldDeploy = oldDeploy
  nsCluster = nsCluster
  nsControl = nsControl
  nsConfig = nsConfig
  NoManifest = NoManifest
  Component <- MCComponent
  Dependencies <- MCDependencies
  Manifests <- MCManifests
  Object <- MCObject
  ObjectsOf <- RenderedObjectsOf
  CRD <- MCCRD
  Prunable <- MCPrunable
  Unparsable <- NoUnparsable
  Preinstalled <- NoPreinstalled
  SharedLoopVar = FALSE
  MayFail = FALSE
  MaxPolls = 2
  MaxReruns = 0
  NamespaceOf <- OwnNamespaces
SPECIFICATION FairSpec
PROPERTY TimeoutEndsWait
CHECK_DEADLOCK FALSE
