CONSTANTS
  crds = crds
  pilot = pilot
  galley = galley
  ingress = ingress
  crd1 = crd1
  crd2 = crd2
  pilotCRD = pilotCRD
  galleyCRD = galleyCRD
  pilotDeploy = pilotDeploy
  galleyDeploy = galleyDeploy
  oldDeploy = oldDeploy
  nsCluster = nsCluster
  nsControl = nsControl
  nsConfig = nsConfig
  NoManifest = NoManifest
  Component <- MCComponent
  Dependencies <- MCDependencies
  Manifests <- MCManifests
  Object <- MCObject
  ObjectsOf <- MCObjectsOf
  CRD <- MCCRD
  Prunable <- MCPrunable
  Unparsable <- NoUnparsable
  Preinstalled <- MCPreinstalled
  SharedLoopVar = FALSE
  MayFail = TRUE
  MaxPolls = 2
  MaxReruns = 1
  NamespaceOf <- OwnNamespaces
SPECIFICATION Spec
INVARIANTS ResultInv InstallComplete StaleRemoved
CHECK_DEADLOCK FALSE
