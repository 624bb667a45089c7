SPECIFICATION FairSpec
CONSTANTS
  Slots <- ThreeSlots
  NoSlot = NoSlot
  Contents = {"v1"}
  PolicySets <- RetainTargetEdits
  Src <- MCSrc
  ClusterLabels <- MCClusterLabels
  NoLabels = "unlabelled"
  ForeignObjects <- NoOthers
  InitNamespaces <- AllNamespaces
  InitTargets <- ThreeTargets
  Requested = {"Fail"}
  StaleReads = FALSE
  Disturbances = {"targets", "policies", "link", "crash"}
  MaxDisturbances = 3
INVARIANT RetainKeeps
PROPERTIES StatusSettles 
