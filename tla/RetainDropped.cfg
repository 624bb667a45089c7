SPECIFICATION SysSpec
CONSTANTS
  Slots <- TwoSlots
  Wanted <- TwoSlots
  NoSlot = NoSlot
  Contents = {"v1", "v2"}
  PolicySets <- RetainTargetEdits
  Src <- MCSrc
  ClusterLabels <- MCClusterLabels
  NoLabels = "unlabelled"
  ForeignObjects <- NoOthers
  InitNamespaces <- AllNamespaces
  InitTargets <- NoTargets
  Requested = {"Fail"}
  StaleReads = FALSE
  Disturbances = {"policies"}
  MaxDisturbances = 1
INVARIANT RetainHolds
