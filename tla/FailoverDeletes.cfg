SPECIFICATION SysSpec
CONSTANTS
  Slots <- OneSlot
  Wanted <- OneSlot
  NoSlot = NoSlot
  Contents = {"v1", "v2"}
  PolicySets <- Always
  Src <- MCSrc
  ClusterLabels <- MCClusterLabels
  NoLabels = "unlabelled"
  ForeignObjects <- NoOthers
  InitNamespaces <- AllNamespaces
  InitTargets <- NoTargets
  Requested = {"Fail"}
  StaleReads = FALSE
  Disturbances = {"crash"}
  MaxDisturbances = 1
INVARIANT NoNeedlessDelete
