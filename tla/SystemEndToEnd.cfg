SPECIFICATION SysSpec
CONSTANTS
  Slots <- OneSlot
  Wanted <- OneSlot
  NoSlot = NoSlot
  Contents = {"v1", "v2"}
  PolicySets <- OnOff
  Src <- MCSrc
  ClusterLabels <- MCClusterLabels
  NoLabels = "unlabelled"
  ForeignObjects <- Others
  InitNamespaces <- AllNamespaces
  InitTargets <- NoTargets
  Requested = {"Fail"}
  StaleReads = FALSE
  Disturbances = {"request", "source", "policies", "fleet", "link", "namespaces", "spokes", "crash", "immutable"}
  MaxDisturbances = 3
PROPERTIES EndToEndDelivery EndToEndCleanup ReadyIsTruthful
