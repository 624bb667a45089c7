SPECIFICATION FairSpec
CONSTANTS
  Slots <- OneSlot
  NoSlot = NoSlot
  Contents = {"v1", "v2"}
  PolicySets <- Always
  Src <- MCSrc
  ClusterLabels <- MCClusterLabels
  NoLabels = "unlabelled"
  ForeignObjects <- NoOthers
  InitNamespaces <- AllNamespaces
  InitTargets <- SomeTarget
  Requested = {"Fail"}
  StaleReads = TRUE
  Disturbances = {"targets", "delete", "create", "source", "fleet", "link", "crash", "unowned"}
  MaxDisturbances = 3
PROPERTIES DeliveryCompletes CleanupCompletes
