SPECIFICATION Spec
CONSTANTS
  Slots <- OneSlot
  NoSlot = NoSlot
  Contents = {"v1", "v2"}
  PolicySets <- OnOff
  Src <- MCSrc
  ClusterLabels <- MCClusterLabels
  NoLabels = "unlabelled"
  ForeignObjects <- Others
  InitNamespaces <- AllNamespaces
  InitTargets <- SomeTarget
  Requested = {"Fail", "Adopt", "Overwrite"}
  StaleReads = FALSE
  Disturbances = {"targets", "delete", "create", "source", "policies", "fleet", "link", "namespaces", "spokes", "keys", "crash", "allowlist", "immutable"}
  MaxDisturbances = 3
INVARIANTS Tracked
PROPERTIES ForeignNeedsConsent
