SPECIFICATION FairSpec
CONSTANTS
  Annotations <- AllRequests
  Clusters = {"c1", "c2"}
  ClusterLabels <- MCClusterLabels
  PolicySets <- Narrowed
  Src <- MCSrc
  MaxUID = 2
  StaleReads = FALSE
  Disturbances = {"create", "annotate", "delete", "occupy", "policies", "fleet", "restart", "allowlist"}
  MaxDisturbances = 4
INVARIANTS SourceOutlivesReplicas
PROPERTIES HandsOff MaterializeCompletes ReleaseCompletes ResolutionReported
