SPECIFICATION FairSpec
CONSTANTS
  Annotations <- OnOffRequests
  Clusters = {"c1"}
  ClusterLabels <- MCClusterLabels
  PolicySets <- Narrowed
  Src <- MCSrc
  MaxUID = 1
  StaleReads = TRUE
  Disturbances = {"create", "annotate", "delete", "policies", "fleet"}
  MaxDisturbances = 4
PROPERTIES NoLostUpdates MaterializeCompletes ReleaseCompletes
