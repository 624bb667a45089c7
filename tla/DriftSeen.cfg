SPECIFICATION FairSpec
CONSTANTS
  Kinds = {"Secret"}
  Reps = {"r1", "r2"}
  KindOf <- OneKind
  MaxCaches = 3
  Threads <- AllThreads
  ChannelSize = 1
  Disturbances = {"fleet", "link", "runtime", "drift", "replication"}
  MaxDisturbances = 2
INVARIANTS TypeOK NothingForgotten
PROPERTIES KindsWatched DriftRepaired NobodyWaits
