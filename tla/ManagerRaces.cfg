SPECIFICATION FairSpec
CONSTANTS
  MaxRuns = 3
  Threshold = 2
  BaseDelay = 2
  MaxDelay = 5
  Disturbances = {"fleet", "link", "factory", "runtime"}
  MaxDisturbances = 5
INVARIANTS OneRuntimeUnlessRaced BackoffBounded
PROPERTIES AttachCompletes   ImplementsSpokeRuntime
