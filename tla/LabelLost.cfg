SPECIFICATION AllFairSpec
CONSTANTS
  TTL = 6
  Num = 1
  Den = 2
  Skews <- SmallSkews
  MaxMint = 1
  AgeCap = 8
  Scopes = {"all", "secrets"}
  Objects = {"ns1"}
  Conditions <- SomeConditions
  Labelings <- SomeLabelings
  Serving <- ServedOnly
  Disturbances = {"object"}
  MaxDisturbances = 1

PROPERTY LabelsAgree
