SPECIFICATION Spec
CONSTANTS
  Writers = {"output"}
  SealingRaises = {"output"}
  NumPages = 2
  MaxAttempts = 2
INVARIANT
  ManifestImpliesData
