SPECIFICATION Spec
CONSTANTS
  Writers = {"output", "qkv"}
  SealingRaises = {"qkv"}
  NumPages = 2
  MaxAttempts = 2
INVARIANTS
  ManifestImpliesData
  AcknowledgedSurvives
  FailuresLeaveNoTemporaries
