CONSTANTS
  NumPages = 6
  Capacity = 4
  HotPercent = 50
  NumStages = 3
  IoWorkers = 3
  ScanPages <- TwoSegments
  DeviceCopy = TRUE
SPECIFICATION Spec
INVARIANTS
  StagesHoldTheirPage
  CacheConsistent
  KeptPagesReadOnce
  NoLoadAfterClose
PROPERTY
  RunEnds
