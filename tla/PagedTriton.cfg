CONSTANTS
  NumQPages = 3
  KvPagesOf <- TwoSegments
  ChunksPerPage = 2
  TilesPerPage = 2
  NumStages = 2
  NumOutputs = 2
  IoWorkers = 2
  NumKvBuffers = 2
  NumDeviceOutputs = 1
SPECIFICATION Spec
INVARIANTS
  DeliveredPagesExact
  NoIoOnceOver
PROPERTIES
  KeepsItsPromise
  CallEnds
