CONSTANTS
  NumQPages = 3
  KvPagesOf <- OneSegment
  ChunksPerPage = 1
  TilesPerPage = 1
  NumStages = 2
  NumOutputs = 2
  IoWorkers = 2
SPECIFICATION Spec
INVARIANT
  DeliveredPagesExact
