SPECIFICATION Spec
CONSTANTS
  Devices = {d1, d2}
  RowCount = 2
  ChunkTokens = 1
  QCapacity = 2
  OutputBuffers = 2
  BlockCount = 2
  MaxRaises = 1
SYMMETRY Symmetry
INVARIANTS
  CallsEndQuiet
  WeightsAreLeased
PROPERTY KeepsItsPromise
