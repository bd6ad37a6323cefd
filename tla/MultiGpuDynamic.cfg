SPECIFICATION Spec
CONSTANTS
  Workers <- Devices
  QBounds <- Bounds
  TailNum = 5
  TailDen = 4
  BlockM <- BlockMOf
  QMinTokens <- QMinOf
  QCapacityTokens <- QCapacityOf
  InitialQTokens <- InitialQOf
  ThresholdNum = 1
  ThresholdDen = 8
  StepNum = 5
  StepDen = 4
  MaxCalls = 2
INVARIANTS
  TokensComputedOnce
  TasksFitTheirWorker
  SizesStayAligned
PROPERTIES
  KeepsItsPromise
  CallsEnd
