SPECIFICATION Spec
CONSTANTS
  Runners <- MCRunners
  Shape <- MCShape
  Retried <- MCRetried
INVARIANTS
  ReturnsLastVersions
  CallsEndQuiet
  WeightsAreLeased
PROPERTY KeepsItsPromise
