SPECIFICATION Spec
CONSTANTS
  NumDevices = 2
  Clients = {main, other}
  Interruptible = {main}
  MaxCalls = 3
INVARIANTS
  RunnerSingleFlight
  EndedCallsAreQuiet
  NothingRunsAfterClose
PROPERTIES
  CallsEnd
  CloseReturns
