CONSTANTS
  NumTasks = 2
  NumTiles = 2
  NumKvBuffers = 1
  NumOutputBuffers = 1
  NumConsumerBuffers = 1
  MaxCalls = 2
  Follows <- MCFollows
  Interrupted = {"host"}
SPECIFICATION Spec
INVARIANT InputsReleased
PROPERTIES KeepsItsPromise
