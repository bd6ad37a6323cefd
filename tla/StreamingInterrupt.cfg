CONSTANTS
  NumTasks = 2
  NumTiles = 2
  NumKvBuffers = 1
  NumOutputBuffers = 1
  NumConsumerBuffers = 1
  MaxCalls = 2
  Follows <- MCRetries
  Interrupted = {"device_consumer"}
SPECIFICATION Spec
INVARIANT ReturnedOutputsExact
