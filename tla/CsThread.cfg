SPECIFICATION FairSpec
CONSTANTS
  Callers = {c1, c2}
  Serialized = TRUE
  MayThrow = TRUE
  MaxChunks = 4
  SynchronizeAll = 5
INVARIANTS ExecutionOrder SynchronizeSound
PROPERTIES StreamSpec EveryChunkRuns CallsReturn
\* The worker and the callers are gone for good after ~DxvkCsThread.
CHECK_DEADLOCK FALSE
