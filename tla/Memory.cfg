SPECIFICATION Spec
CONSTANTS
  Memories = {m1, m2, m3}
  NumTypes = 2
  TypeFlags <- MCTypeFlags
  TypeHeap <- MCTypeHeap
  HeapSize <- MCHeapSize
  MaxChunkSize = 8
  SmallChunkSize = 8
  HostChunkSize = 4
  SmallAllocation = 1
  MaxTries = 2
  MaxEmptyHost = 2
  Granularity = 2
  Requests <- MCRequests
  CounterRange = 2
  MaxUsed = 3
INVARIANTS ChunksPartitioned MemoryBacked StatsExact EmptyChunksBounded GranularityRespected
SYMMETRY Symmetry
