SPECIFICATION Spec
CONSTANTS
  Callers = {c1, c2}
  MaxQueued = 0
  MaxEntries = 2
  Failures = {"lost", "error"}
INVARIANTS ReleasedAfterGpu EntriesConserved IdleMeansRetired
PROPERTY QueueSpec
\* The threads are gone for good after ~DxvkDevice.
CHECK_DEADLOCK FALSE
