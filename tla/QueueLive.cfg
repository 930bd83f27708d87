SPECIFICATION FairSpec
CONSTANTS
  Callers = {c1}
  MaxQueued = 0
  MaxEntries = 2
  Failures = {"lost"}
PROPERTIES CallsReturn EveryEntryRetires
\* The threads are gone for good after ~DxvkDevice.
CHECK_DEADLOCK FALSE
