SPECIFICATION FairSpec
CONSTANTS
  Slices = {s1, s2, s3, s4}
  MaxSliceCount = 2
  MaxCalls = 3
INVARIANTS MappedExclusive MapSeesLatest GpuReadsInOrder SlicesConserved
PROPERTIES MapReturns
\* The application has no calls left.
CHECK_DEADLOCK FALSE
