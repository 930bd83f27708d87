SPECIFICATION FairSpec
CONSTANTS
  NumWorkers = 4
  Gpl = TRUE
  MaxTasks = 3
  MaxItems = 1
INVARIANTS PendingIsServed JobsAccounted
PROPERTIES EveryJobCompiles DestroyReturns
CHECK_DEADLOCK FALSE
