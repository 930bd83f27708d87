SPECIFICATION FairFenceSpec
CONSTANTS
  Events = {e1, e2, e3}
  MaxValue = 3
  MayFail = TRUE
INVARIANTS FiredOnceReached
PROPERTIES FiresWhenAllReached DestroyTerminates
\* Nothing happens any more once the fence is destroyed.
CHECK_DEADLOCK FALSE
