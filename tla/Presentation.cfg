SPECIFICATION FairSpec
CONSTANTS
  PresentWait = {TRUE, FALSE}
  Latencies = {1, 2}
  MaxInterval = 2
  MaxCalls = 2
  MaxFaults = 1
INVARIANT PresenterKept
PROPERTIES CalledBackOnce PresentReturns
\* The application has no calls left, or is gone.
CHECK_DEADLOCK FALSE
