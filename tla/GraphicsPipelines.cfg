SPECIFICATION FairSpec
CONSTANTS
  g1 = g1
  g2 = g2
  s1 = s1
  s2 = s2
  Pipelines = {g1, g2}
  States = {s1, s2}
  Drawn <- MCDrawn
  Linkable <- MCLinkable
  MaxJobs = 2
  MaxInFlight = 1
INVARIANT HandlesAlive
PROPERTY InstancesOptimized
\* Nothing need happen once all jobs are done.
CHECK_DEADLOCK FALSE
