SPECIFICATION ContextSpec
CONSTANTS
  Views <- MCViews
  Targets <- MCTargets
  Shared = {"color"}
  Values = {v1, v2}
  Undef = Undef
  MaxCalls = 4
SYMMETRY Symmetric
INVARIANTS ContentsInOrder LayoutsTracked
CHECK_DEADLOCK FALSE
