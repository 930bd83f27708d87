SPECIFICATION Spec
CONSTANTS
  Width = 6
  Starts = {0, 3, 5}
  MaxPrimitives = 2
  MaxDraws = 2
  States = {x, y}
  Streams = {v1, v2}
  IndexBuffers = {i1}
  Null = Null
INVARIANTS FlushDrawsWhatWasAsked DrawnUnderItsState IndicesStayBound
SYMMETRY Symmetry
CHECK_DEADLOCK FALSE
