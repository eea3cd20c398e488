CONSTANTS
  Polygons = {p1}
  NoPosition = NoPosition
  MaxCalls = 2
  Degrees = {0, 1, 2}
SPECIFICATION Spec
INVARIANTS TestAgreesWithGeometry DiscardedIsGone
PROPERTY CheckIsExact
CHECK_DEADLOCK FALSE
