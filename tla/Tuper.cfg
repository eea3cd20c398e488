CONSTANTS
  Servers = {"go_to_start", "surface_and_return"}
  Slots = {g1, g2}
  NoSlot = NoSlot
  Interrupts = {}
  MaxLingering = 1
  EstimateMaxAge = 2
  StopPeriod = 3
  StopMargin = 3
  StopTolerance = 1
  StopPace = 3
  MaxTime = 7
  MaxPlace = 2
SPECIFICATION Spec
INVARIANTS StopIsGenuine OneDriver
PROPERTIES  TuperEnds
CHECK_DEADLOCK FALSE
