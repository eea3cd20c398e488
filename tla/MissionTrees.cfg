CONSTANTS
  Servers = {"target_inspect", "target_intercept", "loiter_patrol",
             "recover_buoy", "recover_no_buoy", "vulture", "search_local", "search_global"}
  Slots = {g1}
  NoSlot = NoSlot
  Interrupts = {}
  MaxLingering = 0
  NumRetries = 1
  VultureRanges = 1
SPECIFICATION Spec
INVARIANTS FreshPatrolIsTimed RecoveryIsMeasured
PROPERTY TimeoutStopsBackend
CHECK_DEADLOCK FALSE
