SPECIFICATION TreeSafety
CONSTANTS
  u1 = u1
  u2 = u2
  n1 = n1
  em = em
  Uuids = {u1}
  Names = {n1}
  None = None
  Garbage = Garbage
  Timeouts <- MCZero
  TaskTimeouts <- MCNone
  Missions <- MCOneTask
  LivelinessTimeout = 0
  AgeCap = 1
  MaxQueue = 1
  Servers = {n1, em}
  Slots = {g1}
  NoSlot = NoSlot
  Interrupts = {}
  Emergency = em
  GetReady = GetReady
  HealthReports = {"ready", "waiting", "error"}
  BTHealthTimeout = 0
  Clock = FALSE
CHECK_DEADLOCK FALSE
INVARIANTS
  OneLeafRuns
PROPERTIES
  TaskGoalsAreDue
  StopTakesABreath
  EmergencyStopsTasks
  TasksLeaveByTheirLeaf
  EmergencyIsPursued
