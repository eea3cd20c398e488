SPECIFICATION TreeSpec
CONSTANTS
  u1 = u1
  u2 = u2
  n1 = n1
  em = em
  Uuids = {u1}
  Names = {n1}
  None = None
  Garbage = Garbage
  Timeouts <- MCNoTimeouts
  TaskTimeouts <- MCNone
  Missions <- MCNoMissions
  LivelinessTimeout = 0
  AgeCap = 1
  MaxQueue = 1
  Servers = {n1}
  Slots = {g1}
  NoSlot = NoSlot
  Interrupts = {}
  Emergency = em
  GetReady = GetReady
  HealthReports = {"ready"}
  BTHealthTimeout = 0
  Clock = TRUE
CHECK_DEADLOCK FALSE
PROPERTIES
  SilenceRaisesEmergency
  HeadTaskEnds
