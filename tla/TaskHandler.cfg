SPECIFICATION HandlerSpec
CONSTANTS
  u1 = u1
  u2 = u2
  n1 = n1
  Uuids = {u1, u2}
  Names = {n1}
  None = None
  Garbage = Garbage
  Timeouts <- MCOne
  TaskTimeouts <- MCNoTimeout
  Missions <- MCOneTask
  LivelinessTimeout = 1
  AgeCap = 2
  MaxQueue = 2
CHECK_DEADLOCK FALSE
INVARIANTS
  ExecutingLive
  QueueInEmergencyOnlyByTimeout
PROPERTIES
  TimerRunsWhileQueued
  OverrunRaisesEmergency
  SilentServerIsDropped
