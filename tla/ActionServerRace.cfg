SPECIFICATION ServerSafety
CONSTANTS
  Goals = {g1, g2}
  NoGoal = NoGoal
  MaxRequests = 2
CHECK_DEADLOCK FALSE
INVARIANTS
  OneUncanceledGoal
