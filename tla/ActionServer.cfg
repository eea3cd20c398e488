SPECIFICATION Spec
CONSTANTS
  Goals = {g1, g2, g3}
  SpareGoals = {g3}
  NoGoal = NoGoal
  MaxRequests = 1
  Points = 2
CHECK_DEADLOCK FALSE
INVARIANTS
  OneUncanceledGoal
  OneTaskPerGoal
  FliesToNoOthersTarget
  SuccessIsArrival
PROPERTIES
  KeepsPromise
  GoalsGetOn
