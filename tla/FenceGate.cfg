CONSTANTS
  Goals = {g1, g2, g3}
  SpareGoals = {g3}
  FencedGoals = {g1}
  NoGoal = NoGoal
  Moves = {m1, m2}
  NoMove = NoMove
SPECIFICATION Spec
INVARIANT FenceGateHolds
CHECK_DEADLOCK FALSE
