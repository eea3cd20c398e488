SPECIFICATION Spec
CONSTANTS
  Servers = {s1}
  Slots = {g1, g2}
  NoSlot = NoSlot
  Interrupts = {"preempt", "rebuild", "timeout"}
INVARIANTS
  UndisturbedNoOrphan
  WaitsForSomething
PROPERTIES
  SuccessMeansIdle
  ActivationEnds
