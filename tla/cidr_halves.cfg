SPECIFICATION Spec
CONSTANTS
  W = 3
  Inputs <- Halves
INVARIANTS
  HalvesReachTable
CHECK_DEADLOCK FALSE
