SPECIFICATION Spec
CONSTANTS
  MaxSwitches = 4
INVARIANTS
  TypeOK
  SilentOnlyIfCaused
  RoutesAsAnswered
  
PROPERTIES
  EndsOnceTold
  KeepsContract
CHECK_DEADLOCK FALSE
