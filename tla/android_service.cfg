SPECIFICATION Spec
CONSTANTS
  MaxCommands = 3
  MaxFaults = 1
INVARIANTS
  TypeOK
  DisconnectHolds
  StatusTruthful
  StopReaches
PROPERTIES
  DisconnectEnds
CHECK_DEADLOCK FALSE
