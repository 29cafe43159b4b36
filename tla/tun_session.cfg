SPECIFICATION Spec
CONSTANTS
  Faults = {"kill", "cleanup", "crash"}
  MaxOps = 5
  MaxFaults = 3
INVARIANTS
  TypeOK
  OnlyOurs
  
PROPERTIES
  
  KeepsPromise
CHECK_DEADLOCK FALSE
