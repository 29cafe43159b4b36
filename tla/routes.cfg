SPECIFICATION Spec
CONSTANTS
  Bypass = {b1, b2, b3, b4, b5}
  Foreign = {f1}
  Gateways = {g1, g2}
  Batch = 2
  Samples = 2
  Faults <- AllFaults
  MaxJobs = 4
  MaxFaults = 2
SYMMETRY Symmetry
INVARIANTS
  RecordsAgree
  NothingUnknown
  

  
CHECK_DEADLOCK FALSE
