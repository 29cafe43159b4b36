SPECIFICATION FairSpec
CONSTANTS
  Sites = {"a", "b"}
  Home = "a"
  Abroad = "b"
  MaxCandidates = 1
  Faults = {"crash", "save"}
  MaxRuns = 2
  MaxChoices = 1
  MaxFaults = 1
  MaxCommands = 2
  MaxHolds = 1
INVARIANTS
  
  OnceAndInOrder
PROPERTIES
  StartGoesBack
  RefusalHolds
  SelectionEnds
CHECK_DEADLOCK FALSE
