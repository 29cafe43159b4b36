SPECIFICATION Spec
CONSTANTS
  W = 3
  Inputs <- MCInputs
INVARIANTS
  CoverageKept
  Minimal
  PanicNeedsWhole
PROPERTIES
  PassesShrink
CHECK_DEADLOCK FALSE
