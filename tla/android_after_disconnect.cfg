SPECIFICATION Spec
CONSTANTS
  MaxCommands = 2
  MaxFaults = 1
INVARIANTS
  DisconnectClosesTunnel
CHECK_DEADLOCK FALSE
