SPECIFICATION Spec
CONSTANTS
  Users = {u1, u2}
  Boot = u1
  Buf = 2
  Traffic = "auto"
  HasCli = TRUE
  Split = TRUE
  Kept = FALSE
  Ops = {"switch", "restore"}
  Attempts = 1
  Overlap = {"command"}
  MaxOps = 2
  MaxDrops = 1
INVARIANTS
  LocksHeld
  ConnectionsExclusive
  BusyWhileSwitching
CHECK_DEADLOCK FALSE
