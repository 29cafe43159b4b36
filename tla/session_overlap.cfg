SPECIFICATION Spec
CONSTANTS
  Users = {u1}
  Boot = u1
  Buf = 1
  Traffic = "openconnect_tun"
  HasCli = FALSE
  Split = TRUE
  Kept = FALSE
  Ops = {"switch"}
  Attempts = 1
  Overlap = {"poll", "command"}
  MaxOps = 1
  MaxDrops = 0
INVARIANTS
  CleaningIsPending
CHECK_DEADLOCK FALSE
