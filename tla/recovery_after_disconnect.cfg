SPECIFICATION Spec
CONSTANTS
  Users = {u1}
  Boot = u1
  Buf = 10
  Traffic = "openconnect_tun"
  HasCli = FALSE
  Split = TRUE
  Kept = FALSE
  Ops = {"disconnect"}
  Attempts = 1
  Overlap = {"poll"}
  MaxOps = 1
  MaxDrops = 0
INVARIANTS
  RecoveryNeedsLoss
CHECK_DEADLOCK FALSE
