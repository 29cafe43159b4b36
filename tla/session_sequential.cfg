SPECIFICATION FairSpec
CONSTANTS
  Users = {u1}
  Boot = u1
  Buf = 10
  Traffic = "auto"
  HasCli = TRUE
  Split = TRUE
  Kept = FALSE
  Ops <- AllCommands
  Attempts = 3
  Overlap = {}
  MaxOps = 3
  MaxDrops = 3
INVARIANTS
  TypeOK
  RoutesGoneAtIdle
  
  NoOrphanTunnel
  RecoveryNeedsLoss
PROPERTIES
  ComesToRest
  Heals
CHECK_DEADLOCK FALSE
