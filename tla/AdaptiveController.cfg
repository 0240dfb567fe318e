SPECIFICATION FairSpec
CONSTANTS
  Runs = {r1, r2, r3}
  None = None
  LeaseDuration = 1
  Deadman = 1
  MaxExternalRetries = 1
  MaxOverlap = 2
  MaxTime = 3
  MaxFaults = 1
CHECK_DEADLOCK FALSE
INVARIANTS TypeOK LeaseIsExclusive BackupIsPredecessor AttentionIsEarned ControllerInv
PROPERTIES SequentialAdvance LeaseIsReleased
