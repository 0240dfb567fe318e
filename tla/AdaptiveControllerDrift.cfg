SPECIFICATION FairSpec
CONSTANTS
  Runs = {r1, r2}
  None = None
  LeaseDuration = 1
  Deadman = 1
  MaxExternalRetries = 1
  MaxOverlap = 2
  MaxTime = 3
  MaxFaults = 0
CHECK_DEADLOCK FALSE
PROPERTY DriftFailsClosed
