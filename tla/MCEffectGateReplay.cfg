SPECIFICATION Spec
CONSTANTS
  Calls = {c1, c2}
  Requests <- MCRequests
  Keys = {k1, k2}
  Leases = {l1, l2, l3}
  Bodies <- MCBodies
  Generations <- MCGenerations
  None = None
  c1 = c1
  c2 = c2
  k1 = k1
  k2 = k2
  l1 = l1
  l2 = l2
  l3 = l3
  SnapshotLimit = 2
  MaxTime = 1
  MaxFaults = 0
  MaxCrashes = 0
CHECK_DEADLOCK FALSE
INVARIANT ReplayMakesNoDuplicate
