SPECIFICATION FairSpec
CONSTANTS
  Generations <- MCGenerations
  Artifacts <- MCArtifacts
  Approvals <- MCApprovals
  Sources = {s1, s2, s3}
  s1 = s1
  s2 = s2
  s3 = s3
  None = None
  MaxTime = 1
  MaxTrust = 1
  MaxFaults = 1
  MaxCrashes = 1
CHECK_DEADLOCK FALSE
INVARIANTS TypeOK OneActive RevokedNotServed LastSafeRetained LifecycleInv
PROPERTIES ImplementsPolicyWindow NoUnapprovedWidening
