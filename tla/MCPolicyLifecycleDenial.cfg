SPECIFICATION FairSpec
CONSTANTS
  Generations <- MCGenerations
  Artifacts <- MCArtifacts
  Approvals <- MCApprovals
  Sources = {s1, s2, s3}
  s1 = s1
  s2 = s2
  s3 = s3
  None = None
  MaxTime = 1
  MaxTrust = 1
  MaxFaults = 0
  MaxCrashes = 0
CHECK_DEADLOCK FALSE
PROPERTY DenialPreservesState
