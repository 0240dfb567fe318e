SPECIFICATION DeliverySpec
CONSTANTS
  MaxEdits = 2
  MaxFlaws = 1
  Untouched = Untouched
  Workloads <- MCWorkloads
  GlobalBudget <- MCGlobalBudget
  ProjectBudget <- MCProjectBudget
  ProviderBudget <- MCProviderBudget
  GovernanceEnabled = TRUE
  MaxGovTime = 2
  Publications <- MCPublications
  NoBranch = "none"
  PublicationEnabled = TRUE
  MaxPubTime = 2
  MaxBrokers = 2
  MaxAttempts = 3
  Context <- MCOwn
  Deliveries <- MCDeliveries
  Heads <- MCHeads
  NoHead = "no_head"
  MaxEntries = 3
INVARIANTS
  WriterLeaseNotShared
CHECK_DEADLOCK FALSE
