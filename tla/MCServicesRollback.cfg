SPECIFICATION ServicesSpec
CONSTANTS
  Explored = {"skills"}
  Profiles <- MCProfiles
  Endpoints = {"e1"}
  NoEndpoint = "noend"
  NoStore = NoStore
  NoBatch = NoBatch
  NoCall = NoCall
  RotationInterval = 2
  LazyExpiry = 1
  Ttl = 1
  MaxEventRecords = 1
  MaxSharedBatches = 2
  MaxUsageTime = 2
  MaxHeld = 2
  NoStatus = NoStatus
  NoRepair = NoRepair
  PolicyAvailable = TRUE
  MaxDecisions = 2
  Requests <- MCRequests
  Unread = Unread
  MaxGeneration = 2
  MaxCalls = 2
  SkillRequests <- MCSkillRequests
  OwnerApprovals <- MCApprovals
  Escalating = {"authority.admin"}
  CustomPool = {"documents.read"}
  RampagePool = {"documents.read", "contacts.write"}
  CustomAuto = FALSE
  RampageAuto = TRUE
  MaxSkillGenerations = 5
  CapabilityPolicies <- MCPolicies
  CapabilityActivations <- MCActivations
  CapabilityRequests <- MCCapabilityRequests
  MaxCapabilityTime = 3
  MaxNesting = 2
  MaxTickets = 3
  GatewayIdentities <- MCIdentities
  GatewayBodies <- MCBodies
  MindKeys = {"k1", "k2"}
  MindValues = {"v1"}
  ReplayCacheMax = 2
  EffectBudget = 2
  MindQuota = 1
  MindRetention = 1
  MaxMindGeneration = 2
  LegacyStates <- MCLegacyStates
  NoFile = NoFile
  NoMemory = NoMemory
  MaxGatewayTime = 1
  Stopped = Stopped
  MaxManagerReceipts = 4
  BuilderContracts <- MCBuilderContracts
  PluginRequests <- MCPluginRequests
  BuilderTexts <- MCBuilderTexts
  MaxWriteAttempts = 2
  NoBuilder = NoBuilder
  ErpProfiles <- MCErpProfiles
  ErpAction = "a1"
  ErpRequests <- MCErpRequests
  MaxErpSwitches = 2
  MaxErpReplays = 1
  NoCell = NoCell
  ModelRoutes <- MCModelRoutes
  ModelUsers = {"u"}
  ModelWorkloads = {"wl"}
  ModelCeiling <- MCModelCeiling
  ModelRequests <- MCModelRequests
  FrontdoorChats <- MCChats
  OperationOf <- MCOperationOf
  DemoContract <- MCDemoContract
  ProviderAnswers <- MCProviderAnswers
  ProviderLines <- MCProviderLines
  MaxModelCalls = 2
  MaxModelLines = 5
  NoStream = NoStream
  AuditOutcomes <- MCOutcomes
  SignerWindow <- MCWindow
  TrustPolicies <- MCTrusts
  AuditOperations = {"op"}
  MaxAuditTime = 7
  MaxLostEvents = 1
  AuditDelays <- MCDelays
  MaxWriters = 2
  NoDigest = NoDigest
  NoCheckpoint = NoCheckpoint
  Manifests <- MCManifests
  Sources <- MCSources
  NoOutput = NoOutput
  NoRun = NoRun
  Torn = Torn
  Showcase <- MCShowcase
  BuiltinTemplates <- MCBuiltins
  NodeMajor = 24
  PlannerCatalogs <- MCCatalogs
  MaxExtras = 2
  NoDocument <- MCNoDocument
  Candidates <- MCCandidates
  LkgTuples <- MCLkgTuples
  Decide <- MCDecide
  Trusted <- MCTrusted
  ActorAlias <- MCAlias
  LkgAuthority = "auth"
  MaxLkgAge = 1
  MaxUpdateTime = 2
  NoUpdate = NoUpdate
  RequiredServices = {s1, s2}
  Locks <- MCLocks
  MaxOperations = 2
  NoObservation = NoObservation
  BundlePaths <- MCPaths
  PathAlias <- MCPathAlias
  ByteSize <- MCByteSize
  MaxFileSize = 2
  BundleManifests <- MCBundleManifests
  Consumers = {"INSTALLATION", "ROLLBACK"}
  MaxWrites = 3
  NoBundle = NoBundle
  RightsDomains <- MCDomains
  RightsInput <- MCRightsInput
  MaxOperandChanges = 2
  MaxOperands = 5
  NoRights = NoRights
  Descriptions <- MCDescriptions
  Registrations <- MCRegistrations
  Authorities <- MCAuthorities
  MaxObservations = 2
  NoPlan = NoPlan
  NoEvidence = NoEvidence
INVARIANT RollbackNeverActivates
CHECK_DEADLOCK FALSE
