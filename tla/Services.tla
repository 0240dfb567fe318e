------------------------------ MODULE Services ------------------------------
(***************************************************************************)
(* The services beside the governed runtime.  No two of them share state:  *)
(* a behaviour explores one of them, and "service" says which.             *)
(***************************************************************************)
EXTENDS UsageInsights, SetupCoordinator, ApprovalWorkbench, ManagedSkills,
        CapabilityBroker, OpenClawGateway, SkillManager, BuilderAgent,
        ErpOrderCell, ModelAccess, AuditTimeline, DailyCandidate,
        SetupPlanning, UpdatePlan, UpdateDoctor, SkillBundles,
        EffectiveRights, BuilderPlanning

CONSTANT Explored      \* the services that behaviours explore

VARIABLE service
serviceVars == <<service, uiVars, scVars, wbVars, slVars, cbVars, gwVars,
                 smVars, bcVars, ecVars, maVars, atVars, dpVars, spVars,
                 upVars, udVars, bnVars, erVars, bpVars>>

ServicesInit ==
  /\ service \in Explored
  /\ UsageInit
  /\ SetupInit
  /\ WorkbenchInit
  /\ SkillsInit
  /\ CapabilityInit
  /\ GatewayInit
  /\ ManagerInit
  /\ BuilderInit
  /\ CellInit
  /\ ModelInit
  /\ AuditInit
  /\ DailyInit
  /\ PlanningInit
  /\ UpdateInit
  /\ DoctorInit
  /\ BundleInit
  /\ EffectiveInit
  /\ DesignInit
  /\ service # "workbench" => ~wbTarget
  /\ service # "gateway" => gwDisk = NoFile
  /\ service # "builder" => bcContract = CHOOSE c \in BuilderContracts : TRUE
  /\ service # "model" => maLibrary
  /\ service # "daily" => dpSource = CHOOSE s \in Sources : TRUE
  /\ service # "update" => upLkg.core.tuple = CHOOSE t \in LkgTuples : TRUE
  /\ service # "doctor" => udLock = CHOOSE l \in Locks : TRUE
  /\ service # "bundles" => bnManifest = CHOOSE m \in BundleManifests : TRUE

(* The services a step of one leaves alone.                                *)
Others(name) ==
  /\ name # "usage" => UNCHANGED uiVars
  /\ name # "setup" => UNCHANGED scVars
  /\ name # "workbench" => UNCHANGED wbVars
  /\ name # "skills" => UNCHANGED slVars
  /\ name # "capabilities" => UNCHANGED cbVars
  /\ name # "gateway" => UNCHANGED gwVars
  /\ name # "manager" => UNCHANGED smVars
  /\ name # "builder" => UNCHANGED bcVars
  /\ name # "erp" => UNCHANGED ecVars
  /\ name # "model" => UNCHANGED maVars
  /\ name # "audit" => UNCHANGED atVars
  /\ name # "daily" => UNCHANGED dpVars
  /\ name # "planning" => UNCHANGED spVars
  /\ name # "update" => UNCHANGED upVars
  /\ name # "doctor" => UNCHANGED udVars
  /\ name # "bundles" => UNCHANGED bnVars
  /\ name # "rights" => UNCHANGED erVars
  /\ name # "design" => UNCHANGED bpVars

ServicesNext ==
  /\ UNCHANGED service
  /\ \/ service = "usage" /\ UsageNext
     \/ service = "setup" /\ SetupNext
     \/ service = "workbench" /\ WorkbenchNext
     \/ service = "skills" /\ SkillsNext
     \/ service = "capabilities" /\ CapabilityNext
     \/ service = "gateway" /\ GatewayNext
     \/ service = "manager" /\ ManagerNext
     \/ service = "builder" /\ BuilderNext
     \/ service = "erp" /\ CellNext
     \/ service = "model" /\ ModelNext
     \/ service = "audit" /\ AuditNext
     \/ service = "daily" /\ DailyNext
     \/ service = "planning" /\ PlanningNext
     \/ service = "update" /\ UpdateNext
     \/ service = "doctor" /\ DoctorNext
     \/ service = "bundles" /\ BundleNext
     \/ service = "rights" /\ EffectiveNext
     \/ service = "design" /\ DesignNext
  /\ Others(service)

ServicesSpec == ServicesInit /\ [][ServicesNext]_serviceVars

(***************************************************************************)
(* Properties that several services share                                  *)
(***************************************************************************)
(* An answer is the last word about its id: the gateway's tickets and      *)
(* receipts, the skill manager's receipts and the orders of the ERP cell   *)
(* outlive retries, lost answers, kills, resets and profile switches.      *)
AnswersLast ==
  /\ service = "gateway" => GatewayAnswersLast
  /\ service = "manager" => ManagerReceiptsLast
  /\ service = "erp" => OrdersAreSentOnce

(* What a kill leaves tells what was done.  The usage store always opens.  *)
(* The builder's file holds its base, or shows that a write was cut; the   *)
(* value such a write left stays until a reset, and a process deployed     *)
(* with other fields refuses it.  A daily directory holds one candidate's  *)
(* files; one without a state file holds none, and every run refuses it.   *)
StoresSurviveKills ==
  /\ service = "usage" => UsageStoreLoads
  /\ service = "builder" => BuilderRestores
  /\ service = "daily" => DailyOutputIsOneCandidates

(* A document that passes its verifier is what its maker made, of the      *)
(* world as it was then: the audit timeline, the setup plan, the update    *)
(* plan, the doctor's and the health report, the skill bundle's lock, the  *)
(* permission X-ray, the builder's plan and evidence.                      *)
DocumentsHold ==
  /\ service = "audit" => TimelineProvesItsChain
  /\ service = "planning" => PlansAreExecutable
  /\ service = "update" => RenderedPlansAreWitnessed
  /\ service = "doctor" => ReportsSayWhatWasSeen
  /\ service = "bundles" => EvidenceCoversItsLock
  /\ service = "rights" => RightsOnlyNarrow
  /\ service = "design" => EvidenceIsOfItsPlan

(* The inductive invariants of the services, each of the service whose     *)
(* behaviours it is about.                                                 *)
ServicesInv ==
  /\ service = "usage" => UsageInv /\ LoadInv
  /\ service = "setup" => SetupInv
  /\ service = "workbench" => WorkbenchInv
  /\ service = "skills" => SkillsInv
  /\ service = "capabilities" => CapabilityInv
  /\ service = "model" => ModelInv
  /\ service = "gateway" => GatewayInv
  /\ service = "manager" => ManagerInv
  /\ service = "erp" => CellInv
  /\ service = "builder" => BuilderInv
  /\ service = "daily" => DailyInv
  /\ service = "audit" => AuditInv
  /\ service = "update" => UpdateInv
  /\ service = "doctor" => DoctorInv
  /\ service = "bundles" => BundleInv
  /\ service = "design" => DesignInv
  /\ service = "rights" => EffectiveInv
  /\ service = "planning" => PlanningInv
=============================================================================
