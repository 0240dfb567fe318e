---------------------------- MODULE UpdateDoctor ----------------------------
(***************************************************************************)
(* The doctor (contracts/src/update-doctor.ts) and the health report       *)
(* (contracts/src/update-check-plan.ts): a Compose snapshot becomes        *)
(* probes, the probes a report, and a bundle of lock, plan, report and     *)
(* receipt is verified as the evidence of a check that changed nothing.    *)
(* Services, configuration and lock change between any two of these.       *)
(*                                                                         *)
(* A digest is what it was taken of.                                       *)
(***************************************************************************)
EXTENDS Naturals, FiniteSets, Sequences, SequencesExt

CONSTANTS
  RequiredServices,    \* the services a snapshot is asked for
  Locks,               \* lock profiles: [release, exact, authority]
  MaxOperations, NoObservation

VARIABLES
  udServices,          \* service -> [state, health], of those Compose lists
  udConfig,            \* the configuration is the expected one
  udLock,              \* the lock profile installed
  udSnapshot, udReport, udHealth, udPlan, udReceipt,
  udOperations,        \* operations asked so far
  udVerdict            \* of the bundle of these

udVars == <<udServices, udConfig, udLock, udSnapshot, udReport, udHealth, udPlan, udReceipt, udOperations, udVerdict>>
udWorld == <<udServices, udConfig, udLock>>
udDocuments == <<udSnapshot, udReport, udHealth, udPlan, udReceipt>>

Stamped(core) == [core |-> core, digest |-> core]
StampHolds(d) == d.digest = d.core
AllUp == [state |-> "RUNNING", health |-> "HEALTHY"]

DoctorInit ==
  /\ udServices = [s \in RequiredServices |-> AllUp] /\ udConfig = "EXPECTED" /\ udLock \in Locks
  /\ udSnapshot = NoObservation /\ udReport = NoObservation /\ udHealth = NoObservation
  /\ udPlan = NoObservation /\ udReceipt = NoObservation /\ udOperations = 0 /\ udVerdict = NoObservation

(* The world around the doctor: a service stops, falls ill, cannot be      *)
(* asked, or is gone from the list; the configuration and the lock change. *)
(* Services and configuration are read by the snapshot only, so they       *)
(* change before it, and not in the behaviours about a bundle.             *)
ServiceChanges ==
  /\ udSnapshot = NoObservation /\ udOperations = 0
  /\ \E s \in RequiredServices :
       \/ \E state \in {"RUNNING", "STOPPED", "UNAVAILABLE"}, health \in {"HEALTHY", "UNHEALTHY", "NOT_AVAILABLE"} :
            udServices' = [t \in DOMAIN udServices \cup {s} |-> IF t = s THEN [state |-> state, health |-> health] ELSE udServices[t]]
       \/ udServices' = [t \in DOMAIN udServices \ {s} |-> udServices[t]]
  /\ UNCHANGED <<udConfig, udLock, udDocuments, udOperations, udVerdict>>

SetupChanges ==
  /\ \/ udSnapshot = NoObservation /\ udOperations = 0 /\ udConfig' \in {"EXPECTED", "OTHER", "UNREADABLE"} /\ UNCHANGED udLock
     \/ udLock' \in Locks /\ UNCHANGED udConfig
  /\ UNCHANGED <<udServices, udDocuments, udOperations, udVerdict>>

(***************************************************************************)
(* The doctor                                                              *)
(***************************************************************************)
QuickProbes == <<"installation", "runtime", "configuration", "version-lock", "health-readback">>
StandardProbes == QuickProbes \o <<"storage", "permissions", "secrets-metadata", "clock", "database-schema", "packs", "receipts">>

(* adaptComposeDoctorObservationV1().                                      *)
Worst(unavailable, mismatch) == IF unavailable THEN "UNAVAILABLE" ELSE IF mismatch THEN "MISMATCH" ELSE "MATCH"
Probes(s) ==
  LET listed == DOMAIN s.services
      missing == RequiredServices \ listed # {}
      Some(field, value) == \E id \in listed : s.services[id][field] = value
  IN [id \in ToSet(QuickProbes) |->
        CASE id = "installation" -> Worst(~s.compose, FALSE)
          [] id = "runtime" -> Worst(missing \/ Some("state", "UNAVAILABLE"), Some("state", "STOPPED"))
          [] id = "configuration" -> Worst(s.config = "UNREADABLE", s.config = "OTHER")
          [] id = "health-readback" ->
               Worst(missing \/ Some("state", "UNAVAILABLE") \/ Some("health", "NOT_AVAILABLE"), Some("health", "UNHEALTHY"))
          [] OTHER -> "MATCH"]

SnapshotTaken ==
  /\ udSnapshot = NoObservation
  /\ \E compose \in BOOLEAN :
       udSnapshot' = [services |-> udServices, config |-> udConfig, lock |-> udLock, compose |-> compose]
  /\ UNCHANGED <<udWorld, udReport, udHealth, udPlan, udReceipt, udOperations, udVerdict>>

(* runFixtureDoctorV1(): a probe that is missing or took too long was not  *)
(* observed; the lock is compared with the one the caller expects.         *)
Check(probes, id, late, observed, expected) ==
  LET seen == IF id \in DOMAIN probes /\ id \notin late THEN probes[id] ELSE "UNAVAILABLE"
      outcome == IF id = "version-lock" /\ seen # "UNAVAILABLE" THEN Worst(FALSE, observed # expected) ELSE seen
  IN [id |-> id, status |-> CASE outcome = "MATCH" -> "PASS" [] outcome = "MISMATCH" -> "FAIL" [] OTHER -> "NOT_OBSERVED"]

Report(snapshot, profile, late, expected) ==
  LET ids == IF profile = "QUICK" THEN QuickProbes ELSE StandardProbes IN
  Stamped([profile |-> profile, lock |-> snapshot.lock, expected |-> expected,
           checks |-> [i \in DOMAIN ids |-> Check(Probes(snapshot), ids[i], late, snapshot.lock, expected)]])

LateProbes == {{}, {"runtime"}, {"version-lock"}}
DoctorRuns ==
  /\ udSnapshot # NoObservation /\ udReport = NoObservation
  /\ \E profile \in {"QUICK", "STANDARD"}, late \in LateProbes, expected \in Locks :
       udReport' = Report(udSnapshot, profile, late, expected)
  /\ UNCHANGED <<udWorld, udSnapshot, udHealth, udPlan, udReceipt, udOperations, udVerdict>>

Passed(report) == {c.id : c \in {x \in ToSet(report.core.checks) : x.status = "PASS"}}

(***************************************************************************)
(* The health report                                                       *)
(***************************************************************************)
HealthChecks == [HEALTH |-> <<"tuple-lock">>, READINESS |-> <<"tuple-lock", "safe-mode">>]
ReasonOrder == {"LKG_INCOMPLETE", "HEALTH_CHECK_FAILED", "HEALTH_CHECK_UNOBSERVED"}

(* What the checks and the tuple call for.  Reasons are always told in one *)
(* order, so that a set says as much.                                      *)
HealthIssues(complete, statuses) ==
  {r \in ReasonOrder : CASE r = "LKG_INCOMPLETE" -> ~complete
                         [] r = "HEALTH_CHECK_FAILED" -> "FAIL" \in ToSet(statuses)
                         [] OTHER -> "NOT_OBSERVED" \in ToSet(statuses)}

(* runFixtureHealthReportV1(): the caller says why safe mode is on.  It    *)
(* stands alone.                                                           *)
HealthReport(profile, lock, complete, statuses, said) ==
  Stamped([profile |-> profile, lock |-> lock, complete |-> complete, statuses |-> statuses, safe |-> said])

HealthReported ==
  /\ udServices = [s \in RequiredServices |-> AllUp] /\ udConfig = "EXPECTED" /\ udSnapshot = NoObservation /\ udOperations = 0
  /\ \E profile \in DOMAIN HealthChecks, complete \in BOOLEAN :
     \E statuses \in [DOMAIN HealthChecks[profile] -> {"PASS", "FAIL", "NOT_OBSERVED"}], said \in SUBSET ReasonOrder :
       udHealth' = HealthReport(profile, udLock, complete, statuses, said)
  /\ UNCHANGED <<udWorld, udSnapshot, udReport, udPlan, udReceipt, udOperations, udVerdict>>

(* verifyUpdateHealthReportV1(), for the tuple and profile expected.       *)
HealthVerdict(h, lock, complete, profile) ==
  LET issues == HealthIssues(complete, h.core.statuses) IN
  IF ~StampHolds(h) THEN "DIGEST_MISMATCH_DENIED"
  ELSE IF h.core.lock # lock \/ h.core.complete # complete THEN "TUPLE_MISMATCH_DENIED"
  ELSE IF h.core.profile # profile \/ DOMAIN h.core.statuses # DOMAIN HealthChecks[profile] THEN "HEALTH_CHECK_COVERAGE_DENIED"
  ELSE IF h.core.safe # issues THEN "SAFE_MODE_INCONSISTENT_DENIED"
  ELSE IF issues # {} THEN "SAFE_MODE"
  ELSE "ACCEPTED"

(***************************************************************************)
(* The bundle                                                              *)
(***************************************************************************)
OperationPlanned ==
  /\ udServices = [s \in RequiredServices |-> AllUp] /\ udConfig = "EXPECTED"
  /\ udPlan = NoObservation /\ udOperations < MaxOperations /\ udOperations' = udOperations + 1
  /\ \E target \in Locks :
       udPlan' = Stamped([operation |-> udOperations, from |-> udLock, target |-> target, authority |-> udLock.authority])
  /\ UNCHANGED <<udWorld, udSnapshot, udReport, udHealth, udReceipt, udVerdict>>

(* A receipt of an operation, completed under the lock of that time.       *)
OperationReceipted ==
  /\ udPlan # NoObservation /\ udReceipt = NoObservation
  /\ udReceipt' = Stamped([operation |-> udPlan.core.operation, plan |-> udPlan, before |-> udPlan.core.from, after |-> udLock])
  /\ UNCHANGED <<udWorld, udSnapshot, udReport, udHealth, udPlan, udOperations, udVerdict>>

(* The plan is asked again: a receipt of the plan before stays.            *)
OperationAskedAgain ==
  /\ udPlan # NoObservation /\ udPlan' = NoObservation
  /\ UNCHANGED <<udWorld, udSnapshot, udReport, udHealth, udReceipt, udOperations, udVerdict>>

(* verifyUpdateDoctorContractBundleV1(), with the lock profile installed.  *)
BundleReasons(lock, plan, report, receipt) ==
  LET p == plan.core
      r == receipt.core
  IN {x \in {"MUTABLE_TARGET_DENIED"} : ~lock.exact}
       \cup {x \in {"DIGEST_MISMATCH_DENIED"} : ~StampHolds(plan) \/ ~StampHolds(report) \/ ~StampHolds(receipt)}
       \cup {x \in {"AUTHORITY_DELTA_DENIED"} : p.authority # lock.authority}
       \cup {x \in {"MUTATION_CLAIM_DENIED"} :
               \/ p.from # lock \/ p.target # lock \/ report.core.lock # lock
               \/ r.operation # p.operation \/ r.plan # plan \/ r.before # lock \/ r.after # lock}

BundleVerified ==
  /\ udPlan # NoObservation /\ udReport # NoObservation /\ udReceipt # NoObservation /\ udVerdict = NoObservation
  /\ udVerdict' = [lock |-> udLock, accepted |-> BundleReasons(udLock, udPlan, udReport, udReceipt) = {}]
  /\ UNCHANGED <<udWorld, udDocuments, udOperations>>

DoctorNext ==
  /\ udVerdict = NoObservation /\ udHealth = NoObservation
  /\ \/ ServiceChanges \/ SetupChanges \/ SnapshotTaken \/ DoctorRuns \/ HealthReported
     \/ OperationPlanned \/ OperationReceipted \/ OperationAskedAgain \/ BundleVerified

(***************************************************************************)
(* Properties                                                              *)
(***************************************************************************)
HealthIsSaid(h, lock, complete, profile) ==
  LET v == HealthVerdict(h, lock, complete, profile)
      sound == complete /\ ToSet(h.core.statuses) = {"PASS"}
  IN /\ v = "ACCEPTED" => sound /\ h.core.safe = {} /\ h.core.lock = lock
     /\ v = "SAFE_MODE" => ~sound /\ h.core.safe # {} /\ h.core.lock = lock

(* What a report says passed was so in its snapshot: the runtime, when     *)
(* every service asked for was listed and ran, the health, when every one  *)
(* was healthy; the lock is the expected one.  Only a quick report passes  *)
(* everywhere: Compose cannot answer the standard probes.  A health report *)
(* that is accepted has nothing to say, and one in safe mode says why.     *)
(* The bundle that is accepted is of one operation, and at each of its     *)
(* steps, the snapshot included, the lock was the same one.                *)
ReportsSayWhatWasSeen ==
  /\ udReport # NoObservation =>
       LET All(field, value) == \A s \in RequiredServices : s \in DOMAIN udSnapshot.services /\ udSnapshot.services[s][field] = value
           passed == Passed(udReport)
       IN /\ "runtime" \in passed => All("state", "RUNNING")
          /\ "health-readback" \in passed => All("health", "HEALTHY")
          /\ "configuration" \in passed => udSnapshot.config = "EXPECTED"
          /\ "version-lock" \in passed => udSnapshot.lock = udReport.core.expected
          /\ "installation" \in passed => udSnapshot.compose
          /\ ~(ToSet(StandardProbes) \subseteq passed)
  /\ udHealth # NoObservation =>
       \A lock \in Locks, complete \in BOOLEAN, profile \in DOMAIN HealthChecks : HealthIsSaid(udHealth, lock, complete, profile)
  /\ udVerdict # NoObservation /\ udVerdict.accepted =>
       /\ udReceipt.core.plan = udPlan /\ udPlan.core.target = udPlan.core.from
       /\ {udPlan.core.from, udSnapshot.lock, udReceipt.core.before, udReceipt.core.after} = {udVerdict.lock}

(* What may be seen, and that each document is of what it was made of.     *)
ServicesTyped(services) ==
  \A s \in DOMAIN services :
    services[s].state \in {"RUNNING", "STOPPED", "UNAVAILABLE"} /\ services[s].health \in {"HEALTHY", "UNHEALTHY", "NOT_AVAILABLE"}

DoctorInv ==
  /\ ServicesTyped(udServices) /\ udConfig \in {"EXPECTED", "OTHER", "UNREADABLE"} /\ udLock \in Locks
  /\ udSnapshot # NoObservation =>
       /\ ServicesTyped(udSnapshot.services) /\ udSnapshot.config \in {"EXPECTED", "OTHER", "UNREADABLE"}
       /\ udSnapshot.compose \in BOOLEAN
  /\ udReport # NoObservation =>
       /\ udSnapshot # NoObservation
       /\ \E profile \in {"QUICK", "STANDARD"}, late \in LateProbes :
            udReport = Report(udSnapshot, profile, late, udReport.core.expected)
  /\ udHealth # NoObservation =>
       LET h == udHealth.core IN
       /\ h.profile \in DOMAIN HealthChecks /\ h.complete \in BOOLEAN
       /\ h.statuses \in [DOMAIN HealthChecks[h.profile] -> {"PASS", "FAIL", "NOT_OBSERVED"}]
       /\ udHealth = HealthReport(h.profile, h.lock, h.complete, h.statuses, h.safe)
  /\ udVerdict # NoObservation =>
       /\ udReport # NoObservation
       /\ udVerdict = [lock |-> udLock, accepted |-> BundleReasons(udLock, udPlan, udReport, udReceipt) = {}]
=============================================================================
