-------------------------- MODULE SetupCoordinator --------------------------
(***************************************************************************)
(* PocEarlyAdminCoordinatorV1 (packages/setup-coordinator/src/index.ts)    *)
(* over the status functions of poc-early-admin-ai-setup.ts: the dashboard *)
(* that sets up, diagnoses, repairs, promotes and cleans up a demo.  A     *)
(* request is one synchronous handler, of several file writes: the process *)
(* can be killed, and a write can fail, between any two.                   *)
(*                                                                         *)
(* A status is equal to another when its digest is; its decisions, of one  *)
(* process, only grow, and are counted.  Left out: stage labels, progress, *)
(* resources, and the files that nothing reads (the event log, the plan,   *)
(* the repair receipt, the kept config).  The lock and the receipt, always *)
(* written together, are one file, "evidence".                             *)
(***************************************************************************)
EXTENDS Naturals, Sequences

CONSTANTS
  NoStatus,           \* no process, no status file
  NoRepair,           \* no repair plan is pending
  PolicyAvailable,    \* the policyAvailable option
  MaxDecisions        \* bound of the decisions a status lists

VARIABLES
  scStatus,           \* statusValue of the running process, or NoStatus
  scPending,          \* pendingRepairValue
  scTodo,             \* what the handler in progress has yet to do
  scFiles,            \* the owned directory
  scExcused           \* a removal, injection or failed write since the last setup

scVars == <<scStatus, scPending, scTodo, scFiles, scExcused>>

Issues == {"CONFIG_DIGEST_MISMATCH", "TRANSIENT_HEALTH_CHECK_FAILURE"}
AuthorityProfiles == {"SAFE_GUIDED", "DEVELOPER_ELEVATED", "FULL_CONTROL_LAB"}
RiskWarning == "FULL_CONTROL_WARNING"

(* PocEarlyAdminStatusV1 *)
SetupStatus ==
  [stage : {"A", "B"}, profile : AuthorityProfiles, health : {"PENDING", "PASS", "DEGRADED"},
   healthGate : BOOLEAN, policyGate : BOOLEAN, identityGate : BOOLEAN,
   warnings : SUBSET (Issues \cup {RiskWarning}), resume : BOOLEAN, decisions : Nat]

ASSUME SetupAssumption == PolicyAvailable \in BOOLEAN

(* buildPocEarlyAdminStatusV1() *)
NewStatus ==
  [stage |-> "A", profile |-> "SAFE_GUIDED", health |-> "PENDING", healthGate |-> FALSE,
   policyGate |-> PolicyAvailable, identityGate |-> FALSE, warnings |-> {}, resume |-> FALSE,
   decisions |-> 1]

(* activatePocAdminAuthorityProfileV1(): the warning comes and goes with   *)
(* the full profile.                                                       *)
WithProfile(s, profile) ==
  [s EXCEPT !.profile = profile, !.decisions = @ + 1,
            !.warnings = IF profile = "FULL_CONTROL_LAB" THEN @ \cup {RiskWarning}
                         ELSE @ \ {RiskWarning}]

(* resetPocAdminAuthorityToSafeV1() *)
ResetToSafe(s) == WithProfile(s, "SAFE_GUIDED")

(* runPocEarlyAdminSyntheticSetupV1() with an injected failure.            *)
FailedSetup(s, issue) ==
  [s EXCEPT !.health = "DEGRADED", !.warnings = {issue}, !.resume = FALSE,
            !.identityGate = @ \/ issue = "TRANSIENT_HEALTH_CHECK_FAILURE"]

(* ... and without one.                                                    *)
HealthySetup(s) ==
  [s EXCEPT !.health = "PASS", !.healthGate = TRUE, !.identityGate = TRUE,
            !.warnings = @ \ Issues, !.resume = TRUE]

(* applyPocEarlyAdminRepairV1() *)
Repaired(s, issue) ==
  [s EXCEPT !.warnings = @ \ {issue}, !.decisions = @ + 1, !.resume = TRUE]

(* promotePocEarlyAdminToStageBV1() *)
Promoted(s) == [s EXCEPT !.stage = "B", !.decisions = @ + 1]

(* A file to write, "memory" to set statusValue.                           *)
Put(file, value) == [file |-> file, value |-> value]

(* Mutant of Materialize: the status is stored before what it reports.     *)
MaterializeLast(s) ==
  <<Put("memory", s), Put("status", s), Put("config", "GOOD"), Put("evidence", "GOOD")>>

(* A healthy setup: materializeHealthySetup(), then persist().             *)
Materialize(s) ==
  <<Put("memory", s), Put("config", "GOOD"), Put("evidence", "GOOD"), Put("status", s)>>

Persist(s) == <<Put("memory", s), Put("status", s)>>

Up == scStatus # NoStatus
Ready == Up /\ scTodo = <<>> /\ scStatus.decisions < MaxDecisions

EmptyDirectory ==
  [status |-> NoStatus, config |-> "NONE", evidence |-> "NONE"]

SetupInit ==
  /\ scStatus = NoStatus /\ scPending = NoRepair /\ scTodo = <<>>
  /\ scFiles = EmptyDirectory /\ scExcused = FALSE

(* The handler's writes are to be done; memory is set on the way.          *)
Begin(todo) == scTodo' = todo /\ UNCHANGED <<scStatus, scPending, scFiles, scExcused>>

(* The constructor: a stored status is resumed, with safe authority.       *)
Start(resume) ==
  /\ ~Up
  /\ scStatus' = IF resume /\ scFiles.status # NoStatus
                 THEN IF scFiles.status.profile # "SAFE_GUIDED"
                      THEN ResetToSafe(scFiles.status) ELSE scFiles.status
                 ELSE NewStatus
  /\ scTodo' = IF scStatus' = scFiles.status THEN <<>> ELSE <<Put("status", scStatus')>>
  /\ UNCHANGED <<scPending, scFiles, scExcused>>

(* activateAuthority(): an elevated profile needs the owner's word.        *)
ActivateAuthority(profile, confirmed) ==
  /\ Ready
  /\ profile # "SAFE_GUIDED" => confirmed
  /\ Begin(Persist(WithProfile(scStatus, profile)))

(* runSyntheticSetup() without a failure, resume()                         *)
RunSetup == Ready /\ Begin(Materialize(HealthySetup(scStatus)))

ResumeSetup ==
  /\ Ready /\ scStatus.resume /\ scStatus.warnings = {}
  /\ Begin(Materialize(HealthySetup(scStatus)))

(* runSyntheticSetup() with a failure, injected at the dashboard.          *)
InjectFailure(issue) ==
  /\ Ready
  /\ scTodo' = (IF issue = "CONFIG_DIGEST_MISMATCH" THEN <<Put("config", "BAD")>> ELSE <<>>)
               \o Persist(FailedSetup(scStatus, issue))
  /\ scExcused' = (scExcused \/ issue = "CONFIG_DIGEST_MISMATCH")
  /\ UNCHANGED <<scStatus, scPending, scFiles>>

(* diagnose(): the plan is bound to the status it was made from.           *)
Diagnose(issue) ==
  /\ Ready
  /\ issue \in scStatus.warnings
  /\ scStatus.profile # "FULL_CONTROL_LAB"     \* stageAAllowedActions is empty
  /\ scPending' = [issue |-> issue, base |-> scStatus]
  /\ UNCHANGED <<scStatus, scTodo, scFiles, scExcused>>

(* applyRepair(): the pending plan, of the status as it still is, in stage *)
(* A, and for the config with the owner's confirmation.                    *)
ApplyRepair(confirmed) ==
  /\ Ready /\ scPending # NoRepair
  /\ scPending.base = scStatus /\ scStatus.stage = "A"
  /\ scPending.issue = "CONFIG_DIGEST_MISMATCH" => confirmed
  /\ LET s == Repaired(scStatus, scPending.issue)
         rewrite == IF scPending.issue = "CONFIG_DIGEST_MISMATCH"
                    THEN <<Put("config", "GOOD")>> ELSE <<>>
     IN  Begin(rewrite \o <<Put("status", s), Put("memory", s), Put("pending", NoRepair)>>)

Promote ==
  /\ Ready
  /\ scStatus.health = "PASS"
  /\ scStatus.healthGate /\ scStatus.policyGate /\ scStatus.identityGate
  /\ Begin(Persist(Promoted(scStatus)))

(* cleanup(): the directory goes; the status in memory stays.              *)
Cleanup ==
  /\ Ready
  /\ scTodo' = <<Put("directory", "NONE")>> /\ scExcused' = TRUE
  /\ UNCHANGED <<scStatus, scPending, scFiles>>

(* A healthy setup was stored: nothing is left to excuse.                  *)
Finishes == scTodo[1].file = "status" /\ scTodo[1].value.health = "PASS"
            /\ scFiles.evidence = "GOOD" /\ scFiles.config = "GOOD"

(* The next write.  rmSync() removes the files in no known order.          *)
DoWrite ==
  /\ Up /\ scTodo # <<>>
  /\ LET w == scTodo[1]
     IN  CASE w.file = "memory" ->
                scStatus' = w.value /\ scTodo' = Tail(scTodo) /\ UNCHANGED <<scPending, scFiles>>
           [] w.file = "pending" ->
                scPending' = w.value /\ scTodo' = Tail(scTodo) /\ UNCHANGED <<scStatus, scFiles>>
           [] w.file = "directory" ->
                /\ IF scFiles = EmptyDirectory THEN scTodo' = Tail(scTodo) /\ UNCHANGED scFiles
                   ELSE /\ \E f \in {g \in DOMAIN scFiles : scFiles[g] # EmptyDirectory[g]} :
                             scFiles' = [scFiles EXCEPT ![f] = EmptyDirectory[f]]
                        /\ UNCHANGED scTodo
                /\ UNCHANGED <<scStatus, scPending>>
           [] OTHER ->
                /\ scFiles' = [scFiles EXCEPT ![w.file] = w.value] /\ scTodo' = Tail(scTodo)
                /\ UNCHANGED <<scStatus, scPending>>
  /\ scExcused' = (scExcused /\ ~Finishes)

(* A write fails: the handler answers 409, with what it has done so far.   *)
WriteFails ==
  /\ Up /\ scTodo # <<>> /\ scTodo[1].file \notin {"memory", "pending"}
  /\ scTodo' = <<>> /\ scExcused' = TRUE /\ UNCHANGED <<scStatus, scPending, scFiles>>

SetupKilled ==
  /\ Up /\ scStatus' = NoStatus /\ scPending' = NoRepair /\ scTodo' = <<>>
  /\ UNCHANGED <<scFiles, scExcused>>

SetupNext ==
  \/ \E resume \in BOOLEAN : Start(resume)
  \/ \E p \in AuthorityProfiles, confirmed \in BOOLEAN : ActivateAuthority(p, confirmed)
  \/ RunSetup \/ ResumeSetup
  \/ \E i \in Issues : InjectFailure(i) \/ Diagnose(i)
  \/ \E confirmed \in BOOLEAN : ApplyRepair(confirmed)
  \/ Promote \/ Cleanup
  \/ DoWrite \/ WriteFails \/ SetupKilled

(***************************************************************************)
(* Properties                                                              *)
(***************************************************************************)
(* Wherever a process is killed, and in every order of setups, repairs and *)
(* restarts, a status file that says PASS (with which a restarted server   *)
(* skips the setup) has the config, lock and receipt of the plan beside    *)
(* it.  The code keeps this only from the next complete setup on after a   *)
(* cleanup or a failed write, which leave PASS in memory for a later       *)
(* handler to store, and after an injected config.                         *)
HealthyMeansMaterialized ==
  scFiles.status # NoStatus /\ scFiles.status.health = "PASS" /\ ~scExcused
  => scFiles.config = "GOOD" /\ scFiles.evidence = "GOOD"

(* The inductive invariant.  A file is good at the i-th write when it is   *)
(* now or one of the writes before makes it so.  A status that says PASS is*)
(* stored only where both files are good, the process has one only if they *)
(* are or will be, and a handler that stores one spoils neither.           *)
GoodAt(i, file) ==
  \/ scFiles[file] = "GOOD"
  \/ \E j \in DOMAIN scTodo : j < i /\ scTodo[j].file = file /\ scTodo[j].value = "GOOD"

BothGoodAt(i) == GoodAt(i, "config") /\ GoodAt(i, "evidence")

OfStatus(w) == w.file \in {"memory", "status"}
Spoils(w) == w.file = "directory" \/ (w.file \in {"config", "evidence"} /\ w.value # "GOOD")

SetupTypeOk ==
  /\ scStatus \in SetupStatus \cup {NoStatus} /\ scExcused \in BOOLEAN
  /\ scFiles \in [status : SetupStatus \cup {NoStatus}, config : {"NONE", "GOOD", "BAD"},
                  evidence : {"NONE", "GOOD", "BAD"}]
  /\ Len(scTodo) \in Nat /\ scTodo = [i \in 1..Len(scTodo) |-> scTodo[i]]
  /\ \A i \in DOMAIN scTodo :
       /\ scTodo[i].file \in {"memory", "pending", "directory", "status", "config", "evidence"}
       /\ OfStatus(scTodo[i]) => scTodo[i].value \in SetupStatus
       /\ scTodo[i].file \in {"config", "evidence"} => scTodo[i].value \in {"GOOD", "BAD"}

StatusesBacked ==
  ~scExcused =>
    /\ Up /\ scStatus.health = "PASS" => BothGoodAt(Len(scTodo) + 1)
    /\ \A i \in DOMAIN scTodo :
         OfStatus(scTodo[i]) /\ scTodo[i].value.health = "PASS" =>
           BothGoodAt(IF scTodo[i].file = "status" THEN i ELSE Len(scTodo) + 1)

NothingSpoilt ==
  \A i \in DOMAIN scTodo : Spoils(scTodo[i]) =>
    scExcused /\ \A j \in DOMAIN scTodo : OfStatus(scTodo[j]) => scTodo[j].value.health # "PASS"

SetupInv == HealthyMeansMaterialized /\ SetupTypeOk /\ StatusesBacked /\ NothingSpoilt
=============================================================================
