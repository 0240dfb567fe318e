------------------------------ MODULE DevWorker ------------------------------
(***************************************************************************)
(* One run of the development worker                                       *)
(* (packages/dev-worker/src/controller.ts) in each of its modes:           *)
(* "synthetic" (runSyntheticDevelopmentWorker), "m1a" and "trusted"        *)
(* (runM1aBootstrap without and with a trusted order) and "m1b"            *)
(* (runM1bTrustedPilot).  A run checks everything it was given, copies the *)
(* source projection to a workspace of its own, asks the model once,       *)
(* judges the candidate, compares the projection with its manifest again   *)
(* and always removes the workspace.                                       *)
(*                                                                         *)
(* What the checks read is a set of facts, one per check; an input is the  *)
(* set of facts that do not hold of it.  The projection is a directory     *)
(* other processes can write: its content is a version, 0 the one the      *)
(* manifest was computed from.                                             *)
(***************************************************************************)
EXTENDS Naturals, Sequences, FiniteSets, Functions

CONSTANTS
  MaxEdits,       \* bound of the writes to the projection
  MaxFlaws,       \* bound of the facts that fail in one input
  Untouched       \* nothing copied yet

VARIABLES
  dwMode, dwFlaws,         \* the mode, and the facts that fail of the inputs
  dwPhase,
  dwSource, dwEdits,       \* version in the projection, writes so far
  dwCopied,                \* version copied to the workspace and sent
  dwWorkspace,             \* the workspace exists
  dwCalls,                 \* provider calls
  dwOutcome

dwVars == <<dwMode, dwFlaws, dwPhase, dwSource, dwEdits, dwCopied, dwWorkspace,
            dwCalls, dwOutcome>>

ASSUME WorkerAssumption == MaxEdits \in Nat /\ MaxFlaws \in Nat /\ Untouched \notin Nat

Modes == {"synthetic", "m1a", "trusted", "m1b"}

(* assertNoWorkerOverrides() *)
OverrideChecks == <<"NO_SOURCE_OVERRIDE", "NO_MODEL_OVERRIDE">>

(* assertBindings() *)
BindingChecks ==
  <<"PROFILE_SCHEMA", "ORDER_SCHEMA", "ORDER_DIGEST", "WORKLOAD", "PROJECT", "ISSUE",
    "BASE", "LEASE", "BUDGET", "CAPABILITIES", "PUBLICATION", "ORDER_CREDENTIALS">>

(* assertTrustedPublicBindings() *)
TrustedBindingChecks ==
  <<"PROFILE_SCHEMA", "ORDER_SCHEMA", "ORDER_DIGEST", "PROJECT", "WORKLOAD", "LEASE",
    "ISSUE", "BASE", "MODEL_ROUTE", "BUDGET", "CAPABILITIES", "PUBLICATION",
    "ORDER_CREDENTIALS">>

(* assertM1bBindings() *)
M1bBindingChecks ==
  <<"PROFILE_SCHEMA", "ORDER_SCHEMA", "ORDER_DIGEST", "WORKLOAD", "PROJECT", "ISSUE",
    "BASE", "LEASE", "BUDGET", "ORDER_PATHS", "MODEL_ROUTE", "CAPABILITIES",
    "PUBLICATION", "ORDER_CREDENTIALS">>

(* assertBrokerConfig() *)
BrokerChecks ==
  <<"BROKER_CREDENTIALS", "BROKER_ENABLED", "BROKER_ROUTE", "BROKER_PROFILE",
    "CREDENTIAL_HANDLE", "BASE_URL", "BROKER_BUDGET", "BROKER_PRICE", "BROKER_HEADERS">>

(* assertSourceProjection(): the identity of the projection, then each     *)
(* file it lists, then that there is no other file.                        *)
SourceChecks ==
  <<"SOURCE_IDENTITY", "SOURCE_CREDENTIALS", "SOURCE_PROJECT", "SOURCE_ISSUE",
    "SOURCE_BASE", "SOURCE_MANIFEST", "SOURCE_SCOPE", "FILE_PATH", "FILE_REGULAR",
    "FILE_TEXT", "FILE_CREDENTIALS", "FILE_INSTRUCTIONS", "FILE_DIGEST", "NO_OTHER_FILE">>

(* The checks each entry point makes before it copies anything.            *)
WorkerChecks(mode) ==
  IF mode = "synthetic" THEN BindingChecks
  ELSE OverrideChecks
       \o (CASE mode = "m1a" -> BindingChecks
             [] mode = "trusted" -> TrustedBindingChecks
             [] mode = "m1b" -> M1bBindingChecks)
       \o BrokerChecks \o SourceChecks
       \o (IF mode = "trusted" THEN <<"ISSUE_SNAPSHOT">> ELSE <<>>)
       \o <<"CREDENTIAL_RESOLVED">>
       \o (IF mode = "m1b" THEN <<>> ELSE <<"CREDENTIAL_VALUE">>)

(* assertModelResponse() and the fixture test of the synthetic run.        *)
SyntheticReplyChecks ==
  <<"REPLY_SCHEMA", "REPLY_SCOPE", "REPLY_BUDGET", "REPLY_CREDENTIALS", "CHANGE_PATH",
    "CHANGE_FILE", "CHANGE_TEXT", "CHANGE_SIZE", "CHANGE_INSTRUCTIONS", "TEST_PASSES">>

(* assertPatchCandidate() *)
CandidateChecks ==
  <<"CANDIDATE_SCHEMA", "ONE_CHANGE", "REPLY_CREDENTIALS", "CHANGE_FILE", "CHANGE_PATH",
    "CHANGE_BEFORE", "CHANGE_TEXT", "CHANGE_SIZE", "CHANGE_INSTRUCTIONS">>

(* What follows the model's answer, up to the final look at the source.    *)
ReplyChecks(mode) ==
  IF mode = "synthetic" THEN SyntheticReplyChecks
  ELSE <<"IN_TIME", "PROVIDER_OK", "BODY_CREDENTIALS", "USAGE", "REPLY_BUDGET", "MESSAGE">>
       \o CandidateChecks
       \o (IF mode = "m1b" THEN <<"PATCH_NOT_EMPTY">> ELSE <<"TEST_PASSES">>)

(* The first fact of a sequence that fails.                                *)
Failing(checks, flaws) == {i \in DOMAIN checks : checks[i] \in flaws}
FirstFlaw(checks, flaws) ==
  checks[CHOOSE i \in Failing(checks, flaws) : \A j \in Failing(checks, flaws) : i <= j]

Denied(code) == <<"DENIED", code>>
Issued == <<"RECEIPT">>
Pending == <<"PENDING">>

WorkerInit ==
  /\ dwMode \in Modes
  /\ dwFlaws \in {{}} \cup {Range(f) : f \in [1..MaxFlaws -> Range(WorkerChecks(dwMode))]}
  /\ dwPhase = "start"
  /\ dwSource = 0 /\ dwEdits = 0 /\ dwCopied = Untouched
  /\ dwWorkspace = FALSE /\ dwCalls = 0 /\ dwOutcome = Pending

(* Another process writes the projection, or puts its content back.        *)
EditSource ==
  /\ dwPhase # "done" /\ dwMode # "synthetic" /\ dwEdits < MaxEdits
  /\ dwEdits' = dwEdits + 1
  /\ dwSource' \in {0, dwEdits + 1} \ {dwSource}
  /\ UNCHANGED <<dwMode, dwFlaws, dwPhase, dwCopied, dwWorkspace, dwCalls, dwOutcome>>

(* Mutant of AdmitRun: the content of the files is not compared.           *)
AdmitRunTrusting ==
  LET checks == SelectSeq(WorkerChecks(dwMode), LAMBDA c : c # "FILE_DIGEST")
  IN  /\ dwPhase = "start"
      /\ IF Failing(checks, dwFlaws) = {}
         THEN dwPhase' = "admitted" /\ UNCHANGED dwOutcome
         ELSE dwPhase' = "done" /\ dwOutcome' = Denied(FirstFlaw(checks, dwFlaws))
      /\ UNCHANGED <<dwMode, dwFlaws, dwSource, dwEdits, dwCopied, dwWorkspace, dwCalls>>

(* The admission checks: the digest of a file is compared with the one the *)
(* manifest names at this moment.                                          *)
AdmitRun ==
  LET flaws == dwFlaws \cup (IF dwSource = 0 THEN {} ELSE {"FILE_DIGEST"})
      checks == WorkerChecks(dwMode)
  IN  /\ dwPhase = "start"
      /\ IF Failing(checks, flaws) = {}
         THEN dwPhase' = "admitted" /\ UNCHANGED dwOutcome
         ELSE dwPhase' = "done" /\ dwOutcome' = Denied(FirstFlaw(checks, flaws))
      /\ UNCHANGED <<dwMode, dwFlaws, dwSource, dwEdits, dwCopied, dwWorkspace, dwCalls>>

(* mkdtemp and the copy: the files are read again, and what is read now is *)
(* what the candidate's beforeSha256 is compared with.                     *)
CopySource ==
  /\ dwPhase = "admitted"
  /\ dwWorkspace' = TRUE
  /\ dwCopied' = dwSource
  /\ dwPhase' = "copied"
  /\ UNCHANGED <<dwMode, dwFlaws, dwSource, dwEdits, dwCalls, dwOutcome>>

(* The request to the model; the synthetic model is in the process.  A     *)
(* prompt that would carry the credential is not sent.                     *)
CallModel ==
  /\ dwPhase = "copied"
  /\ \/ /\ dwPhase' = "calling" /\ UNCHANGED dwOutcome
        /\ dwCalls' = IF dwMode = "synthetic" THEN dwCalls ELSE dwCalls + 1
     \/ /\ dwMode # "synthetic"
        /\ dwPhase' = "closing" /\ dwOutcome' = Denied("PROMPT_CREDENTIAL")
        /\ UNCHANGED dwCalls
  /\ UNCHANGED <<dwMode, dwFlaws, dwSource, dwEdits, dwCopied, dwWorkspace>>

(* Mutant of JudgeReply: the source is not looked at again.                *)
JudgeReplyTrusting(flaw) ==
  LET checks == ReplyChecks(dwMode)
  IN  /\ dwPhase = "calling"
      /\ dwOutcome' = IF flaw \in Range(checks) THEN Denied(flaw) ELSE Issued
      /\ dwPhase' = "closing"
      /\ UNCHANGED <<dwMode, dwFlaws, dwSource, dwEdits, dwCopied, dwWorkspace, dwCalls>>

(* The answer, judged; then every file of the projection is compared with  *)
(* the manifest once more.  The synthetic run has no projection.           *)
JudgeReply(flaw) ==
  LET checks == ReplyChecks(dwMode)
  IN  /\ dwPhase = "calling"
      /\ dwOutcome' = IF flaw \in Range(checks) THEN Denied(flaw)
                      ELSE IF dwSource # 0 THEN Denied("AUTHORITATIVE_SOURCE_CHANGED")
                      ELSE Issued
      /\ dwPhase' = "closing"
      /\ UNCHANGED <<dwMode, dwFlaws, dwSource, dwEdits, dwCopied, dwWorkspace, dwCalls>>

(* The abort signal after timeoutMs, or a failed connection: both end the  *)
(* await with an exception the catch turns into a denial.                  *)
CallFails ==
  /\ dwPhase = "calling" /\ dwMode # "synthetic"
  /\ \E code \in {"MODEL_TIMEOUT_EXCEEDED", "PROVIDER_ERROR_QUARANTINED"} :
       dwOutcome' = Denied(code)
  /\ dwPhase' = "closing"
  /\ UNCHANGED <<dwMode, dwFlaws, dwSource, dwEdits, dwCopied, dwWorkspace, dwCalls>>

(* Mutant of CloseRun: a directory that stays is not reported.             *)
CloseRunSilently ==
  /\ dwPhase = "closing"
  /\ dwPhase' = "done"
  /\ dwWorkspace' \in BOOLEAN
  /\ UNCHANGED <<dwMode, dwFlaws, dwSource, dwEdits, dwCopied, dwCalls, dwOutcome>>

(* finally: rmSync, and CLEANUP_FAILED over any other outcome when the     *)
(* directory is still there.                                               *)
CloseRun ==
  /\ dwPhase = "closing"
  /\ dwPhase' = "done"
  /\ \/ dwWorkspace' = FALSE /\ UNCHANGED dwOutcome
     \/ dwOutcome' = Denied("CLEANUP_FAILED") /\ UNCHANGED dwWorkspace
  /\ UNCHANGED <<dwMode, dwFlaws, dwSource, dwEdits, dwCopied, dwCalls>>

(* The run's own next step: it is driven by its process, and the await     *)
(* ends because the request carries AbortSignal.timeout(timeoutMs).        *)
RunAdvances ==
  \/ AdmitRun \/ CopySource \/ CallModel
  \/ \E flaw \in Range(ReplyChecks(dwMode)) \cup {"NONE"} : JudgeReply(flaw)
  \/ CallFails \/ CloseRun

WorkerNext == RunAdvances \/ EditSource

(***************************************************************************)
(* Properties                                                              *)
(***************************************************************************)
WorkerTypeOK ==
  /\ dwMode \in Modes
  /\ dwFlaws \subseteq Range(WorkerChecks(dwMode))
  /\ dwPhase \in {"start", "admitted", "copied", "calling", "closing", "done"}
  /\ dwSource \in 0..MaxEdits /\ dwEdits \in 0..MaxEdits
  /\ dwCopied \in 0..MaxEdits \cup {Untouched}
  /\ dwCalls \in Nat

(* What runM1bIsolationProbes() plants, and its demand: each is denied     *)
(* with no call to the provider.                                           *)
ProbeFlaws == {"SOURCE_IDENTITY", "NO_SOURCE_OVERRIDE", "FILE_PATH", "FILE_REGULAR",
  "SOURCE_BASE", "SOURCE_ISSUE", "FILE_CREDENTIALS", "LEASE", "BROKER_BUDGET",
  "BROKER_ROUTE"}

(* The provider is called at most once, by a run in which every admission  *)
(* fact held, and a run that copied nothing called nobody; in M1B each     *)
(* isolation probe ends in a denial without a call.                        *)
ProviderOnlyWhenAdmitted ==
  /\ dwCalls <= 1
  /\ dwCalls = 1 => dwFlaws = {} /\ dwCopied # Untouched
  /\ dwMode = "m1b" /\ dwFlaws \cap ProbeFlaws # {} =>
       dwCalls = 0 /\ (dwPhase = "done" => dwOutcome[1] = "DENIED")

(* A receipt comes from an admitted run; and unless the projection was     *)
(* written and put back while the run read it, what the model was sent is  *)
(* what the manifest names.                                                *)
ReceiptBindsManifest ==
  dwOutcome = Issued => dwFlaws = {} /\ (dwEdits <= 1 => dwCopied = 0)

(* The inductive invariant, by phase: a run past its admission had no      *)
(* flaw; nothing is called before the copy; an answer comes last.          *)
WorkerInv ==
  /\ WorkerTypeOK
  /\ dwEdits = 0 => dwSource = 0
  /\ dwCopied \in Nat \ {0} => dwEdits >= 1
  /\ dwCopied \in Nat \ {0} /\ dwEdits = 1 => dwSource # 0 /\ dwOutcome # Issued
  /\ dwPhase \in {"start", "admitted"} => dwCopied = Untouched
  /\ dwPhase \in {"copied", "calling", "closing"} => dwCopied # Untouched
  /\ dwPhase \in {"start", "admitted", "copied"} => dwCalls = 0
  /\ dwPhase \in {"start", "admitted", "copied", "calling"} => dwOutcome = Pending
  /\ dwPhase \in {"admitted", "copied", "calling", "closing"} => dwFlaws = {}
  /\ dwPhase = "done" /\ dwFlaws # {} => dwCalls = 0 /\ dwOutcome[1] = "DENIED"
  /\ dwPhase = "done" /\ (dwCalls = 1 \/ dwOutcome = Issued) => dwCopied # Untouched
  /\ dwCalls <= 1

(* Every run ends, and leaves its workspace only when it says so.          *)
RunsEnd == <>(dwPhase = "done" /\ (dwWorkspace => dwOutcome = Denied("CLEANUP_FAILED")))
=============================================================================
