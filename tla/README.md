# A TLA+ model of ChimpMaera's governed effects

ChimpMaera puts trusted code between an agent and the systems it may change.
This project models the parts of the repository that decide *whether, when and
how often* something changes, and shows that they keep their promises through
overlapping calls, failed writes, crashes and late answers. Paths below are
relative to the repository.

## 1. The system and its parts

| Part | State it keeps | Operations | Hard about it |
|---|---|---|---|
| **Mutation gate** `demo/runtime/enforcement-gate.mjs` | effect store (receipts, reservations, consumed leases) in memory and in one JSON file | `execute`, `persist`, load | calls interleave at awaits; write fails; crash after send; provider acts late |
| **Policy fence** `demo/runtime/policy-generation-fence.mjs` | activation record file | `activate`, `freezeDispatch`, `assertUseBinding` | read by the gate at use, written by another process |
| **Policy lifecycle** `demo/management/policy-lifecycle.mjs` | lifecycle record file; drives the fence's file | draft, validate, simulate, approve, stage, activate, retire, revoke, report rollout | two files written one after the other |
| **Adaptive controller** `scripts/adaptive-controller.mjs` | `state.json`, `state.lkg.json`, `controller.lock`, `DISABLED` | `runOnce` | overlapping processes, killed processes, stale lease |
| **Server** `demo/runtime/server.mjs` | none of its own | start-up, routes | fence and gate must agree at start |
| **Approval workbench** `demo/runtime/approval-workbench.mjs`, `admin-ai-poc.mjs` | decisions, proposals, owner decisions in one file | ask, register, decide | two awaits of a snapshot; a store that fails after memory changed |
| **OpenClaw gateway** `demo/openclaw-agent` | effects of two routes, mind, replay ids in one state file | execute, mind write/read/reset | several persists per handler, each may throw or be the last |
| **Builder agent** `demo/builder-agent` | target, receipts, counters | read, write and restore, reset | a kill between write and restore |
| **Builder planning** `contracts/builder-*.ts` | documents | discover, resolve, decide, plan, evidence | inputs change between the documents |
| **Skill manager** `demo/managed-skill-lifecycle` | state file and the active directory | install, activate, roll back, reset | held installs; directory and file |
| **Skill broker, bundles** `contracts/skill-*.ts` | generations per tenant; lock and files | install, activate, roll back; build, verify | overlapping calls; files written meanwhile |
| **Model brokers** `contracts/model-access-broker.ts`, `demo/model-access-broker` | receipts, reserved budget, stream | invoke, stream | overlapping calls of one operation |
| **Capability broker** `contracts/capability-catalogue.ts` | replay store | admit, prepare, commit | callbacks that re-enter |
| **ERP order cell** `contracts/erp-order-capability-cell.ts` | active profile, replay ids, switch receipts | order, switch, roll back | a faulty provider, ids across profiles |
| **Audit timeline** `contracts/protected-audit-timeline.ts` | a writer's chain | append, checkpoint, verify | lost, doubled, mixed envelopes; restarts |
| **Setup coordinator, planner** `packages/setup-coordinator`, `contracts/poc-*.ts` | status, config, lock, receipt; documents | run, repair, resume, promote, clean up; compose, plan | several files per handler |
| **Usage insights** `packages/usage-insights` | store file; batches at receivers | consent, record, share, delete, rotate | lost answers, late arrivals, kills |
| **Dev worker, governed workloads, publication** `packages/dev-worker` | a workspace; budgets and writers; branches at a provider | run, execute, publish | a projection others write; overlap; partial failure |
| **Contribution ledger** `contracts/contribution-intake-ledger.ts` | entries | classify, append, load | replaced heads that return |
| **Update plan, doctor, effective rights** `contracts/update-*.ts`, `effective-rights.ts` | documents | make, verify | evidence that ages, edited documents |
| **Daily candidate** `scripts/daily-poc.mjs` | output directory with run state | prepare | killed in mid-write, resumed |

How they interact: a caller sends an envelope to the server, which hands it to
the gate. The gate asks the fence whether the policy generation may be used,
reads an authoritative snapshot from the provider, reserves, sends, reads back
and records. The lifecycle manager raises and freezes the fence from another
process. Owner leases are issued by the workbench through
`gate.ownerAuthority()`. The adaptive controller stands alone. The worker, the
publication broker and the ledger pass documents to each other and check each
as if it came from anywhere; the remaining services share no state with each
other. In the checked-in demo they run beside the gate, not behind it.

What makes each correct:

* gate: an effect under an owner lease is sent at most once, never before its
  reservation is durable, never on authority of another process lifetime, and
  an answer names a real object;
* fence and lifecycle: generations open for use in order and once; a revoked
  one is never served; widening needs an approval that allows it; there is
  always a fallback;
* adaptive controller: one lease holder, one step at a time from the state that
  was read, the alarm only for a dead holder, the lease released;
* delivery: budgets and writer slots hold at every moment, the provider holds
  what the receipts say, a ledger file that loads is a history, a run reaches
  the model only with everything admitted, and it ends;
* services: an answer stays true through retries and kills, what a kill leaves
  in a file tells what was done, authority needs a verdict of its own, and a
  document that verifies is what its maker made of the world as it was.

`PROJECT.json` lists every part, modelled or not with the reason, and every
hazard with its line and the properties aimed at it.

## 2. Modules

| Module | Models | Notes |
|---|---|---|
| `AtMostOnceEffect` | abstract specification of owner effects | a slot per replay key; the provider acts only on a durable slot, once |
| `EffectGate` | `DemoMutationGate` with provider, crash and restart | one action per stretch of code between two awaits |
| `MCEffectGate` | instance for TLC | |
| `EffectGateProofs` | theorems about `EffectGate` | |
| `PolicyFence` | the fence's record and its functions | no variables; used by `PolicyLifecycle` |
| `PolicyWindow` | abstract specification of dispatch | generations open in order, each at most once |
| `PolicyLifecycle` | `PolicyLifecycleManager` | two-file calls are two steps |
| `MCPolicyLifecycle` | instance for TLC | |
| `PolicyLifecycleProofs` | theorems about `PolicyLifecycle` | |
| `AdaptiveController` | `runOnce()` | one action per file access; TLC runs it directly |
| `AdaptiveControllerProofs` | theorems about `AdaptiveController` | |
| `Verdicts` | a sequence of checks of which the first to fail answers | idiom, no code of its own |
| `DevWorker`, `GovernedWorkloads`, `PublicationBroker`, `ContributionLedger` | `packages/dev-worker/src`, the ledger | |
| `HeadHistory` | abstract specification of the ledger's head | refined by `ContributionLedger` |
| `Delivery`, `MCDelivery` | the four above, one at a time | |
| `DeliveryProofs` | theorems about `Delivery` | worker, workloads, publication, the ledger and its refinement |
| `UsageInsights` | usage service and runtime | |
| `SetupCoordinator` | the setup dashboard's handlers | |
| `ApprovalWorkbench` | Admin-AI flow and workbench | |
| `ManagedSkills`, `SkillBundles` | skill broker and store; bundle lock | |
| `SkillManager` | the managed skill demo | |
| `CapabilityBroker` | gateway, broker, executor | |
| `OpenClawGateway` | the gateway with its state file | |
| `BuilderAgent`, `BuilderPlanning` | the builder demo; its planning pipeline | |
| `ErpOrderCell` | orders over two profiles | |
| `ModelAccess` | both model brokers | |
| `AuditTimeline` | writer, transport, verifier | |
| `GuidedPlan`, `SetupPlanning` | guided demo documents; planner over them | |
| `UpdatePlan`, `UpdateDoctor` | update check and its health evidence | |
| `EffectiveRights` | compiler and X-ray | |
| `DailyCandidate` | `prepare()` | |
| `Services`, `MCServices` | the eighteen above, one at a time | |
| `AuthorityProofs`, `StoreProofs`, `AnswerProofs`, `DocumentProofs` | theorems about `Services` | workbench, skills, capabilities, models; setup, usage; orders, skill manager, gateway, builder, daily candidate, the usage store's loading; the seven documents, and all eighteen together |

### EffectGate

`execute()` runs without interruption between awaits, so its steps are: from
arrival to the snapshot read (`Deny`, `AskSnapshot`, `Replay`,
`SendDirectly`), the read (`SnapshotRead`, `SnapshotFails`), its continuation
up to the mutation (`RefuseAfterSnapshot`, `ReserveAndSend`, `ReserveThrows`),
the answer (`MutateAnswered`, `ProviderFails`) and the record (`Record`,
`RecordThrows`). `mem` is `this.state`, `disk` the file; `persist()` writes all
of memory or throws and leaves the file. `ProviderCommit` may happen any time
after the send. `Crash` loses memory; `Restart` is the start-up path of
`server.mjs` and the constructor, which refuses a store that
`normalizeEffectStore` does not accept (`Loadable`).

Data abstraction: an envelope is a record of what `execute()` tells apart. All
checks that depend on the envelope alone (HTTP headers, shape, scope, digests,
HMACs) are the one field `valid`. `RequestAssumption` states what the HMAC
gives: two valid envelopes with one lease id are one lease. Snapshots are sets
of orders, and only orders made under an owner lease carry the reference that
the snapshot query asks for (the installer's orders carry others).

### PolicyFence and PolicyLifecycle

A method that writes one file is one step; a denied call, or one whose only
write throws, changes nothing and is no step. `activate()`, `revoke()` of the
active generation and a divergent `reportRollout()` write the fence and then
the record: `Begin` (fence) and then `FinishCall`, `DenyReplayed` (the
operation id has a receipt already), `FinishThrows` or `Crash`. Policies are
reduced to bytes, a rank (how much authority the rules give) and whether the
runtime accepts them; the trust store is a version number. The fence's own
second validation of the policy (`policy-generation-fence.mjs:80-84`, `135`) is
left out: `ActivateFence` may succeed where it would throw, so the model allows
more than the code.

### AdaptiveController

Every file access of `runOnce()` is a step: `ReadPrior`, `Look`, the stale
lease branch (`LeaseHeld`, `LeaseStale`, alarm writes), `OpenLock` (`'wx'`),
`WriteLock`, `ReadResult`, `WriteBackup`, `WriteState`, `Unlock`. A write may
throw before or after its rename. `overlap`, chosen once, is how many
invocations run at a time; properties about the state file are stated for 1,
properties about the lease for any number. A digest is the name of the
invocation that wrote the state.

### Delivery

The parts share no variable, because the code shares none: `part` says which
one a behaviour explores. A worker run is `AdmitRun` (all checks on what it was
given), copying, one request to the model, `JudgeReply`, the second comparison
of the projection and `CloseRun`; other processes write the projection between
any two. `CopySource` merges the re-read after the copy (`controller.ts:727`) with
the copy. `GovernedWorkloads` admits and reserves in one step, because
`execute()` does not await before it, and any number of executions await.
`PublicationBroker` is synchronous: a call is one step in which the provider
may fail at each of its own. `ContributionLedger` replays a serialised ledger
with one field changed and all digests recomputed, the most a holder of the
file can do, since the digests carry no key.

### Services

`service` says which service a behaviour explores. What they have in common:

* a handler that runs to its end between two awaits is one step; one that
  writes several files, or one file several times, is a step per write, and
  the process may be killed, or the write may throw, at each;
* an await is a pair of steps with whatever else may happen between them: a
  request that overlaps, an answer that is lost or late, a policy, a snapshot or
  a file that changes;
* a digest is the record it was taken of, a signature what was signed, a random
  id the least number that occurs nowhere; checks that look at one input alone
  are one field of it (`sound`, `flaws`), checks that relate two
  things are kept.

`UsageInsights` keeps what receivers hold (`uiRemote`) and what they are still
at (`uiLate`), each batch with its endpoint and its events, each event with the
pseudonym it was recorded under; a deletion reaches only the endpoint it is sent
to. `ModelAccess` redacts the text of a request in the library broker, as
`guardModelRequestV1()` does, and nothing in the demo broker; no property claims
that secrets stay inside. `AuditTimeline` gives an event one operation, which
stands for operation id and correlation id (`protected-audit-timeline.ts:527`,
`641` compare both). `OpenClawGateway` has memory, file and the handler between its
persists. `SkillManager` and `BuilderAgent` keep memory apart from the file, as
a persist that throws leaves them. `CapabilityBroker` has a stack of calls, for
callbacks that call the broker again. `DailyCandidate` writes file by file, a
`.partial` first, which a kill leaves torn. `SetupPlanning`, `UpdatePlan`,
`UpdateDoctor`, `SkillBundles`, `EffectiveRights` and `BuilderPlanning` are
pipelines of pure functions: their actions make a document, change one of its
inputs or one of its fields, and verify it; their functions are the code's.

## 3. Runs

| Run | Instance | Shows |
|---|---|---|
| `gate` | 2 calls, 2 keys, 3 leases, 6 envelopes, 2 generations, clock to 2, 2 failed writes, 2 crashes | `OwnerAtMostOnce`, `ReservedBeforeSend`, `AnswerIsBacked`, `SendsAreAuthorized`, `GateInv` (type included), refinement of `AtMostOnceEffect`, and `ReservationSettles` |
| `lifecycle` | 3 generations, 5 artifacts (reused bytes, wider rules), 2 approvals, 1 failed write, 1 crash, 1 trust change, clock to 1 | type, `OneActive`, `RevokedNotServed`, `LastSafeRetained`, `NoUnapprovedWidening`, `LifecycleInv`, refinement of `PolicyWindow` |
| `adaptive` | 3 invocations, overlap 1 or 2, clock to 3, 1 fault (kill or failed write) | type, `LeaseIsExclusive`, `SequentialAdvance`, `BackupIsPredecessor`, `AttentionIsEarned`, `ControllerInv`, `LeaseIsReleased` |
| `delivery` | worker in 4 modes with each check failing alone, 1 edit of the projection; 10 workloads under budgets of 1 to 3; 6 publications with every fault; ledger of 9 deliveries and every tampering of one field | `DeliveryInv` (type included), `GovernanceBounded`, `OneWriterPerScope`, `ProviderMatchesReceipts`, `ProviderOnlyWhenAdmitted`, `ReceiptBindsManifest`, `OnlyHistoriesVerify`, refinement of `HeadHistory`, `WorkerRunsEnd` |
| `services` | eighteen services, bounds below; 1.22 million states | the properties below |
| `gate_replay_duplicate` | 2 calls | `ReplayMakesNoDuplicate` is violated |
| `gate_use_time` | 2 calls | `OwnerAuthorityAtSend` is violated |
| `gate_store_loadable` | 2 calls | `StoreStaysLoadable` is violated |
| `lifecycle_denial` | 3 generations | `DenialPreservesState` is violated |
| `adaptive_drift` | 2 invocations | `DriftFailsClosed` is violated |
| `lease_shared` | the `delivery` instance | `WriterLeaseNotShared` is violated |
| `rollback_activates` | the `services` instance, skill library | `RollbackNeverActivates` is violated |

The properties of `services` (`Explored` names the services a run explores; no
two share state, so that any of them can be explored alone):

| Property | Says |
|---|---|
| `ServicesInv` | the inductive invariants of all eighteen services (section 4): types, how calls in flight, stores and answers belong together, and what a document still says of its making |
| `SharedDataIsManaged` | every batch a receiver holds can still be deleted, with an id the store keeps for that receiver's endpoint, or was deleted before it arrived; its events are those its profile allows, all of its own epoch; pseudonyms do not link batches |
| `HealthyMeansMaterialized` | a stored PASS has config, lock and receipt of its plan beside it, from a complete setup until a cleanup, a failed write or an injected config |
| `AuthorityNeedsOneVerdict` | an undeclared request gets no authority, an order only its owner's, a proposal one verdict in a profile generation; the file holds no other verdict |
| `StoredSkillsWereAdmitted` | every package of every generation was committed once by an operation whose request was admitted by the owner's matrix or an approval of exactly it; no operation that commits an install makes it active |
| `EffectsAreAuthorized` | a request id is committed at most once, under a policy and an activation in force when the broker was called; EXECUTED means it happened |
| `AnswersLast` | gateway tickets and receipts, manager receipts and ERP orders stay the last word about their id |
| `StoresSurviveKills` | what a kill leaves tells what was done: the usage store always opens; the builder's file holds its base or shows that a write was cut from its restore; a daily directory holds the files of one manifest, and none if it has no state file that can be read |
| `ModelCallsAreGuarded` | the provider is called within the ceiling, failed calls included; a receipt is an answer given to its request; no unasked tool comes back, a stream is whole |
| `DocumentsHold` | audit timeline, setup plan, update plan, health report, bundle lock, X-ray, builder plan and evidence: what verifies is what was made |

Run one with `tlc -workers 2 -config <cfg> <module>`. Deadlock is not checked:
all runs end when the calls and the bounds are used up.

**Bounds.** Two calls are enough for every race of the gate, because a race
needs one call to pass a check and one to invalidate it; two crashes and two
failed writes let a restart be followed by a second failure. One key carries
all contention and a second one a lease issued for a later snapshot. Three
generations give a superseded one, an active one and a candidate. Three
invocations give a dead holder, an alarm and a successor. The theorems of
section 4 hold without bounds.

In `delivery` budgets are one less than what all workloads ask, so each limit is
reached with two running; three heads give one that is replaced, one that
replaces it and its return. In `services` each bound lets the case it is for
happen and be followed by another step: two shared batches and two held (an
orphan beside a managed one), two endpoints, so that an id can be kept for the
wrong one (symmetric, since the code tells them apart by name only), two generations and two decisions of the
workbench, a replay cache of two ids (it fills), an
effect budget of two and a mind quota of one, four manager receipts (install, activate, roll back, activate again),
nesting two deep, two switches of the ERP profile, two model calls at a
time, repeated up to a ceiling of three, two writers of a timeline (approvals that allow or deny,
effects and read-backs that committed or failed), three writes to a bundle's
files, two reissued operands, two observations under different plans. Clocks
run just past the longest interval of their part. Sets of requests are
chosen by hand in the MC modules: one good one and one per check that relates
it to something else.

**Fairness.** `EffectGate`: weak fairness of the continuation of each waiting
call, because node runs every ready callback and `fetch` settles; nothing is
assumed of callers, the provider, the clock, the operator or the disk.
`ReservationSettles` excuses crashed calls and failed writes. `Delivery`: the
worker's run takes its next step, its one await ends by its own timeout.
`Services` states safety only: each of its handlers ends by itself, and whether
a caller, a receiver or an operator comes back is not the code's to decide.
`PolicyLifecycle`: a synchronous call that began ends. `AdaptiveController`: a
running process takes its next step.

**Mutants.** Each property is broken by a plausible slip in the code it is
about (the operators commented "Mutant of"); `PROJECT.json` pairs them.

### What the violated properties say

1. `ReplayMakesNoDuplicate`. Only owner leases are reserved. Two overlapping
   agent calls with one replay key, or a retry after an unknown outcome, make
   two contacts. `docs/CANON.md` CM-CAN-12 rules out both.
2. `OwnerAuthorityAtSend`. Expiry and policy are checked before the snapshot
   read is awaited and not again before the send. CM-CAN-08 asks for
   revalidation immediately before the effect.
3. `StoreStaysLoadable`. An agent effect recorded under a key that an owner
   lease has reserved breaks the assertion of `normalizeEffectStore`, so the
   gate refuses its own file at the next start.
4. `DenialPreservesState`. `activate()`, `revoke()` and `reportRollout()`
   change the fence before the operation id is found to be a replay. After a
   denied `activate()` the generation stays STAGED, cannot be activated again
   (the fence refuses it), and revoking it does not freeze the fence.
5. `DriftFailsClosed`. `runOnce()` reads the state before it takes the lease;
   an invocation that waited overwrites what another one committed, with the
   same sequence number.
6. `WriterLeaseNotShared`. `execute()` compares a reviewer's lease with those
   writers hold, but not a writer's with those of reviewers admitted before it.
7. `RollbackNeverActivates`. A rollback restores the generation before the
   current one, which after a failed activation is the one with the skill
   active; the docs say that a rollback must not activate.

### What the runs show besides

Behaviour that no property forbids, met on the way and worth knowing: a gateway
reservation that a crash left RESERVED is answered REPLAY_IN_FLIGHT for ever;
an activation whose probe fails undoes an install committed during the probe; a
batch that arrives after its own deletion stays at the receiver; a daily output
directory killed before its state file is refused by every later run
(`daily-poc.mjs:678`), and one with a torn `.partial` by every later write of that
file (`daily-poc.mjs:652`), although `docs/DAILY-POC-CANDIDATES.md:85-88` says
that running again converges; a kill between the two persists of a
builder write (`builder-core.mjs:185`) leaves the written value until a reset,
later receipts call it the prior value, and a process deployed with other fields
refuses the file; a kill between the skill manager's change of the directory
and its persist leaves the two apart, as a failed activation does by design; the
library model broker redacts the text of a request and no other part of it
(`model-access-broker.ts:328`), the demo broker none; the audit timeline explains a committed
read-back as a success after an approval that denied or an effect that failed
(`protected-audit-timeline.ts:585-588`); an effective-rights result denied for a kind given twice fails
its own verifier; a builder plan may give a write no rollback or safety
context, and evidence demands a rolled-back write even where the route is DENY;
`validateRuntimeContract()` of the builder ties the kind of an adapter neither
to the effect class nor to the route, so an operation admitted as READ_ONLY may
write (the counters are therefore compared with the outcomes of the receipts,
not with the routes).

## 4. Theorems

All proofs are checked by TLAPS for every value of the constants, under the
named assumptions of the modules (`NoneAssumption`, `BoundAssumption`,
`GenerationAssumption`, `RequestAssumption`; `FenceAssumption`,
`NoFenceRecord`, `LifecycleAssumption`, `NoLifecycleRecord`;
`ControllerAssumption`, `NoControllerRecord`). TLC evaluates
the assumptions on its instances.

`EffectGateProofs`: `GateInvariant`, from which `TypeCorrect`, `AtMostOnce`,
`WriteAhead`, `AnswersBacked`, `SendsAuthorized` and the refinement
`GateRefines` follow. `OwnerAtMostOnce` is not inductive: it needs that every
sent owner mutation has its reservation on disk (`ReservedBeforeSend`), that
memory is never behind the file although writes fail (`MemoryAhead`), that a
restart reads what was reserved, and that a call between send and record still
holds its reservation (`HolderInv`). With these the repeated check after the
await sees every earlier send, in this life of the process or an earlier one.
The refinement uses `AheadOf`: a write can only move a slot forward.

`PolicyLifecycleProofs`: `LifecycleInvariant`, from which
`LifecycleTypeCorrect`, `SingleActive`, `RevocationHolds`, `LastSafeExists`,
`WideningNeedsApproval` and the refinement `LifecycleRefines` follow.
`RevokedNotServed` needs to know what the fence can serve: a superseded or
retired generation is never the fence's active one, an activated one is in one
of four states (`EntryInv`), and a call between its writes has left the fence
frozen or on a STAGED generation (`CallInv`). `NoUnapprovedWidening` rests on
the runtime's validation at `stage()`, which accepts one rule set only; the
diff itself may be stale. The refinement's one delicate step is the record
write of `activate()`: it may open the window only because the fence was on a
STAGED generation, which nobody can use (`StagedUnusable`), so the window was
"opening" before; an abandoned call leaves it shut for good because the fence
admits that generation no second time.

`AdaptiveControllerProofs`: `ControllerInvariant`, from which
`ControllerTypeCorrect`, `LeaseExclusive`, `BackupPrecedes`, `AttentionEarned`
and `AdvancesInSequence` follow. A lease file belongs to its holder or to one
that died with it (`LockInv`); without overlap one invocation is active
(`Solo`), so what it read is what it replaces, and its snapshot is written
before its state (`SoloInv`). A dead holder's file is never removed, which is
why ATTENTION stays earned (`DeadStep`).

The theorems about `Delivery` and `Services` hold for every value of their
constants. Each component has an inductive invariant of its own; a step of the
composition is a step or a stutter of every component (`DeliverySteps`,
`AuthoritySteps`, `StoreSteps`, `DocumentSteps`), so they are proved one at a time. Their
assumptions say what kind of thing each constant is: `GovernanceAssumption`,
`PublicationAssumption`, `WorkerAssumption`, `LedgerAssumption`,
`WorkbenchAssumption`, `SkillsAssumption`, `CapabilityAssumption`,
`ModelAssumption`, `SetupAssumption`, `UsageAssumption` (a grant of
diagnostics lasts at least a tick, and no profile is named "none"), `ErpAssumption`
(a kind of provider has one published profile, as the constructor demands),
`ManagerAssumption`, `GatewayAssumption` (legacy files have the fields the
migrations read), `BuilderAssumption` and `DailyAssumption` (a missing or torn
file is not a state), `AuditAssumption` and `UpdateAssumption` (times are
natural numbers), `RightsAssumption` (the input compiled first is made of
operands), `GuidedAssumption` (no showcase use case has a module or an action
named "unknown", which is what its negative cases put in their place) and
`PlanningAssumption` (groups list providers, bases name finitely many use
cases). TLC checks the invariants themselves on the runs, as `DeliveryInv` and `ServicesInv`.

`DeliveryProofs`:

* `GovernanceInvariant`, then `BudgetsHold` and `OneWriter`. A budget is
  cumulative, so the bound is inductive only together with what the usage
  counts: a scope's slots are the executions that still run, what receipts
  spent and running executions reserved is within its usage, and every
  admitted request's id and every writer's claim is kept for good
  (`ClaimsKept`). A slot is freed once because a running execution ends once.
* `ProviderMatches`: besides the property itself only that the provider's
  numbers have not been used yet (`PublicationInv`); the work is in the steps,
  which take every place a provider's call may fail at.
* `WorkerCallsWhenAdmitted`, `WorkerReceiptBound`: the number of edits of the
  projection a run has seen tells whether both its comparisons looked at the
  same content.
* `LedgerInvariant`: the ledger is one its own verifier accepts, with the
  receipts among its entries. `LedgerRefines`: each append advances the head of
  `HeadHistory` to a head it never had, since a head that was replaced is the
  head of an appended entry, and `classifyNormalized()` rejects those.
  `HistoriesVerify` is the agreement of producer and verifier for every edit of
  one field and every omission, over ledgers of any length: `FoldExists` and
  `ReplayFolds` give the recursive function inside `Replay` its values by the
  least length at which they would fail, and `VerifiesAsReplayed` compares entry
  after entry with it.
* `DeliveryInvariant` collects the four parts.

`AuthorityProofs`:

* `OneVerdict`: while a decision awaits its snapshot its proposal is undecided
  in memory and no other call decides it (`CallsOk`); what was issued in this
  generation is recorded in memory (`IssuedOk`), and memory and file hold
  decisions that were given (`StoreOk`).
* `SkillsWereAdmitted`: every generation holds packages of admitted installs
  only, also one committed while a probe awaited (`GenerationsOk`, `InstallsOk`,
  `ProbesOk`); the generation of an install has the active skills of the one
  before it, without its own (`InstallsStartInactive`).
* `EffectsAuthorized`: the stack of nested calls holds each request id at most
  once, with its reservation; an effect's id is CONSUMED or its call is still
  on the stack, DONE (`StackOk`, `EffectsOk`). So no depth of re-entry
  commits an id twice.
* `CallsGuarded`: what was sent is exactly what was reserved
  (`SentIsReserved`), a call in flight was admitted, and a stream's events are
  in order until an error ends it.

`StoreProofs`:

* `HealthyIsMaterialized`: the writes a handler still has to make are part of
  the state (`StatusesBacked`, `NothingSpoilt`): a PASS is only ever queued
  behind config and evidence of its plan, with nothing after them that spoils
  them.
* `SharedIsManaged`: everything that lies at a receiver, is still on its way or
  is in the store is one set of batches (`Held`) whose deletion ids,
  pseudonyms and endpoints belong together (`IdsPair`), whose events are of the
  epoch of their batch (`OfItsEpoch`), and what a call in flight
  will delete is known (`CallHandles`). It needs that the random ids are fresh:
  `FreshIds` shows that the least unused numbers are unused and distinct, from
  the least-number principle `LeastNatural`.

`AnswerProofs`:

* `AnswersAreLast`. Gateway (`GatewayInv`): memory is the file between two
  handlers, and within one every state that is still to be persisted keeps what
  was answered before, the last one also the answer under way (`HandlerOk`). So
  it does not matter which `persist()` throws or is the last before a kill, and
  what is loaded again keeps each answer: by what the migrations keep of a file
  of an older version, and by the two forms of a mind whose reset was cut
  (`recoverMindState()`). An answered entry stays until its own time is over:
  overwriting never shortens one (`KeptUntil`), because the modelled clock does
  not run backwards. Skill manager (`ManagerInv`): while an install is held nothing is
  installed, so that one commit follows it, and memory has every answered
  receipt although the file is written after the handler. Orders (`CellInv`):
  receipts, replay ids and what the providers saw are the same set; it needs
  that two published profiles bind two providers (`BindingsDiffer`).
* `StoresSurvive`. Usage store (`LoadInv`): what `readStoredState()` demands of
  a file holds of every file written, since deletion handles are distinct and
  no rotation lies in the future. Builder (`BuilderInv`): the receipts of the
  file count its reads and writes, and its target is the one it began with,
  or, from a kill between a write and its restore up to the reset, has values of
  admitted writes and an attempt more than writes. The usage store is the only
  one of the three that the theorem says can always be opened. Daily candidate
  (`DailyInv`): each file a run has written is still in the directory with the
  content its manifest gives it, so a COMPLETE state has its report; half-written
  files are of the same manifest and stand for files that are not there
  (`PartialsAreOwn`); a directory without a readable state holds neither.

`DocumentProofs` (`DocumentsAlwaysHold`). A digest is the record it was taken
of, so each part asks which documents a reader can be shown, and what an edit
left as it was:

* Audit timeline (`AuditInv`): a writer and a place are of one envelope, in
  whichever chain it lies. Whatever arrives is made of envelopes that were
  signed and of edited ones (`ArrivedIsOf`); an envelope with the digest of an
  issued one is that one (`DigestNames`). From there the argument goes backwards
  from the checkpoint's head: each envelope names the one before it
  (`HeadNames`), so what verifies is the chain, for chains of any length. That
  a success names an approval and then an effect, of whatever outcome, follows
  from the references its kinds demand (`SuccessNeeds`).
* Health reports (`DoctorInv`): each document is of what it was made of;
  `CheckPasses` says which observation a passed check rests on, and
  `BundlesAreOne` that an accepted bundle has one lock at all its steps.
* Update plan (`UpdateInv`): `RenderedPasses` turns the verdict into the checks
  that did not deny; the release was not revoked at the time of evaluation
  because a revocation that the context did not see is of that time or later.
* Bundle lock (`BundleInv`): the identity is taken of id, version, manifest and
  file set only; `IdentityBinds` shows that verification fixes all the rest
  (files, source, consumers, grants, last known good). Evidence counts bytes read one
  file at a time while files change, so the invariant holds of what was read so
  far.
* Builder plan and evidence (`DesignInv`): an edited plan differs from what its
  digest was taken of; `ClosureCloses`, `RoutesAllowed` and `ResolutionFits` say
  what discovery, authority and registry put into a plan.
* Effective rights (`EffectiveInv`): without an issue there are four operands,
  one of each kind, which agree (`FourOperands`, `NoIssueAgrees`), and operands
  that agree have no issue (`AgreesNoIssue`). Hence their order says nothing
  (`BackwardsIsSame`), and a narrower operand takes what it takes of the
  intersection, or denies (`NarrowedCore`).
* Setup planner (`PlanningInv`): the bundle is the least set that holds what was
  asked and its needs (`ClosureOfNeeds`), so planning again from it adds nothing
  (`AnalysisAgain`); what a fold over the use cases asks for is followed by
  `StepByStep`. A use case whose plain run passes fails closed in each of its
  negative cases, because each changes one option and the first stop it hits is
  its own (`AcceptedWhenPassing`). An edited plan neither verifies nor lets a
  receipt of another pass (`EditRefused`).

`ServicesInvariant` has all eighteen services together. That `DocumentsHold` and
`ServicesInv` are proved does not make the runs redundant: the model was
corrected more than once because a proof did not go through (a `CASE`
without an arm for a value that may arrive, an authority check read as weaker
than it is, a missing document that could have passed for one).

Out of the prover's reach and only model-checked: the liveness properties
`ReservationSettles`, `LeaseIsReleased` and `WorkerRunsEnd`, which need
fairness. Every invariant and every safety property of the passing runs is
proved.

## 5. Not modelled

HTTP, HMAC, digest and schema computations (a forged message is one that is not
`valid`), file formats, logging, pages and counters that only evidence routes
read. Parts left out, with the reason in `PROJECT.json`:

* the remaining contract validators, read connectors and rule tables: each is a
  function of one document, exhausted by its tests, with no order, failure or
  overlap in it;
* HMI adapters (rendering), the Paperless adapter and the knowledge API
  (stateless reads), company data validators (batch checks of large files);
* verification and release scripts, shell scripts, the video tool and the
  benchmark, which run alone and report.

Of what is modelled: two lifecycle managers on one directory, and two commands
of the usage CLI at a time, are not; the code does not guard against them.
`fsync` is not modelled: a rename that returned survives a crash. Services are
explored one at a time, which loses nothing because they share no state; the
workbench is not composed with `EffectGate`, which takes its leases as input
under `RequestAssumption`.

## 6. Plan

1. One approved order end to end: `ApprovalWorkbench` issuing the leases that
   `EffectGate` consumes.
2. Two processes on one lifecycle directory and on one usage store.
