-------------------------- MODULE GovernedWorkloads --------------------------
(***************************************************************************)
(* GovernedWorkloadControllerV1 (packages/dev-worker/src/m3-governance.ts):*)
(* admission of writer and reviewer workloads under cumulative budgets,    *)
(* and the harness that runs them.  execute() admits and reserves in one   *)
(* synchronous step, awaits the adapter, then judges its output; any       *)
(* number of calls are awaiting at the same time.                          *)
(*                                                                         *)
(* A request is a member of Workloads.  Its fields that are only compared  *)
(* with the policy (schema, digest, adapter, identity, capabilities, model *)
(* route) are one field, binding: the first of these comparisons it fails, *)
(* or "OK".  expires is the earlier of the request's and the lease's       *)
(* expiry.                                                                 *)
(***************************************************************************)
EXTENDS Naturals, FiniteSets, FiniteSetsExt, Sequences, Verdicts

CONSTANTS
  Workloads,      \* the requests callers may submit
  GlobalBudget, ProjectBudget, ProviderBudget,
  GovernanceEnabled,
  MaxGovTime      \* bound of the clock

VARIABLES
  govClock,       \* the caller's "now"
  govUsage,       \* per scope: active slots and cumulative reservations
  govIssueLease,  \* writerIssues: (project, issue) -> lease
  govOrderLease,  \* writerOrders: (project, order) -> lease
  govDigest,      \* requestDigests: request id -> digest
  govSequence,    \* admission counter
  govRunning,     \* admitted calls awaiting their adapter, with their number
  govAnswers      \* how each admitted call was answered

govVars == <<govClock, govUsage, govIssueLease, govOrderLease, govDigest,
             govSequence, govRunning, govAnswers>>

Bindings == {"OK", "SCHEMA", "ADAPTER", "LEASE_KIND", "IDENTITY", "CAPABILITY", "ROUTE"}

Workload ==
  [id : STRING, digest : STRING, kind : {"WRITER", "REVIEWER"}, project : STRING,
   issue : STRING, order : STRING, lease : STRING, provider : STRING,
   requests : Nat, cost : Nat, expires : Nat, binding : Bindings]

(* GovernanceBudgetV1 *)
Budget == [maxParallel : Nat, maxRequests : Nat, maxCost : Nat]

Projects == DOMAIN ProjectBudget
Providers == DOMAIN ProviderBudget

(* What the schemas of request and policy give: the amounts are natural    *)
(* numbers.                                                                *)
ASSUME GovernanceAssumption ==
  /\ Workloads \subseteq Workload
  /\ GlobalBudget \in Budget
  /\ \A p \in Projects : ProjectBudget[p] \in Budget
  /\ \A p \in Providers : ProviderBudget[p] \in Budget
  /\ MaxGovTime \in Nat

Scopes == {<<"global">>} \cup {<<"project", p>> : p \in Projects}
                         \cup {<<"provider", p>> : p \in Providers}

(* The three budgets a request draws on.                                   *)
ScopesOf(w) == {<<"global">>, <<"project", w.project>>, <<"provider", w.provider>>}

BudgetOf(s) ==
  CASE s[1] = "global"   -> GlobalBudget
    [] s[1] = "project"  -> ProjectBudget[s[2]]
    [] s[1] = "provider" -> ProviderBudget[s[2]]

(* validBudget() *)
ValidBudget(b) == b.maxParallel > 0 /\ b.maxRequests > 0 /\ b.maxCost > 0

IssueKey(w) == <<w.project, w.issue>>
OrderKey(w) == <<w.project, w.order>>
IsReviewer(w) == w.kind = "REVIEWER"

HoldsLease(claims, key, lease) == key \in DOMAIN claims /\ claims[key] = lease

(* Mutant of Fits: the parallel ceiling admits one too many.               *)
FitsOneMore(s, w) ==
  /\ govUsage[s].active <= BudgetOf(s).maxParallel
  /\ govUsage[s].requests + w.requests <= BudgetOf(s).maxRequests
  /\ govUsage[s].cost + w.cost <= BudgetOf(s).maxCost

Fits(s, w) ==
  /\ govUsage[s].active < BudgetOf(s).maxParallel
  /\ govUsage[s].requests + w.requests <= BudgetOf(s).maxRequests
  /\ govUsage[s].cost + w.cost <= BudgetOf(s).maxCost

(* Mutant of ScopeUnclaimed: only a claim on both the issue and the order  *)
(* excludes.                                                               *)
ScopeUnclaimedEither(w) ==
  IsReviewer(w) \/ IssueKey(w) \notin DOMAIN govIssueLease
              \/ OrderKey(w) \notin DOMAIN govOrderLease

(* A writer's issue and work order are unclaimed; a reviewer does not come *)
(* under the lease of their writer.                                        *)
ScopeUnclaimed(w) ==
  IsReviewer(w) \/ (IssueKey(w) \notin DOMAIN govIssueLease
                  /\ OrderKey(w) \notin DOMAIN govOrderLease)

LeaseApart(w) ==
  ~IsReviewer(w) \/ (~HoldsLease(govIssueLease, IssueKey(w), w.lease)
                   /\ ~HoldsLease(govOrderLease, OrderKey(w), w.lease))

(* The checks of execute() before its reservation, in order.               *)
AdmissionVerdict(w) ==
  FirstDenial(<<
    Check(w.binding # "SCHEMA", "GOVERNED_REQUEST_SCHEMA_OR_DIGEST_DENIED"),
    Check(GovernanceEnabled, "GOVERNANCE_DISABLED_DENIED"),
    Check(ValidBudget(GlobalBudget), "GOVERNANCE_POLICY_DENIED"),
    Check(govClock < w.expires, "STALE_OR_EXPIRED_WORKLOAD_DENIED"),
    Check(w.id \notin DOMAIN govDigest, "CONCURRENT_OR_REPLAY_REQUEST_DENIED"),
    Check(w.binding = "OK", "WORKLOAD_BINDING_DENIED"),
    Check(/\ w.project \in Projects /\ ValidBudget(ProjectBudget[w.project])
          /\ w.provider \in Providers /\ ValidBudget(ProviderBudget[w.provider]),
          "BUDGET_ROUTE_DENIED"),
    Check(ScopeUnclaimed(w), "WRITER_SCOPE_CONFLICT_DENIED"),
    Check(LeaseApart(w), "REVIEWER_WRITER_LEASE_SHARE_DENIED"),
    Check(\A s \in ScopesOf(w) \cap Scopes : Fits(s, w), "GOVERNANCE_BUDGET_EXHAUSTED")>>)

GovernanceInit ==
  /\ govClock = 0
  /\ govUsage = [s \in Scopes |-> [active |-> 0, requests |-> 0, cost |-> 0]]
  /\ govIssueLease = <<>> /\ govOrderLease = <<>> /\ govDigest = <<>>
  /\ govSequence = 0
  /\ govRunning = {} /\ govAnswers = {}

(* A first claim is kept: Map.set is only reached for an unclaimed key.    *)
Bind(f, key, value) == [k \in DOMAIN f \cup {key} |-> IF k = key THEN value ELSE f[k]]

(* execute() up to its await: admit and reserve, or throw a denial.  A     *)
(* denial changes nothing.                                                 *)
Admit(w) ==
  /\ AdmissionVerdict(w) = "OK"
  /\ govDigest' = Bind(govDigest, w.id, w.digest)
  /\ govUsage' = [s \in Scopes |->
       IF s \notin ScopesOf(w) THEN govUsage[s]
       ELSE [active   |-> govUsage[s].active + 1,
             requests |-> govUsage[s].requests + w.requests,
             cost     |-> govUsage[s].cost + w.cost]]
  /\ govIssueLease' = IF IsReviewer(w) THEN govIssueLease
                      ELSE Bind(govIssueLease, IssueKey(w), w.lease)
  /\ govOrderLease' = IF IsReviewer(w) THEN govOrderLease
                      ELSE Bind(govOrderLease, OrderKey(w), w.lease)
  /\ govSequence' = govSequence + 1
  /\ govRunning' = govRunning \cup {[w |-> w, n |-> govSequence + 1]}
  /\ UNCHANGED <<govClock, govAnswers>>

(* What an adapter may answer.                                             *)
AdapterOutput ==
  [wellFormed : BOOLEAN, requests : 0..2, cost : 0..2,
   authorities : BOOLEAN, patch : BOOLEAN, review : BOOLEAN]

(* The checks of execute() on the output.                                  *)
OutputVerdict(w, out) ==
  FirstDenial(<<
    Check(out.wellFormed, "ADAPTER_OUTPUT_TAMPERING_DENIED"),
    Check(out.requests <= w.requests /\ out.cost <= w.cost, "ADAPTER_BUDGET_MISMATCH_DENIED"),
    Check(~out.authorities, "AUTHORITY_ATTEMPT_DENIED"),
    Check(IsReviewer(w) => ~out.patch /\ out.review, "REVIEWER_MUTATION_DENIED"),
    Check(~IsReviewer(w) => out.patch /\ ~out.review, "WRITER_OUTPUT_DENIED")>>)

(* Mutant of Released: the catch block releases what finally releases.     *)
ReleasedTwice(u, w) ==
  [s \in Scopes |-> IF s \in ScopesOf(w) THEN [u[s] EXCEPT !.active = @ - 2] ELSE u[s]]

(* The finally block: only the active slots are given back.                *)
Released(u, w) ==
  [s \in Scopes |-> IF s \in ScopesOf(w) THEN [u[s] EXCEPT !.active = @ - 1] ELSE u[s]]

(* The adapter answers or throws, and the call returns a receipt or a      *)
(* denial.                                                                 *)
Finish(c) ==
  /\ govRunning' = govRunning \ {c}
  /\ govUsage' = Released(govUsage, c.w)
  /\ \/ \E out \in AdapterOutput :
          govAnswers' = govAnswers \cup {[w |-> c.w, n |-> c.n,
            receipt |-> IF OutputVerdict(c.w, out) = "OK"
                        THEN <<out.requests, out.cost>> ELSE <<>>]}
     \/ govAnswers' = govAnswers \cup {[w |-> c.w, n |-> c.n, receipt |-> <<>>]}
  /\ UNCHANGED <<govClock, govIssueLease, govOrderLease, govDigest, govSequence>>

GovernanceTick ==
  /\ govClock < MaxGovTime
  /\ govClock' = govClock + 1
  /\ UNCHANGED <<govUsage, govIssueLease, govOrderLease, govDigest, govSequence,
                 govRunning, govAnswers>>

GovernanceNext ==
  \/ \E w \in Workloads : Admit(w)
  \/ \E c \in govRunning : Finish(c)
  \/ GovernanceTick

(***************************************************************************)
(* Properties                                                              *)
(***************************************************************************)
GovernanceTypeOK ==
  /\ govClock \in 0..MaxGovTime
  /\ govUsage \in [Scopes -> [active : Nat, requests : Nat, cost : Nat]]
  /\ govSequence \in Nat
  /\ govRunning \subseteq [w : Workloads, n : 1..govSequence]
  /\ govAnswers \subseteq
       [w : Workloads, n : 1..govSequence, receipt : {<<>>} \cup (Nat \X Nat)]

(* The answers that are receipts, and every call admitted so far.          *)
GovReceipts == {a \in govAnswers : a.receipt # <<>>}
Admitted == govRunning \cup {[w |-> a.w, n |-> a.n] : a \in govAnswers}

InScope(S, s) == {x \in S : s \in ScopesOf(x.w)}

(* However calls overlap, fail or finish, each scope's active slots are    *)
(* exactly its calls in flight, no ceiling is exceeded, and what receipts  *)
(* and running calls account for was reserved: nothing is spent outside    *)
(* the reservations, which are never given back.                           *)
GovernanceBounded ==
  \A s \in Scopes :
    /\ govUsage[s].active = Cardinality(InScope(govRunning, s))
    /\ govUsage[s].active <= BudgetOf(s).maxParallel
    /\ govUsage[s].requests <= BudgetOf(s).maxRequests
    /\ govUsage[s].cost <= BudgetOf(s).maxCost
    /\ SumFunctionOnSet([r \in GovReceipts |-> r.receipt[1]], InScope(GovReceipts, s))
         + SumFunctionOnSet([c \in govRunning |-> c.w.requests], InScope(govRunning, s))
         <= govUsage[s].requests
    /\ SumFunctionOnSet([r \in GovReceipts |-> r.receipt[2]], InScope(GovReceipts, s))
         + SumFunctionOnSet([c \in govRunning |-> c.w.cost], InScope(govRunning, s))
         <= govUsage[s].cost

(* At most one writer is ever admitted for an issue, and for a work order, *)
(* also after the first one failed; no request id runs twice.              *)
OneWriterPerScope ==
  \A x, y \in Admitted :
    x.n # y.n =>
      /\ x.w.id # y.w.id
      /\ ~IsReviewer(x.w) /\ ~IsReviewer(y.w) =>
           IssueKey(x.w) # IssueKey(y.w) /\ OrderKey(x.w) # OrderKey(y.w)

(* Why these hold: an admitted call's request id, and a writer's issue and *)
(* work order, stay claimed, and its number is its own.                    *)
ClaimsKept ==
  \A x \in Admitted :
    /\ x.w.id \in DOMAIN govDigest
    /\ ~IsReviewer(x.w) => /\ IssueKey(x.w) \in DOMAIN govIssueLease
                           /\ OrderKey(x.w) \in DOMAIN govOrderLease

(* The inductive invariant.                                                *)
GovernanceInv ==
  /\ GovernanceTypeOK
  /\ IsFiniteSet(govRunning) /\ IsFiniteSet(govAnswers)
  /\ ClaimsKept
  /\ OneWriterPerScope
  /\ GovernanceBounded

(* A receipt's writerLeaseShared: false (m3-governance.ts:147): the writer *)
(* and the reviewer of one issue or work order never work under one lease. *)
WriterLeaseNotShared ==
  \A x, y \in GovReceipts :
    /\ IsReviewer(x.w) /\ ~IsReviewer(y.w)
    /\ IssueKey(x.w) = IssueKey(y.w) \/ OrderKey(x.w) = OrderKey(y.w)
    => x.w.lease # y.w.lease
=============================================================================
