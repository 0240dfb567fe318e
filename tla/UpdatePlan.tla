----------------------------- MODULE UpdatePlan -----------------------------
(***************************************************************************)
(* The update check plan (contracts/src/update-check-plan.ts): a plan to   *)
(* check a candidate against the last known good release is made of three  *)
(* documents and verified against a context the verifier takes for itself. *)
(* Time passes, releases are observed and revoked between the making of    *)
(* the plan, the taking of each part of the context, and the verification; *)
(* a field of the plan may be changed on the way.                          *)
(*                                                                         *)
(* A digest is what it was taken of.  A tuple gives each axis its          *)
(* components; a complete one has some on every axis.                      *)
(***************************************************************************)
EXTENDS Naturals, FiniteSets

CONSTANTS
  Candidates,          \* the content of each candidate
  LkgTuples,           \* the tuples a last known good release may have
  Decide(_),           \* the resolver's [verdict, added, removed] of a candidate
  Trusted,             \* [attestedBy, promotedBy, resolvedBy]
  ActorAlias,          \* identity -> the actor it names
  LkgAuthority, MaxLkgAge, MaxUpdateTime, NoUpdate

ASSUME UpdateAssumption ==
  MaxLkgAge \in Nat /\ MaxUpdateTime \in Nat /\ NoUpdate \notin {"ACCEPTED", "SAFE_MODE"}

VARIABLES
  upNow,
  upLkg,               \* the last known good release
  upRevoked,           \* what is revoked: set of [lkg, at]
  upPlan, upContext,
  upEdited,            \* what was changed in the plan, and its seals with it
  upVerdict            \* the outcome of the verification

upVars == <<upNow, upLkg, upRevoked, upPlan, upContext, upEdited, upVerdict>>

Digested(core) == [core |-> core, digest |-> core]
DigestHolds(d) == d.digest = d.core
TupleComplete(t) == \A axis \in DOMAIN t : t[axis] # {}
SafeModeOf(t) == IF TupleComplete(t) THEN {} ELSE {"LKG_INCOMPLETE"}

Lkg(n, t) ==
  Digested([id |-> "lkg", release |-> n, tuple |-> t, tupleDigest |-> t, state |-> IF TupleComplete(t) THEN "COMPLETE" ELSE "INCOMPLETE",
            authority |-> LkgAuthority, at |-> n, stale |-> FALSE, revoked |-> FALSE])

CandidateDocument(c) == Digested(c)

Decision(c, lkg) ==
  Digested([candidate |-> CandidateDocument(c), lkg |-> lkg, resolvedBy |-> Trusted.resolvedBy, says |-> Decide(c)])

UpdateInit ==
  /\ upNow = 0 /\ upLkg \in {Lkg(0, t) : t \in LkgTuples} /\ upRevoked = {}
  /\ upPlan = NoUpdate /\ upContext = NoUpdate /\ upEdited = [field |-> "NONE", sealed |-> FALSE] /\ upVerdict = NoUpdate

(* The world around the plan: one more release is observed and one is      *)
(* revoked, which is enough for every order of these with the plan's and   *)
(* the context's parts.                                                    *)
UpdateTimePasses ==
  /\ upNow < MaxUpdateTime /\ upNow' = upNow + 1
  /\ UNCHANGED <<upLkg, upRevoked, upPlan, upContext, upEdited, upVerdict>>

LkgObserved ==
  /\ upLkg.core.at = 0 /\ upNow > 0 /\ upLkg' \in {Lkg(upNow, t) : t \in LkgTuples}
  /\ UNCHANGED <<upNow, upRevoked, upPlan, upContext, upEdited, upVerdict>>

LkgRevoked ==
  /\ upRevoked = {} /\ upRevoked' = {[lkg |-> upLkg, at |-> upNow]}
  /\ UNCHANGED <<upNow, upLkg, upPlan, upContext, upEdited, upVerdict>>

IssuedPlan(c) ==
  [candidate |-> CandidateDocument(c), decision |-> Decision(c, upLkg), lkg |-> upLkg,
   safe |-> SafeModeOf(upLkg.core.tuple), executes |-> FALSE, widened |-> FALSE, at |-> upNow]

(* On its way one field is changed, and the seals over it are left or made *)
(* anew.                                                                   *)
OtherTuple(c) ==
  [c EXCEPT !.tuple = [axis \in DOMAIN @ |-> {"other"}], !.tupleDigest = [axis \in DOMAIN @ |-> {"other"}]]
Edit(core, field) ==
  CASE field = "NONE" -> core
    [] field = "tuple" -> [core EXCEPT !.candidate.core = OtherTuple(@)]
    [] field = "promoter" -> [core EXCEPT !.candidate.core.promotedBy = "promoter:other"]
    [] field = "age" -> [core EXCEPT !.lkg.core.at = MaxUpdateTime]
    [] field = "verdict" -> [core EXCEPT !.decision.core.says = [verdict |-> "COMPATIBLE", added |-> {}, removed |-> {}]]
    [] field = "subject" -> [core EXCEPT !.decision.core.lkg.core.at = MaxUpdateTime]
    [] field = "safe" -> [core EXCEPT !.safe = {}]
Changes ==
  [field : {"NONE", "tuple"}, sealed : {FALSE}] \cup [field : {"tuple", "promoter", "age", "verdict", "subject", "safe"}, sealed : {TRUE}]
SealedAgain(core) ==
  Digested([core EXCEPT !.candidate = Digested(@.core), !.lkg = Digested(@.core), !.decision = Digested(@.core)])

PlanArrives ==
  /\ upPlan = NoUpdate
  /\ \E c \in Candidates, change \in Changes :
       /\ upEdited' = change
       /\ upPlan' = IF change.sealed THEN SealedAgain(Edit(IssuedPlan(c), change.field))
                     ELSE [core |-> Edit(IssuedPlan(c), change.field), digest |-> IssuedPlan(c)]
  /\ UNCHANGED <<upNow, upLkg, upRevoked, upContext, upVerdict>>

(* The verifier's own context, taken part by part: what it expects and the *)
(* time it evaluates at, and the state of revocation.                      *)
RevocationOf(lkg) == [lkg |-> lkg, revoked |-> \E r \in upRevoked : r.lkg = lkg, at |-> upNow]

ContextTaken ==
  /\ upContext = NoUpdate /\ upContext' \in {[candidate |-> CandidateDocument(c), lkg |-> upLkg, at |-> upNow, revocation |-> RevocationOf(upLkg)] : c \in Candidates}
  /\ UNCHANGED <<upNow, upLkg, upRevoked, upPlan, upEdited, upVerdict>>

RevocationRead ==
  /\ upContext # NoUpdate /\ upContext' = [upContext EXCEPT !.revocation = RevocationOf(upLkg)]
  /\ UNCHANGED <<upNow, upLkg, upRevoked, upPlan, upEdited, upVerdict>>

(***************************************************************************)
(* verifyUpdateCheckPlanV1()                                               *)
(***************************************************************************)
AuthoritiesIndependent(x) ==
  LET trusted == {Trusted.attestedBy, Trusted.promotedBy, Trusted.resolvedBy} IN
  /\ Cardinality({ActorAlias[a] : a \in trusted}) = 3
  /\ \A a \in trusted : ActorAlias[a] # ActorAlias[x.candidate.core.id]

AuthoritiesBound(p, x) ==
  LET c == p.candidate.core
      l == p.lkg.core
  IN /\ c.authority = x.candidate.core.authority /\ l.authority = x.lkg.core.authority /\ c.authority = l.authority
     /\ c.attestedBy = Trusted.attestedBy /\ c.promotedBy = Trusted.promotedBy /\ p.decision.core.resolvedBy = Trusted.resolvedBy
     /\ AuthoritiesIndependent(x)

Stale(l, x) == x.at < l.at \/ x.at - l.at > MaxLkgAge

RevocationBound(p, x) ==
  x.revocation.lkg = p.lkg /\ x.revocation.at = x.at /\ p.lkg.core.revoked = x.revocation.revoked

DigestsHold(plan, x) ==
  LET p == plan.core IN
  DigestHolds(plan) /\ DigestHolds(p.candidate) /\ DigestHolds(p.decision) /\ DigestHolds(p.lkg)
    /\ p.candidate.digest = x.candidate.digest /\ p.lkg.digest = x.lkg.digest

TuplesMatch(p, x) ==
  LET c == p.candidate.core
      l == p.lkg.core
  IN /\ c.tupleDigest = c.tuple /\ c.tuple = x.candidate.core.tuple /\ l.tupleDigest = l.tuple /\ l.tuple = x.lkg.core.tuple
     /\ l.state = IF TupleComplete(x.lkg.core.tuple) THEN "COMPLETE" ELSE "INCOMPLETE"

ContextMatches(p, x) ==
  LET c == p.candidate.core
      l == p.lkg.core
  IN /\ c.id = x.candidate.core.id /\ c.release = x.candidate.core.release
     /\ l.id = x.lkg.core.id /\ l.release = x.lkg.core.release /\ l.at = x.lkg.core.at

(* Every reason is looked for.  They are always told in one order, so that *)
(* a set says as much.                                                     *)
Reason(plan, x) ==
  LET p == plan.core
      c == p.candidate.core
      says == p.decision.core.says
      self == ActorAlias[c.id]
  IN [INDEPENDENT_CONTEXT_DENIED |-> ~ContextMatches(p, x),
      DIGEST_MISMATCH_DENIED |-> ~DigestsHold(plan, x),
      TUPLE_MISMATCH_DENIED |-> ~TuplesMatch(p, x),
      AUTHORITY_BINDING_DENIED |-> ~AuthoritiesBound(p, x),
      LKG_FRESHNESS_DENIED |-> p.at < p.lkg.core.at \/ p.at > x.at \/ p.lkg.core.stale \/ Stale(p.lkg.core, x),
      LKG_REVOCATION_DENIED |-> ~RevocationBound(p, x) \/ x.revocation.revoked,
      COMPATIBILITY_DENIED |-> p.decision.core.lkg # p.lkg \/ p.decision.core.candidate # p.candidate
                                \/ says.verdict # "COMPATIBLE" \/ ActorAlias[p.decision.core.resolvedBy] = self,
      SELF_ATTESTATION_DENIED |-> ActorAlias[c.attestedBy] = self,
      SELF_PROMOTION_DENIED |-> ActorAlias[c.promotedBy] = self,
      AUTHORITY_WIDENING_DENIED |-> says.added # {} \/ says.removed # {} \/ p.widened,
      MUTATION_CLAIM_DENIED |-> p.executes \/ ~c.synthetic \/ ~c.immutable]

Reasons(plan, x) ==
  LET found == Reason(plan, x) IN {r \in DOMAIN found : found[r]}

(* Safe mode is looked at once nothing else denies the plan.               *)
PlanVerdict(plan, x) ==
  LET reasons == Reasons(plan, x)
      issues == SafeModeOf(x.lkg.core.tuple)
  IN IF reasons # {} THEN [outcome |-> "DENIED", reasons |-> reasons]
     ELSE IF plan.core.safe # issues THEN [outcome |-> "DENIED", reasons |-> {"SAFE_MODE_INCONSISTENT_DENIED"}]
     ELSE IF issues # {} THEN [outcome |-> "SAFE_MODE", reasons |-> issues]
     ELSE [outcome |-> "ACCEPTED", reasons |-> {"UPDATE_CHECK_ACCEPTED"}]

(* The plan is rendered unless it is denied.                               *)
PlanVerified ==
  /\ upPlan # NoUpdate /\ upContext # NoUpdate
  /\ LET v == PlanVerdict(upPlan, upContext) IN
     upVerdict' = v.outcome
  /\ UNCHANGED <<upNow, upLkg, upRevoked, upPlan, upContext, upEdited>>

UpdateNext ==
  /\ upVerdict = NoUpdate
  /\ \/ UpdateTimePasses \/ LkgObserved \/ LkgRevoked
     \/ PlanArrives \/ ContextTaken \/ RevocationRead \/ PlanVerified

(***************************************************************************)
(* Properties                                                              *)
(***************************************************************************)
(* Whenever its documents were taken and whatever was changed on the way:  *)
(* a plan that is rendered is of the candidate and the last known good     *)
(* release the verifier knows; that release was neither too old nor        *)
(* revoked before the time of the evaluation; the verifier is in safe mode *)
(* when and only when the release is incomplete; nobody judged his own     *)
(* candidate; and the resolver found it compatible, short of a decision    *)
(* written anew: the decision is the one document the context does not     *)
(* bind.                                                                   *)
RenderedPlansAreWitnessed ==
  upVerdict \in {"ACCEPTED", "SAFE_MODE"} =>
    LET p == upPlan.core
        x == upContext
        l == p.lkg.core
    IN /\ p.candidate = x.candidate /\ p.lkg = x.lkg /\ p.candidate.core \in Candidates
       /\ l.at <= p.at /\ p.at <= x.at /\ x.at <= l.at + MaxLkgAge
       /\ \A r \in upRevoked : r.lkg = p.lkg => r.at >= x.at
       /\ (upVerdict = "SAFE_MODE") = ~TupleComplete(l.tuple)
       /\ Cardinality({ActorAlias[a] : a \in {p.candidate.core.id, p.candidate.core.attestedBy, p.candidate.core.promotedBy, p.decision.core.resolvedBy}}) = 4
       /\ upEdited # [field |-> "verdict", sealed |-> TRUE] => p.decision = Decision(p.candidate.core, p.lkg) /\ Decide(p.candidate.core).verdict = "COMPATIBLE"

(* The inductive invariant.  Of a plan: what an edit leaves as it was.  Of *)
(* a context: what it was taken of; and a release it takes for one that is *)
(* not revoked is revoked at its time or later.                            *)
PlanArrived(p) ==
  /\ p.at \in Nat
  /\ p.candidate = [core |-> p.candidate.core, digest |-> p.candidate.digest]
  /\ p.lkg = [core |-> p.lkg.core, digest |-> p.lkg.digest]
  /\ upEdited # [field |-> "verdict", sealed |-> TRUE] =>
       LET d == p.decision.core IN p.decision = Decision(d.candidate.core, d.lkg)

LkgKnown(l) == \E n \in 0..upNow, t \in LkgTuples : l = Lkg(n, t)

ContextHolds(x) ==
  /\ x = [candidate |-> x.candidate, lkg |-> x.lkg, at |-> x.at, revocation |-> x.revocation]
  /\ x.at \in Nat /\ x.revocation.at \in 0..upNow
  /\ \E c \in Candidates : x.candidate = CandidateDocument(c)
  /\ LkgKnown(x.lkg)
  /\ ~x.revocation.revoked => \A r \in upRevoked : r.lkg = x.revocation.lkg => r.at >= x.revocation.at

UpdateInv ==
  /\ upNow \in Nat /\ \A r \in upRevoked : r.at \in Nat
  /\ LkgKnown(upLkg)
  /\ upPlan # NoUpdate => PlanArrived(upPlan.core)
  /\ upContext # NoUpdate => ContextHolds(upContext)
  /\ upVerdict # NoUpdate =>
       upPlan # NoUpdate /\ upContext # NoUpdate /\ upVerdict = PlanVerdict(upPlan, upContext).outcome
=============================================================================
