--------------------------- MODULE BuilderPlanning ---------------------------
(***************************************************************************)
(* The builder's pipeline before an agent runs (contracts/src):            *)
(* builder-discovery.ts, builder-capability-resolution.ts,                 *)
(* builder-authority.ts, builder-integration-plan.ts and                   *)
(* builder-quality-evidence.ts.  A plan is made of a description of a      *)
(* system, the registered capabilities and the owner's authority, and made *)
(* again whenever one of them changed; a harness observes the operations   *)
(* of the plan it is given, so evidence may meet those of an earlier plan. *)
(*                                                                         *)
(* A digest is what it is made of, that of an input its name; the graph    *)
(* and the rollback plan are functions of the description.                 *)
(* Left out: texts, and the fields that repeat others.                     *)
(***************************************************************************)
EXTENDS Naturals, Sequences, FiniteSets, Functions

CONSTANTS
  Descriptions,        \* name -> a discovery input
  Registrations,       \* capability descriptors: [capability, sealed, types,
                       \* operations, effects]
  Authorities,         \* name -> an authority input
  MaxObservations, NoPlan, NoEvidence

VARIABLES
  bpPlan, bpEdited,    \* a plan under its digest; history: it was changed
  bpSeen,              \* the harness' observations
  bpEvidence
bpVars == <<bpPlan, bpEdited, bpSeen, bpEvidence>>

(***************************************************************************)
(* Discovery                                                               *)
(***************************************************************************)
(* normalizeOperations(): only an installation may be either.              *)
ReversibleAs(o) ==
  /\ o.effect \in {"READ_ONLY", "IRREVERSIBLE_EFFECT", "PUBLICATION"} => ~o.reversible
  /\ o.effect = "REVERSIBLE_WRITE" => o.reversible

ManifestSound(m) ==
  /\ DOMAIN m.objects # {} /\ \A t \in DOMAIN m.objects : m.objects[t] \subseteq DOMAIN m.objects
  /\ DOMAIN m.operations # {}
  /\ \A p \in DOMAIN m.operations :
       LET o == m.operations[p] IN o.object \in DOMAIN m.objects /\ ReversibleAs(o) /\ o.contexts # {}

(* normalizeGuides()                                                       *)
GuidesSound(d) ==
  /\ DOMAIN d.guides # {}
  /\ \A g \in DOMAIN d.guides :
       LET guide == d.guides[g] IN
       /\ guide.type = d.manifest.type
       /\ guide.operations # {} /\ guide.operations \subseteq DOMAIN d.manifest.operations
       /\ guide.contexts # {} /\ guide.contexts \subseteq DOMAIN d.contexts

(* normalizeContexts(), and where a context may come from.                 *)
ContextsSound(d) ==
  /\ DOMAIN d.contexts # {}
  /\ \A p \in DOMAIN d.manifest.operations : d.manifest.operations[p].contexts \subseteq DOMAIN d.contexts
  /\ \A c \in DOMAIN d.contexts : d.contexts[c].source \in {d.manifest.id} \cup DOMAIN d.guides

SelectedGuides(d) == {g \in DOMAIN d.guides : d.guides[g].operations \cap d.requested # {}}

(* discoverBuilderSystemV1(): one guide must cover an operation with all   *)
(* of its contexts.                                                        *)
Discoverable(d) ==
  /\ d.sound /\ d.manifest.tenant = d.tenant
  /\ ManifestSound(d.manifest) /\ GuidesSound(d) /\ ContextsSound(d)
  /\ d.requested # {} /\ d.requested \subseteq DOMAIN d.manifest.operations
  /\ \A p \in d.requested : \E g \in SelectedGuides(d) :
       p \in d.guides[g].operations /\ d.manifest.operations[p].contexts \subseteq d.guides[g].contexts

(* dependencyClosure(): what its worklist reaches, which is what is in     *)
(* every set that holds the seed and what its members lean on.             *)
Closed(S, objects) == \A t \in S : objects[t] \subseteq S
DependencyClosure(seed, objects) ==
  {t \in DOMAIN objects : \A S \in SUBSET DOMAIN objects : seed \subseteq S /\ Closed(S, objects) => t \in S}

Discovery(name) ==
  LET d == Descriptions[name]
      m == d.manifest
      found == DependencyClosure({m.operations[p].object : p \in d.requested}, m.objects)
  IN [digest |-> name, tenant |-> d.tenant, actor |-> d.actor, type |-> m.type,
      objects |-> Restrict(m.objects, found), operations |-> Restrict(m.operations, d.requested),
      contexts |-> Restrict(d.contexts, UNION {m.operations[p].contexts : p \in d.requested})]

Discoveries == [name \in DOMAIN Descriptions |-> Discovery(name)]

(***************************************************************************)
(* Capabilities and authority                                              *)
(***************************************************************************)
Registered(registry, hint) == {r \in registry : r.capability = hint}

(* parseRegistration() and the loop of resolveBuilderCapabilitiesV1(): a   *)
(* capability that is there but does not fit is an error, not a gap.       *)
Resolvable(record, registry) ==
  /\ \A r \in registry : r.sealed /\ Registered(registry, r.capability) = {r}
  /\ \A p \in DOMAIN record.operations : \A r \in Registered(registry, record.operations[p].hint) :
       record.type \in r.types /\ p \in r.operations /\ record.operations[p].effect \in r.effects

Resolution(record, registry) ==
  [p \in DOMAIN record.operations |->
     LET found == Registered(registry, record.operations[p].hint) IN
     IF found = {} THEN [state |-> "UNRESOLVED_INTENT", binding |-> [gap |-> p, record |-> record.digest]]
     ELSE [state |-> "REUSE_REGISTERED", binding |-> CHOOSE r \in found : TRUE]]

(* selectProfile(): the owner may name none, a profile, or one of the two  *)
(* names of the last.                                                      *)
RampageRequests == {"RAMPAGE", "FULL_CONTROL_LAB", "RAMPAGE_FULL_CONTROL_LAB"}
ProfileRequests == {"NONE", "SAFE_GUIDED", "CUSTOM"} \cup RampageRequests
SelectedProfile(a) ==
  CASE a.requested = "NONE" -> "SAFE_GUIDED"
    [] a.requested \in RampageRequests -> "RAMPAGE_FULL_CONTROL_LAB"
    [] OTHER -> a.requested

EffectClasses == {"READ_ONLY", "REVERSIBLE_WRITE", "IRREVERSIBLE_EFFECT", "INSTALL_ACTIVATE", "PUBLICATION"}

AuthoritySound(a) ==
  /\ a.requested \in ProfileRequests
  /\ DOMAIN a.rights # {} /\ \A right \in DOMAIN a.rights : a.rights[right] \in EffectClasses
  /\ a.ceiling \cup a.assigned \cup a.constrained \cup DOMAIN a.rules \subseteq DOMAIN a.rights
  /\ \A right \in DOMAIN a.rules : a.rules[right] \in {"AUTO_EXECUTE", "OWNER_APPROVAL"}
  /\ SelectedProfile(a) # "CUSTOM" => DOMAIN a.rules = {}

SafeGuidedRoute(effect) == IF effect = "READ_ONLY" THEN "AUTO_EXECUTE" ELSE "OWNER_APPROVAL"

(* resolveBuilderAuthorityV1(): the decision about a right.                *)
BuilderDecision(a, right) ==
  LET profile == SelectedProfile(a)
      effective == /\ right \in a.ceiling \cap a.assigned \cap a.constrained
                   /\ profile = "CUSTOM" => right \in DOMAIN a.rules
  IN [effect |-> a.rights[right], effective |-> effective,
      route |-> IF ~effective THEN "DENY"
                ELSE CASE profile = "SAFE_GUIDED" -> SafeGuidedRoute(a.rights[right])
                       [] profile = "CUSTOM" -> a.rules[right]
                       [] OTHER -> "AUTO_EXECUTE"]

(***************************************************************************)
(* The plan                                                                *)
(***************************************************************************)
BuilderDigested(core) == [core |-> core, digest |-> core]

RollbackStrategy(effect) ==
  CASE effect = "READ_ONLY" -> "NOT_APPLICABLE_READ_ONLY"
    [] effect = "REVERSIBLE_WRITE" -> "RESTORE_PRIOR_VALUE"
    [] effect = "IRREVERSIBLE_EFFECT" -> "OWNER_DEFINED_RECOVERY_REQUIRED"
    [] effect = "INSTALL_ACTIVATE" -> "DEACTIVATE_AND_REMOVE_OWNED_RESIDUE"
    [] effect = "PUBLICATION" -> "WITHDRAWAL_OR_CORRECTION_REQUIRED"

Contract(record, resolution, p) ==
  [id |-> <<record.digest, p, resolution[p].binding>>, effect |-> record.operations[p].effect,
   state |-> resolution[p].state, binding |-> resolution[p].binding]

ObjectGraph(record) ==
  [nodes |-> DOMAIN record.objects, edges |-> UNION {{t} \X record.objects[t] : t \in DOMAIN record.objects}]

RollbackFor(record, p) ==
  [strategy |-> RollbackStrategy(record.operations[p].effect), required |-> record.operations[p].effect # "READ_ONLY",
   contexts |-> {c \in record.operations[p].contexts : record.contexts[c].kind \in {"ROLLBACK", "SAFETY"}}]

(* planBuilderIntegrationV1(): the authority decides about exactly the     *)
(* operations that were discovered.                                        *)
BuilderPlannable(description, registry, authority) ==
  LET d == Descriptions[description]
      a == Authorities[authority]
  IN /\ Discoverable(d) /\ Resolvable(Discoveries[description], registry) /\ AuthoritySound(a)
     /\ a.tenant = d.tenant /\ a.actor = d.actor
     /\ DOMAIN a.rights = d.requested
     /\ \A p \in d.requested : a.rights[p] = d.manifest.operations[p].effect

BuilderPlan(description, registry, authority) ==
  LET record == Discoveries[description]
      resolution == Resolution(record, registry)
      operations == DOMAIN record.operations
  IN BuilderDigested(
       [description |-> description, authority |-> authority,
        contracts |-> [p \in operations |-> Contract(record, resolution, p)],
        routes |-> [p \in operations |-> BuilderDecision(Authorities[authority], p)],
        status |-> IF \E p \in operations : resolution[p].state = "UNRESOLVED_INTENT"
                   THEN "PREPARATION_REQUIRED" ELSE "READY_FOR_QUALITY_GATE"])

(* verifyBuilderIntegrationPlanV1()                                        *)
BuilderPlanVerified(plan) == plan.digest = plan.core

(***************************************************************************)
(* The evidence                                                            *)
(***************************************************************************)
NotRun == <<>>
Untouched(o) == o.states = NotRun

(* validateObservation(): the result it must report, and the states before *)
(* the operation, after it and at the end.                                 *)
Expected(contract) ==
  IF contract.state = "UNRESOLVED_INTENT" THEN "NOT_EXECUTED_UNRESOLVED_INTENT"
  ELSE CASE contract.effect = "READ_ONLY" -> "MATCHED_NO_CHANGE"
         [] contract.effect = "REVERSIBLE_WRITE" -> "MATCHED_ROLLBACK"
         [] OTHER -> "NOT_EXECUTED_OWNER_ROUTE_ONLY"

StatesFit(o, contract) ==
  IF Expected(contract) \in {"MATCHED_NO_CHANGE", "MATCHED_ROLLBACK"}
  THEN /\ ~Untouched(o) /\ o.states[3] = o.states[1]
       /\ (o.states[2] = o.states[1]) <=> Expected(contract) = "MATCHED_NO_CHANGE"
  ELSE Untouched(o)

ObservationFits(o, contract, plan) ==
  /\ o.plan = plan.digest /\ o.contract = contract.id /\ o.binding = contract.binding
  /\ o.result = Expected(contract) /\ StatesFit(o, contract)

(* buildBuilderQualityEvidenceV1(): one observation per contract.          *)
EvidenceAdmitted(plan, observations) ==
  /\ BuilderPlanVerified(plan)
  /\ DOMAIN observations = DOMAIN plan.core.contracts
  /\ \A p \in DOMAIN observations : ObservationFits(observations[p], plan.core.contracts[p], plan)

Evidence(plan, observations) ==
  [plan |-> plan.digest, observations |-> observations,
   status |-> IF plan.core.status = "PREPARATION_REQUIRED" THEN "PASS_PREPARATION_REQUIRED" ELSE "PASS_READY_FOR_G6"]

(***************************************************************************)
(* Steps                                                                   *)
(***************************************************************************)
DesignInit == bpPlan = NoPlan /\ bpEdited = FALSE /\ bpSeen = {} /\ bpEvidence = NoEvidence

PlanInputs == (DOMAIN Descriptions) \X (SUBSET Registrations) \X (DOMAIN Authorities)
BuilderPlans ==
  {BuilderPlan(i[1], i[2], i[3]) : i \in {x \in PlanInputs : BuilderPlannable(x[1], x[2], x[3])}}

IntegrationPlanned ==
  /\ bpPlan' \in BuilderPlans
  /\ bpEdited' = FALSE /\ bpEvidence' = NoEvidence /\ UNCHANGED bpSeen

(* The plan's document is changed, under its old digest.                   *)
IntegrationPlanEdited ==
  /\ bpPlan # NoPlan /\ ~bpEdited /\ bpEvidence = NoEvidence /\ bpEdited' = TRUE
  /\ \E p \in DOMAIN bpPlan.core.contracts :
       bpPlan' \in {[bpPlan EXCEPT !.core.contracts[p].state = "UNRESOLVED_INTENT"],
                    [bpPlan EXCEPT !.core.status = "READY_FOR_QUALITY_GATE"]} \ {bpPlan}
  /\ UNCHANGED <<bpSeen, bpEvidence>>

(* What the harness may read: nothing, no change, a change that was undone,*)
(* one that was not.                                                       *)
Readings == {NotRun, <<"s0", "s0", "s0">>, <<"s0", "s1", "s0">>, <<"s0", "s1", "s1">>}

OperationObserved ==
  /\ bpPlan # NoPlan /\ BuilderPlanVerified(bpPlan) /\ Cardinality(bpSeen) < MaxObservations
  /\ \E p \in DOMAIN bpPlan.core.contracts, states \in Readings :
       LET contract == bpPlan.core.contracts[p] IN
       \E result \in {Expected(contract), "MATCHED_NO_CHANGE"} :
         bpSeen' = bpSeen \cup {[operation |-> p, plan |-> bpPlan.digest, contract |-> contract.id, binding |-> contract.binding,
                                 result |-> result, states |-> states]}
  /\ UNCHANGED <<bpPlan, bpEdited, bpEvidence>>

EvidenceBuilt ==
  /\ bpPlan # NoPlan
  /\ \E chosen \in SUBSET bpSeen :
       /\ \A o, q \in chosen : o.operation = q.operation => o = q
       /\ LET observations == [p \in {o.operation : o \in chosen} |-> CHOOSE o \in chosen : o.operation = p] IN
          /\ EvidenceAdmitted(bpPlan, observations)
          /\ bpEvidence' = Evidence(bpPlan, observations)
  /\ UNCHANGED <<bpPlan, bpEdited, bpSeen>>

DesignNext == IntegrationPlanned \/ IntegrationPlanEdited \/ OperationObserved \/ EvidenceBuilt

(***************************************************************************)
(* Properties                                                              *)
(***************************************************************************)
(* A plan that verifies describes all its operations lean on, by contexts  *)
(* it carries, and lets run by itself only what all four of its sources    *)
(* allow and is read-only, unless the owner said otherwise.                *)
PlanIsWhole(core) ==
  LET record == Discoveries[core.description]
      graph == ObjectGraph(record)
      a == Authorities[core.authority]
  IN
  /\ graph.edges \subseteq graph.nodes \X graph.nodes
  /\ \A p \in DOMAIN core.contracts :
       LET operation == record.operations[p]
           route == core.routes[p].route
       IN /\ operation.object \in graph.nodes /\ operation.contexts \subseteq DOMAIN record.contexts
          /\ RollbackFor(record, p).contexts \subseteq DOMAIN record.contexts
          /\ route # "DENY" => p \in a.ceiling \cap a.assigned \cap a.constrained
          /\ route = "AUTO_EXECUTE" /\ operation.effect # "READ_ONLY" =>
               a.requested \in RampageRequests \/ (p \in DOMAIN a.rules /\ a.rules[p] = "AUTO_EXECUTE")

(* Evidence is of the very plan it names, whatever was described,          *)
(* registered or decided since: each of its operations was seen under that *)
(* plan to leave the state as it was, none ran that has no registered      *)
(* capability or cannot be undone, and it is ready only if every           *)
(* capability was there and fits.                                          *)
EvidenceIsOfItsPlan ==
  /\ bpPlan # NoPlan /\ BuilderPlanVerified(bpPlan) => ~bpEdited /\ PlanIsWhole(bpPlan.core)
  /\ bpEvidence # NoEvidence =>
       LET core == bpEvidence.plan
           record == Discoveries[core.description]
       IN \A p \in DOMAIN record.operations :
            LET contract == core.contracts[p] IN
            /\ \E o \in bpSeen : o.plan = core /\ o.operation = p /\ (Untouched(o) \/ o.states[1] = o.states[3])
            /\ contract.effect \notin {"READ_ONLY", "REVERSIBLE_WRITE"} \/ contract.state = "UNRESOLVED_INTENT" =>
                 Untouched(bpEvidence.observations[p])
            /\ bpEvidence.status = "PASS_READY_FOR_G6" =>
                 LET r == contract.binding IN
                 r.capability = record.operations[p].hint /\ p \in r.operations /\ record.type \in r.types

(* The inductive invariant: a plan is one of those that can be made, or it *)
(* is not what its digest was taken of; evidence is of observations that   *)
(* were made, one for each operation, and admitted under the plan there is.*)
DesignInv ==
  /\ bpPlan # NoPlan =>
       \E plan \in BuilderPlans :
         IF bpEdited THEN bpPlan.digest = plan.core /\ bpPlan.core # plan.core ELSE bpPlan = plan
  /\ bpEvidence # NoEvidence =>
       LET observations == bpEvidence.observations IN
       /\ bpPlan # NoPlan /\ ~bpEdited /\ EvidenceAdmitted(bpPlan, observations)
       /\ bpEvidence.plan = bpPlan.digest /\ bpEvidence.status = Evidence(bpPlan, observations).status
       /\ \A p \in DOMAIN observations : observations[p] \in bpSeen /\ observations[p].operation = p
=============================================================================
