----------------------------- MODULE GuidedPlan -----------------------------
(***************************************************************************)
(* The guided demo's documents                                             *)
(* (contracts/src/poc-guided-demo-bootstrap.ts) and the simulated use      *)
(* cases they rest on (contracts/src/poc-showcase-e2e.ts): a template is   *)
(* validated, a plan is made of it, the plan is verified again wherever it *)
(* is read, and a receipt and a cleanup receipt are bound to it.           *)
(*                                                                         *)
(* A digest is what it was taken of: a document is sealed when its seal is *)
(* its own content.                                                        *)
(***************************************************************************)
EXTENDS Naturals, FiniteSets, TLC

CONSTANTS
  Showcase,            \* use case id -> [module, actions (a set)]
  BuiltinTemplates,    \* the templates the code ships
  NodeMajor            \* process.versions.node

(* No module and no action is called what the negative cases call theirs.  *)
ASSUME GuidedAssumption ==
  \A id \in DOMAIN Showcase : Showcase[id].module # "unknown" /\ "unknown" \notin Showcase[id].actions

Sealed(document) == [core |-> document, seal |-> document]
Intact(document) == document.seal = document.core

(***************************************************************************)
(* simulatePocShowcaseUseCaseE2e()                                         *)
(***************************************************************************)
DemoActor == "actor.admin-ai-demo"
DemoScope == "alpha"

RunOptions(id) ==
  [useCase |-> id, text |-> "clean", module |-> Showcase[id].module, action |-> CHOOSE a \in Showcase[id].actions : TRUE,
   actor |-> DemoActor, scope |-> DemoScope, stale |-> FALSE, duplicate |-> FALSE, plan |-> "made", receipt |-> "made"]

(* What stops a run, checked in this order.                                *)
Stops ==
  <<"UNKNOWN_USE_CASE_DENIED", "EMBEDDED_SECRET_OR_PII_DENIED", "UNKNOWN_MODULE_DENIED", "UNKNOWN_ACTION_DENIED",
    "UNAUTHORIZED_ACTOR_DENIED", "CROSS_TENANT_CELL_BINDING_DENIED", "STALE_APPROVAL_LEASE_DENIED",
    "DUPLICATE_REPLAY_DENIED", "TAMPERED_PLAN_DENIED", "TAMPERED_RECEIPT_DENIED">>
StoppedBy(o, code) ==
  LET known == o.useCase \in DOMAIN Showcase IN
  \/ code = "UNKNOWN_USE_CASE_DENIED" /\ ~known
  \/ code = "EMBEDDED_SECRET_OR_PII_DENIED" /\ o.text # "clean"
  \/ code = "UNKNOWN_MODULE_DENIED" /\ known /\ o.module # Showcase[o.useCase].module
  \/ code = "UNKNOWN_ACTION_DENIED" /\ known /\ o.action \notin Showcase[o.useCase].actions
  \/ code = "UNAUTHORIZED_ACTOR_DENIED" /\ o.actor # DemoActor
  \/ code = "CROSS_TENANT_CELL_BINDING_DENIED" /\ o.scope # DemoScope
  \/ code = "STALE_APPROVAL_LEASE_DENIED" /\ o.stale
  \/ code = "DUPLICATE_REPLAY_DENIED" /\ o.duplicate
  \/ code = "TAMPERED_PLAN_DENIED" /\ o.plan # "made"
  \/ code = "TAMPERED_RECEIPT_DENIED" /\ o.receipt # "made"
Denial(o) ==
  LET hit == {i \in DOMAIN Stops : StoppedBy(o, Stops[i])} IN
  IF hit = {} THEN "NONE" ELSE Stops[CHOOSE i \in hit : \A j \in hit : i <= j]

(* The chain of digests of a run that passes: plan, decision, approval,    *)
(* receipts, result, audit, rollback, cleanup.                             *)
Simulated(o) ==
  LET plan == [useCase |-> o.useCase, module |-> o.module, actions |-> Showcase[o.useCase].actions]
      approval == [plan |-> plan, decision |-> "ALLOW_WITH_DRY_RUN_APPROVAL"]
      receipts == {[action |-> a, plan |-> plan, approval |-> approval] : a \in plan.actions}
  IN [useCase |-> o.useCase, plan |-> plan, approval |-> approval, receipts |-> receipts, rolledBack |-> receipts, residue |-> 0]

(* runPocShowcaseNegativeCase(): each case is one change of a run.         *)
NegativeCase(id) ==
  [UNKNOWN_MODULE_DENIED |-> [RunOptions(id) EXCEPT !.module = "unknown"],
   UNKNOWN_ACTION_DENIED |-> [RunOptions(id) EXCEPT !.action = "unknown"],
   UNAUTHORIZED_ACTOR_DENIED |-> [RunOptions(id) EXCEPT !.actor = "untrusted"],
   CROSS_TENANT_CELL_BINDING_DENIED |-> [RunOptions(id) EXCEPT !.scope = "bravo"],
   STALE_APPROVAL_LEASE_DENIED |-> [RunOptions(id) EXCEPT !.stale = TRUE],
   TAMPERED_PLAN_DENIED |-> [RunOptions(id) EXCEPT !.plan = "forged"],
   TAMPERED_RECEIPT_DENIED |-> [RunOptions(id) EXCEPT !.receipt = "forged"],
   DUPLICATE_REPLAY_DENIED |-> [RunOptions(id) EXCEPT !.duplicate = TRUE],
   EMBEDDED_SECRET_OR_PII_DENIED |-> [RunOptions(id) EXCEPT !.text = "secret"]]

(* buildPocShowcaseE2eCoverageMatrix(): a use case is accepted when its    *)
(* run passes and every negative case fails closed.                        *)
UseCaseAccepted(id) ==
  /\ Denial(RunOptions(id)) = "NONE" /\ Simulated(RunOptions(id)).residue = 0
  /\ \A code \in DOMAIN NegativeCase(id) : Denial(NegativeCase(id)[code]) = code

(***************************************************************************)
(* Templates                                                               *)
(***************************************************************************)
(* assertTemplateShape(), assertTemplateIds().                             *)
TemplateShaped(t) ==
  /\ t.shaped /\ t.safe /\ t.useCases # {} /\ t.useCases \subseteq DOMAIN Showcase
  /\ t.network = {} /\ t.minNode = 24

(* validatePocGuidedDemoTemplateV1(): a template that is not the shipped   *)
(* one of its id may not claim to be.                                      *)
ClaimsBuiltin(t) == t.source = "BUILTIN" \/ t.tier \in {"BUILTIN_VERIFIED", "SIGNED_VERIFIED"} \/ t.signature # "NOT_REQUIRED"

ValidTemplate(t) ==
  /\ TemplateShaped(t) /\ Intact(t.manifest) /\ t.manifest.core = t.id
  /\ \/ t \in BuiltinTemplates
     \/ (\A b \in BuiltinTemplates : b.id # t.id) /\ ~ClaimsBuiltin(t)

(* validatePocGuidedDemoTemplateCatalogV1(): all or nothing.               *)
ValidTemplates(ts) ==
  (\A t \in ts : ValidTemplate(t)) /\ {b.id : b \in BuiltinTemplates} \subseteq {t.id : t \in ts}

(* expectedPocGuidedDemoTemplatesV1() and composedTemplate() make their    *)
(* templates of these parts.                                               *)
MadeTemplate(id, source, tier, useCases, capabilities, network) ==
  [id |-> id, source |-> source, tier |-> tier, signature |-> "NOT_REQUIRED", useCases |-> useCases,
   capabilities |-> capabilities, network |-> network, root |-> id, minNode |-> 24, shaped |-> TRUE, safe |-> TRUE,
   manifest |-> Sealed(id)]

(***************************************************************************)
(* The plan and its receipts                                               *)
(***************************************************************************)
(* assertSetupRequestSafe(): a request with what only the default may be   *)
(* is refused; a state root is the template's or not named.                *)
SetupRequestSafe(r, t) ==
  r.defaults /\ r.credentials = {} /\ r.capabilities \subseteq t.capabilities /\ r.root \in {<<>>, t.root}

Chosen(ts, r) == {t \in ts : t.id = (IF r.template = <<>> THEN <<"quick-tour">> ELSE r.template)}

(* buildPocGuidedDemoSetupPlanV1() succeeds, and what it makes of the      *)
(* template.                                                               *)
Plannable(ts, r) ==
  /\ ValidTemplates(ts) /\ Chosen(ts, r) # {}
  /\ \A t \in Chosen(ts, r) :
       /\ SetupRequestSafe(r, t) /\ NodeMajor >= t.minNode
       /\ \A id \in t.useCases : Denial(RunOptions(id)) = "NONE"

SetupPlan(t) ==
  LET evidence == {Simulated(RunOptions(id)) : id \in t.useCases} IN
  Sealed([template |-> [id |-> t.id, tier |-> t.tier, manifest |-> t,
                        confirmed |-> t.tier \in {"COMMUNITY_LOCAL_UNVERIFIED", "CUSTOM_LOCAL_UNVERIFIED"}],
          node |-> NodeMajor, root |-> t.root, network |-> {}, smoke |-> evidence,
          config |-> Sealed([template |-> t.id, synthetic |-> TRUE]), lock |-> Sealed([template |-> t, smoke |-> evidence])])

(* verifyPocGuidedDemoSetupPlanV1().                                       *)
VerifiedPlan(p) ==
  Intact(p) /\ Intact(p.core.config) /\ Intact(p.core.lock) /\ p.core.network = {}

SetupReceipt(p) ==
  Sealed([template |-> p.core.template.id, status |-> "READY", plan |-> p.seal, config |-> p.core.config.seal,
          lock |-> p.core.lock.seal, smoke |-> {[useCase |-> e.useCase, evidence |-> e] : e \in p.core.smoke}])

VerifiedReceipt(r, p) ==
  /\ VerifiedPlan(p) /\ Intact(r) /\ r.core.status = "READY"
  /\ r.core.plan = p.seal /\ r.core.config = p.core.config.seal /\ r.core.lock = p.core.lock.seal

CleanupReceipt(r, p) ==
  Sealed([template |-> p.core.template.id, status |-> "CLEANED", root |-> p.core.root, plan |-> p.seal, receipt |-> r.seal])
=============================================================================
