---------------------------- MODULE SetupPlanning ---------------------------
(***************************************************************************)
(* The setup compatibility planner                                         *)
(* (contracts/src/poc-setup-compatibility-planner.ts): a user composes a   *)
(* request choice by choice, the planner completes it to a bundle and says *)
(* what each use case lacks, and a plan binds the bundle to a guided plan, *)
(* whose receipts follow.  Between any two of these the documents lie in   *)
(* files, and a field may be changed.                                      *)
(***************************************************************************)
EXTENDS GuidedPlan, Sequences, SequencesExt

CONSTANTS
  PlannerCatalogs,     \* its digest -> [trust, sealed, components, useCases, bases]:
                       \* component id -> [version, mode, kind, caps, needs,
                       \* blocks, network], needs: id -> versions;
                       \* use case id -> [needs, groups, simulator, blocks],
                       \* groups: a sequence of [group, cap, oneOf];
                       \* base id -> [recommended, components, useCases]
  MaxExtras,           \* components a user adds
  NoDocument

(* What is in no file is no document; a group's providers and the use      *)
(* cases of a base are lists.                                              *)
ASSUME PlanningAssumption ==
  /\ "core" \notin DOMAIN NoDocument
  /\ \A name \in DOMAIN PlannerCatalogs :
       LET c == PlannerCatalogs[name] IN
       /\ \A b \in DOMAIN c.bases : IsFiniteSet(c.bases[b].useCases)
       /\ \A u \in DOMAIN c.useCases : \A g \in ToSet(c.useCases[u].groups) : g.oneOf \in Seq(ToSet(g.oneOf))

VARIABLES
  spRequest,           \* the request; it names its catalog
  spPlan, spReceipt, spCleanup,
  spEdited             \* "NO", "FIELD" (a field, or the field and one seal),
                       \* "ALL" (a field and every seal over it)

spVars == <<spRequest, spPlan, spReceipt, spCleanup, spEdited>>

(***************************************************************************)
(* The catalog                                                             *)
(***************************************************************************)
NoSimulator == "none"
CatalogOf(r) == PlannerCatalogs[r.catalog]
Recommended(c) == {b \in DOMAIN c.bases : c.bases[b].recommended}
NeedsMet(c, needs) ==
  \A id \in DOMAIN needs : id \in DOMAIN c.components /\ c.components[id].version \in needs[id]

(* validatePocSetupCompatibilityCatalogV1().                               *)
ValidCatalog(c) ==
  LET ids == DOMAIN c.components IN
  /\ c.sealed /\ Cardinality(Recommended(c)) = 1
  /\ \A id \in ids : NeedsMet(c, c.components[id].needs) /\ c.components[id].blocks \subseteq ids
  /\ \A u \in DOMAIN c.useCases :
       LET use == c.useCases[u] IN
       /\ DOMAIN use.needs \cup use.blocks \subseteq ids
       /\ \A i, j \in DOMAIN use.groups : use.groups[i].group = use.groups[j].group => i = j
       /\ \A i \in DOMAIN use.groups :
            LET g == use.groups[i] IN
            g.oneOf # <<>> /\ IsInjective(g.oneOf) /\ \A id \in ToSet(g.oneOf) : id \in ids /\ g.cap \in c.components[id].caps
       /\ use.simulator = NoSimulator \/ (use.simulator \in ids /\ c.components[use.simulator].kind = "SIMULATOR")
  /\ \A b \in DOMAIN c.bases : c.bases[b].components \subseteq ids /\ c.bases[b].useCases \subseteq DOMAIN c.useCases

(* dependencyClosure(): what its worklist reaches: the first components,   *)
(* and of the rest what no set can do without that, added to them, holds   *)
(* what its members need.                                                  *)
HoldsNeeds(c, S) == \A id \in S : DOMAIN c.components[id].needs \subseteq S
Closure(c, initial) ==
  LET rest == DOMAIN c.components \ initial
      added == {R \in SUBSET rest : HoldsNeeds(c, initial \cup R)}
  IN initial \cup {x \in rest : \A R \in added : x \in R}

(***************************************************************************)
(* The analysis                                                            *)
(***************************************************************************)
ProviderOf(r, g) == IF g.group \in DOMAIN r.providers THEN r.providers[g.group] ELSE g.oneOf[1]

(* completionForUseCase().                                                 *)
Completion(r, u, selected) ==
  LET use == CatalogOf(r).useCases[u] IN
  (DOMAIN use.needs \ selected)
    \cup {ProviderOf(r, g) : g \in {x \in ToSet(use.groups) : ToSet(x.oneOf) \cap selected = {}}}

(* What the planner adds to the user's components for its use cases, in    *)
(* the order the user chose them.                                          *)
WithUseCase(r, u, selected) ==
  LET use == CatalogOf(r).useCases[u] IN
  IF r.mode = "SYSTEM_FIRST" THEN selected \cup (IF r.complete THEN Completion(r, u, selected) ELSE {})
  ELSE selected \cup DOMAIN use.needs
         \cup (IF r.simulate /\ use.simulator # NoSimulator THEN {use.simulator} ELSE {ProviderOf(r, g) : g \in ToSet(use.groups)})

Chose(r) == CatalogOf(r).bases[r.base].components \cup r.extras
Asked(r) ==
  LET asked[n \in 0..Len(r.useCases)] ==
        IF n = 0 THEN Chose(r) ELSE WithUseCase(r, r.useCases[n], asked[n - 1])
  IN asked[Len(r.useCases)]
Selection(r) == Closure(CatalogOf(r), Asked(r))

(* What is asked of a system is every use case of the catalog.             *)
Evaluated(r) == IF r.mode = "USE_CASE_FIRST" THEN ToSet(r.useCases) ELSE DOMAIN CatalogOf(r).useCases

ProvidersAllowed(r) ==
  \A u \in Evaluated(r) : \A g \in ToSet(CatalogOf(r).useCases[u].groups) :
    g.group \in DOMAIN r.providers => r.providers[g.group] \in ToSet(g.oneOf)

Conflicts(c, u, selected) ==
  {<<u, b>> : b \in c.useCases[u].blocks \cap selected}
    \cup {e \in selected \X selected : e[2] \in c.components[e[1]].blocks}

(* evaluateUseCase().                                                      *)
SelectedProviders(r, u, selected) ==
  {LET explicit == ProviderOf(r, g) IN
   IF g.group \in DOMAIN r.providers /\ explicit \in selected THEN explicit
   ELSE SelectSeq(g.oneOf, LAMBDA id : id \in selected)[1]
     : g \in {x \in ToSet(CatalogOf(r).useCases[u].groups) : ToSet(x.oneOf) \cap selected # {}}}

Lacks(c, u, selected) ==
  LET use == c.useCases[u] IN
  \/ \E id \in DOMAIN use.needs : id \notin selected \/ c.components[id].version \notin use.needs[id]
  \/ \E g \in ToSet(use.groups) : ToSet(g.oneOf) \cap selected = {}

Status(r, u, selected) ==
  LET c == CatalogOf(r)
      simulator == c.useCases[u].simulator
      simulated == simulator # NoSimulator /\ simulator \in selected
  IN IF Conflicts(c, u, selected) # {} THEN "INCOMPATIBLE"
     ELSE IF Lacks(c, u, selected)
     THEN IF simulated /\ DOMAIN c.components[simulator].needs \subseteq selected THEN "READY_SIMULATED" ELSE "PARTIAL_MISSING"
     ELSE IF simulated \/ \E p \in SelectedProviders(r, u, selected) : c.components[p].mode = "SYNTHETIC"
     THEN "READY_SIMULATED" ELSE "READY_REAL"

Analysis(r) ==
  LET selected == Selection(r) IN
  [selected |-> selected, added |-> selected \ Chose(r),
   status |-> [u \in Evaluated(r) |-> Status(r, u, selected)],
   network |-> UNION {CatalogOf(r).components[id].network : id \in selected}]

(***************************************************************************)
(* The plan                                                                *)
(***************************************************************************)
TierOf(c) ==
  CASE c.trust = "CURATED_VERIFIED" -> "CATALOG_CURATED_VERIFIED"
    [] c.trust = "CUSTOM_UNVERIFIED" -> "CUSTOM_LOCAL_UNVERIFIED"
    [] OTHER -> "COMMUNITY_LOCAL_UNVERIFIED"

(* composedTemplate(); its id is a digest of the request and the analysis. *)
Composed(r, a) ==
  MadeTemplate(<<r, a>>, "LOCAL_PATH", TierOf(CatalogOf(r)), ToSet(r.useCases),
               UNION {CatalogOf(r).components[id].caps : id \in a.selected}, a.network)

GuidedRequest(id) == [template |-> id, defaults |-> TRUE, credentials |-> {}, capabilities |-> {}, root |-> <<>>]

Executable(r, a) ==
  r.mode = "USE_CASE_FIRST" => \A u \in DOMAIN a.status : a.status[u] \notin {"PARTIAL_MISSING", "INCOMPATIBLE"}

CouldBePlanned(r) ==
  \E a \in {Analysis(r)} : \E t \in {Composed(r, a)} :
    ProvidersAllowed(r) /\ Executable(r, a) /\ Plannable(BuiltinTemplates \cup {t}, GuidedRequest(t.id))

(* buildPocSetupCompatibilityPlanV1().                                     *)
CompatibilityPlanOf(r, a) ==
  Sealed([request |-> r, analysis |-> a, active |-> "SAFE_GUIDED", trust |-> TierOf(CatalogOf(r)), guided |-> SetupPlan(Composed(r, a))])
CompatibilityPlan(r) == CompatibilityPlanOf(r, Analysis(r))

(* verifyPocSetupCompatibilityPlanV1().                                    *)
VerifiedCompatibility(p) ==
  /\ Intact(p) /\ p.core.active = "SAFE_GUIDED" /\ p.core.trust = p.core.guided.core.template.tier
  /\ VerifiedPlan(p.core.guided)

(* defaultPocSetupCompatibilityRequestV1().                                *)
DefaultRequest(name) ==
  LET c == PlannerCatalogs[name]
      base == CHOOSE b \in Recommended(c) : TRUE
  IN [catalog |-> name, mode |-> "USE_CASE_FIRST", base |-> base, useCases |-> SetToSeq(c.bases[base].useCases),
   extras |-> c.bases[base].components, providers |-> <<>>, simulate |-> TRUE, complete |-> TRUE]

PlanningInit ==
  /\ spRequest \in {DefaultRequest(name) : name \in {x \in DOMAIN PlannerCatalogs : ValidCatalog(PlannerCatalogs[x])}}
  /\ spPlan = NoDocument /\ spReceipt = NoDocument /\ spCleanup = NoDocument /\ spEdited = "NO"

Choice(r) ==
  {[r EXCEPT !.mode = m] : m \in {"USE_CASE_FIRST", "SYSTEM_FIRST"}}
    \cup {[r EXCEPT !.useCases = Append(@, u)] : u \in DOMAIN CatalogOf(r).useCases \ ToSet(r.useCases)}
    \cup {[r EXCEPT !.useCases = Tail(@)] : x \in {1} \cap DOMAIN r.useCases}
    \cup {[r EXCEPT !.extras = @ \cup {id}] : id \in DOMAIN CatalogOf(r).components}
    \cup {[r EXCEPT !.extras = @ \ {id}] : id \in r.extras}
    \cup {[r EXCEPT !.providers = ("g1" :> id) @@ @] : id \in {x \in DOMAIN CatalogOf(r).components : CatalogOf(r).components[x].caps # {}}}
    \cup {[r EXCEPT !.simulate = ~@], [r EXCEPT !.complete = ~@]}

(* A choice of the user, before there is a plan.                           *)
UserChooses ==
  /\ spPlan = NoDocument
  /\ spRequest' \in {r \in Choice(spRequest) : Cardinality(r.extras) <= MaxExtras}
  /\ UNCHANGED <<spPlan, spReceipt, spCleanup, spEdited>>

PlanBuilt ==
  /\ spPlan = NoDocument /\ CouldBePlanned(spRequest)
  /\ \E a \in {Analysis(spRequest)} : spPlan' = CompatibilityPlanOf(spRequest, a)
  /\ UNCHANGED <<spRequest, spReceipt, spCleanup, spEdited>>

(* The document in its file is changed: a field of it, or the field and    *)
(* the seal over it, or every seal.                                        *)
Edits(p) ==
  {[p EXCEPT !.core.guided.core.root = <<"elsewhere">>],
   [p EXCEPT !.core.guided = Sealed([@.core EXCEPT !.root = <<"elsewhere">>])],
   [p EXCEPT !.core.guided.core.config.core.synthetic = FALSE],
   Sealed([p.core EXCEPT !.trust = "BUILTIN_VERIFIED"]),
   Sealed([p.core EXCEPT !.guided.core.network = {"any"}])}
Forged(p) == Sealed([p.core EXCEPT !.guided = Sealed([@.core EXCEPT !.root = <<"elsewhere">>])])

PlanEdited ==
  /\ spPlan # NoDocument /\ spCleanup = NoDocument /\ spEdited = "NO"
  /\ \/ spPlan' \in Edits(spPlan) /\ spEdited' = "FIELD"
     \/ spPlan' = Forged(spPlan) /\ spEdited' = "ALL"
  /\ UNCHANGED <<spRequest, spReceipt, spCleanup>>

ReceiptBuilt ==
  /\ spPlan # NoDocument /\ VerifiedCompatibility(spPlan)
  /\ spReceipt' = SetupReceipt(spPlan.core.guided)
  /\ UNCHANGED <<spRequest, spPlan, spCleanup, spEdited>>

CleanupBuilt ==
  /\ spReceipt # NoDocument /\ VerifiedReceipt(spReceipt, spPlan.core.guided)
  /\ spCleanup' = CleanupReceipt(spReceipt, spPlan.core.guided)
  /\ UNCHANGED <<spRequest, spPlan, spReceipt, spEdited>>

PlanningNext == UserChooses \/ PlanBuilt \/ PlanEdited \/ ReceiptBuilt \/ CleanupBuilt

(***************************************************************************)
(* Properties                                                              *)
(***************************************************************************)
(* Whatever was chosen and in whatever order: the bundle of a plan holds   *)
(* what its parts need and nothing the user or a use case did not ask for; *)
(* a use case it promises can run, without two parts that exclude each     *)
(* other, and fails closed in every negative case of its own;              *)
(* composing again from the bundle changes nothing; and a receipt or a     *)
(* cleanup is of the plan that was built, in its own directory, short of a *)
(* forger who makes every seal anew.                                       *)
Runs(c, u, s) ==
  /\ \A a, b \in s : b \notin c.components[a].blocks \cup c.useCases[u].blocks
  /\ \/ ~Lacks(c, u, s)
     \/ c.useCases[u].simulator \in s /\ DOMAIN c.components[c.useCases[u].simulator].needs \subseteq s

PlansAreExecutable ==
  /\ spPlan # NoDocument =>
       LET r == spRequest IN
       \A s \in {Selection(r)} : \A again \in {Analysis([r EXCEPT !.extras = s])} :
          /\ \A id \in s : NeedsMet(CatalogOf(r), CatalogOf(r).components[id].needs) /\ DOMAIN CatalogOf(r).components[id].needs \subseteq s
          /\ \A id \in s \ Chose(r) :
               \/ \E a \in s : id \in DOMAIN CatalogOf(r).components[a].needs
               \/ \E u \in ToSet(r.useCases) :
                    LET use == CatalogOf(r).useCases[u] IN
                    id = use.simulator \/ id \in DOMAIN use.needs \/ \E g \in ToSet(use.groups) : id = ProviderOf(r, g)
          /\ r.mode = "USE_CASE_FIRST" => \A u \in ToSet(r.useCases) : Runs(CatalogOf(r), u, s)
          /\ \A u \in ToSet(r.useCases) : UseCaseAccepted(u)
          /\ again.selected = s /\ again.added = {} /\ again.status = Analysis(r).status
  /\ spEdited # "ALL" =>
       /\ spReceipt # NoDocument =>
            \A a \in {Analysis(spRequest)} : \A built \in {CompatibilityPlanOf(spRequest, a)} : spReceipt = SetupReceipt(built.core.guided)
       /\ spCleanup # NoDocument =>
            \A a \in {Analysis(spRequest)} : spCleanup.core.root = Composed(spRequest, a).root

(* The inductive invariant: a request names what its catalog has; what was *)
(* planned could be; a plan that was not edited is the request's, and one  *)
(* edited in a field neither verifies nor lets a receipt of another pass.  *)
RequestTyped(r) ==
  /\ r = [catalog |-> r.catalog, mode |-> r.mode, base |-> r.base, useCases |-> r.useCases, extras |-> r.extras,
          providers |-> r.providers, simulate |-> r.simulate, complete |-> r.complete]
  /\ r.catalog \in DOMAIN PlannerCatalogs /\ ValidCatalog(CatalogOf(r)) /\ r.base \in DOMAIN CatalogOf(r).bases
  /\ r.mode \in {"USE_CASE_FIRST", "SYSTEM_FIRST"}
  /\ r.useCases \in Seq(DOMAIN CatalogOf(r).useCases) /\ r.extras \subseteq DOMAIN CatalogOf(r).components

PlanningInv ==
  /\ RequestTyped(spRequest) /\ spEdited \in {"NO", "FIELD", "ALL"}
  /\ spPlan = NoDocument => spReceipt = NoDocument /\ spCleanup = NoDocument /\ spEdited = "NO"
  /\ spPlan # NoDocument =>
       /\ CouldBePlanned(spRequest)
       /\ \A a \in {Analysis(spRequest)} : \A built \in {CompatibilityPlanOf(spRequest, a)} :
            LET made == built.core.guided
                guided == spPlan.core.guided
            IN /\ spEdited = "NO" => spPlan = built
               /\ spEdited = "FIELD" =>
                    ~VerifiedCompatibility(spPlan) /\ (guided = made \/ ~VerifiedReceipt(SetupReceipt(made), guided))
               /\ spEdited # "ALL" =>
                    /\ spReceipt # NoDocument => spReceipt = SetupReceipt(made)
                    /\ spCleanup # NoDocument => spCleanup.core.root = Composed(spRequest, a).root
=============================================================================
