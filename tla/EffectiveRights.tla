--------------------------- MODULE EffectiveRights ---------------------------
(***************************************************************************)
(* The effective rights compiler (contracts/src/effective-rights.ts): four *)
(* operands, a profile, an assignment, a capability and a constraint, each *)
(* issued and reissued by itself, are intersected; the permission X-ray    *)
(* shows a result that verifies.                                           *)
(*                                                                         *)
(* A scope is a sequence of lists, one per domain in the order the code    *)
(* reads them.  A digest is what it is made of.  Left out: the reason      *)
(* facts, which repeat ceilings, issues and outcome.                       *)
(***************************************************************************)
EXTENDS Naturals, Sequences, FiniteSets, SequencesExt

CONSTANTS
  RightsDomains,       \* domain -> the registered entries, in order
  RightsInput,         \* the first input: [sound, actor, tenant, operands]
  MaxOperandChanges,   \* bound of the changes before a compilation
  MaxOperands,         \* bound of the operands
  NoRights

(* What an input is made of, whatever it says.                             *)
OperandTyped(o) ==
  /\ o = [kind |-> o.kind, actor |-> o.actor, tenant |-> o.tenant, generation |-> o.generation, profile |-> o.profile,
          profileGeneration |-> o.profileGeneration, ceiling |-> o.ceiling, scope |-> o.scope]
  /\ o.generation \in Nat /\ o.profileGeneration \in Nat
  /\ o.scope = [d \in DOMAIN RightsDomains |-> o.scope[d]]
  /\ \A d \in DOMAIN RightsDomains : o.scope[d] \in Seq(ToSet(o.scope[d]))
InputTyped(input) ==
  /\ input = [sound |-> input.sound, actor |-> input.actor, tenant |-> input.tenant, operands |-> input.operands]
  /\ input.operands \in Seq(ToSet(input.operands)) /\ \A o \in ToSet(input.operands) : OperandTyped(o)

ASSUME RightsAssumption == InputTyped(RightsInput)

VARIABLES
  erInput,
  erChanges,           \* the changes so far
  erResult,            \* a result and its digest
  erView,              \* the X-ray of a result
  erEdited             \* history: "NO", "FIELD", "SEALED" as the result was edited
erVars == <<erInput, erChanges, erResult, erView, erEdited>>

OperandKinds == {"PROFILE", "ASSIGNMENT", "CAPABILITY", "CONSTRAINT"}
Ceilings == {"ALLOW", "ESCALATE", "DENY"}

(***************************************************************************)
(* The compiler                                                            *)
(***************************************************************************)
(* validateScope(): domains are read up to an empty one.                   *)
ReadDomains(scope) == {i \in DOMAIN scope : \A j \in 1..i : scope[j] # <<>>}
ScopeIssues(scope) ==
  {"SCHEMA" : i \in DOMAIN scope \ ReadDomains(scope)}
    \cup {"CONFLICT" : i \in {j \in ReadDomains(scope) : ~IsInjective(scope[j])}}
    \cup {"UNKNOWN" : i \in {j \in ReadDomains(scope) : ~(ToSet(scope[j]) \subseteq RightsDomains[j])}}

(* parseOperand(): its issues, and what is left of an operand it takes.    *)
OperandIssues(o) ==
  IF o.kind \notin OperandKinds THEN {"KIND_UNKNOWN"}
  ELSE IF o.ceiling \notin Ceilings THEN {"SCHEMA"}
  ELSE IF o.generation < 1 \/ o.profileGeneration < 1 THEN {"STALE"}
  ELSE ScopeIssues(o.scope)

Parses(o) == OperandIssues(o) \cap {"KIND_UNKNOWN", "SCHEMA", "STALE"} = {}

Parsed(operands) == [i \in {j \in DOMAIN operands : Parses(operands[j])} |-> operands[i]]

OfKind(operands, kind) == {i \in DOMAIN operands : operands[i].kind = kind}

KindIssues(operands) ==
  {"MISSING" : k \in {x \in OperandKinds : OfKind(operands, x) = {}}}
    \cup {"DUPLICATE" : k \in {x \in OperandKinds : \E i, j \in OfKind(operands, x) : i # j}}

(* normalizedInput() sorts by kind: what there is of each, and how often.  *)
(* The order of those of one kind is left out; two of a kind deny.         *)
ByKind(operands) ==
  [k \in OperandKinds |->
     [o \in {operands[i] : i \in OfKind(operands, k)} |-> Cardinality({i \in OfKind(operands, k) : operands[i] = o})]]

(* Every operand names the input's actor and tenant, and the profile and   *)
(* its generation; without a profile nothing is compared.                  *)
OperandBinding(input, profile, o) ==
  (IF input.actor # o.actor \/ input.tenant # o.tenant \/ o.profile # profile.profile
        \/ o.profileGeneration > profile.profileGeneration THEN {"BINDING"} ELSE {})
    \cup (IF o.profileGeneration < profile.profileGeneration THEN {"STALE"} ELSE {})

BindingIssues(input, operands) ==
  LET profiles == OfKind(operands, "PROFILE")
      first == CHOOSE i \in profiles : \A j \in profiles : i <= j
  IN UNION {OperandBinding(input, operands[first], o) : o \in {x \in ToSet(operands) : profiles # {}}}

(* intersection() of every domain; of other than four operands, nothing.   *)
CommonScope(operands) ==
  [i \in DOMAIN RightsDomains |->
     IF Cardinality(DOMAIN operands) # 4 THEN {}
     ELSE {x \in UNION {ToSet(o.scope[i]) : o \in ToSet(operands)} : \A o \in ToSet(operands) : x \in ToSet(o.scope[i])}]

(* buildResult()                                                           *)
ScopeDenials(operands) ==
  {"EMPTY" : i \in {j \in DOMAIN RightsDomains : Cardinality(DOMAIN operands) = 4 /\ CommonScope(operands)[j] = {}}}
    \cup {"EXPLICIT_DENY" : o \in {x \in ToSet(operands) : x.ceiling = "DENY"}}

RightsSealed(core) == [core |-> core, digest |-> core]

(* compileEffectiveRightsV1()                                              *)
InputIssues(input) ==
  (IF input.sound THEN {} ELSE {"INPUT"}) \cup UNION {OperandIssues(o) : o \in ToSet(input.operands)}

RightsIssues(input, operands) ==
  InputIssues(input) \cup KindIssues(operands) \cup BindingIssues(input, operands) \cup ScopeDenials(operands)

Compiled(input) ==
  LET operands == Parsed(input.operands)
      issues == RightsIssues(input, operands)
  IN RightsSealed(
       [of |-> [actor |-> input.actor, tenant |-> input.tenant, byKind |-> ByKind(operands)],
        outcome |-> IF issues # {} THEN "DENY"
                    ELSE IF \E o \in ToSet(operands) : o.ceiling = "ESCALATE" THEN "ESCALATE" ELSE "ALLOW",
        scope |-> CommonScope(operands),
        ceilings |-> ByKind(operands),
        issues |-> issues])

(* verifyEffectiveRightsResultV1(): shape and digest; a kind comes once.   *)
VerifiedResult(r) ==
  /\ r.digest = r.core /\ r.core.outcome \in Ceilings
  /\ \A k \in OperandKinds : LET found == r.core.ceilings[k] IN \A o, q \in DOMAIN found : o = q /\ found[o] = 1

(* renderPermissionXrayV1()                                                *)
Xray(r) ==
  [source |-> r.digest, outcome |-> r.core.outcome, scope |-> r.core.scope, ceilings |-> r.core.ceilings, issues |-> r.core.issues]

(* verifyPermissionXrayParityV1()                                          *)
XrayParity(view, r) == VerifiedResult(r) /\ view = Xray(r)

(***************************************************************************)
(* Operands change, a result is compiled, edited on its way, and shown     *)
(***************************************************************************)
Shortened(o) == UNION {{[o EXCEPT !.scope[i] = RemoveAt(@, n)] : n \in DOMAIN o.scope[i]} : i \in DOMAIN o.scope}
Narrowings(o) == Shortened(o) \cup {[o EXCEPT !.ceiling = c] : c \in {"ESCALATE", "DENY"}}

Reissues(o) ==
  {x \in Narrowings(o) : \A i \in DOMAIN o.scope : o.scope[i] # <<>>}
    \cup {[o EXCEPT !.profileGeneration = o.profileGeneration + 1], [o EXCEPT !.tenant = "other"],
          [o EXCEPT !.kind = "ASSIGNMENT"], [o EXCEPT !.kind = "OTHER"], [o EXCEPT !.generation = 0],
          [o EXCEPT !.scope[1] = Append(@, "*")], [o EXCEPT !.scope[1] = @ \o @]}

EffectiveInit ==
  /\ erInput = RightsInput /\ erChanges = 0 /\ erResult = NoRights /\ erView = NoRights /\ erEdited = "NO"

OperandsChange(operands) ==
  /\ erResult = NoRights /\ erChanges < MaxOperandChanges /\ erChanges' = erChanges + 1
  /\ erInput' = [erInput EXCEPT !.operands = operands]
  /\ UNCHANGED <<erResult, erView, erEdited>>

OperandReissued ==
  \E i \in DOMAIN erInput.operands : \E o \in Reissues(erInput.operands[i]) :
    OperandsChange([erInput.operands EXCEPT ![i] = o])

OperandAdded ==
  /\ Len(erInput.operands) < MaxOperands
  /\ \E i \in DOMAIN erInput.operands : OperandsChange(Append(erInput.operands, erInput.operands[i]))

OperandDropped == \E i \in DOMAIN erInput.operands : OperandsChange(RemoveAt(erInput.operands, i))

RightsCompiled ==
  /\ erResult = NoRights /\ erResult' = Compiled(erInput) /\ erEdited' = "NO"
  /\ UNCHANGED <<erInput, erChanges, erView>>

ResultEdits(r) == {[r EXCEPT !.core.outcome = c] : c \in Ceilings \ {r.core.outcome}}

ResultEdited ==
  /\ erResult # NoRights /\ erView = NoRights /\ erEdited = "NO"
  /\ \E r \in ResultEdits(erResult) :
       \/ erResult' = r /\ erEdited' = "FIELD"
       \/ erResult' = RightsSealed(r.core) /\ erEdited' = "SEALED"
  /\ UNCHANGED <<erInput, erChanges, erView>>

XrayRendered ==
  /\ erResult # NoRights /\ erView = NoRights /\ VerifiedResult(erResult)
  /\ erView' = Xray(erResult)
  /\ UNCHANGED <<erInput, erChanges, erResult, erEdited>>

EffectiveNext ==
  OperandReissued \/ OperandAdded \/ OperandDropped \/ RightsCompiled \/ ResultEdited \/ XrayRendered

(***************************************************************************)
(* Properties                                                              *)
(***************************************************************************)
RightsDenied(input) == Compiled(input).core.outcome = "DENY"

(* However the operands came about: what is not denied has one operand of  *)
(* each kind, all for one actor and one generation of the profile, and     *)
(* each allows it; the order they come in says nothing; taking an entry or *)
(* a ceiling from any of them takes that and nothing else, or denies; and  *)
(* an X-ray shows what was compiled, unless its digest was made anew.      *)
RightsOnlyNarrow ==
  LET operands == erInput.operands
      core == Compiled(erInput).core
      scopeOf(o, i) == ToSet(o.scope[i])
  IN
  /\ ~RightsDenied(erInput) =>
       /\ Len(operands) = 4 /\ {o.kind : o \in ToSet(operands)} = OperandKinds
       /\ \A o \in ToSet(operands) :
            /\ o.actor = erInput.actor /\ o.tenant = erInput.tenant
            /\ o.profile = operands[1].profile /\ o.profileGeneration = operands[1].profileGeneration
            /\ o.ceiling \in {core.outcome, "ALLOW"}
            /\ \A i \in DOMAIN RightsDomains : core.scope[i] # {} /\ core.scope[i] \subseteq scopeOf(o, i) \cap RightsDomains[i]
       /\ Compiled([erInput EXCEPT !.operands = Reverse(operands)]).core = core
       /\ \A n \in DOMAIN operands : \A o \in Narrowings(operands[n]) :
            LET less == [erInput EXCEPT !.operands[n] = o]
                taken(i) == scopeOf(operands[n], i) \ scopeOf(o, i)
            IN \/ RightsDenied(less)
               \/ /\ \A i \in DOMAIN RightsDomains : Compiled(less).core.scope[i] = core.scope[i] \ taken(i)
                  /\ o.ceiling \in {Compiled(less).core.outcome, "ALLOW"}
  /\ erView # NoRights /\ erEdited # "SEALED" => XrayParity(erView, Compiled(erInput))

(* The inductive invariant: an input is made of operands, whatever they    *)
(* became; a result that was not edited is the input's; one edited in a    *)
(* field does not verify; and an X-ray is of the result there is.          *)
EffectiveInv ==
  /\ InputTyped(erInput) /\ erEdited \in {"NO", "FIELD", "SEALED"}
  /\ erResult = NoRights => erView = NoRights
  /\ erResult # NoRights =>
       /\ erEdited = "NO" => erResult = Compiled(erInput)
       /\ erEdited = "FIELD" => erResult.digest # erResult.core
       /\ erView # NoRights => VerifiedResult(erResult) /\ erView = Xray(erResult)
=============================================================================
