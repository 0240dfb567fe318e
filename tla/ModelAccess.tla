---------------------------- MODULE ModelAccess -----------------------------
(***************************************************************************)
(* The model access brokers: the library's                                 *)
(* (contracts/src/model-access-broker.ts) and the demo's                   *)
(* (demo/model-access-broker/broker.mjs, behind frontdoor.mjs).  Both      *)
(* guard a request, answer a repeated operation from its receipt, call the *)
(* provider, guard what it answers and keep a receipt; calls of one        *)
(* operation may overlap while the provider thinks.  The library's also    *)
(* reserves a budget of calls; the demo's loses its memory with the        *)
(* process.  A stream is read line by line by parseGuardedSseV1().         *)
(***************************************************************************)
EXTENDS Naturals, Sequences, FiniteSets, Bags, SequencesExt

CONSTANTS
  ModelRoutes,         \* [route, tenants, purposes, options, media]
  ModelUsers, ModelWorkloads,
  ModelCeiling,        \* the policy's largest budget [requests, tokens, input]
  ModelRequests,       \* requests at the library's broker, with the secrets
                       \* each field carries: <<field, secret>>
  FrontdoorChats,      \* [user, text, tools, secrets] at the front door
  OperationOf,         \* the operation id of a chat's user: not one to one
  DemoContract,        \* the demo's one binding, the fields of a request
  ProviderAnswers,     \* [mime, size, tokens, tools]
  ProviderLines,       \* lines of a stream [kind, sequence, event, tool]
  MaxModelCalls, MaxModelLines, NoStream

ASSUME ModelAssumption ==
  /\ ModelCeiling \in [requests : Nat, tokens : Nat, input : Nat]
  /\ \A r \in ModelRequests : {"budget", "secrets"} \subseteq DOMAIN r

VARIABLES
  maLibrary,           \* which broker this is
  maCalls,             \* calls at the provider, a bag of requests
  maReceipts,          \* operation id -> [request, response]
  maReserved,          \* reserved calls, a bag of budget keys
  maSent,              \* history: the calls made, a bag of budget keys
  maAnswers,           \* history: [request, response] answered as FIRST
  maStream             \* the stream being read, or NoStream

maVars == <<maLibrary, maCalls, maReceipts, maReserved, maSent, maAnswers, maStream>>

(* Map.set()                                                               *)
SetAt(map, key, value) == [k \in DOMAIN map \cup {key} |-> IF k = key THEN value ELSE map[k]]

(* validateBudget(), validateAttachments(), validateTools().               *)
BudgetFits(b) == b.requests \in 1..ModelCeiling.requests /\ b.tokens \in 1..ModelCeiling.tokens /\ b.input \in 1..ModelCeiling.input
InputFits(r, route) == r.size <= r.budget.input /\ r.attachments \subseteq route.media /\ r.toolsSound

RouteOf(r) == {route \in ModelRoutes : route.route = r.route}

(* guardModelRequestV1(), in its order: a request that is not sound or not *)
(* allowed is denied before a secret one is escalated.                     *)
GuardedRequest(r) ==
  IF \/ ~r.sound \/ RouteOf(r) = {}
     \/ \E route \in RouteOf(r) :
          \/ r.workload \notin ModelWorkloads \/ r.user \notin ModelUsers
          \/ r.tenant \notin route.tenants \/ r.purpose \notin route.purposes
          \/ ~BudgetFits(r.budget) \/ ~InputFits(r, route) \/ ~(r.options \subseteq route.options)
  THEN "DENY"
  ELSE IF r.class = "SECRET" THEN "OWNER_ESCALATION"
  ELSE IF r.class \notin {"PUBLIC", "INTERNAL", "CONFIDENTIAL"} THEN "DENY"
  ELSE "ALLOW"

(* The request as it is digested and sent: a secret in the text is replaced*)
(* by a mark, one in any other field (a tool's description, an attachment, *)
(* the output's schema, an optional field) stays as it is.                 *)
Mark(s) == IF s[1] = "text" THEN <<"text", "REDACTED">> ELSE s

Redacted(r) == [r EXCEPT !.secrets = {Mark(s) : s \in @}]

(* validate() of the demo's broker: every binding is the contract's.       *)
DemoValid(r) ==
  /\ r.sound /\ r.workload = DemoContract.workload /\ r.user = DemoContract.user
  /\ r.tenant = DemoContract.tenant /\ r.purpose = DemoContract.purpose
  /\ r.route = DemoContract.route /\ r.class # "SECRET" /\ r.options = {}

(* canonical() of the front door: all but the text, the tools and the      *)
(* user's operation is the contract's; nothing is redacted.                *)
FrontdoorRequest(chat) ==
  [DemoContract EXCEPT !.op = OperationOf[chat.user], !.text = chat.text, !.tools = chat.tools, !.secrets = chat.secrets]

(* adaptCanonicalRequestV1(): what the provider is sent in each protocol,  *)
(* every field that may carry a secret among it.  The demo's broker sends  *)
(* the text and the tools; its requests have no attachment and no option.  *)
Adapted(r) ==
  [text |-> r.text, tools |-> r.tools, attachments |-> r.attachments, options |-> r.options,
   secrets |-> r.secrets, tokens |-> r.budget.tokens]

(* guardModelResponseV1(), guardResponse(): a tool's call is a candidate   *)
(* for a tool of the request and smuggles no authority.                    *)
ToolsGuarded(r, v) == \A t \in v.tools : t.name \in r.tools /\ ~t.smuggles
ResponseAllowed(r, v) ==
  /\ ToolsGuarded(r, v)
  /\ v.size <= r.budget.output
  /\ maLibrary => v.mime \in {"text/plain", "application/json"} /\ v.tokens <= r.budget.tokens

GuardedResponse(r, v) ==
  [op |-> r.op, candidates |-> {t.name : t \in v.tools}, sent |-> Adapted(r)]

ModelInit ==
  /\ maLibrary \in BOOLEAN
  /\ maCalls = EmptyBag /\ maReceipts = <<>> /\ maReserved = EmptyBag /\ maSent = EmptyBag /\ maAnswers = {}
  /\ maStream = NoStream

BudgetKey(r) == <<r.tenant, r.purpose, r.route>>

(* this.reservations.get(budgetKey) ?? 0                                   *)
CopiesHeld(r) == IF BagIn(BudgetKey(r), maReserved) THEN maReserved[BudgetKey(r)] ELSE 0

(* What a broker may carry out: guarded at the library's, from the front   *)
(* door at the demo's.                                                     *)
Admissible ==
  IF maLibrary THEN {Redacted(r) : r \in {x \in ModelRequests : GuardedRequest(x) = "ALLOW"}}
  ELSE {r \in {FrontdoorRequest(c) : c \in FrontdoorChats} : DemoValid(r)}

New(r) == r.op \notin DOMAIN maReceipts

(* Mutant of Reserve: the budget is booked when the provider has answered. *)
ReserveLate(r) == maReserved' = maReserved

Reserve(r) == maReserved' = maReserved (+) SetToBag({BudgetKey(r)})

(* invoke() up to its await: a call of the same operation may be there     *)
(* already.                                                                *)
InvokeBegins(r) ==
  /\ New(r) /\ BagCardinality(maCalls) < MaxModelCalls
  /\ IF maLibrary
     THEN /\ CopiesHeld(r) < r.budget.requests
          /\ Reserve(r) /\ maSent' = maSent (+) SetToBag({BudgetKey(r)})
     ELSE UNCHANGED <<maReserved, maSent>>
  /\ maCalls' = maCalls (+) SetToBag({r})
  /\ UNCHANGED <<maLibrary, maReceipts, maAnswers, maStream>>

(* invoke() after its await: the receipt is kept, over one of a call that  *)
(* overlapped.                                                             *)
InvokeEnds(r, v) ==
  /\ BagIn(r, maCalls) /\ ResponseAllowed(r, v)
  /\ LET receipt == [request |-> r, response |-> GuardedResponse(r, v)] IN
     maReceipts' = SetAt(maReceipts, r.op, receipt) /\ maAnswers' = maAnswers \cup {receipt}
  /\ maCalls' = maCalls (-) SetToBag({r})
  /\ UNCHANGED <<maLibrary, maReserved, maSent, maStream>>

(* issueResult() of a provider that fails, answers after the timeout or    *)
(* answers what the guard refuses: the reservation is spent.               *)
InvokeQuarantined(r) ==
  /\ BagIn(r, maCalls)
  /\ maCalls' = maCalls (-) SetToBag({r})
  /\ UNCHANGED <<maLibrary, maReceipts, maReserved, maSent, maAnswers, maStream>>

(* The demo's broker restarts.                                             *)
BrokerRestarts ==
  /\ ~maLibrary
  /\ maCalls' = EmptyBag /\ maReceipts' = <<>> /\ maAnswers' = {}
  /\ UNCHANGED <<maLibrary, maReserved, maSent, maStream>>

(***************************************************************************)
(* parseGuardedSseV1()                                                     *)
(***************************************************************************)
EmptyStream == [events |-> <<>>, tools |-> <<>>, done |-> FALSE, lines |-> 0, outcome |-> "READING"]

StreamOpens ==
  /\ maStream = NoStream /\ maLibrary /\ maSent = EmptyBag /\ maStream' = EmptyStream
  /\ UNCHANGED <<maLibrary, maCalls, maReceipts, maReserved, maSent, maAnswers>>

Fits(s, line) ==
  /\ line.sequence = Len(s.events)
  /\ line.event = "TOOL_CANDIDATE" =>
       line.complete /\ (line.tool \in DOMAIN s.tools => s.tools[line.tool] = line.body)

(* A line: the mark of the end may come before the last event.             *)
WithLine(s, line) ==
  LET read == [s EXCEPT !.lines = @ + 1] IN
  CASE line.kind = "MARK" -> [read EXCEPT !.done = TRUE]
    [] line.kind = "EVENT" /\ Fits(s, line) ->
         [read EXCEPT !.events = Append(@, line),
                      !.tools = IF line.event = "TOOL_CANDIDATE" THEN SetAt(@, line.tool, line.body) ELSE @]
    [] OTHER -> [read EXCEPT !.outcome = "QUARANTINE"]

StreamReads(line) ==
  /\ maStream # NoStream /\ maStream.outcome = "READING" /\ maStream.lines < MaxModelLines
  /\ maStream' = WithLine(maStream, line)
  /\ UNCHANGED <<maLibrary, maCalls, maReceipts, maReserved, maSent, maAnswers>>

StreamEnds ==
  /\ maStream # NoStream /\ maStream.outcome = "READING"
  /\ LET whole == maStream.done /\ maStream.events # <<>> /\ Last(maStream.events).event = "DONE" IN
     maStream' = [maStream EXCEPT !.outcome = IF whole THEN "ALLOW" ELSE "QUARANTINE"]
  /\ UNCHANGED <<maLibrary, maCalls, maReceipts, maReserved, maSent, maAnswers>>

ModelNext ==
  \/ maStream = NoStream /\ \E r \in Admissible : InvokeBegins(r)
  \/ \E r \in BagToSet(maCalls) : InvokeQuarantined(r) \/ \E v \in ProviderAnswers : InvokeEnds(r, v)
  \/ BrokerRestarts
  \/ StreamOpens \/ StreamEnds
  \/ \E line \in ProviderLines : StreamReads(line)

(***************************************************************************)
(* Properties                                                              *)
(***************************************************************************)
(* The calls made for a tenant's purpose and route, failed ones included.  *)
CallsWithinCeiling == \A key \in BagToSet(maSent) : maSent[key] <= ModelCeiling.requests

ReceiptsAreAnswers ==
  \A op \in DOMAIN maReceipts :
    LET receipt == maReceipts[op] IN
    /\ receipt \in maAnswers /\ receipt.request.op = op
    /\ receipt.response.candidates \subseteq receipt.request.tools
    /\ receipt.response.sent = Adapted(receipt.request)

AllowedStreamIsWhole ==
  maStream # NoStream /\ maStream.outcome = "ALLOW" =>
    LET e == maStream.events IN
    /\ \A i \in DOMAIN e : e[i].sequence = i - 1
    /\ \A i, j \in DOMAIN e :
         e[i].event = "TOOL_CANDIDATE" /\ e[j].event = "TOOL_CANDIDATE" /\ e[i].tool = e[j].tool => e[i].body = e[j].body
    /\ e[Len(e)].event = "DONE"

(* Whatever calls overlap, fail or come late: the provider is called no    *)
(* more often for a tenant's purpose and route than the ceiling allows, a  *)
(* failed call included; a receipt is an answer that was given to what was *)
(* sent for the request it is found with, and proposes no tool that was not*)
(* asked for; an allowed stream has its events in their order, one body    *)
(* for a tool, and an end.                                                 *)
ModelCallsAreGuarded == CallsWithinCeiling /\ ReceiptsAreAnswers /\ AllowedStreamIsWhole

(* The inductive invariant: as many calls were made as are reserved, a call*)
(* is of a request a broker carries out, and a stream being read has its   *)
(* events in order, with the bodies of its tools.                          *)
SentIsReserved == maSent = maReserved /\ maSent \in [DOMAIN maSent -> Nat]

CallsAreAdmissible == DOMAIN maCalls \subseteq Admissible

StreamIsInOrder ==
  maStream # NoStream =>
    LET e == maStream.events
        tools == maStream.tools
    IN  /\ maStream = [events |-> e, tools |-> tools, done |-> maStream.done,
                       lines |-> maStream.lines, outcome |-> maStream.outcome]
        /\ e \in Seq(ProviderLines)
        /\ \A i \in DOMAIN e :
             /\ e[i].sequence = i - 1
             /\ e[i].event = "TOOL_CANDIDATE" => e[i].tool \in DOMAIN tools /\ tools[e[i].tool] = e[i].body

ModelInv == ModelCallsAreGuarded /\ SentIsReserved /\ CallsAreAdmissible /\ StreamIsInOrder
=============================================================================
