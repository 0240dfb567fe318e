---------------------------- MODULE BuilderAgent ----------------------------
(***************************************************************************)
(* The builder agent fixture (demo/builder-agent): the gateway's model     *)
(* route hands the agent the request of the operation a text asks for, the *)
(* plugin sends it to the gateway, and the gateway's core reads a field of *)
(* the target, or writes it, reads it back and restores it.                *)
(*                                                                         *)
(* A handler runs to its end or to a kill.  A persist that throws is       *)
(* followed by the persist of the denial; when that throws too the process *)
(* ends.  The counters of denials and of model calls are left out: no code *)
(* reads them, and a denial changes nothing else.                          *)
(***************************************************************************)
EXTENDS Naturals, FiniteSets

CONSTANTS
  BuilderContracts,    \* runtime contracts an image is built with:
                       \* [sound, profile, rights (four sets), effective,
                       \*  routes, caps, approvals, target]
  PluginRequests,      \* the requests in the plugin's own table
  BuilderTexts,        \* what a user's text mentions: sets of intent terms
  MaxWriteAttempts,
  NoBuilder            \* no process, no file, no request

VARIABLES
  bcContract,          \* the contract of the image
  bcMem, bcFile,       \* the state in memory and in state.json
  bcAgent,             \* the request the agent holds, and its answer
  bcAccepted,          \* receipts the plugin has accepted since a reset
  bcBase,              \* the target the state was created with
  bcCut                \* the process has ended with a written value in the
                       \* file, since a reset

bcVars == <<bcContract, bcMem, bcFile, bcAgent, bcAccepted, bcBase, bcCut>>

(* validateRuntimeContract().                                              *)
ReadAdmission(a) == a.effect = "READ_ONLY" /\ a.route = "AUTO_EXECUTE" /\ ~a.approved
WriteAdmission(a) ==
  a.effect = "REVERSIBLE_WRITE" /\ a.route = "OWNER_APPROVAL" /\ a.recovery = "RESTORE_PRIOR_VALUE"

ValidRuntimeContract(c) ==
  /\ c.sound /\ c.profile = "SAFE_GUIDED" /\ c.caps # {}
  /\ c.effective = {r \in UNION {c.rights[i] : i \in 1..4} : \A i \in 1..4 : r \in c.rights[i]}
  /\ \A a \in c.caps :
       /\ a.op \in c.effective /\ c.routes[a.op] = a.route
       /\ a.bound /\ a.kind \in {"READ_FIELD", "REVERSIBLE_WRITE_FIELD"}
       /\ ReadAdmission(a) \/ WriteAdmission(a)
  /\ \A p \in c.approvals :
       p.sound /\ \E a \in c.caps : a.op = p.op /\ a.route = "OWNER_APPROVAL" /\ a.approved

(* requestTemplate(): the one request validateRequest() takes for an       *)
(* operation, its digests and its payload included.                        *)
Template(a) == [op |-> a.op, id |-> a.request, value |-> a.value, approved |-> a.approved]

Capability(r) == CHOOSE a \in bcContract.caps : Template(a) = r
ValidRequest(r) == \E a \in bcContract.caps : Template(a) = r /\ a.op \in bcContract.effective

(* The state file.                                                         *)
BuilderCaps == UNION {c.caps : c \in BuilderContracts}
BuilderValues ==
  (UNION {{c.target[f] : f \in DOMAIN c.target} : c \in BuilderContracts}) \cup {a.value : a \in BuilderCaps}
BuilderTargets == UNION {[DOMAIN c.target -> BuilderValues] : c \in BuilderContracts}
BuilderReceipt ==
  [request : {Template(a) : a \in BuilderCaps}, route : {a.route : a \in BuilderCaps}, outcome : {"READ", "WRITE"},
   before : BuilderTargets, effect : BuilderTargets, final : BuilderTargets]
IsBuilderState(s) ==
  \E ids \in SUBSET {a.request : a \in BuilderCaps} :
    s \in [target : BuilderTargets, receipts : [ids -> BuilderReceipt], reads : Nat, writes : Nat, attempts : Nat]

ASSUME BuilderAssumption ==
  ~IsBuilderState(NoBuilder) /\ \A c \in BuilderContracts : c.target \in BuilderTargets

NewState == [target |-> bcContract.target, receipts |-> <<>>, reads |-> 0, writes |-> 0, attempts |-> 0]

BuilderUp == bcMem # NoBuilder

BuilderInit ==
  /\ bcContract \in BuilderContracts
  /\ bcMem = NoBuilder /\ bcFile = NoBuilder /\ bcAgent = NoBuilder
  /\ bcAccepted = {} /\ bcBase = bcContract.target /\ bcCut = FALSE

(* The process starts: the contract is validated, a state file loaded or   *)
(* made; a state of other fields is refused.                               *)
BuilderStarts ==
  /\ ~BuilderUp /\ ValidRuntimeContract(bcContract)
  /\ IF bcFile = NoBuilder
     THEN bcFile' = NewState /\ bcBase' = bcContract.target
     ELSE DOMAIN bcFile.target = DOMAIN bcContract.target /\ UNCHANGED <<bcFile, bcBase>>
  /\ bcMem' = bcFile'
  /\ UNCHANGED <<bcContract, bcAgent, bcAccepted, bcCut>>

BuilderKilled ==
  /\ BuilderUp /\ bcMem' = NoBuilder
  /\ UNCHANGED <<bcContract, bcFile, bcAgent, bcAccepted, bcBase, bcCut>>

(* The image is built with another contract; the volume stays.             *)
BuilderRedeployed ==
  /\ ~BuilderUp /\ bcContract' \in BuilderContracts
  /\ UNCHANGED <<bcMem, bcFile, bcAgent, bcAccepted, bcBase, bcCut>>

(* requestedOperation(): the operation with the most of its terms in the   *)
(* text, when it is alone with them.                                       *)
Matches(a, text) == Cardinality(a.terms \cap text)
Requested(text) ==
  {a \in bcContract.caps : Matches(a, text) > 0 /\ \A b \in bcContract.caps \ {a} : Matches(b, text) < Matches(a, text)}

(* modelResult() without a tool's result: the agent is handed a request.   *)
AgentAsks(text) ==
  /\ BuilderUp /\ bcAgent = NoBuilder
  /\ \E a \in Requested(text) : bcAgent' = [request |-> Template(a), receipt |-> NoBuilder]
  /\ UNCHANGED <<bcContract, bcMem, bcFile, bcAccepted, bcBase, bcCut>>

(* exactRequest() of the plugin, and the request it sends.                 *)
Sent == {r \in PluginRequests : bcAgent = [request |-> r, receipt |-> NoBuilder]}

AgentAnswered(receipt) == bcAgent' = [bcAgent EXCEPT !.receipt = receipt]
AgentTold == bcAgent' = NoBuilder         \* a denial, a timeout, a lost answer

(* A handler that ends with the state s in memory: answered, not answered  *)
(* (its last persist threw or its answer is lost), or killed with one of   *)
(* the files it writes on the way.                                         *)
Ends(s, files, receipt) ==
  \/ bcMem' = s /\ bcFile' = s /\ (AgentAnswered(receipt) \/ AgentTold)
  \/ bcMem' = NoBuilder /\ bcFile' \in files /\ AgentTold

WithBuilderReceipt(s, r, outcome, before, effect) ==
  LET receipt == [request |-> r, route |-> Capability(r).route, outcome |-> outcome,
                  before |-> before, effect |-> effect, final |-> s.target]
  IN  [s EXCEPT !.receipts = [id \in DOMAIN @ \cup {r.id} |-> IF id = r.id THEN receipt ELSE @[id]]]

(* execute() of a request that was carried out: the receipt in memory, if  *)
(* the request is the same.                                                *)
ExecuteReplay(r) ==
  /\ BuilderUp /\ ValidRequest(r) /\ r.id \in DOMAIN bcMem.receipts
  /\ LET prior == bcMem.receipts[r.id] IN
     IF prior.request = r THEN AgentAnswered(prior) ELSE AgentTold
  /\ UNCHANGED <<bcContract, bcMem, bcFile, bcAccepted, bcBase, bcCut>>

First(r, kind) ==
  BuilderUp /\ ValidRequest(r) /\ r.id \notin DOMAIN bcMem.receipts /\ Capability(r).kind = kind

ExecuteRead(r) ==
  /\ First(r, "READ_FIELD")
  /\ LET s == WithBuilderReceipt([bcMem EXCEPT !.reads = @ + 1], r, "READ", bcMem.target, bcMem.target)
     IN Ends(s, {bcFile, s}, s.receipts[r.id])
  /\ UNCHANGED <<bcContract, bcAccepted, bcBase, bcCut>>

(* Mutant of Restored: the value written stays.                            *)
WriteKept(s, field, value) == s

(* The finally of executeWrite().                                          *)
Restored(s, field, value) == [s EXCEPT !.target[field] = value]

(* executeWrite(): the value is written, persisted and read back; whatever *)
(* happens the prior value is put back and persisted, and read back again. *)
(* A failure after the attempt is counted leaves no receipt.               *)
ExecuteWrite(r) ==
  /\ First(r, "REVERSIBLE_WRITE_FIELD") /\ bcMem.attempts < MaxWriteAttempts
  /\ LET field == Capability(r).field
         written == [bcMem EXCEPT !.attempts = @ + 1, !.target[field] = r.value]
         restored == Restored(written, field, bcMem.target[field])
         done == WithBuilderReceipt([restored EXCEPT !.writes = @ + 1], r, "WRITE", bcMem.target, written.target)
     IN /\ \/ Ends(done, {bcFile, written, restored, done}, done.receipts[r.id])
           \/ bcMem' = restored /\ bcFile' = restored /\ AgentTold
        /\ bcCut' = (bcCut \/ (bcMem' = NoBuilder /\ bcFile' = written))
  /\ UNCHANGED <<bcContract, bcAccepted, bcBase>>

(* validateRequest() denies the plugin's request.                          *)
ExecuteDenied(r) ==
  /\ BuilderUp /\ ~ValidRequest(r) /\ AgentTold
  /\ UNCHANGED <<bcContract, bcMem, bcFile, bcAccepted, bcBase, bcCut>>

(* validReceipt() of the plugin.                                           *)
ValidReceipt(receipt) ==
  /\ receipt.final = receipt.before
  /\ IF receipt.route = "AUTO_EXECUTE" THEN receipt.effect = receipt.before /\ ~receipt.request.approved
     ELSE receipt.effect # receipt.before /\ receipt.request.approved

AnswerUnderWay == bcAgent # NoBuilder /\ bcAgent.receipt # NoBuilder

PluginReads ==
  /\ AnswerUnderWay
  /\ bcAccepted' = IF ValidReceipt(bcAgent.receipt) THEN bcAccepted \cup {bcAgent.receipt} ELSE bcAccepted
  /\ bcAgent' = NoBuilder
  /\ UNCHANGED <<bcContract, bcMem, bcFile, bcBase, bcCut>>

(* reset(): the receipts are gone; an answer on its way to the plugin is   *)
(* not counted among the accepted ones.                                    *)
BuilderReset ==
  /\ BuilderUp
  /\ bcFile' = NewState /\ bcBase' = bcContract.target
  /\ bcMem' \in {NewState, NoBuilder}
  /\ bcAccepted' = {} /\ bcCut' = FALSE
  /\ bcAgent' = IF AnswerUnderWay THEN NoBuilder ELSE bcAgent
  /\ UNCHANGED bcContract

BuilderNext ==
  \/ BuilderStarts \/ BuilderKilled \/ BuilderRedeployed
  \/ \E text \in BuilderTexts : AgentAsks(text)
  \/ \E r \in Sent : ExecuteReplay(r) \/ ExecuteRead(r) \/ ExecuteWrite(r) \/ ExecuteDenied(r)
  \/ PluginReads \/ BuilderReset

(***************************************************************************)
(* Properties                                                              *)
(***************************************************************************)
BuilderMade(outcome, s) == {id \in DOMAIN s.receipts : s.receipts[id].outcome = outcome}

(* The target the state was created with, but for fields that hold what an *)
(* admitted write writes to them.                                          *)
Writable(f) == {a.value : a \in {x \in BuilderCaps : x.kind = "REVERSIBLE_WRITE_FIELD" /\ x.field = f}}

OnlyWritten(target, base) ==
  DOMAIN target = DOMAIN base /\ \A f \in DOMAIN base : target[f] = base[f] \/ target[f] \in Writable(f)

(* executeWrite() puts back what it found, whatever throws, unless the     *)
(* process ends between its two persists: then the written value stays, no *)
(* start puts it back, and later writes and their receipts take it for the *)
(* prior value.  The file shows it: from then to the reset it counts an    *)
(* attempt without a write, and no field but of an admitted write differs. *)
(* The counters, the receipts and the plugin's accepted receipts tell the  *)
(* same story across kills, lost answers and other contracts.              *)
BuilderRestores ==
  /\ bcFile # NoBuilder =>
       /\ IF bcCut THEN bcFile.writes < bcFile.attempts ELSE bcFile.target = bcBase
       /\ OnlyWritten(bcFile.target, bcBase)
       /\ \A id \in DOMAIN bcFile.receipts :
            LET receipt == bcFile.receipts[id] IN
            /\ receipt.final = receipt.before
            /\ OnlyWritten(receipt.before, bcBase) /\ (~bcCut => receipt.before = bcBase)
       /\ bcFile.reads = Cardinality(BuilderMade("READ", bcFile))
       /\ bcFile.writes = Cardinality(BuilderMade("WRITE", bcFile))
       /\ bcFile.writes <= bcFile.attempts
  /\ \A receipt \in bcAccepted : bcFile.receipts[receipt.request.id] = receipt

BuilderHolds(receipt) ==
  /\ bcFile # NoBuilder /\ receipt.request.id \in DOMAIN bcFile.receipts
  /\ bcFile.receipts[receipt.request.id] = receipt

(* The inductive invariant: between handlers memory is the file.           *)
BuilderInv ==
  /\ BuilderRestores
  /\ bcContract \in BuilderContracts /\ bcCut \in BOOLEAN
  /\ IF bcFile = NoBuilder THEN ~bcCut ELSE IsBuilderState(bcFile)
  /\ BuilderUp => bcMem = bcFile
  /\ bcFile # NoBuilder =>
       /\ IsFiniteSet(DOMAIN bcFile.receipts)
       /\ \A id \in DOMAIN bcFile.receipts : bcFile.receipts[id].request.id = id
  /\ \A receipt \in bcAccepted : BuilderHolds(receipt)
  /\ AnswerUnderWay => BuilderHolds(bcAgent.receipt)
=============================================================================
