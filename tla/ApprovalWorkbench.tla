-------------------------- MODULE ApprovalWorkbench --------------------------
(***************************************************************************)
(* AdminAiPoc (demo/runtime/admin-ai-poc.mjs) behind any policy evaluator, *)
(* and ApprovalWorkbench (approval-workbench.mjs), as the handlers of      *)
(* demo/runtime/server.mjs call them: a request is granted, escalated or   *)
(* denied; an escalated one becomes a proposal, and the owner decides it   *)
(* once.  register() and decide() await the provider's snapshot, so calls  *)
(* overlap; a store write can fail after memory has changed; a restart     *)
(* keeps the store and begins a new profile generation.                    *)
(*                                                                         *)
(* A decision digest stands for the request it hashes, of one kind and one *)
(* policy.  All orders have one target, which others create and delete; a  *)
(* snapshot is whether it exists.  Digests of what is compared field by    *)
(* field elsewhere (proposal, receipt, business diff) always match.        *)
(***************************************************************************)
EXTENDS Naturals, FiniteSets

CONSTANTS
  Requests,           \* request -> its kind
  Unread,             \* a snapshot not read yet
  MaxGeneration,      \* bound of the restarts
  MaxCalls            \* bound of the calls that await at once

VARIABLES
  wbGeneration,       \* profileGeneration; 0: the server is down
  wbTarget,           \* the target order exists at the provider
  wbMem, wbDisk,      \* state.proposals and state.decisions; the store file
  wbCalls,            \* calls awaiting a snapshot
  wbIssued            \* every authority signed and every refusal, ever

wbVars == <<wbGeneration, wbTarget, wbMem, wbDisk, wbCalls, wbIssued>>

Kinds == {"CONTACT", "ORDER", "UNDECLARED"}
PolicyOutcomes == {"AUTO_GRANT", "OWNER_ESCALATION", "DENY"}

(* The ceiling of decide() over the evaluator's outcome.                   *)
WithinCeiling(kind, outcome) ==
  /\ kind = "UNDECLARED" => outcome = "DENY"
  /\ kind = "ORDER" => outcome # "AUTO_GRANT"

ASSUME WorkbenchAssumption == \A d \in DOMAIN Requests : Requests[d] \in Kinds

(* normalizeStore(): what a store file holds.                              *)
WorkbenchStore ==
  [proposals : SUBSET [request : DOMAIN Requests, generation : Nat],
   decisions : SUBSET [request : DOMAIN Requests, verdict : {"APPROVE", "REJECT"}]]

NoRecords == [proposals |-> {}, decisions |-> {}]
ProposalOf(store, d) == {p \in store.proposals : p.request = d}
DecisionOf(store, d) == {r \in store.decisions : r.request = d}

WorkbenchInit ==
  /\ wbGeneration = 1 /\ wbTarget \in BOOLEAN
  /\ wbMem = NoRecords /\ wbDisk = NoRecords /\ wbCalls = {} /\ wbIssued = {}

Call(kind, d, verdict) == [kind |-> kind, request |-> d, verdict |-> verdict, seen |-> Unread]

(* AdminAiPoc.decide() behind POST .../request: an order that is escalated *)
(* goes on to register(), a contact cannot (validateEscalationDecision).   *)
AskAdminAi(d, outcome) ==
  /\ wbGeneration > 0
  /\ WithinCeiling(Requests[d], outcome)
  /\ \/ /\ outcome = "AUTO_GRANT"
        /\ wbIssued' = wbIssued \cup {[request |-> d, verdict |-> "AUTO", generation |-> wbGeneration]}
        /\ UNCHANGED wbCalls
     \/ /\ outcome = "OWNER_ESCALATION" /\ Requests[d] = "ORDER"
        /\ Cardinality(wbCalls) < MaxCalls
        /\ wbCalls' = wbCalls \cup {Call("register", d, "NONE")}
        /\ UNCHANGED wbIssued
  /\ UNCHANGED <<wbGeneration, wbTarget, wbMem, wbDisk>>

(* readAuthoritativeSnapshot(): the provider answers.                      *)
SnapshotRead(c) ==
  /\ c.seen = Unread
  /\ wbCalls' = (wbCalls \ {c}) \cup {[c EXCEPT !.seen = wbTarget]}
  /\ UNCHANGED <<wbGeneration, wbTarget, wbMem, wbDisk, wbIssued>>

(* persist(): the store is replaced, or the write fails and the call too.  *)
PersistMem == wbDisk' = wbMem' \/ UNCHANGED wbDisk

(* register() after its await: the target must not exist; a proposal is    *)
(* made once, and the same call again finds it, unless a restart has       *)
(* changed the profile generation.                                         *)
Register(c) ==
  /\ c.kind = "register" /\ c.seen # Unread
  /\ IF c.seen \/ ProposalOf(wbMem, c.request) # {} THEN UNCHANGED <<wbMem, wbDisk>>
     ELSE /\ wbMem' = [wbMem EXCEPT !.proposals = @ \cup
                         {[request |-> c.request, generation |-> wbGeneration]}]
          /\ PersistMem
  /\ wbCalls' = wbCalls \ {c}
  /\ UNCHANGED <<wbGeneration, wbTarget, wbIssued>>

InProgress(d) == \E c \in wbCalls : c.kind = "decide" /\ c.request = d

(* Mutant of DecideBegins: a decision in progress does not keep another    *)
(* one out.                                                                *)
DecideBeginsAgain(d, verdict) ==
  /\ wbGeneration > 0 /\ Cardinality(wbCalls) < MaxCalls
  /\ DecisionOf(wbMem, d) = {}
  /\ \E p \in ProposalOf(wbMem, d) : p.generation = wbGeneration
  /\ wbCalls' = wbCalls \cup {Call("decide", d, verdict)}
  /\ UNCHANGED <<wbGeneration, wbTarget, wbMem, wbDisk, wbIssued>>

(* decide() up to its await: a proposal of this context, not decided and   *)
(* not being decided.                                                      *)
DecideBegins(d, verdict) ==
  /\ wbGeneration > 0 /\ Cardinality(wbCalls) < MaxCalls
  /\ DecisionOf(wbMem, d) = {} /\ ~InProgress(d)
  /\ \E p \in ProposalOf(wbMem, d) : p.generation = wbGeneration
  /\ wbCalls' = wbCalls \cup {Call("decide", d, verdict)}
  /\ UNCHANGED <<wbGeneration, wbTarget, wbMem, wbDisk, wbIssued>>

(* decide() after its await: what the proposal shows is still so; the      *)
(* verdict is final, and an approval signs the authority.                  *)
DecideEnds(c) ==
  /\ c.kind = "decide" /\ c.seen # Unread
  /\ IF c.seen THEN UNCHANGED <<wbMem, wbDisk, wbIssued>>
     ELSE /\ wbIssued' = wbIssued \cup {[request |-> c.request, verdict |-> c.verdict,
                                         generation |-> wbGeneration]}
          /\ wbMem' = [wbMem EXCEPT !.decisions =
                         (@ \ DecisionOf(wbMem, c.request)) \cup
                           {[request |-> c.request, verdict |-> c.verdict]}]
          /\ PersistMem
  /\ wbCalls' = wbCalls \ {c}
  /\ UNCHANGED <<wbGeneration, wbTarget>>

(* The server is killed and started: the store is read back, the calls are *)
(* gone, and profileGeneration is a new random one.                        *)
WorkbenchRestart ==
  /\ wbGeneration < MaxGeneration
  /\ wbGeneration' = wbGeneration + 1 /\ wbMem' = wbDisk /\ wbCalls' = {}
  /\ UNCHANGED <<wbTarget, wbDisk, wbIssued>>

(* The order appears at the provider (an effect, an operator), or goes.    *)
TargetChanges ==
  /\ wbTarget' = ~wbTarget
  /\ UNCHANGED <<wbGeneration, wbMem, wbDisk, wbCalls, wbIssued>>

WorkbenchNext ==
  \/ \E d \in DOMAIN Requests :
       \/ \E o \in PolicyOutcomes : AskAdminAi(d, o)
       \/ \E v \in {"APPROVE", "REJECT"} : DecideBegins(d, v)
  \/ \E c \in wbCalls : SnapshotRead(c) \/ Register(c) \/ DecideEnds(c)
  \/ WorkbenchRestart \/ TargetChanges

(***************************************************************************)
(* Properties                                                              *)
(***************************************************************************)
(* Whatever the evaluator answers and however calls and restarts overlap:  *)
(* an undeclared request gets no authority, an order only its owner's, and *)
(* in one profile generation, outside of which no authority is accepted, a *)
(* proposal gets one verdict; and the store holds a verdict only for a     *)
(* proposal it holds, and one that was given (normalizeStore).             *)
AuthorityNeedsOneVerdict ==
  /\ \A a \in wbIssued : \/ Requests[a.request] = "CONTACT" /\ a.verdict = "AUTO"
                         \/ Requests[a.request] = "ORDER" /\ a.verdict # "AUTO"
  /\ \A a, b \in wbIssued : a.request = b.request /\ a.generation = b.generation => a = b
  /\ \A r \in wbDisk.decisions :
       /\ ProposalOf(wbDisk, r.request) # {}
       /\ \E a \in wbIssued : a.request = r.request /\ a.verdict = r.verdict

(* The inductive invariant, in its parts.  What was signed is well-formed, *)
(* one authority for a request in a generation, and decided in memory when *)
(* it is of this one.                                                      *)
IssuedOk(issued, generation, mem) ==
  \A a \in issued :
    /\ a \in [request : DOMAIN Requests, verdict : {"AUTO", "APPROVE", "REJECT"}, generation : Nat]
    /\ \/ Requests[a.request] = "CONTACT" /\ a.verdict = "AUTO"
       \/ Requests[a.request] = "ORDER" /\ a.verdict # "AUTO"
    /\ a.generation <= generation
    /\ a.generation = generation /\ a.verdict # "AUTO" => DecisionOf(mem, a.request) # {}
    /\ \A b \in issued : a.request = b.request /\ a.generation = b.generation => a = b

(* A store holds proposals of orders, and decisions of its proposals that  *)
(* were given.                                                             *)
StoreOk(store, issued) ==
  /\ store \in WorkbenchStore
  /\ \A p \in store.proposals : Requests[p.request] = "ORDER"
  /\ \A r \in store.decisions :
       /\ ProposalOf(store, r.request) # {}
       /\ \E a \in issued : a.request = r.request /\ a.verdict = r.verdict

(* A call that decides holds a proposal that is not decided, and no other  *)
(* call decides the same one.                                              *)
CallOk(c) ==
  c \in [kind : {"register", "decide"}, request : DOMAIN Requests,
         verdict : {"NONE", "APPROVE", "REJECT"}, seen : BOOLEAN \cup {Unread}]

DecidesOk(c, mem) ==
  c.kind = "decide" => /\ c.verdict # "NONE" /\ ProposalOf(mem, c.request) # {}
                       /\ DecisionOf(mem, c.request) = {}

CallsOk(calls, mem) ==
  \A c \in calls :
    /\ CallOk(c) /\ Requests[c.request] = "ORDER" /\ DecidesOk(c, mem)
    /\ \A b \in calls : c.kind = "decide" /\ b.kind = "decide" /\ b.request = c.request => b = c

WorkbenchInv ==
  /\ wbGeneration \in Nat /\ wbTarget \in BOOLEAN
  /\ IssuedOk(wbIssued, wbGeneration, wbMem)
  /\ StoreOk(wbMem, wbIssued) /\ StoreOk(wbDisk, wbIssued)
  /\ CallsOk(wbCalls, wbMem)
=============================================================================
