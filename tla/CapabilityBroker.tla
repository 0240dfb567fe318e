-------------------------- MODULE CapabilityBroker --------------------------
(***************************************************************************)
(* The capability catalogue's gateway and broker                           *)
(* (packages/contracts/src/capability-catalogue.ts).  The gateway turns a  *)
(* request into a ticket bound to the policy and the activation of the     *)
(* moment; the broker checks the ticket against those of its own call,     *)
(* reserves the request's id, has the executor prepare the effect and      *)
(* commits it.  prepare() and commit() are callbacks: either may call the  *)
(* broker again, and time passes in them.                                  *)
(*                                                                         *)
(* A policy or an activation stands for itself and its digest; "sound" is  *)
(* what its exact keys, field formats, own digest and catalogue bindings   *)
(* come to.  A request names the checks it fails in "flaws".               *)
(***************************************************************************)
EXTENDS Naturals, Sequences, FiniteSets, SequencesExt

CONSTANTS
  CapabilityPolicies,    \* [sound, tenant, maintainers, from, until]
  CapabilityActivations, \* [sound, tenant, maintainer, action, from, until]
  CapabilityRequests,    \* [id, action, tenant, policy, body, flaws]
  MaxCapabilityTime, MaxNesting, MaxTickets

VARIABLES
  cbNow,       \* observedAt of the next call
  cbDeployed,  \* the policy and the activation callers pass
  cbTickets,   \* the tickets of ALLOW decisions
  cbReplay,    \* request id -> "IN_FLIGHT" | "CONSUMED", the replay store
  cbStack,     \* the broker calls under way, the innermost last
  cbEffects,   \* the effects committed, in order
  cbReceipts   \* the receipts other than denials

cbVars == <<cbNow, cbDeployed, cbTickets, cbReplay, cbStack, cbEffects, cbReceipts>>

RequestFlaws ==
  {"POLICY_MISSING", "IDENTITY_MISSING", "CORRELATION_MISSING", "EVIDENCE_SINK_MISSING",
   "REQUEST_SCHEMA", "CATALOGUE_VERSION", "CATALOGUE_DIGEST", "ACTION_UNKNOWN",
   "ACTION_VERSION", "ACTION_DIGEST", "REQUEST_RESOURCE", "REQUEST_BODY", "RESOURCE_BOUNDS"}

(* What callers may pass as the policy and the activation.                 *)
Deployments == [policy : CapabilityPolicies, activation : CapabilityActivations]

ASSUME CapabilityAssumption ==
  /\ CapabilityPolicies # {} /\ CapabilityActivations # {}
  /\ \A q \in CapabilityRequests : q.flaws \subseteq RequestFlaws

InForce(w) == w.from <= cbNow /\ cbNow < w.until

PolicyHolds(p) == p.sound /\ InForce(p)

ActivationHolds(a, p) ==
  a.sound /\ a.tenant = p.tenant /\ a.maintainer \in p.maintainers /\ InForce(a)

TicketOf(q, d) ==
  [id |-> q.id, action |-> q.action, tenant |-> q.tenant, body |-> q.body,
   policy |-> d.policy, activation |-> d.activation]

(* One deployment to begin with: Redeploy reaches the others.              *)
CapabilityInit ==
  /\ cbNow = 0 /\ cbTickets = {} /\ cbReplay = <<>> /\ cbStack = <<>>
  /\ cbDeployed = [policy |-> CHOOSE p \in CapabilityPolicies : TRUE,
                   activation |-> CHOOSE a \in CapabilityActivations : TRUE]
  /\ cbEffects = <<>> /\ cbReceipts = {}

(* admitCapabilityExecutionAtGatewayV1(): ALLOW.                           *)
Admit(q) ==
  LET p == cbDeployed.policy
      a == cbDeployed.activation
  IN  /\ q.flaws \cap RequestFlaws = {}
      /\ PolicyHolds(p)
      /\ q.tenant = p.tenant /\ q.policy = p
      /\ ActivationHolds(a, p) /\ a.action = q.action
      /\ Cardinality(cbTickets) < MaxTickets
      /\ cbTickets' = cbTickets \cup {TicketOf(q, cbDeployed)}
      /\ UNCHANGED <<cbNow, cbDeployed, cbReplay, cbStack, cbEffects, cbReceipts>>

(* The broker's own checks of the ticket.                                  *)
TicketHolds(t) ==
  LET p == cbDeployed.policy
      a == cbDeployed.activation
  IN  /\ PolicyHolds(p) /\ ActivationHolds(a, p)
      /\ t.activation = a /\ a.action = t.action
      /\ t.policy = p /\ t.tenant = p.tenant

ReplayOf(id) == IF id \in DOMAIN cbReplay THEN cbReplay[id] ELSE "NONE"

Marked(id, state) ==
  [i \in DOMAIN cbReplay \cup {id} |-> IF i = id THEN state ELSE cbReplay[i]]

(* clearPreCommitReservation() *)
Cleared(id) ==
  IF ReplayOf(id) = "IN_FLIGHT" THEN Restrict(cbReplay, DOMAIN cbReplay \ {id}) ELSE cbReplay

(* Mutant of Reserved: the reservation is made when the effect is prepared.*)
ReservedLate(id) == cbReplay

(* The replay store when the executor's prepare() is called.               *)
Reserved(id) == Marked(id, "IN_FLIGHT")

(* executeCapabilityAtBrokerV1() up to prepare(); denials change nothing.  *)
BrokerBegins(t) ==
  /\ Len(cbStack) < MaxNesting
  /\ TicketHolds(t)
  /\ ReplayOf(t.id) = "NONE"
  /\ cbReplay' = Reserved(t.id)
  /\ cbStack' = Append(cbStack, [ticket |-> t, at |-> "PREPARE", from |-> cbNow, under |-> cbDeployed])
  /\ UNCHANGED <<cbNow, cbDeployed, cbTickets, cbEffects, cbReceipts>>

(* prepare() throws, outlasts the bound, or prepares or answers what the   *)
(* action's contract does not allow.                                       *)
PrepareFails ==
  /\ cbStack # <<>> /\ Last(cbStack).at = "PREPARE"
  /\ cbReplay' = Cleared(Last(cbStack).ticket.id)
  /\ cbStack' = Front(cbStack)
  /\ UNCHANGED <<cbNow, cbDeployed, cbTickets, cbEffects, cbReceipts>>

PrepareReturns ==
  /\ cbStack # <<>> /\ Last(cbStack).at = "PREPARE"
  /\ cbStack' = [cbStack EXCEPT ![Len(cbStack)].at = "COMMIT"]
  /\ UNCHANGED <<cbNow, cbDeployed, cbTickets, cbReplay, cbEffects, cbReceipts>>

(* The effect happens inside commit(), which may throw before or after it. *)
CommitEffect ==
  /\ cbStack # <<>> /\ Last(cbStack).at = "COMMIT"
  /\ cbEffects' = Append(cbEffects, Last(cbStack))
  /\ cbStack' = [cbStack EXCEPT ![Len(cbStack)].at = "DONE"]
  /\ UNCHANGED <<cbNow, cbDeployed, cbTickets, cbReplay, cbReceipts>>

CommitEnds ==
  /\ cbStack # <<>>
  /\ LET c == Last(cbStack)
         receipt(outcome) == [ticket |-> c.ticket, outcome |-> outcome]
     IN  /\ \/ c.at = "DONE" /\ cbReceipts' = cbReceipts \cup {receipt("EXECUTED")}
            \/ c.at \in {"COMMIT", "DONE"} /\ cbReceipts' = cbReceipts \cup {receipt("AMBIGUOUS")}
         /\ cbReplay' = Marked(c.ticket.id, "CONSUMED")
         /\ cbStack' = Front(cbStack)
  /\ UNCHANGED <<cbNow, cbDeployed, cbTickets, cbEffects>>

CapabilityTime ==
  /\ cbNow < MaxCapabilityTime /\ cbNow' = cbNow + 1
  /\ UNCHANGED <<cbDeployed, cbTickets, cbReplay, cbStack, cbEffects, cbReceipts>>

(* The maintainer replaces the policy or the activation.                   *)
Redeploy ==
  /\ cbDeployed' \in Deployments
  /\ UNCHANGED <<cbNow, cbTickets, cbReplay, cbStack, cbEffects, cbReceipts>>

CapabilityNext ==
  \/ \E q \in CapabilityRequests : Admit(q)
  \/ \E t \in cbTickets : BrokerBegins(t)
  \/ PrepareFails \/ PrepareReturns \/ CommitEffect \/ CommitEnds
  \/ CapabilityTime \/ Redeploy

(***************************************************************************)
(* Properties                                                              *)
(***************************************************************************)
(* A call whose ticket is of a sound request under what was deployed and in*)
(* force when the broker was called.                                       *)
CallAuthorized(e) ==
  /\ e.under = [policy |-> e.ticket.policy, activation |-> e.ticket.activation]
  /\ \A w \in {e.under.policy, e.under.activation} :
       w.sound /\ w.tenant = e.ticket.tenant /\ w.from <= e.from /\ e.from < w.until
  /\ \E q \in CapabilityRequests :
       q.flaws = {} /\ q.policy = e.ticket.policy /\ e.ticket = TicketOf(q, e.under)

(* Whatever the callbacks call, and however policy and activation change   *)
(* between a ticket and its use: a request id is committed at most once,   *)
(* only for a request under a policy and an activation that were deployed  *)
(* and in force when the broker was called, and a receipt says EXECUTED    *)
(* only for an effect that happened.                                       *)
EffectsAreAuthorized ==
  /\ \A i, j \in DOMAIN cbEffects : cbEffects[i].ticket.id = cbEffects[j].ticket.id => i = j
  /\ \A i \in DOMAIN cbEffects : CallAuthorized(cbEffects[i])
  /\ \A r \in cbReceipts :
       r.outcome = "EXECUTED" => \E i \in DOMAIN cbEffects : cbEffects[i].ticket = r.ticket

(* The inductive invariant: the calls under way have ids of their own, all *)
(* reserved, and an effect is of a consumed id or of a call that is about  *)
(* to consume it.                                                          *)
Tickets == {TicketOf(q, d) : q \in CapabilityRequests, d \in Deployments}
BrokerCall == [ticket : Tickets, at : {"PREPARE", "COMMIT", "DONE"}, from : Nat, under : Deployments]

CapabilityTypeOk ==
  /\ cbNow \in Nat /\ cbDeployed \in Deployments
  /\ cbStack \in Seq(BrokerCall) /\ cbEffects \in Seq(BrokerCall)

TicketsOk ==
  \A t \in cbTickets : \E q \in CapabilityRequests, d \in Deployments :
    q.flaws = {} /\ q.policy = d.policy /\ t = TicketOf(q, d)

StackOk ==
  \A i \in DOMAIN cbStack :
    /\ CallAuthorized(cbStack[i]) /\ ReplayOf(cbStack[i].ticket.id) = "IN_FLIGHT"
    /\ \A j \in DOMAIN cbStack : cbStack[i].ticket.id = cbStack[j].ticket.id => i = j
    /\ cbStack[i].at = "DONE" => \E k \in DOMAIN cbEffects : cbEffects[k].ticket = cbStack[i].ticket

EffectsOk ==
  \A k \in DOMAIN cbEffects :
    \/ ReplayOf(cbEffects[k].ticket.id) = "CONSUMED"
    \/ \E i \in DOMAIN cbStack :
         cbStack[i].ticket = cbEffects[k].ticket /\ cbStack[i].at = "DONE"

CapabilityInv == EffectsAreAuthorized /\ CapabilityTypeOk /\ TicketsOk /\ StackOk /\ EffectsOk
=============================================================================
