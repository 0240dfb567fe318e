---------------------------- MODULE ErpOrderCell ----------------------------
(***************************************************************************)
(* The ERP order cell (contracts/src/erp-order-capability-cell.ts): one    *)
(* consumer contract over two provider profiles, of which one is active.   *)
(* An order is created at the active provider, read back and deleted; a    *)
(* switch of profile leaves a receipt that a rollback takes back.          *)
(*                                                                         *)
(* A profile is what its evaluation tells apart; its digest is itself.     *)
(***************************************************************************)
EXTENDS Naturals, FiniteSets

CONSTANTS
  ErpProfiles,         \* [sound, signed, action, semantics, runtime, kind,
                       \*  binding, exact, rights]
  ErpAction,           \* the digest of erp.order.create in the catalogue
  ErpRequests,         \* [id, order, flawed]
  MaxErpSwitches, MaxErpReplays,
  NoCell               \* before the constructor

VARIABLES
  ecProfiles,          \* #profiles
  ecActive, ecLkg,     \* #activeProfileDigest, #lkgProfileDigest
  ecOrders,            \* #providerOrders: binding -> orders
  ecReplay,            \* #replay
  ecReceipts,          \* #receipts: request id -> receipt
  ecCounts,            \* executions, replay denials, switches, rollbacks
  ecSwitches,          \* the switch receipts handed out
  ecSeen               \* history: every order a provider was sent, a set of
                       \* [profile, request], since the last reset

ecVars == <<ecProfiles, ecActive, ecLkg, ecOrders, ecReplay, ecReceipts, ecCounts, ecSwitches, ecSeen>>

NoCounts == [executions |-> 0, replays |-> 0, switches |-> 0, rollbacks |-> 0]

(* profileMaterial(): what the profile of a kind must be, field by field.  *)
AsPublished(p) == p.exact /\ p.binding = (IF p.kind = "SYNTHETIC_LEDGER_A" THEN "ledger" ELSE "commerce")

(* evaluateErpOrderProfileV1().                                            *)
ErpConformant(p) ==
  /\ p.sound /\ p.signed
  /\ p.action = ErpAction
  /\ p.kind \in {"SYNTHETIC_LEDGER_A", "SYNTHETIC_COMMERCE_B"}
  /\ p.semantics = "DISCRETE_UNITS" /\ p.runtime = "NETLESS"
  /\ AsPublished(p)

CellInit ==
  /\ ecProfiles = {} /\ ecActive = NoCell /\ ecLkg = NoCell /\ ecOrders = <<>>
  /\ ecReplay = {} /\ ecReceipts = <<>> /\ ecCounts = NoCounts /\ ecSwitches = {} /\ ecSeen = {}

(* What is published of a kind is one profile.                             *)
ASSUME ErpAssumption ==
  \A p, q \in ErpProfiles : ErpConformant(p) /\ ErpConformant(q) /\ p.kind = q.kind => p = q

(* The constructor.                                                        *)
CellOpens(profiles, active) ==
  /\ ecActive = NoCell
  /\ Cardinality(profiles) = 2 /\ active \in profiles
  /\ \A p \in profiles : ErpConformant(p)
  /\ ecProfiles' = profiles /\ ecActive' = active /\ ecLkg' = active
  /\ ecOrders' = [b \in {p.binding : p \in profiles} |-> {}]
  /\ UNCHANGED <<ecReplay, ecReceipts, ecCounts, ecSwitches, ecSeen>>

(* An id seen before, with the same order or with another.                 *)
Replayed(r) == r.id \in ecReplay

OrderReplayed(r) ==
  /\ ecActive # NoCell /\ ~r.flawed /\ Replayed(r)
  /\ ecCounts.replays < MaxErpReplays
  /\ ecCounts' = [ecCounts EXCEPT !.replays = @ + 1]
  /\ UNCHANGED <<ecProfiles, ecActive, ecLkg, ecOrders, ecReplay, ecReceipts, ecSwitches, ecSeen>>

(* execute(): the provider's orders before, with the order, and after it   *)
(* is deleted are in the receipt.                                          *)
OrderExecuted(r) ==
  /\ ecActive # NoCell /\ ~r.flawed /\ ~Replayed(r)
  /\ LET before == ecOrders[ecActive.binding]
         during == before \cup {[profile |-> ecActive, request |-> r]}
         after == during \ {[profile |-> ecActive, request |-> r]}
     IN /\ after = before
        /\ ecOrders' = [ecOrders EXCEPT ![ecActive.binding] = after]
        /\ ecReceipts' = [id \in DOMAIN ecReceipts \cup {r.id} |->
                            IF id = r.id THEN [profile |-> ecActive, request |-> r] ELSE ecReceipts[id]]
  /\ ecReplay' = ecReplay \cup {r.id}
  /\ ecCounts' = [ecCounts EXCEPT !.executions = @ + 1]
  /\ ecSeen' = ecSeen \cup {[profile |-> ecActive, request |-> r]}
  /\ UNCHANGED <<ecProfiles, ecActive, ecLkg, ecSwitches>>

(* #switch().                                                              *)
MaySwitch(from, to) ==
  /\ ecActive = from /\ from # to /\ {from, to} \subseteq ecProfiles
  /\ ErpConformant(to) /\ from.action = to.action /\ from.semantics = to.semantics
  /\ \A b \in DOMAIN ecOrders : ecOrders[b] = {}

SwitchReceipt(from, to, outcome) ==
  [from |-> from, to |-> to, outcome |-> outcome, removed |-> from.rights \ to.rights,
   added |-> to.rights \ from.rights, retained |-> from.rights \cap to.rights]

Switch(from, to, outcome) ==
  /\ MaySwitch(from, to)
  /\ ecActive' = to
  /\ ecSwitches' = ecSwitches \cup {SwitchReceipt(from, to, outcome)}
  /\ UNCHANGED <<ecProfiles, ecLkg, ecOrders, ecReplay, ecReceipts, ecSeen>>

SwitchProfile(from, to) ==
  /\ ecCounts.switches < MaxErpSwitches
  /\ Switch(from, to, "EXACT_PROFILE_SWITCHED")
  /\ ecCounts' = [ecCounts EXCEPT !.switches = @ + 1]

(* rollbackProfile(): any receipt of a switch to the active profile, also  *)
(* one that was taken back before.                                         *)
RollbackProfile(s) ==
  /\ s.outcome = "EXACT_PROFILE_SWITCHED" /\ ecActive = s.to
  /\ ecCounts.rollbacks < MaxErpSwitches
  /\ Switch(s.to, s.from, "EXACT_PROFILE_ROLLED_BACK")
  /\ ecCounts' = [ecCounts EXCEPT !.rollbacks = @ + 1]

ResetCell ==
  /\ ecActive # NoCell
  /\ ecOrders' = [b \in DOMAIN ecOrders |-> {}]
  /\ ecReplay' = {} /\ ecReceipts' = <<>> /\ ecCounts' = NoCounts /\ ecSeen' = {}
  /\ ecActive' = ecLkg
  /\ UNCHANGED <<ecProfiles, ecLkg, ecSwitches>>

CellNext ==
  \/ \E profiles \in SUBSET ErpProfiles : \E active \in profiles : CellOpens(profiles, active)
  \/ \E r \in ErpRequests : OrderReplayed(r) \/ OrderExecuted(r)
  \/ \E from, to \in ecProfiles : SwitchProfile(from, to)
  \/ \E s \in ecSwitches : RollbackProfile(s)
  \/ ResetCell

(***************************************************************************)
(* Properties                                                              *)
(***************************************************************************)
(* Whatever profiles are switched and rolled back in between, with a fresh *)
(* receipt or an old one: a request id reaches one provider, with one      *)
(* order, once; its receipt names the profile that served it; the counters *)
(* say so; and a switch finds two profiles of one meaning and no residue.  *)
OrdersAreSentOnce ==
  /\ \A a, b \in ecSeen : a.request.id = b.request.id => a = b
  /\ ecSeen = {ecReceipts[id] : id \in DOMAIN ecReceipts}
  /\ ecCounts.executions = Cardinality(ecSeen)
  /\ \A b \in DOMAIN ecOrders : ecOrders[b] = {}
  /\ \A s \in ecSwitches : s.from.action = s.to.action /\ s.from.binding # s.to.binding

(* The inductive invariant.                                                *)
CellInv ==
  /\ OrdersAreSentOnce
  /\ ecProfiles \subseteq ErpProfiles /\ \A p \in ecProfiles : ErpConformant(p)
  /\ ecCounts = [executions |-> ecCounts.executions, replays |-> ecCounts.replays,
                 switches |-> ecCounts.switches, rollbacks |-> ecCounts.rollbacks]
  /\ IsFiniteSet(ecSeen)
  /\ ecReplay = {e.request.id : e \in ecSeen} /\ DOMAIN ecReceipts = ecReplay
=============================================================================
