---------------------------- MODULE MCEffectGate ----------------------------
(***************************************************************************)
(* Instances of EffectGate for TLC.                                        *)
(***************************************************************************)
EXTENDS EffectGate

CONSTANTS c1, c2, k1, k2, l1, l2, l3

AgentRequest(k, g) ==
  [kind |-> "AGENT", key |-> k, body |-> "contact", valid |-> TRUE, gen |-> g,
   lease |-> None, profile |-> 0, snapshot |-> {}, notBefore |-> 0,
   expires |-> 0]

OwnerRequest(k, l, from, until) ==
  [kind |-> "OWNER", key |-> k, body |-> "order", valid |-> TRUE, gen |-> 1,
   lease |-> l, profile |-> 0, snapshot |-> {}, notBefore |-> from,
   expires |-> until]

InstallerRequest(k) ==
  [kind |-> "APPROVAL", key |-> k, body |-> "account", valid |-> TRUE,
   gen |-> None, lease |-> None, profile |-> 0, snapshot |-> {},
   notBefore |-> 0, expires |-> 0]

MCBodies == {"contact", "order", "account"}

MCGenerations == {1, 2}

(* Two leases and an agent authority contend for one replay key; a third   *)
(* lease, for another key, was issued when the order of c1 was there; a    *)
(* forged lease and an installer call complete the envelope kinds.         *)
MCRequests ==
  {OwnerRequest(k1, l1, 0, 1), OwnerRequest(k1, l2, 0, 2),
   [OwnerRequest(k2, l3, 1, 2) EXCEPT !.snapshot = {c1}],
   AgentRequest(k1, 1), InstallerRequest(k1),
   [OwnerRequest(k1, l1, 0, 1) EXCEPT !.valid = FALSE]}
=============================================================================
