------------------------- MODULE MCPolicyLifecycle -------------------------
(***************************************************************************)
(* Instances of PolicyLifecycle for TLC.                                   *)
(***************************************************************************)
EXTENDS PolicyLifecycle

CONSTANTS s1, s2, s3

Signed(g, source, rank, runtime, expires) ==
  [generation |-> g, source |-> source, rank |-> rank, runtime |-> runtime,
   expires |-> expires]

(* One policy per generation, bytes that come back under generation 3, and *)
(* a policy with wider rules, which the runtime does not accept.           *)
MCArtifacts ==
  {Signed(1, s1, 1, TRUE, 2), Signed(2, s2, 1, TRUE, 2),
   Signed(2, s2, 2, FALSE, 2), Signed(3, s3, 1, TRUE, 2),
   Signed(3, s1, 1, TRUE, 1)}

(* A wide approval and a narrow one that expires first.                    *)
MCApprovals ==
  {[allowWidening |-> TRUE, expires |-> 2], [allowWidening |-> FALSE, expires |-> 1]}

MCGenerations == 1..3
=============================================================================
