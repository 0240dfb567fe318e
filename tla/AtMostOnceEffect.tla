-------------------------- MODULE AtMostOnceEffect --------------------------
(***************************************************************************)
(* What the mutation gate promises about effects made under an owner       *)
(* lease, said without calls, crashes, memory or HTTP.  Each replay key    *)
(* owns one durable slot.  A slot is reserved before the provider is       *)
(* touched, the provider makes at most one object for it, and the slot     *)
(* ends APPLIED (a verified object) or AMBIGUOUS (nobody knows, and nobody *)
(* retries).                                                               *)
(***************************************************************************)
CONSTANT Keys                \* replay keys

VARIABLES slot,              \* slot[k]: the durable status of the key
          made               \* the keys for which the provider made an object

amoVars == <<slot, made>>

SlotStatus == {"FREE", "EXECUTING", "APPLIED", "AMBIGUOUS"}

AbstractTypeOK ==
  /\ slot \in [Keys -> SlotStatus]
  /\ made \subseteq Keys

AbstractInit ==
  /\ slot = [k \in Keys |-> "FREE"]
  /\ made = {}

(***************************************************************************)
(* One write of the store may move several slots: a write carries the      *)
(* whole store, including what an earlier failed write left behind.        *)
(***************************************************************************)
MayMove(k, from, to) ==
  \/ to = from
  \/ from = "FREE" /\ to = "EXECUTING"
  \/ from = "EXECUTING" /\ to = "APPLIED" /\ k \in made
  \/ from = "EXECUTING" /\ to = "AMBIGUOUS"

WriteSlots ==
  /\ slot' \in [Keys -> SlotStatus]
  /\ \A k \in Keys : MayMove(k, slot[k], slot'[k])
  /\ UNCHANGED made

(***************************************************************************)
(* The provider acts only for a slot that is durably reserved and has no   *)
(* object yet.  It may act late, after the caller gave up (AMBIGUOUS).     *)
(***************************************************************************)
MakeObject(k) ==
  /\ slot[k] \in {"EXECUTING", "AMBIGUOUS"}
  /\ k \notin made
  /\ made' = made \cup {k}
  /\ UNCHANGED slot

AbstractNext == WriteSlots \/ \E k \in Keys : MakeObject(k)

AbstractSpec == AbstractInit /\ [][AbstractNext]_amoVars
=============================================================================
