----------------------------- MODULE PolicyFence -----------------------------
(***************************************************************************)
(* The activation record of PolicyGenerationFence                          *)
(* (demo/runtime/policy-generation-fence.mjs) and what its methods compute *)
(* from it.  Signatures and digests are left out: a record that was not    *)
(* written by the fence fails validateRecord and is refused everywhere.    *)
(* The methods are synchronous, so each is one step of its caller.         *)
(***************************************************************************)
EXTENDS Naturals

CONSTANTS
  Generations,   \* policy generations
  Sources,       \* policy source bytes, by their digest
  None           \* no record

ASSUME FenceAssumption ==
  /\ Generations \subseteq Nat \ {0}
  /\ None \notin Generations

(* A policy snapshot: which generation activated which bytes.              *)
Snapshot == [generation : Generations, source : Sources]

FenceRecord == [active : Snapshot, lastKnownSafe : Snapshot,
                retired : SUBSET Sources, status : {"ACTIVE", "FROZEN"}]

ASSUME NoFenceRecord == None \notin FenceRecord

(* activate() denies an old generation and bytes that were active before.  *)
FenceAdmits(f, s) ==
  f # None =>
    /\ s.generation > f.active.generation
    /\ s.source # f.active.source /\ s.source \notin f.retired

(* The record activate() writes.                                           *)
FenceActivated(f, s) ==
  [active |-> s,
   lastKnownSafe |-> IF f = None THEN s ELSE f.active,
   retired |-> IF f = None THEN {} ELSE f.retired \cup {f.active.source},
   status |-> "ACTIVE"]

(* Mutant of FenceFrozen: a status validateRecord does not know.           *)
FenceFallback(f) == [f EXCEPT !.status = "FALLBACK"]

(* The record freezeDispatch() writes.                                     *)
FenceFrozen(f) == [f EXCEPT !.status = "FROZEN"]

(* assertUseBinding() accepts this generation and these bytes.             *)
FenceUse(f, s) == f # None /\ f.status = "ACTIVE" /\ f.active = s

(* validateRecord(): the relation between the active policy, the fallback  *)
(* it names and the bytes that may not come back.                          *)
FenceValid(f) ==
  /\ f.lastKnownSafe.generation <= f.active.generation
  /\ f.active.source \notin f.retired
  /\ (f.lastKnownSafe.source \in f.retired)
       <=> (f.lastKnownSafe.generation < f.active.generation)
=============================================================================
