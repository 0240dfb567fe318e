------------------------------ MODULE Verdicts ------------------------------
(***************************************************************************)
(* The shape most handlers of this code share: a fixed sequence of checks, *)
(* each with the code it denies with, of which the first that fails        *)
(* answers.  Module-local idiom only; it stands for no code of its own.    *)
(***************************************************************************)
EXTENDS Naturals, Sequences

(* A check: what must hold, and the code answered when it does not.        *)
Check(holds, code) == [holds |-> holds, code |-> code]

(* The code of the first failing check, "OK" when none fails.              *)
FirstDenial(checks) ==
  LET failing == {i \in DOMAIN checks : ~checks[i].holds}
  IN  IF failing = {} THEN "OK"
      ELSE checks[CHOOSE i \in failing : \A j \in failing : i <= j].code
=============================================================================
