---------------------------- MODULE PolicyWindow ----------------------------
(***************************************************************************)
(* What the policy lifecycle promises about dispatch, said without files,  *)
(* reviews or crashes.  Generations are raised in increasing order; a      *)
(* generation that was raised opens for use at most once, and once shut,   *)
(* by a revocation, a freeze, a failure or a successor, it stays shut.     *)
(***************************************************************************)
EXTENDS Naturals

VARIABLES high,    \* the highest generation raised so far; 0: none
          phase    \* "opening", "open" or "shut": the use of that generation

windowVars == <<high, phase>>

WindowInit == high = 0 /\ phase = "shut"

Raise ==
  /\ high' \in Nat /\ high' > high
  /\ phase' = "opening"

Open ==
  /\ phase = "opening" /\ phase' = "open"
  /\ UNCHANGED high

Shut ==
  /\ phase' = "shut"
  /\ UNCHANGED high

WindowNext == Raise \/ Open \/ Shut

WindowSpec == WindowInit /\ [][WindowNext]_windowVars
=============================================================================
