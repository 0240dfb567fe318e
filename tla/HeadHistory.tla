----------------------------- MODULE HeadHistory -----------------------------
(***************************************************************************)
(* What a contribution ledger promises of the head of a contribution: it   *)
(* advances to heads it never had, and a head that was replaced never      *)
(* comes back.                                                             *)
(***************************************************************************)
CONSTANTS Heads, NoHead
VARIABLES head, past

HeadInit == head = NoHead /\ past = {}

Advance(h) ==
  /\ h \notin past \cup {head}
  /\ head' = h
  /\ past' = IF head = NoHead THEN past ELSE past \cup {head}

HeadNext == \E h \in Heads : Advance(h)

HeadSpec == HeadInit /\ [][HeadNext]_<<head, past>>
=============================================================================
