------------------------- MODULE ContributionLedger -------------------------
(***************************************************************************)
(* The contribution-intake ledger                                          *)
(* (packages/contracts/src/contribution-intake-ledger.ts): deliveries of   *)
(* pull-request heads are classified against the ledger and appended; a    *)
(* serialised ledger or receipt is accepted again only when it replays.    *)
(*                                                                         *)
(* A ledger is its sequence of entries; the fields derived from it         *)
(* (nextSequence, quarantineCount) are operators, and the prevalidated     *)
(* context is the constant Context.  The unkeyed digests are left out: a   *)
(* candidate is one whose digests were all recomputed, the strongest a     *)
(* holder of the file can make; one with a stale digest is refused by      *)
(* comparison.                                                             *)
(***************************************************************************)
EXTENDS Naturals, Sequences, FiniteSets, FiniteSetsExt, Functions

CONSTANTS
  Context,        \* [scope, actor, rank]: the prevalidated trust context
  Deliveries,     \* the deliveries that may arrive
  Heads, NoHead,  \* head digests; no head, no ancestor
  MaxEntries      \* bound of the ledger

VARIABLES
  ledger,         \* its entries
  receipts        \* history: every receipt issued
ledgerVars == <<ledger, receipts>>

(* authorityScope is its SCOPE_RANK; scope is the ledger, tenant,          *)
(* repository and contribution of the delivery, actor its actor and        *)
(* authority evidence.                                                     *)
Identity == [scope : {"own", "other"}, actor : {"own", "other"}, rank : 0..3]
Delivery == [id : STRING, who : Identity, head : Heads,
             ancestor : Heads \cup {NoHead}, payload : STRING, at : Nat]

Dispositions == {"APPENDED", "SEMANTIC_DUPLICATE", "STALE", "REJECTED"}
ReasonCodes == {"NEW_CONTRIBUTION", "PR_HEAD_SUPERSESSION", "PR_HEAD_FORCE_PUSH",
  "UNKNOWN_ANCESTOR", "TRANSPORT_REDELIVERY", "DELIVERY_ID_REUSE_TAMPER",
  "HEAD_ALREADY_CURRENT", "SUPERSEDED_HEAD_REPLAY", "INVALIDATED_HEAD_REPLAY",
  "TRUST_CONTEXT_MISMATCH", "AUTHORITY_WIDENING", "AUTHORITY_CHANGE",
  "STALE_HEAD_TIMESTAMP"}
IdentityBindings == {"CONTEXT_MATCH", "SCOPE_MISMATCH", "AUTHORITY_WIDENING", "AUTHORITY_CHANGE"}

(* ContributionIntakeEntryV1 *)
Entry == [sequence : Nat \ {0}, ev : Delivery, binding : IdentityBindings,
          disposition : Dispositions, reasons : Seq(ReasonCodes),
          quarantined : BOOLEAN, replaced : Heads \cup {NoHead}]

ASSUME LedgerAssumption ==
  /\ Context \in Identity /\ Deliveries \subseteq Delivery
  /\ NoHead \notin Heads /\ MaxEntries \in Nat

(* deriveSubmittedIdentityBinding() *)
SubmittedIdentityBinding(ev) ==
  IF ev.who.scope # Context.scope THEN "SCOPE_MISMATCH"
  ELSE IF ev.who.rank > Context.rank THEN "AUTHORITY_WIDENING"
  ELSE IF ev.who # Context THEN "AUTHORITY_CHANGE"
  ELSE "CONTEXT_MATCH"

(* frozenClassification() *)
Classification(disposition, reasons, quarantined, replaced) ==
  [disposition |-> disposition, reasons |-> reasons,
   quarantined |-> quarantined, replaced |-> replaced]

(* The positions of the appended entries.                                  *)
Appended(l) == {i \in DOMAIN l : l[i].disposition = "APPENDED"}

(* currentHeadInternal(): the last appended entry.                         *)
HasHead(l) == Appended(l) # {}
CurrentHead(l) == l[Max(Appended(l))]

(* headStatusInternal() *)
HeadStatus(l, h) ==
  LET displacers == {i \in Appended(l) : l[i].replaced = h}
  IN  IF HasHead(l) /\ CurrentHead(l).ev.head = h THEN "CURRENT"
      ELSE IF displacers = {} THEN "UNKNOWN"
      ELSE IF "PR_HEAD_SUPERSESSION" \in Range(l[Min(displacers)].reasons)
           THEN "SUPERSEDED" ELSE "INVALIDATED"

(* Mutant of ClassifyAgainstHead: a head is refused only while it is       *)
(* current.                                                                *)
ClassifyAgainstHeadForgets(l, ev) ==
  LET current == CurrentHead(l).ev
  IN  IF ev.head = current.head
      THEN Classification("SEMANTIC_DUPLICATE", <<"HEAD_ALREADY_CURRENT">>, FALSE, NoHead)
      ELSE IF ev.at < current.at
      THEN Classification("STALE", <<"STALE_HEAD_TIMESTAMP">>, TRUE, NoHead)
      ELSE Classification("APPENDED", <<"PR_HEAD_FORCE_PUSH">>, FALSE, current.head)

(* The part of classifyNormalized() about a delivery of the context's own  *)
(* identity, with a fresh delivery id, to a ledger that has a head.        *)
ClassifyAgainstHead(l, ev) ==
  LET current == CurrentHead(l).ev
      known   == \E i \in Appended(l) : l[i].ev.head = ev.head
      replay  == IF HeadStatus(l, ev.head) = "INVALIDATED"
                 THEN "INVALIDATED_HEAD_REPLAY" ELSE "SUPERSEDED_HEAD_REPLAY"
      pushed  == IF ev.ancestor = current.head THEN <<"PR_HEAD_SUPERSESSION">>
                 ELSE IF ev.ancestor = NoHead THEN <<"PR_HEAD_FORCE_PUSH", "UNKNOWN_ANCESTOR">>
                 ELSE <<"PR_HEAD_FORCE_PUSH">>
  IN  IF ev.head = current.head
      THEN Classification("SEMANTIC_DUPLICATE", <<"HEAD_ALREADY_CURRENT">>, FALSE, NoHead)
      ELSE IF known THEN Classification("STALE", <<replay>>, TRUE, NoHead)
      ELSE IF ev.at < current.at
      THEN Classification("STALE", <<"STALE_HEAD_TIMESTAMP">>, TRUE, NoHead)
      ELSE Classification("APPENDED", pushed, FALSE, current.head)

Rejection(reason) == Classification("REJECTED", <<reason>>, TRUE, NoHead)

(* classifyNormalized() *)
Classify(l, ev) ==
  LET binding == SubmittedIdentityBinding(ev)
  IN  IF \E i \in DOMAIN l : l[i].ev = ev
      THEN Classification("TRANSPORT_DUPLICATE", <<"TRANSPORT_REDELIVERY">>, FALSE, NoHead)
      ELSE IF \E i \in DOMAIN l : l[i].ev.id = ev.id THEN Rejection("DELIVERY_ID_REUSE_TAMPER")
      ELSE IF binding = "SCOPE_MISMATCH" THEN Rejection("TRUST_CONTEXT_MISMATCH")
      ELSE IF binding # "CONTEXT_MATCH" THEN Rejection(binding)
      ELSE IF ~HasHead(l) THEN Classification("APPENDED", <<"NEW_CONTRIBUTION">>, FALSE, NoHead)
      ELSE ClassifyAgainstHead(l, ev)

(* buildEntry(): the entry repeats the delivery and what it was classified *)
(* as, under the next sequence number.                                     *)
BuildEntry(l, ev, c) ==
  [sequence |-> Len(l) + 1, ev |-> ev, binding |-> SubmittedIdentityBinding(ev),
   disposition |-> c.disposition, reasons |-> c.reasons,
   quarantined |-> c.quarantined, replaced |-> c.replaced]

(* normalizeEntry(): the shape of a stored entry.                          *)
WellFormedEntry(e) == e \in Entry /\ e.reasons # <<>>

(* buildReceipt() *)
BuildReceipt(ev, sequence, c) ==
  [sequence |-> sequence, ev |-> ev, binding |-> SubmittedIdentityBinding(ev),
   disposition |-> c.disposition, reasons |-> c.reasons, quarantined |-> c.quarantined]

(* nextSequence and quarantineCount, as ingest and verify keep them.       *)
NextSequence(l) == Len(l) + 1
Quarantined(l) == SelectSeq(l, LAMBDA e : e.quarantined)

(* Mutant of SameClassification: the reasons are not compared.             *)
SameDisposition(e, c) ==
  /\ c.disposition # "TRANSPORT_DUPLICATE" /\ e.disposition = c.disposition
  /\ e.quarantined = c.quarantined /\ e.replaced = c.replaced

(* sameClassification() *)
SameClassification(e, c) ==
  /\ c.disposition # "TRANSPORT_DUPLICATE" /\ e.disposition = c.disposition
  /\ e.quarantined = c.quarantined /\ e.replaced = c.replaced
  /\ e.reasons = c.reasons

(* verifyContributionIntakeLedgerV1(): every entry is the one its prefix   *)
(* and its submitted delivery derive.                                      *)
VerifyLedger(l) ==
  \A i \in DOMAIN l :
    LET prefix == SubSeq(l, 1, i - 1)
    IN  /\ WellFormedEntry(l[i])
        /\ l[i].sequence = i
        /\ l[i].binding = SubmittedIdentityBinding(l[i].ev)
        /\ l[i].quarantined = (l[i].disposition \in {"STALE", "REJECTED"})
        /\ SameClassification(l[i], Classify(prefix, l[i].ev))

(* verifyContributionIntakeReceiptV1(): the receipt is the one the entry   *)
(* with its number gives, as first delivery or as redelivery.              *)
VerifyReceipt(l, r) ==
  /\ r.sequence \in DOMAIN l
  /\ LET e == l[r.sequence]
         c == IF r.disposition = "TRANSPORT_DUPLICATE"
              THEN Classification("TRANSPORT_DUPLICATE", <<"TRANSPORT_REDELIVERY">>, FALSE, NoHead)
              ELSE Classification(e.disposition, e.reasons, e.quarantined, e.replaced)
     IN  r = BuildReceipt(e.ev, e.sequence, c)

(* ingestContributionDeliveryV1(): what a delivery makes of a ledger.      *)
Ingested(l, ev) ==
  LET c == Classify(l, ev)
      prior == CHOOSE i \in DOMAIN l : l[i].ev = ev /\ \A j \in DOMAIN l : l[j].ev = ev => i <= j
  IN  IF c.disposition = "TRANSPORT_DUPLICATE"
      THEN [ledger |-> l, receipt |-> BuildReceipt(ev, prior, c)]
      ELSE [ledger |-> Append(l, BuildEntry(l, ev, c)),
            receipt |-> BuildReceipt(ev, Len(l) + 1, c)]

(* replayContributionIntakeV1() *)
Replay(events) ==
  LET fold[n \in 0..Len(events)] ==
        IF n = 0 THEN <<>> ELSE Ingested(fold[n - 1], events[n]).ledger
  IN  fold[Len(events)]

(* createContributionIntakeLedgerV1() *)
LedgerInit == ledger = <<>> /\ receipts = {}

Ingest(ev) ==
  /\ Len(ledger) < MaxEntries
  /\ ledger' = Ingested(ledger, ev).ledger
  /\ receipts' = receipts \cup {Ingested(ledger, ev).receipt}

LedgerNext == \E ev \in Deliveries : Ingest(ev)

(***************************************************************************)
(* Properties                                                              *)
(***************************************************************************)
LedgerTypeOK ==
  /\ \A i \in DOMAIN ledger : WellFormedEntry(ledger[i])
  /\ \A r \in receipts : r.sequence \in 1..MaxEntries /\ r.ev \in Deliveries

(* An entry with one of its fields replaced.                               *)
Edited(e) ==
  {[e EXCEPT !.disposition = d] : d \in Dispositions}
  \cup {[e EXCEPT !.reasons = <<r>>] : r \in ReasonCodes}
  \cup {[e EXCEPT !.replaced = h] : h \in Heads \cup {NoHead}}
  \cup {[e EXCEPT !.binding = b] : b \in IdentityBindings}
  \cup {[e EXCEPT !.ev = ev] : ev \in Deliveries}

(* A candidate ledger made from this one by replacing one field of one     *)
(* entry, or by leaving one entry out.                                     *)
Tampered ==
  (UNION {{[ledger EXCEPT ![i] = e] : e \in Edited(ledger[i])} : i \in DOMAIN ledger})
  \cup {[j \in 1..Len(ledger) - 1 |-> IF j < i THEN ledger[j] ELSE ledger[j + 1]] :
          i \in DOMAIN ledger}

(* The verifier and the producer agree: a ledger, also one edited by hand  *)
(* with its digests recomputed, is accepted exactly when ingesting the     *)
(* deliveries it names makes it; and every receipt ever issued, for a first*)
(* delivery or a redelivery, still verifies against the ledger of today.   *)
OnlyHistoriesVerify ==
  /\ \A l \in Tampered \cup {ledger} :
       VerifyLedger(l) <=> l = Replay([i \in DOMAIN l |-> l[i].ev])
  /\ \A r \in receipts : VerifyReceipt(ledger, r)

(* The inductive invariant: the ledger is one the verifier accepts, its    *)
(* receipts are of its entries, and a head that was replaced is the head   *)
(* of an appended entry.                                                   *)
LedgerInv ==
  /\ LedgerTypeOK
  /\ ledger \in Seq(Entry) /\ Len(ledger) <= MaxEntries
  /\ VerifyLedger(ledger)
  /\ \A r \in receipts : VerifyReceipt(ledger, r)
  /\ \A i \in Appended(ledger) :
       ledger[i].replaced # NoHead =>
         \E j \in Appended(ledger) : ledger[j].ev.head = ledger[i].replaced

Abstract == INSTANCE HeadHistory WITH
  head <- IF HasHead(ledger) THEN CurrentHead(ledger).ev.head ELSE NoHead,
  past <- {ledger[i].replaced : i \in Appended(ledger)} \ {NoHead}

(* The ledger implements HeadHistory: a replaced head never returns.       *)
ImplementsHeadHistory == Abstract!HeadSpec
=============================================================================
