---------------------------- MODULE AuditTimeline ---------------------------
(***************************************************************************)
(* The protected audit timeline                                            *)
(* (contracts/src/protected-audit-timeline.ts): a writer signs the events  *)
(* of one operation into a chain and issues checkpoints; a verifier is     *)
(* handed envelopes and a checkpoint, and says what they prove.            *)
(*                                                                         *)
(* On the way to the verifier envelopes are lost, doubled, swapped, edited *)
(* and mixed with those of another writer of the same timeline: a writer   *)
(* keeps its chain in memory and a restart begins it again.                *)
(*                                                                         *)
(* An event is known by the writer that signed it and its place; a digest  *)
(* is that and whether it was edited, and a signature is what was signed.  *)
(* An operation is an operation id with its correlation id, which the code *)
(* compares next to each other (lines 526 and 640).                        *)
(***************************************************************************)
EXTENDS Naturals, Sequences, FiniteSets, SequencesExt

CONSTANTS
  AuditOutcomes,       \* kind -> the outcomes an event of it may report
  SignerWindow,        \* the signer's key: [from, until]
  TrustPolicies,       \* [sound, minimum, active, from, until]: its one key
  AuditOperations,     \* operation ids, each with its correlation id
  AuditDelays,         \* kind -> how long ago an event may have occurred
  MaxAuditTime, MaxWriters,
  MaxLostEvents,       \* events of a chain that may be lost
  NoDigest, NoCheckpoint

ASSUME AuditAssumption ==
  /\ SignerWindow.from \in Nat /\ SignerWindow.until \in Nat
  /\ \A trust \in TrustPolicies : trust.from \in Nat /\ trust.until \in Nat
  /\ \A kind \in DOMAIN AuditDelays : AuditDelays[kind] \subseteq Nat

VARIABLES
  atNow,
  atWriter,            \* the number of the writer
  atChain,             \* #envelopes of the writer
  atRuns,              \* history: the chain of every writer before it
  atCheckpoint         \* a checkpoint that was issued: [chain, count, head,
                       \* issuedAt]; chain is history
atVars == <<atNow, atWriter, atChain, atRuns, atCheckpoint>>

(* REQUIRED_REFERENCES.                                                    *)
Ordered == <<"IDENTITY", "INTENT", "PLAN", "POLICY", "APPROVAL", "BUDGET", "EFFECT">>
UpTo(n) == {Ordered[i] : i \in 1..n}
RequiredReferences ==
  [IDENTITY |-> {}, INTENT |-> UpTo(1), PLAN |-> UpTo(2), POLICY |-> UpTo(3), APPROVAL |-> UpTo(4),
   BUDGET |-> UpTo(5), EFFECT |-> UpTo(6), READBACK |-> UpTo(7), RECONCILE |-> UpTo(7),
   STOP |-> {"IDENTITY", "POLICY"}, ROLLBACK |-> UpTo(7) \ {"BUDGET"}]
EventKinds == DOMAIN RequiredReferences

EventDigest(e) == <<e.writer, e.sequence, e.edited>>
EnvelopeDigest(v) == <<EventDigest(v.event), v.signedAt>>
Core(v) == <<EventDigest(v.event), v.digest, v.previous, v.signedAt, v.generation>>

(* validateProtectedAuditEventV1().                                        *)
ValidEvent(e) == e.sequence >= 1 /\ e.kind \in EventKinds /\ e.occurred <= e.observed

PriorByKind(chain) ==
  [k \in {chain[i].event.kind : i \in DOMAIN chain} |->
     EventDigest(chain[CHOOSE i \in DOMAIN chain : chain[i].event.kind = k].event)]

(* causalIssues(): every reference required is there, and every one given  *)
(* is the event before.                                                    *)
Causal(e, prior) ==
  /\ RequiredReferences[e.kind] \subseteq DOMAIN e.references
  /\ \A k \in DOMAIN e.references : k \in DOMAIN prior /\ prior[k] = e.references[k]

AuditInit ==
  /\ atNow = 0 /\ atWriter = 1 /\ atChain = <<>> /\ atRuns = {} /\ atCheckpoint = NoCheckpoint

AuditTick ==
  /\ atNow < MaxAuditTime /\ atNow' = atNow + 1
  /\ UNCHANGED <<atWriter, atChain, atRuns, atCheckpoint>>

(* An event a caller may bring: with the references it knows of, perhaps   *)
(* from the chain of an earlier writer, and a time it has seen.            *)
Known == {atChain} \cup atRuns
BroughtEvent(id, kind, operation, outcome, occurred, chain, sequence) ==
  [writer |-> atWriter, sequence |-> sequence, edited |-> FALSE, id |-> id, kind |-> kind,
   operation |-> operation, outcome |-> outcome, occurred |-> occurred, observed |-> atNow,
   references |-> PriorByKind(chain)]

(* Mutant of InChain: the kind of an event may come twice.                 *)
InChainTwice(e, signedAt) ==
  /\ e.sequence = Len(atChain) + 1
  /\ atChain = <<>> => e.kind = "IDENTITY"
  /\ Causal(e, PriorByKind(atChain))
  /\ atChain # <<>> =>
       LET previous == Last(atChain) IN
       /\ e.operation = previous.event.operation
       /\ e.occurred >= previous.event.occurred /\ e.observed >= previous.event.observed
       /\ signedAt > previous.signedAt

(* append(), its checks: an id it has is answered with its envelope, so a  *)
(* new one is needed.                                                      *)
InChain(e, signedAt) ==
  /\ e.sequence = Len(atChain) + 1
  /\ \A i \in DOMAIN atChain : atChain[i].event.id # e.id /\ atChain[i].event.kind # e.kind
  /\ atChain = <<>> => e.kind = "IDENTITY"
  /\ Causal(e, PriorByKind(atChain))
  /\ atChain # <<>> =>
       LET previous == Last(atChain) IN
       /\ e.operation = previous.event.operation
       /\ e.occurred >= previous.event.occurred /\ e.observed >= previous.event.observed
       /\ signedAt > previous.signedAt

(* createProtectedAuditEnvelopeV1().                                       *)
SignerUsable(at) == SignerWindow.from <= at /\ at < SignerWindow.until
SignedEnvelope(e, signedAt) ==
  LET core == [event |-> e, digest |-> EventDigest(e), signedAt |-> signedAt, generation |-> 1, sealed |-> NoDigest,
               previous |-> IF atChain = <<>> THEN NoDigest ELSE EnvelopeDigest(Last(atChain))]
  IN [core EXCEPT !.sealed = Core(core)]

Append1(e, signedAt) ==
  /\ ValidEvent(e) /\ InChain(e, signedAt)
  /\ SignerUsable(signedAt) /\ e.observed <= signedAt
  /\ atChain' = Append(atChain, SignedEnvelope(e, signedAt))
  /\ UNCHANGED <<atNow, atWriter, atRuns, atCheckpoint>>

(* checkpoint() of the writer.                                             *)
CheckpointIssued ==
  /\ atChain # <<>> /\ SignerUsable(atNow) /\ atNow >= Last(atChain).signedAt
  /\ atCheckpoint' = [chain |-> atChain, count |-> Len(atChain), head |-> EnvelopeDigest(Last(atChain)), issuedAt |-> atNow]
  /\ UNCHANGED <<atNow, atWriter, atChain, atRuns>>

(* The writer's process is lost: the next writer of the timeline starts    *)
(* at its first event.                                                     *)
WriterLost ==
  /\ Len(atChain) \in 1..MaxLostEvents /\ atWriter < MaxWriters
  /\ atRuns' = atRuns \cup {atChain} /\ atChain' = <<>> /\ atWriter' = atWriter + 1
  /\ UNCHANGED <<atNow, atCheckpoint>>

(***************************************************************************)
(* The verifier                                                            *)
(***************************************************************************)
KeyUsable(trust, at) == trust.sound /\ trust.active /\ trust.minimum <= 1 /\ trust.from <= at /\ at < trust.until

(* Its loop: what an envelope says of itself and of those before it.       *)
Linked(envelopes, i) ==
  LET v == envelopes[i]
      u == envelopes[i - 1]
  IN /\ ValidEvent(v.event) /\ v.digest = EventDigest(v.event)
     /\ v.event.sequence = i /\ (i = 1 => v.event.kind = "IDENTITY")
     /\ v.previous = (IF i = 1 THEN NoDigest ELSE EnvelopeDigest(u))
     /\ v.event.observed <= v.signedAt
     /\ i > 1 =>
          v.signedAt > u.signedAt /\ v.event.occurred >= u.event.occurred /\ v.event.observed >= u.event.observed
     /\ \A j \in 1..(i - 1) :
          /\ envelopes[j].event.id # v.event.id /\ envelopes[j].event.kind # v.event.kind
          /\ envelopes[j].event.operation = v.event.operation
     /\ Causal(v.event, PriorByKind(SubSeq(envelopes, 1, i - 1)))
     /\ v.sealed = Core(v)

(* verifyProtectedAuditTimelineV1().                                       *)
Verified(envelopes, checkpoint, trust) ==
  /\ KeyUsable(trust, checkpoint.issuedAt)
  /\ Len(envelopes) = checkpoint.count
  /\ envelopes # <<>> /\ EnvelopeDigest(Last(envelopes)) = checkpoint.head
  /\ \A i \in DOMAIN envelopes : Linked(envelopes, i) /\ KeyUsable(trust, envelopes[i].signedAt)
  /\ checkpoint.issuedAt >= Last(envelopes).signedAt

(* explainProtectedAuditTimelineV1() of verified envelopes.                *)
Success(envelopes) ==
  LET e == Last(envelopes).event IN
  <<e.kind, e.outcome>> \in {<<"READBACK", "COMMITTED">>, <<"RECONCILE", "RECONCILED">>, <<"ROLLBACK", "ROLLED_BACK">>}

(* What may reach a verifier in place of a chain: a part of it, one that   *)
(* lost, doubled or swapped envelopes, one with an edited event, its       *)
(* digest made anew or not, or the rest of another writer's chain.         *)
Edited(v) == [v EXCEPT !.event.edited = TRUE]
Swapped(chain) == {[chain EXCEPT ![i] = chain[j], ![j] = chain[i]] : i, j \in DOMAIN chain}
Arrived(chain) ==
  {SubSeq(chain, 1, n) : n \in 0..Len(chain)}
    \cup {RemoveAt(chain, i) : i \in DOMAIN chain}
    \cup {InsertAt(chain, i, chain[i]) : i \in DOMAIN chain}
    \cup Swapped(chain)
    \cup {[chain EXCEPT ![i] = Edited(chain[i])] : i \in DOMAIN chain}
    \cup {[chain EXCEPT ![i] = [Edited(chain[i]) EXCEPT !.digest = <<chain[i].event.writer, i, TRUE>>]] : i \in DOMAIN chain}
    \cup UNION {{SubSeq(chain, 1, n) \o SubSeq(other, n + 1, Len(other)) : n \in 0..Len(chain)} : other \in Known}

AuditNext ==
  \/ AuditTick
  \/ \E kind \in EventKinds, operation \in AuditOperations, chain \in Known :
     \E outcome \in AuditOutcomes[kind], id \in {kind, "IDENTITY"}, delay \in AuditDelays[kind], sequence \in Len(atChain)..(Len(atChain) + 2) :
       delay <= atNow /\ Append1(BroughtEvent(id, kind, operation, outcome, atNow - delay, chain, sequence), atNow)
  \/ CheckpointIssued \/ WriterLost

(***************************************************************************)
(* Properties                                                              *)
(***************************************************************************)
(* Writer and verifier agree: under a policy whose key covers the signer's *)
(* window a chain verifies with its checkpoint; and of all that may arrive *)
(* in its place nothing but that very chain does, whatever the policy.     *)
(*   What is explained as a success names an approval and then an effect   *)
(* before its last event.  Their outcomes are not read: explain() reads    *)
(* the last event's only (585-588), and a READBACK that is COMMITTED after *)
(* an APPROVAL that is a DENY, or an EFFECT that FAILED, is a success.     *)
TimelineProvesItsChain ==
  atCheckpoint # NoCheckpoint =>
    /\ \A trust \in TrustPolicies :
         KeyUsable(trust, SignerWindow.from) /\ trust.until >= SignerWindow.until =>
           Verified(atCheckpoint.chain, atCheckpoint, trust)
    /\ \A chain \in Known \cup {atCheckpoint.chain} : \A arrived \in Arrived(chain) :
         (\E trust \in TrustPolicies : Verified(arrived, atCheckpoint, trust)) =>
           /\ arrived = atCheckpoint.chain
           /\ Success(arrived) =>
                \E i, j \in DOMAIN arrived :
                  i < j /\ j < Len(arrived) /\ arrived[i].event.kind = "APPROVAL" /\ arrived[j].event.kind = "EFFECT"

(* An envelope as it was signed.                                           *)
Original(v) ==
  LET e == v.event IN
  /\ v = [event |-> e, digest |-> EventDigest(e), signedAt |-> v.signedAt, generation |-> 1, sealed |-> v.sealed,
          previous |-> v.previous]
  /\ e = [writer |-> e.writer, sequence |-> e.sequence, edited |-> FALSE, id |-> e.id, kind |-> e.kind,
          operation |-> e.operation, outcome |-> e.outcome, occurred |-> e.occurred, observed |-> e.observed,
          references |-> e.references]
  /\ v.signedAt \in Nat /\ SignerUsable(v.signedAt)

Chained(chain) ==
  /\ chain \in Seq({chain[i] : i \in DOMAIN chain})
  /\ \A i \in DOMAIN chain : Original(chain[i]) /\ Linked(chain, i)

Chains == Known \cup {atCheckpoint.chain : x \in {atCheckpoint} \ {NoCheckpoint}}

(* The inductive invariant: a writer and a place are of one envelope, in   *)
(* whichever chain it is.                                                  *)
AuditInv ==
  /\ atNow \in Nat /\ atWriter \in Nat \ {0}
  /\ \A chain \in Chains : Chained(chain)
  /\ \A c, d \in Chains : \A i \in DOMAIN c \cap DOMAIN d : c[i].event.writer = d[i].event.writer => c[i] = d[i]
  /\ \A i \in DOMAIN atChain : atChain[i].event.writer = atWriter
  /\ \A chain \in atRuns : \A i \in DOMAIN chain : chain[i].event.writer \in 1..(atWriter - 1)
  /\ atCheckpoint # NoCheckpoint =>
       LET chain == atCheckpoint.chain IN
       /\ chain # <<>>
       /\ atCheckpoint = [chain |-> chain, count |-> Len(chain), head |-> EnvelopeDigest(Last(chain)),
                          issuedAt |-> atCheckpoint.issuedAt]
       /\ atCheckpoint.issuedAt >= Last(chain).signedAt /\ SignerUsable(atCheckpoint.issuedAt)
       /\ atCheckpoint.issuedAt \in Nat
       /\ \A i \in DOMAIN chain :
            chain[i].event.writer \in 1..atWriter /\ (chain[i].event.writer = atWriter => i \in DOMAIN atChain)
=============================================================================
