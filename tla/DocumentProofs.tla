--------------------------- MODULE DocumentProofs ---------------------------
(***************************************************************************)
(* Theorems about Services: what the services and the owner read and rely  *)
(* on. A part for each document: that what is kept of it is inductive,     *)
(* and that the document holds then.                                       *)
(***************************************************************************)
EXTENDS AnswerProofs

-----------------------------------------------------------------------------
(* The protected audit timeline                                            *)

(* An envelope's parts, its digest and what it links to.                   *)
LEMMA OriginalParts ==
  ASSUME NEW v, Original(v)
  PROVE  /\ v.event.edited = FALSE /\ v.signedAt \in Nat /\ SignerUsable(v.signedAt)
         /\ v.digest = EventDigest(v.event) /\ v.generation = 1
  <1>1. v.signedAt \in Nat /\ SignerUsable(v.signedAt)
    BY Zenon DEF Original
  <1>2. PICK e, d, at, sealed, previous :
          /\ v = [event |-> e, digest |-> d, signedAt |-> at, generation |-> 1, sealed |-> sealed, previous |-> previous]
          /\ d = EventDigest(v.event)
    BY Zenon DEF Original
  <1>3. PICK writer, sequence, id, kind, operation, outcome, occurred, observed, references :
          v.event = [writer |-> writer, sequence |-> sequence, edited |-> FALSE, id |-> id, kind |-> kind,
                     operation |-> operation, outcome |-> outcome, occurred |-> occurred, observed |-> observed,
                     references |-> references]
    BY Zenon DEF Original
  <1>4. v.digest = EventDigest(v.event) /\ v.generation = 1
    BY <1>2
  <1>5. v.event.edited = FALSE
    BY <1>3
  <1> QED BY <1>1, <1>4, <1>5

(* Envelopes of one digest are of one writer and one place.                *)
LEMMA SameDigest ==
  ASSUME NEW u, NEW v, EnvelopeDigest(u) = EnvelopeDigest(v)
  PROVE  u.event.writer = v.event.writer /\ u.event.sequence = v.event.sequence /\ u.event.edited = v.event.edited
  BY DEF EnvelopeDigest, EventDigest

(* A chain: its length and the places of its envelopes.                    *)
LEMMA ChainParts ==
  ASSUME NEW c, Chained(c)
  PROVE  /\ Len(c) \in Nat /\ DOMAIN c = 1..Len(c)
         /\ \A i \in DOMAIN c : Original(c[i]) /\ Linked(c, i) /\ c[i].event.sequence = i
  <1>1. c \in Seq({c[i] : i \in DOMAIN c}) /\ \A i \in DOMAIN c : Original(c[i]) /\ Linked(c, i)
    BY Zenon DEF Chained
  <1>2. \A i \in DOMAIN c : c[i].event.sequence = i
    BY <1>1 DEF Linked
  <1> QED BY <1>1, <1>2, LenProperties

(* What is edited says so.                                                 *)
LEMMA EditedSays ==
  ASSUME NEW v, Original(v)
  PROVE  /\ Edited(v).event.edited = TRUE
         /\ \A d : [Edited(v) EXCEPT !.digest = d].event.edited = TRUE
  <1>1. PICK e, d, at, sealed, previous :
          v = [event |-> e, digest |-> d, signedAt |-> at, generation |-> 1, sealed |-> sealed, previous |-> previous]
    BY Zenon DEF Original
  <1>2. PICK writer, sequence, id, kind, operation, outcome, occurred, observed, references :
          v.event = [writer |-> writer, sequence |-> sequence, edited |-> FALSE, id |-> id, kind |-> kind,
                     operation |-> operation, outcome |-> outcome, occurred |-> occurred, observed |-> observed,
                     references |-> references]
    BY Zenon DEF Original
  <1>3. PICK w : w = Edited(v)
    OBVIOUS
  <1>4. PICK f : f = [e EXCEPT !.edited = TRUE]
    OBVIOUS
  <1>5. f.edited = TRUE
    BY <1>1, <1>2, <1>4
  <1>6. w = [event |-> f, digest |-> d, signedAt |-> at, generation |-> 1, sealed |-> sealed, previous |-> previous]
    BY <1>1, <1>3, <1>4 DEF Edited
  <1>7. w.event.edited = TRUE
    BY <1>5, <1>6
  <1>8. \A x : [w EXCEPT !.digest = x].event.edited = TRUE
    BY <1>5, <1>6
  <1> QED BY <1>3, <1>7, <1>8

(* The envelopes of chains as they were signed, and those of one edited.   *)
SignedIn(chains) == UNION {{d[m] : m \in DOMAIN d} : d \in chains}
EditedOf(chain) ==
  {Edited(chain[i]) : i \in DOMAIN chain}
    \cup {[Edited(chain[i]) EXCEPT !.digest = <<chain[i].event.writer, i, TRUE>>] : i \in DOMAIN chain}

LEMMA LargerSeq ==
  ASSUME NEW S, NEW T, S \subseteq T, NEW s \in Seq(S)
  PROVE  s \in Seq(T)
  <1>1. s \in [1..Len(s) -> S] /\ Len(s) \in Nat
    BY LenProperties
  <1>2. s \in [1..Len(s) -> T]
    BY <1>1
  <1> QED BY <1>1, <1>2, SeqDef

LEMMA PartSeq ==
  ASSUME NEW T, NEW s \in Seq(T), NEW n \in Int, NEW m \in 0..Len(s), n >= 1
  PROVE  SubSeq(s, n, m) \in Seq(T)
  <1>1. Len(s) \in Nat /\ DOMAIN s = 1..Len(s) /\ \A i \in 1..Len(s) : s[i] \in T
    BY LenProperties
  <1>2. \A i \in n..m : s[i] \in T
    BY <1>1
  <1> QED BY <1>1, <1>2, SubSeqProperties

(* What arrives is made of envelopes that were signed and of edited ones.  *)
LEMMA ArrivedIsOf ==
  ASSUME NEW chains, Known \subseteq chains, \A c \in chains : Chained(c), NEW chain \in chains, NEW arrived \in Arrived(chain)
  PROVE  arrived \in Seq(SignedIn(chains) \cup EditedOf(chain))
  <1>1. PICK T : T = SignedIn(chains) \cup EditedOf(chain)
    OBVIOUS
  <1>2. \A c \in chains : c \in Seq(T)
    <2> SUFFICES ASSUME NEW c \in chains PROVE c \in Seq(T)
      OBVIOUS
    <2>1. c \in Seq({c[i] : i \in DOMAIN c})
      BY Zenon DEF Chained
    <2>2. {c[i] : i \in DOMAIN c} \subseteq T
      BY <1>1 DEF SignedIn
    <2> QED BY <2>1, <2>2, LargerSeq
  <1>3. chain \in Seq(T)
    BY <1>2
  <1>4. Len(chain) \in Nat /\ DOMAIN chain = 1..Len(chain) /\ \A i \in DOMAIN chain : chain[i] \in T
    BY <1>3, LenProperties
  <1>5. \A i \in DOMAIN chain :
          Edited(chain[i]) \in T /\ [Edited(chain[i]) EXCEPT !.digest = <<chain[i].event.writer, i, TRUE>>] \in T
    BY <1>1 DEF EditedOf
  <1>6. \A i \in DOMAIN chain : \A t \in T : [chain EXCEPT ![i] = t] \in Seq(T)
    <2> SUFFICES ASSUME NEW i \in DOMAIN chain, NEW t \in T PROVE [chain EXCEPT ![i] = t] \in Seq(T)
      OBVIOUS
    <2>1. chain \in [1..Len(chain) -> T]
      BY <1>3, LenProperties
    <2>2. [chain EXCEPT ![i] = t] \in [1..Len(chain) -> T]
      BY <2>1
    <2> QED BY <1>4, <2>2, SeqDef
  <1>7. \A n \in 0..Len(chain) : SubSeq(chain, 1, n) \in Seq(T)
    BY <1>3, <1>4, PartSeq
  <1>8. ASSUME NEW n \in 0..Len(chain), arrived = SubSeq(chain, 1, n) PROVE arrived \in Seq(T)
    BY <1>7, <1>8
  <1>9. ASSUME NEW i \in DOMAIN chain, arrived = RemoveAt(chain, i) PROVE arrived \in Seq(T)
    <2>1. SubSeq(chain, 1, i - 1) \in Seq(T) /\ SubSeq(chain, i + 1, Len(chain)) \in Seq(T)
      BY <1>3, <1>4, PartSeq
    <2> QED BY <1>9, <2>1 DEF RemoveAt
  <1>10. ASSUME NEW i \in DOMAIN chain, arrived = InsertAt(chain, i, chain[i]) PROVE arrived \in Seq(T)
    <2>1. SubSeq(chain, 1, i - 1) \in Seq(T) /\ SubSeq(chain, i, Len(chain)) \in Seq(T)
      BY <1>3, <1>4, PartSeq
    <2>2. chain[i] \in T /\ <<chain[i]>> \in Seq(T)
      BY <1>4
    <2> QED BY <1>10, <2>1, <2>2 DEF InsertAt
  <1>11. ASSUME NEW i \in DOMAIN chain, NEW j \in DOMAIN chain,
                arrived = [chain EXCEPT ![i] = chain[j], ![j] = chain[i]]
         PROVE  arrived \in Seq(T)
    <2>1. chain \in [1..Len(chain) -> T]
      BY <1>3, LenProperties
    <2>2. arrived \in [1..Len(chain) -> T]
      BY <1>4, <1>11, <2>1
    <2> QED BY <1>4, <2>2, SeqDef
  <1>12. ASSUME NEW i \in DOMAIN chain, arrived = [chain EXCEPT ![i] = Edited(chain[i])] PROVE arrived \in Seq(T)
    BY <1>5, <1>6, <1>12
  <1>13. ASSUME NEW i \in DOMAIN chain,
                arrived = [chain EXCEPT ![i] = [Edited(chain[i]) EXCEPT !.digest = <<chain[i].event.writer, i, TRUE>>]]
         PROVE  arrived \in Seq(T)
    BY <1>5, <1>6, <1>13
  <1>14. ASSUME NEW other \in Known, NEW n \in 0..Len(chain), arrived = SubSeq(chain, 1, n) \o SubSeq(other, n + 1, Len(other))
         PROVE  arrived \in Seq(T)
    <2>1. other \in Seq(T)
      BY <1>2
    <2>2. SubSeq(other, n + 1, Len(other)) \in Seq(T)
      BY <1>4, <2>1, LenProperties, PartSeq
    <2> QED BY <1>7, <1>14, <2>2
  <1>15. \/ \E n \in 0..Len(chain) : arrived = SubSeq(chain, 1, n)
         \/ \E i \in DOMAIN chain : arrived = RemoveAt(chain, i)
         \/ \E i \in DOMAIN chain : arrived = InsertAt(chain, i, chain[i])
         \/ \E i, j \in DOMAIN chain : arrived = [chain EXCEPT ![i] = chain[j], ![j] = chain[i]]
         \/ \E i \in DOMAIN chain : arrived = [chain EXCEPT ![i] = Edited(chain[i])]
         \/ \E i \in DOMAIN chain :
               arrived = [chain EXCEPT ![i] = [Edited(chain[i]) EXCEPT !.digest = <<chain[i].event.writer, i, TRUE>>]]
         \/ \E other \in Known : \E n \in 0..Len(chain) : arrived = SubSeq(chain, 1, n) \o SubSeq(other, n + 1, Len(other))
    <2>1. arrived \in Swapped(chain) => \E i, j \in DOMAIN chain : arrived = [chain EXCEPT ![i] = chain[j], ![j] = chain[i]]
      BY DEF Swapped
    <2> QED BY <2>1, Zenon DEF Arrived
  <1> QED BY <1>1, <1>8, <1>9, <1>10, <1>11, <1>12, <1>13, <1>14, <1>15, Zenon

(* Chains whose envelopes are known by their writers and places.           *)
OnePlaceOne(chains) ==
  \A c, d \in chains : \A i \in DOMAIN c \cap DOMAIN d : c[i].event.writer = d[i].event.writer => c[i] = d[i]

(* An envelope that arrived with the digest of one that was issued is it:  *)
(* the digest says that it was not edited, who signed it, and where.       *)
LEMMA DigestNames ==
  ASSUME NEW chains, \A c \in chains : Chained(c), OnePlaceOne(chains), NEW of \in chains, NEW issued \in chains,
         NEW i \in DOMAIN issued, NEW v \in SignedIn(chains) \cup EditedOf(of),
         EnvelopeDigest(v) = EnvelopeDigest(issued[i])
  PROVE  v = issued[i]
  <1>1. issued[i].event.edited = FALSE /\ issued[i].event.sequence = i
    BY ChainParts, OriginalParts
  <1>2. v.event.edited = FALSE /\ v.event.sequence = i /\ v.event.writer = issued[i].event.writer
    BY <1>1, SameDigest
  <1>3. v \notin EditedOf(of)
    <2>1. ASSUME NEW k \in DOMAIN of
          PROVE  /\ Edited(of[k]).event.edited = TRUE
                 /\ [Edited(of[k]) EXCEPT !.digest = <<of[k].event.writer, k, TRUE>>].event.edited = TRUE
      BY ChainParts, EditedSays
    <2> QED BY <1>2, <2>1 DEF EditedOf
  <1>4. PICK d \in chains : \E m \in DOMAIN d : v = d[m]
    BY <1>3 DEF SignedIn
  <1>5. PICK m \in DOMAIN d : v = d[m]
    BY <1>4
  <1>6. m = i
    BY <1>2, <1>5, ChainParts
  <1> QED BY <1>2, <1>5, <1>6 DEF OnePlaceOne

(* Backwards from the head: each envelope names the one before it.         *)
LEMMA HeadNames ==
  ASSUME NEW chains, \A c \in chains : Chained(c), OnePlaceOne(chains), NEW of \in chains, NEW issued \in chains,
         issued # <<>>,
         NEW arrived \in Seq(SignedIn(chains) \cup EditedOf(of)), Len(arrived) = Len(issued),
         \A i \in DOMAIN arrived : Linked(arrived, i),
         EnvelopeDigest(Last(arrived)) = EnvelopeDigest(Last(issued))
  PROVE  arrived = issued
  <1>1. PICK n \in Nat : /\ n = Len(issued) /\ n = Len(arrived) /\ DOMAIN issued = 1..n /\ DOMAIN arrived = 1..n
    BY ChainParts, LenProperties
  <1>2. n > 0
    <2>1. issued \in Seq({issued[i] : i \in DOMAIN issued})
      BY Zenon DEF Chained
    <2> QED BY <1>1, <2>1, EmptySeq
  <1>3. \A i \in 1..n : arrived[i] \in SignedIn(chains) \cup EditedOf(of)
    BY <1>1, LenProperties
  <1>4. ASSUME NEW i \in 1..n, EnvelopeDigest(arrived[i]) = EnvelopeDigest(issued[i]) PROVE arrived[i] = issued[i]
    BY <1>1, <1>3, <1>4, DigestNames
  <1>5. arrived[n] = issued[n]
    BY <1>1, <1>2, <1>4 DEF Last
  <1>6. ASSUME NEW i \in 1..(n - 1), arrived[i + 1] = issued[i + 1] PROVE arrived[i] = issued[i]
    <2>1. arrived[i + 1].previous = EnvelopeDigest(arrived[i])
      <3>1. i + 1 \in 1..n /\ i + 1 # 1 /\ (i + 1) - 1 = i
        OBVIOUS
      <3>2. Linked(arrived, i + 1)
        BY <1>1, <3>1
      <3> QED BY <3>1, <3>2 DEF Linked
    <2>2. issued[i + 1].previous = EnvelopeDigest(issued[i])
      <3>1. i + 1 \in 1..n /\ i + 1 # 1 /\ (i + 1) - 1 = i
        OBVIOUS
      <3>2. Linked(issued, i + 1)
        BY <1>1, <3>1, ChainParts
      <3> QED BY <3>1, <3>2 DEF Linked
    <2>3. i \in 1..n
      OBVIOUS
    <2> QED BY <1>4, <1>6, <2>1, <2>2, <2>3
  <1>7. \A k \in 0..(n - 1) : arrived[n - k] = issued[n - k]
    <2> DEFINE Bad == {k \in 0..(n - 1) : arrived[n - k] # issued[n - k]}
    <2> SUFFICES ASSUME Bad # {} PROVE FALSE
      OBVIOUS
    <2>1. PICK k \in Bad : \A m \in Bad : k <= m
      <3>1. Bad \in SUBSET Nat
        OBVIOUS
      <3> QED BY <3>1, LeastNatural
    <2>2. k # 0
      BY <1>5, <2>1
    <2>3. k - 1 \in 0..(n - 1) /\ k - 1 \notin Bad /\ n - (k - 1) = (n - k) + 1 /\ n - k \in 1..(n - 1)
      <3>1. k \in 1..(n - 1)
        BY <2>1, <2>2
      <3>2. k - 1 \in 0..(n - 1) /\ n - (k - 1) = (n - k) + 1 /\ n - k \in 1..(n - 1) /\ ~(k <= k - 1)
        BY <3>1
      <3>3. k - 1 \notin Bad
        BY <2>1, <3>2
      <3> QED BY <3>2, <3>3
    <2>4. arrived[(n - k) + 1] = issued[(n - k) + 1]
      BY <2>3
    <2>5. arrived[n - k] = issued[n - k]
      BY <1>6, <2>3, <2>4
    <2> QED BY <2>1, <2>5
  <1>8. \A i \in 1..n : arrived[i] = issued[i]
    <2> SUFFICES ASSUME NEW i \in 1..n PROVE arrived[i] = issued[i]
      OBVIOUS
    <2>1. n - i \in 0..(n - 1) /\ n - (n - i) = i
      OBVIOUS
    <2> QED BY <1>7, <2>1
  <1> QED
    <2>1. issued \in Seq({issued[i] : i \in DOMAIN issued})
      BY Zenon DEF Chained
    <2> QED BY <1>1, <1>8, <2>1, SeqEqual

(* What a reference to a kind needs: an event of it before.                *)
LEMMA ReferenceNeeds ==
  ASSUME NEW c, Chained(c), NEW n \in DOMAIN c, NEW kind \in RequiredReferences[c[n].event.kind]
  PROVE  \E j \in DOMAIN c : j < n /\ c[j].event.kind = kind
  <1>1. /\ Len(c) \in Nat /\ DOMAIN c = 1..Len(c) /\ n \in 1..Len(c)
        /\ Causal(c[n].event, PriorByKind(SubSeq(c, 1, n - 1)))
    BY ChainParts DEF Linked
  <1>2. kind \in DOMAIN PriorByKind(SubSeq(c, 1, n - 1))
    BY <1>1 DEF Causal
  <1>3. PICK i \in DOMAIN SubSeq(c, 1, n - 1) : SubSeq(c, 1, n - 1)[i].event.kind = kind
    BY <1>2 DEF PriorByKind
  <1>a. c \in Seq({c[m] : m \in DOMAIN c})
    BY Zenon DEF Chained
  <1>4. n - 1 \in 0..Len(c)
    BY <1>1
  <1>5. Len(SubSeq(c, 1, n - 1)) = n - 1 /\ \A k \in 1..(n - 1) : SubSeq(c, 1, n - 1)[k] = c[k]
    BY <1>1, <1>4, <1>a, SubSeqProperties
  <1> QED BY <1>1, <1>3, <1>5

(* An operation that ended was approved and took effect.                   *)
LEMMA SuccessNeeds ==
  ASSUME NEW c, Chained(c), c # <<>>, Success(c)
  PROVE  \E i, j \in DOMAIN c :
           i < j /\ j < Len(c) /\ c[i].event.kind = "APPROVAL" /\ c[j].event.kind = "EFFECT"
  <1>1. Len(c) \in DOMAIN c
    <2>1. c \in Seq({c[i] : i \in DOMAIN c})
      BY Zenon DEF Chained
    <2> QED BY <2>1, EmptySeq, LenProperties
  <1>2. c[Len(c)].event.kind \in {"READBACK", "RECONCILE", "ROLLBACK"}
    BY DEF Success, Last
  <1>3. "EFFECT" \in RequiredReferences[c[Len(c)].event.kind]
    BY <1>2 DEF RequiredReferences, UpTo, Ordered
  <1>4. PICK j \in DOMAIN c : j < Len(c) /\ c[j].event.kind = "EFFECT"
    BY <1>1, <1>3, ReferenceNeeds
  <1>5. "APPROVAL" \in RequiredReferences[c[j].event.kind]
    BY <1>4 DEF RequiredReferences, UpTo, Ordered
  <1>6. PICK i \in DOMAIN c : i < j /\ c[i].event.kind = "APPROVAL"
    BY <1>5, ReferenceNeeds
  <1> QED BY <1>4, <1>6

(* The signer's window is within the key's.                                *)
LEMMA WindowCovered ==
  ASSUME NEW trust \in TrustPolicies, KeyUsable(trust, SignerWindow.from), trust.until >= SignerWindow.until,
         NEW at \in Nat, SignerUsable(at)
  PROVE  KeyUsable(trust, at)
  BY AuditAssumption DEF KeyUsable, SignerUsable

(* A checkpoint, its chain, and that this is all that verifies with it.    *)
LEMMA CheckpointParts ==
  ASSUME AuditInv, atCheckpoint # NoCheckpoint
  PROVE  /\ atCheckpoint.chain \in Chains /\ Chained(atCheckpoint.chain) /\ atCheckpoint.chain # <<>>
         /\ atCheckpoint.count = Len(atCheckpoint.chain)
         /\ atCheckpoint.head = EnvelopeDigest(Last(atCheckpoint.chain))
         /\ atCheckpoint.issuedAt >= Last(atCheckpoint.chain).signedAt
         /\ atCheckpoint.issuedAt \in Nat /\ SignerUsable(atCheckpoint.issuedAt)
  <1>1. PICK chain, count, head, at :
          /\ atCheckpoint = [chain |-> chain, count |-> count, head |-> head, issuedAt |-> at]
          /\ count = Len(atCheckpoint.chain) /\ head = EnvelopeDigest(Last(atCheckpoint.chain))
    BY Zenon DEF AuditInv
  <1>2. atCheckpoint.count = Len(atCheckpoint.chain) /\ atCheckpoint.head = EnvelopeDigest(Last(atCheckpoint.chain))
    BY <1>1
  <1>3. atCheckpoint.chain \in Chains
    BY DEF Chains
  <1>4. Chained(atCheckpoint.chain) /\ atCheckpoint.chain # <<>>
    BY <1>3, Zenon DEF AuditInv
  <1>5. atCheckpoint.issuedAt >= Last(atCheckpoint.chain).signedAt
         /\ atCheckpoint.issuedAt \in Nat /\ SignerUsable(atCheckpoint.issuedAt)
    BY Zenon DEF AuditInv
  <1> QED BY <1>2, <1>3, <1>4, <1>5

LEMMA TimelineFrom == AuditInv => TimelineProvesItsChain
  <1> SUFFICES ASSUME AuditInv, atCheckpoint # NoCheckpoint, NEW trust \in TrustPolicies
               PROVE  /\ KeyUsable(trust, SignerWindow.from) /\ trust.until >= SignerWindow.until =>
                           Verified(atCheckpoint.chain, atCheckpoint, trust)
                      /\ \A chain \in Known \cup {atCheckpoint.chain} : \A arrived \in Arrived(chain) :
                           Verified(arrived, atCheckpoint, trust) =>
                             /\ arrived = atCheckpoint.chain
                             /\ Success(arrived) =>
                                  \E i, j \in DOMAIN arrived :
                                    i < j /\ j < Len(arrived) /\ arrived[i].event.kind = "APPROVAL"
                                    /\ arrived[j].event.kind = "EFFECT"
    BY Zenon DEF TimelineProvesItsChain
  <1>1. PICK issued : issued = atCheckpoint.chain
    OBVIOUS
  <1>2. issued \in Chains /\ Chained(issued) /\ issued # <<>>
    BY <1>1, CheckpointParts
  <1>3. (\A c \in Chains : Chained(c)) /\ OnePlaceOne(Chains) /\ Known \subseteq Chains
    BY Zenon DEF AuditInv, OnePlaceOne, Chains
  <1>4. ASSUME KeyUsable(trust, SignerWindow.from), trust.until >= SignerWindow.until
        PROVE  Verified(issued, atCheckpoint, trust)
    <2>1. \A i \in DOMAIN issued : Linked(issued, i) /\ KeyUsable(trust, issued[i].signedAt)
      BY <1>2, <1>4, ChainParts, OriginalParts, WindowCovered
    <2>2. KeyUsable(trust, atCheckpoint.issuedAt)
      BY <1>4, CheckpointParts, WindowCovered
    <2> QED BY <1>1, <1>2, <2>1, <2>2, CheckpointParts DEF Verified
  <1>5. ASSUME NEW chain \in Known \cup {issued}, NEW arrived \in Arrived(chain), Verified(arrived, atCheckpoint, trust)
        PROVE  arrived = issued
    <2>1. chain \in Chains
      BY <1>2, <1>3
    <2>2. arrived \in Seq(SignedIn(Chains) \cup EditedOf(chain))
      BY <1>3, <2>1, ArrivedIsOf
    <2>3. /\ Len(arrived) = Len(issued) /\ EnvelopeDigest(Last(arrived)) = EnvelopeDigest(Last(issued))
          /\ \A i \in DOMAIN arrived : Linked(arrived, i)
      BY <1>1, <1>5, CheckpointParts DEF Verified
    <2> QED BY <1>2, <1>3, <2>1, <2>2, <2>3, HeadNames
  <1>6. Success(issued) =>
          \E i, j \in DOMAIN issued :
            i < j /\ j < Len(issued) /\ issued[i].event.kind = "APPROVAL" /\ issued[j].event.kind = "EFFECT"
    BY <1>2, SuccessNeeds
  <1>7. ASSUME NEW chain \in Known \cup {issued}, NEW arrived \in Arrived(chain), Verified(arrived, atCheckpoint, trust)
        PROVE  /\ arrived = issued
               /\ Success(arrived) =>
                    \E i, j \in DOMAIN arrived :
                      i < j /\ j < Len(arrived) /\ arrived[i].event.kind = "APPROVAL" /\ arrived[j].event.kind = "EFFECT"
    <2>1. arrived = issued
      BY <1>5, <1>7
    <2> QED BY <1>6, <2>1
  <1> QED BY <1>1, <1>4, <1>7

(* One envelope more.                                                      *)
LEMMA AppendKeepsParts ==
  ASSUME NEW S, NEW c \in Seq(S), NEW v, NEW i \in 1..(Len(c) + 1)
  PROVE  /\ SubSeq(Append(c, v), 1, i - 1) = SubSeq(c, 1, i - 1)
         /\ Len(Append(c, v)) = Len(c) + 1 /\ DOMAIN Append(c, v) = 1..(Len(c) + 1)
         /\ \A j \in 1..Len(c) : Append(c, v)[j] = c[j]
         /\ Append(c, v)[Len(c) + 1] = v
         /\ Append(c, v) \in Seq(S \cup {v})
  <1>1. PICK T : T = S \cup {v}
    OBVIOUS
  <1>2. c \in Seq(T) /\ v \in T
    BY <1>1, LargerSeq
  <1>3. PICK d : d = Append(c, v)
    OBVIOUS
  <1>4. /\ d \in Seq(T) /\ Len(d) = Len(c) + 1 /\ Len(c) \in Nat /\ DOMAIN d = 1..(Len(c) + 1)
        /\ \A j \in 1..Len(c) : d[j] = c[j]
        /\ d[Len(c) + 1] = v
    BY <1>2, <1>3, AppendProperties, LenProperties
  <1>5. i - 1 \in 0..Len(c) /\ i - 1 \in 0..Len(d)
    BY <1>4
  <1>6. /\ SubSeq(d, 1, i - 1) \in Seq(T) /\ SubSeq(c, 1, i - 1) \in Seq(T)
        /\ Len(SubSeq(d, 1, i - 1)) = i - 1 /\ Len(SubSeq(c, 1, i - 1)) = i - 1
        /\ \A j \in 1..(i - 1) : SubSeq(d, 1, i - 1)[j] = d[j] /\ SubSeq(c, 1, i - 1)[j] = c[j]
    <2>1. 1 \in 1..(Len(d) + 1) /\ 1 \in 1..(Len(c) + 1)
      BY <1>4
    <2>2. \A j \in 1..(i - 1) : j \in 1..Len(c) /\ d[j] \in T /\ c[j] \in T
      BY <1>2, <1>4, <1>5, LenProperties
    <2> QED BY <1>2, <1>4, <1>5, <2>1, <2>2, SubSeqProperties
  <1>7. \A j \in 1..(i - 1) : SubSeq(d, 1, i - 1)[j] = SubSeq(c, 1, i - 1)[j]
    BY <1>4, <1>5, <1>6
  <1>8. SubSeq(d, 1, i - 1) = SubSeq(c, 1, i - 1)
    BY <1>6, <1>7, SeqEqual
  <1> QED BY <1>1, <1>3, <1>4, <1>8

LEMMA LinkedStays ==
  ASSUME NEW S, NEW c \in Seq(S), NEW v, NEW i \in 1..Len(c), Linked(c, i)
  PROVE  Linked(Append(c, v), i)
  <1>0. Len(c) \in Nat /\ i \in 1..(Len(c) + 1)
    BY LenProperties
  <1>1. PICK d : d = Append(c, v)
    OBVIOUS
  <1>2. SubSeq(d, 1, i - 1) = SubSeq(c, 1, i - 1) /\ d[i] = c[i] /\ \A j \in 1..(i - 1) : d[j] = c[j]
    BY <1>0, <1>1, AppendKeepsParts
  <1>3. CASE i = 1
    <2>1. ~(i > 1)
      BY <1>3
    <2>2. PICK w : w = c[i] /\ w = d[i]
      BY <1>2
    <2>3. /\ ValidEvent(w.event) /\ w.digest = EventDigest(w.event)
          /\ w.event.sequence = i /\ w.event.kind = "IDENTITY" /\ w.previous = NoDigest
          /\ w.event.observed <= w.signedAt /\ w.sealed = Core(w)
          /\ Causal(w.event, PriorByKind(SubSeq(c, 1, i - 1)))
          /\ \A j \in 1..(i - 1) :
               c[j].event.id # w.event.id /\ c[j].event.kind # w.event.kind /\ c[j].event.operation = w.event.operation
      BY <1>3, <2>2, Zenon DEF Linked
    <2>4. /\ Causal(w.event, PriorByKind(SubSeq(d, 1, i - 1)))
          /\ \A j \in 1..(i - 1) :
               d[j].event.id # w.event.id /\ d[j].event.kind # w.event.kind /\ d[j].event.operation = w.event.operation
      BY <1>2, <2>3, Zenon
    <2>5. Linked(d, i)
      BY <1>3, <2>1, <2>2, <2>3, <2>4, Zenon DEF Linked
    <2> QED BY <1>1, <2>5
  <1>4. CASE i > 1
    <2>1. d[i - 1] = c[i - 1] /\ i # 1
      BY <1>2, <1>4
    <2> QED BY <1>1, <1>2, <1>4, <2>1, Zenon DEF Linked
  <1> QED BY <1>0, <1>3, <1>4

(* What append() signs is an envelope of the chain.                        *)
LEMMA SignedParts ==
  ASSUME NEW e, NEW at \in Nat, SignerUsable(at),
         e = [writer |-> e.writer, sequence |-> e.sequence, edited |-> FALSE, id |-> e.id, kind |-> e.kind,
              operation |-> e.operation, outcome |-> e.outcome, occurred |-> e.occurred, observed |-> e.observed,
              references |-> e.references]
  PROVE  LET s == SignedEnvelope(e, at) IN
         /\ Original(s) /\ s.event = e /\ s.digest = EventDigest(e) /\ s.signedAt = at /\ s.sealed = Core(s)
         /\ s.previous = IF atChain = <<>> THEN NoDigest ELSE EnvelopeDigest(Last(atChain))
  <1>1. PICK p : p = IF atChain = <<>> THEN NoDigest ELSE EnvelopeDigest(Last(atChain))
    OBVIOUS
  <1>2. PICK d, g : d = EventDigest(e) /\ g = 1
    OBVIOUS
  <1>3. PICK core : core = [event |-> e, digest |-> d, signedAt |-> at, generation |-> g, sealed |-> NoDigest, previous |-> p]
    OBVIOUS
  <1>4. PICK seal : seal = Core(core)
    OBVIOUS
  <1>5. PICK s : s = SignedEnvelope(e, at)
    OBVIOUS
  <1>6. s = [core EXCEPT !.sealed = seal]
    BY <1>1, <1>2, <1>3, <1>4, <1>5, Zenon DEF SignedEnvelope
  <1>7. s = [event |-> e, digest |-> d, signedAt |-> at, generation |-> g, sealed |-> seal, previous |-> p]
    BY <1>3, <1>6
  <1>8. Core(s) = seal
    BY <1>3, <1>4, <1>7 DEF Core
  <1>9. s.event = e /\ s.digest = d /\ s.signedAt = at /\ s.sealed = seal /\ s.previous = p
    BY <1>7
  <1>10. Original(s)
    BY <1>2, <1>7, <1>9, Zenon DEF Original
  <1> QED BY <1>1, <1>2, <1>5, <1>8, <1>9, <1>10

(* It is linked to the envelopes before it.                                *)
LEMMA SignedLinks ==
  ASSUME Chained(atChain), NEW e, NEW at, InChain(e, at), ValidEvent(e), e.observed <= at,
         NEW s, s.event = e, s.digest = EventDigest(e), s.signedAt = at, s.sealed = Core(s),
         s.previous = IF atChain = <<>> THEN NoDigest ELSE EnvelopeDigest(Last(atChain))
  PROVE  Linked(Append(atChain, s), Len(atChain) + 1)
  <1>1. PICK S : atChain \in Seq(S)
    BY Zenon DEF Chained
  <1>2. PICK n \in Nat : n = Len(atChain) /\ DOMAIN atChain = 1..n
    BY ChainParts
  <1>3. PICK d : d = Append(atChain, s)
    OBVIOUS
  <1>4. /\ SubSeq(d, 1, n) = atChain /\ d[n + 1] = s /\ \A j \in 1..n : d[j] = atChain[j]
    <2>1. n + 1 \in 1..(Len(atChain) + 1) /\ (n + 1) - 1 = n
      BY <1>2
    <2>2. SubSeq(atChain, 1, n) = atChain
      BY <1>1, <1>2, SubSeqProperties
    <2> QED BY <1>1, <1>2, <1>3, <2>1, <2>2, AppendKeepsParts
  <1>5. /\ \A i \in 1..n : atChain[i].event.id # e.id /\ atChain[i].event.kind # e.kind
        /\ e.sequence = n + 1 /\ (atChain = <<>> => e.kind = "IDENTITY") /\ Causal(e, PriorByKind(atChain))
    BY <1>2, Zenon DEF InChain
  <1>6. CASE n = 0
    <2>1. atChain = <<>>
      BY <1>1, <1>2, <1>6, EmptySeq
    <2>2. n + 1 = 1 /\ ~(n + 1 > 1) /\ (n + 1) - 1 = n /\ \A j \in 1..n : FALSE
      BY <1>6
    <2>3. e.kind = "IDENTITY" /\ s.previous = NoDigest
      BY <1>5, <2>1
    <2>4. Linked(d, n + 1)
      BY <1>4, <1>5, <2>2, <2>3, Zenon DEF Linked
    <2> QED BY <1>2, <1>3, <2>4
  <1>7. CASE n > 0
    <2>1. atChain # <<>> /\ Last(atChain) = atChain[n] /\ n \in 1..n
      BY <1>2, <1>7, EmptySeq DEF Last
    <2>2. PICK u : u = atChain[n]
      OBVIOUS
    <2>3. /\ e.operation = u.event.operation /\ e.occurred >= u.event.occurred /\ e.observed >= u.event.observed
          /\ at > u.signedAt
      BY <2>1, <2>2, Zenon DEF InChain
    <2>4. \A j \in 1..n : atChain[j].event.operation = e.operation
      <3>1. Linked(atChain, n)
        BY <1>2, <2>1, ChainParts
      <3>2. \A j \in 1..(n - 1) : atChain[j].event.operation = u.event.operation
        BY <2>2, <3>1 DEF Linked
      <3>3. \A j \in 1..n : j \in 1..(n - 1) \/ j = n
        OBVIOUS
      <3> QED BY <2>2, <2>3, <3>2, <3>3, Zenon
    <2>5. n + 1 # 1 /\ (n + 1) - 1 = n
      BY <1>7
    <2>6. s.previous = EnvelopeDigest(u) /\ d[n] = u
      BY <1>4, <2>1, <2>2
    <2>7. \A j \in 1..n : /\ d[j].event.id # e.id /\ d[j].event.kind # e.kind /\ d[j].event.operation = e.operation
      BY <1>4, <1>5, <2>4, Zenon
    <2>8. Linked(d, n + 1)
      BY <1>4, <1>5, <2>3, <2>5, <2>6, <2>7, ZenonT(60) DEF Linked
    <2> QED BY <1>2, <1>3, <2>8
  <1> QED BY <1>2, <1>6, <1>7

LEMMA NoEnvelopes == Chained(<<>>) /\ DOMAIN <<>> = {}
  <1>1. <<>> \in Seq({<<>>[i] : i \in DOMAIN <<>>}) /\ DOMAIN <<>> = {}
    BY EmptySeq
  <1> QED BY <1>1, Zenon DEF Chained

(* A checkpoint as AuditInv has it.                                        *)
CheckpointOk(checkpoint, chain, writer) ==
  LET issued == checkpoint.chain IN
  /\ issued # <<>>
  /\ checkpoint = [chain |-> issued, count |-> Len(issued), head |-> EnvelopeDigest(Last(issued)),
                   issuedAt |-> checkpoint.issuedAt]
  /\ checkpoint.issuedAt >= Last(issued).signedAt /\ SignerUsable(checkpoint.issuedAt)
  /\ checkpoint.issuedAt \in Nat
  /\ \A i \in DOMAIN issued :
       issued[i].event.writer \in 1..writer /\ (issued[i].event.writer = writer => i \in DOMAIN chain)

LEMMA AuditGives ==
  ASSUME AuditInv
  PROVE  /\ atNow \in Nat /\ atWriter \in Nat \ {0}
         /\ \A chain \in Chains : Chained(chain)
         /\ OnePlaceOne(Chains)
         /\ \A i \in DOMAIN atChain : atChain[i].event.writer = atWriter
         /\ \A chain \in atRuns : \A i \in DOMAIN chain : chain[i].event.writer \in 1..(atWriter - 1)
         /\ atCheckpoint # NoCheckpoint => CheckpointOk(atCheckpoint, atChain, atWriter)
         /\ Chained(atChain)
  <1>1. atChain \in Chains
    BY DEF Chains, Known
  <1>2. \A chain \in Chains : Chained(chain)
    BY Zenon DEF AuditInv
  <1>3. /\ atNow \in Nat /\ atWriter \in Nat \ {0}
        /\ OnePlaceOne(Chains)
        /\ \A i \in DOMAIN atChain : atChain[i].event.writer = atWriter
        /\ \A chain \in atRuns : \A i \in DOMAIN chain : chain[i].event.writer \in 1..(atWriter - 1)
    BY Zenon DEF AuditInv, OnePlaceOne
  <1>4. atCheckpoint # NoCheckpoint => CheckpointOk(atCheckpoint, atChain, atWriter)
    BY Zenon DEF AuditInv, CheckpointOk
  <1> QED BY <1>1, <1>2, <1>3, <1>4

LEMMA AuditFrom ==
  ASSUME atNow' \in Nat, atWriter' \in Nat \ {0},
         \A chain \in Chains' : Chained(chain), OnePlaceOne(Chains'),
         \A i \in DOMAIN atChain' : atChain'[i].event.writer = atWriter',
         \A chain \in atRuns' : \A i \in DOMAIN chain : chain[i].event.writer \in 1..(atWriter' - 1),
         atCheckpoint' # NoCheckpoint => CheckpointOk(atCheckpoint', atChain', atWriter')
  PROVE  AuditInv'
  BY Zenon DEF AuditInv, OnePlaceOne, CheckpointOk

(* The chains there are: the writers' and the checkpoint's.                *)
LEMMA ChainIs ==
  ASSUME NEW chain
  PROVE  chain \in Chains <=> chain = atChain \/ chain \in atRuns \/ (atCheckpoint # NoCheckpoint /\ chain = atCheckpoint.chain)
  BY DEF Chains, Known

LEMMA AuditInitial == AuditInit => AuditInv
  <1> SUFFICES ASSUME AuditInit PROVE AuditInv
    OBVIOUS
  <1>1. atNow = 0 /\ atWriter = 1 /\ atChain = <<>> /\ atRuns = {} /\ atCheckpoint = NoCheckpoint
    BY DEF AuditInit
  <1>2. \A chain \in Chains : chain = <<>>
    BY <1>1, ChainIs
  <1>3. (\A chain \in Chains : Chained(chain)) /\ \A chain \in Chains : DOMAIN chain = {}
    BY <1>2, NoEnvelopes
  <1> QED BY <1>1, <1>3, NoEnvelopes DEF AuditInv

(* A step that makes no chain but an empty one.                            *)
LEMMA NoNewChain ==
  ASSUME AuditInv, \A chain \in Chains' : chain \in Chains \/ chain = <<>>
  PROVE  (\A chain \in Chains' : Chained(chain)) /\ OnePlaceOne(Chains')
  <1>1. \A chain \in Chains' : Chained(chain) /\ (chain \in Chains \/ DOMAIN chain = {})
    BY AuditGives, NoEnvelopes
  <1>2. OnePlaceOne(Chains)
    BY AuditGives
  <1> QED BY <1>1, <1>2, Zenon DEF OnePlaceOne

LEMMA AppendedKeeps ==
  ASSUME AuditInv, NEW e, Append1(e, atNow), e.writer = atWriter,
         e = [writer |-> e.writer, sequence |-> e.sequence, edited |-> FALSE, id |-> e.id, kind |-> e.kind,
              operation |-> e.operation, outcome |-> e.outcome, occurred |-> e.occurred, observed |-> e.observed,
              references |-> e.references]
  PROVE  AuditInv'
  <1>1. PICK s : s = SignedEnvelope(e, atNow)
    OBVIOUS
  <1>2. /\ ValidEvent(e) /\ InChain(e, atNow) /\ SignerUsable(atNow) /\ e.observed <= atNow
        /\ atChain' = Append(atChain, s) /\ UNCHANGED <<atNow, atWriter, atRuns, atCheckpoint>>
    BY <1>1, Zenon DEF Append1
  <1>3. /\ atNow \in Nat /\ Chained(atChain) /\ atWriter \in Nat \ {0}
        /\ \A i \in DOMAIN atChain : atChain[i].event.writer = atWriter
    BY AuditGives
  <1>4. /\ Original(s) /\ s.event = e /\ s.digest = EventDigest(e) /\ s.signedAt = atNow /\ s.sealed = Core(s)
        /\ s.previous = IF atChain = <<>> THEN NoDigest ELSE EnvelopeDigest(Last(atChain))
    BY <1>1, <1>2, <1>3, SignedParts, Zenon
  <1>5. PICK n \in Nat : n = Len(atChain) /\ DOMAIN atChain = 1..n
    BY <1>3, ChainParts
  <1>6. PICK S : atChain \in Seq(S)
    BY <1>3, Zenon DEF Chained
  <1>7. PICK d : d = Append(atChain, s)
    OBVIOUS
  <1>8. /\ DOMAIN d = 1..(n + 1) /\ \A j \in 1..n : d[j] = atChain[j]
        /\ d[n + 1] = s /\ d \in Seq(S \cup {s}) /\ Len(d) = n + 1
    <2>1. n + 1 \in 1..(Len(atChain) + 1)
      BY <1>5
    <2> QED BY <1>5, <1>6, <1>7, <2>1, AppendKeepsParts
  <1>9. \A i \in 1..(n + 1) : i \in 1..n \/ i = n + 1
    OBVIOUS
  <1>10. Chained(d)
    <2>1. Linked(d, n + 1)
      BY <1>2, <1>3, <1>4, <1>5, <1>7, SignedLinks
    <2>2. \A i \in 1..n : Original(d[i]) /\ Linked(d, i)
      BY <1>3, <1>5, <1>6, <1>7, <1>8, ChainParts, LinkedStays
    <2>3. \A i \in DOMAIN d : Original(d[i]) /\ Linked(d, i)
      BY <1>4, <1>8, <1>9, <2>1, <2>2
    <2>4. d \in Seq({d[i] : i \in DOMAIN d})
      <3>1. d \in [1..(n + 1) -> {d[i] : i \in DOMAIN d}]
        <4>1. d \in [1..(n + 1) -> S \cup {s}]
          BY <1>8, LenProperties
        <4> QED BY <1>8, <4>1
      <3>2. n + 1 \in Nat
        BY <1>5
      <3> QED BY <3>1, <3>2, SeqDef
    <2> QED BY <2>3, <2>4, Zenon DEF Chained
  <1>11. \A chain \in Chains' : chain = d \/ chain \in Chains
    BY <1>2, <1>7 DEF Chains, Known
  <1>12. \A i \in DOMAIN d : d[i].event.writer = atWriter
    BY <1>3, <1>4, <1>5, <1>8, <1>9
  <1>13. \A chain \in Chains : n + 1 \in DOMAIN chain => chain[n + 1].event.writer # atWriter
    <2> SUFFICES ASSUME NEW chain \in Chains, n + 1 \in DOMAIN chain PROVE chain[n + 1].event.writer # atWriter
      OBVIOUS
    <2>1. n + 1 \notin DOMAIN atChain
      BY <1>5
    <2>2. CASE chain \in atRuns
      <3>1. chain[n + 1].event.writer \in 1..(atWriter - 1)
        BY <2>2, AuditGives
      <3> QED BY <1>3, <3>1
    <2>3. CASE atCheckpoint # NoCheckpoint /\ chain = atCheckpoint.chain
      BY <2>1, <2>3, AuditGives, Zenon DEF CheckpointOk
    <2> QED BY <2>1, <2>2, <2>3, ChainIs
  <1>14. OnePlaceOne(Chains')
    <2>1. OnePlaceOne(Chains) /\ atChain \in Chains
      BY AuditGives, ChainIs
    <2>2. ASSUME NEW c \in Chains, NEW i \in DOMAIN c \cap DOMAIN d, c[i].event.writer = d[i].event.writer
          PROVE  c[i] = d[i]
      <3>1. i # n + 1
        BY <1>12, <1>13, <2>2
      <3>2. i \in DOMAIN atChain /\ d[i] = atChain[i]
        BY <1>5, <1>8, <1>9, <3>1
      <3> QED BY <2>1, <2>2, <3>2 DEF OnePlaceOne
    <2>3. ASSUME NEW c \in Chains', NEW f \in Chains', NEW i \in DOMAIN c \cap DOMAIN f, c[i].event.writer = f[i].event.writer
          PROVE  c[i] = f[i]
      <3>1. CASE c \in Chains /\ f \in Chains
        BY <2>1, <2>3, <3>1 DEF OnePlaceOne
      <3>2. CASE c \in Chains /\ f = d
        BY <2>2, <2>3, <3>2
      <3>3. CASE c = d /\ f \in Chains
        BY <2>2, <2>3, <3>3
      <3>4. CASE c = d /\ f = d
        BY <3>4
      <3> QED BY <1>11, <3>1, <3>2, <3>3, <3>4
    <2> QED BY <2>3, Zenon DEF OnePlaceOne
  <1>15. \A chain \in Chains' : Chained(chain)
    BY <1>10, <1>11, AuditGives
  <1>16. DOMAIN atChain \subseteq DOMAIN atChain'
    BY <1>2, <1>5, <1>7, <1>8
  <1>17. atCheckpoint' # NoCheckpoint => CheckpointOk(atCheckpoint', atChain', atWriter')
    BY <1>2, <1>16, AuditGives, Zenon DEF CheckpointOk
  <1>18. \A i \in DOMAIN atChain' : atChain'[i].event.writer = atWriter'
    BY <1>2, <1>7, <1>12
  <1>19. /\ atNow' \in Nat /\ atWriter' \in Nat \ {0}
         /\ \A chain \in atRuns' : \A i \in DOMAIN chain : chain[i].event.writer \in 1..(atWriter' - 1)
    BY <1>2, AuditGives
  <1> QED BY <1>14, <1>15, <1>17, <1>18, <1>19, AuditFrom

LEMMA AuditKeeps ==
  ASSUME AuditInv, [AuditNext]_atVars
  PROVE  AuditInv'
  <1>0. /\ atNow \in Nat /\ atWriter \in Nat \ {0}
        /\ \A i \in DOMAIN atChain : atChain[i].event.writer = atWriter
        /\ \A chain \in atRuns : \A i \in DOMAIN chain : chain[i].event.writer \in 1..(atWriter - 1)
        /\ atCheckpoint # NoCheckpoint => CheckpointOk(atCheckpoint, atChain, atWriter)
    BY AuditGives
  <1>1. CASE AuditTick \/ UNCHANGED atVars
    <2>1. atNow' \in Nat /\ UNCHANGED <<atWriter, atChain, atRuns, atCheckpoint>>
      BY <1>0, <1>1 DEF AuditTick, atVars
    <2>2. \A chain \in Chains' : chain \in Chains \/ chain = <<>>
      BY <2>1 DEF Chains, Known
    <2> QED BY <1>0, <2>1, <2>2, NoNewChain, AuditFrom
  <1>2. ASSUME NEW kind, NEW operation, NEW outcome, NEW chain, NEW id, NEW occurred, NEW sequence,
               Append1(BroughtEvent(id, kind, operation, outcome, occurred, chain, sequence), atNow)
        PROVE  AuditInv'
    <2>1. PICK e : e = BroughtEvent(id, kind, operation, outcome, occurred, chain, sequence)
      OBVIOUS
    <2>2. PICK references : references = PriorByKind(chain)
      OBVIOUS
    <2>3. e = [writer |-> atWriter, sequence |-> sequence, edited |-> FALSE, id |-> id, kind |-> kind,
               operation |-> operation, outcome |-> outcome, occurred |-> occurred, observed |-> atNow,
               references |-> references]
      BY <2>1, <2>2 DEF BroughtEvent
    <2>4. /\ e.writer = atWriter
          /\ e = [writer |-> e.writer, sequence |-> e.sequence, edited |-> FALSE, id |-> e.id, kind |-> e.kind,
                  operation |-> e.operation, outcome |-> e.outcome, occurred |-> e.occurred, observed |-> e.observed,
                  references |-> e.references]
      BY <2>3
    <2>5. Append1(e, atNow)
      BY <1>2, <2>1
    <2> QED BY <2>4, <2>5, AppendedKeeps
  <1>3. CASE CheckpointIssued
    <2>1. /\ atChain # <<>> /\ SignerUsable(atNow) /\ atNow >= Last(atChain).signedAt
          /\ UNCHANGED <<atNow, atWriter, atChain, atRuns>>
      BY <1>3 DEF CheckpointIssued
    <2>2. PICK count, head : count = Len(atChain) /\ head = EnvelopeDigest(Last(atChain))
      OBVIOUS
    <2>3. atCheckpoint' = [chain |-> atChain, count |-> count, head |-> head, issuedAt |-> atNow]
      BY <1>3, <2>2 DEF CheckpointIssued
    <2>4. atCheckpoint'.chain = atChain /\ atCheckpoint'.issuedAt = atNow
      BY <2>3
    <2>5. \A chain \in Chains' : chain \in Chains \/ chain = <<>>
      BY <2>1, <2>4 DEF Chains, Known
    <2>6. \A i \in DOMAIN atChain : atChain[i].event.writer \in 1..atWriter
      BY <1>0
    <2>7. CheckpointOk(atCheckpoint', atChain, atWriter)
      BY <1>0, <2>1, <2>2, <2>3, <2>4, <2>6, Zenon DEF CheckpointOk
    <2> QED BY <1>0, <2>1, <2>5, <2>7, NoNewChain, AuditFrom
  <1>4. CASE WriterLost
    <2>1. /\ atRuns' = atRuns \cup {atChain} /\ atChain' = <<>> /\ atWriter' = atWriter + 1
          /\ UNCHANGED <<atNow, atCheckpoint>>
      BY <1>4 DEF WriterLost
    <2>2. \A chain \in Chains' : chain \in Chains \/ chain = <<>>
      BY <2>1 DEF Chains, Known
    <2>3. \A chain \in atRuns' : \A i \in DOMAIN chain : chain[i].event.writer \in 1..(atWriter' - 1)
      <3>1. \A w \in 1..(atWriter - 1) : w \in 1..(atWriter' - 1)
        BY <1>0, <2>1
      <3>2. atWriter \in 1..(atWriter' - 1)
        BY <1>0, <2>1
      <3> QED BY <1>0, <2>1, <3>1, <3>2
    <2>4. \A w \in 1..atWriter : w \in 1..atWriter' /\ w # atWriter'
      BY <1>0, <2>1
    <2>5. atCheckpoint' # NoCheckpoint => CheckpointOk(atCheckpoint', atChain', atWriter')
      BY <1>0, <2>1, <2>4, Zenon DEF CheckpointOk
    <2>6. atWriter' \in Nat \ {0} /\ atNow' \in Nat
      BY <1>0, <2>1
    <2>7. \A i \in DOMAIN atChain' : atChain'[i].event.writer = atWriter'
      BY <2>1, NoEnvelopes
    <2> QED BY <2>2, <2>3, <2>5, <2>6, <2>7, NoNewChain, AuditFrom
  <1> QED BY <1>1, <1>2, <1>3, <1>4 DEF AuditNext

-----------------------------------------------------------------------------
(* The doctor, its health reports and what is concluded of them             *)

LEMMA DoctorInitial ==
  ASSUME DoctorInit
  PROVE  DoctorInv
  <1>1. ServicesTyped(udServices)
    BY DEF DoctorInit, ServicesTyped, AllUp
  <1> QED BY <1>1 DEF DoctorInit, DoctorInv

(* The world's part of the invariant, and one for each document.           *)
LEMMA DoctorKeeps ==
  ASSUME DoctorInv, [DoctorNext]_udVars
  PROVE  DoctorInv'
  <1>1. CASE UNCHANGED udVars
    BY <1>1 DEF DoctorInv, udVars
  <1> SUFFICES ASSUME DoctorNext PROVE DoctorInv'
    BY <1>1
  <1>2. ASSUME UNCHANGED <<udSnapshot, udReport, udHealth, udVerdict>>,
               ServicesTyped(udServices'), udConfig' \in {"EXPECTED", "OTHER", "UNREADABLE"}, udLock' \in Locks
        PROVE  DoctorInv'
    <2>1. udVerdict' = NoObservation
      BY <1>2 DEF DoctorNext
    <2> QED BY <1>2, <2>1 DEF DoctorInv
  <1>3. CASE ServiceChanges
    <2>1. /\ UNCHANGED <<udConfig, udLock, udSnapshot, udReport, udHealth, udVerdict>>
          /\ \E s \in RequiredServices :
               \/ \E state \in {"RUNNING", "STOPPED", "UNAVAILABLE"}, health \in {"HEALTHY", "UNHEALTHY", "NOT_AVAILABLE"} :
                    udServices' = [t \in DOMAIN udServices \cup {s} |-> IF t = s THEN [state |-> state, health |-> health] ELSE udServices[t]]
               \/ udServices' = [t \in DOMAIN udServices \ {s} |-> udServices[t]]
      BY <1>3 DEF ServiceChanges, udDocuments
    <2>2. ServicesTyped(udServices)
      BY DEF DoctorInv
    <2>3. ServicesTyped(udServices')
      BY <2>1, <2>2 DEF ServicesTyped
    <2> QED BY <1>2, <2>1, <2>3 DEF DoctorInv
  <1>4. CASE SetupChanges
    <2>1. UNCHANGED <<udServices, udSnapshot, udReport, udHealth, udVerdict>>
      BY <1>4 DEF SetupChanges, udDocuments
    <2>2. udConfig' \in {"EXPECTED", "OTHER", "UNREADABLE"} /\ udLock' \in Locks
      BY <1>4 DEF SetupChanges, DoctorInv
    <2> QED BY <1>2, <2>1, <2>2 DEF DoctorInv
  <1>5. CASE SnapshotTaken
    <2>1. PICK compose \in BOOLEAN, config \in {udConfig} :
            /\ udSnapshot' = [services |-> udServices, config |-> config, lock |-> udLock, compose |-> compose]
            /\ config = udConfig
      BY <1>5 DEF SnapshotTaken
    <2>2. /\ udSnapshot = NoObservation
          /\ UNCHANGED <<udServices, udConfig, udLock, udReport, udHealth, udPlan, udReceipt, udOperations, udVerdict>>
      BY <1>5 DEF SnapshotTaken, udWorld
    <2>3. /\ udSnapshot'.services = udServices /\ udSnapshot'.config = udConfig /\ udSnapshot'.compose \in BOOLEAN
      BY <2>1
    <2>4. udVerdict' = NoObservation /\ udReport' = NoObservation
      BY <2>2 DEF DoctorInv, DoctorNext
    <2> QED BY <2>2, <2>3, <2>4 DEF DoctorInv
  <1>6. CASE DoctorRuns
    <2>1. /\ udSnapshot # NoObservation
          /\ \E profile \in {"QUICK", "STANDARD"}, late \in LateProbes, expected \in Locks :
               udReport' = Report(udSnapshot, profile, late, expected)
          /\ UNCHANGED <<udServices, udConfig, udLock, udSnapshot, udHealth, udPlan, udReceipt, udOperations, udVerdict>>
      BY <1>6 DEF DoctorRuns, udWorld
    <2>2. \E profile \in {"QUICK", "STANDARD"}, late \in LateProbes :
            udReport' = Report(udSnapshot, profile, late, udReport'.core.expected)
      <3>1. PICK profile \in {"QUICK", "STANDARD"}, late \in LateProbes, expected \in Locks :
              udReport' = Report(udSnapshot, profile, late, expected)
        BY <2>1
      <3>2. udReport'.core.expected = expected
        BY <3>1 DEF Report, Stamped
      <3> QED BY <3>1, <3>2
    <2>3. udVerdict' = NoObservation
      BY <1>6, <2>1 DEF DoctorNext, DoctorRuns, DoctorInv
    <2> QED BY <2>1, <2>2, <2>3 DEF DoctorInv
  <1>7. CASE HealthReported
    <2>1. /\ \E profile \in DOMAIN HealthChecks, complete \in BOOLEAN :
             \E statuses \in [DOMAIN HealthChecks[profile] -> {"PASS", "FAIL", "NOT_OBSERVED"}], said \in SUBSET ReasonOrder :
               udHealth' = HealthReport(profile, udLock, complete, statuses, said)
          /\ UNCHANGED <<udServices, udConfig, udLock, udSnapshot, udReport, udPlan, udReceipt, udOperations, udVerdict>>
      BY <1>7 DEF HealthReported, udWorld
    <2>2. PICK profile \in DOMAIN HealthChecks, complete \in BOOLEAN :
          \E statuses \in [DOMAIN HealthChecks[profile] -> {"PASS", "FAIL", "NOT_OBSERVED"}], said \in SUBSET ReasonOrder :
            udHealth' = HealthReport(profile, udLock, complete, statuses, said)
      BY <2>1
    <2>3. PICK statuses \in [DOMAIN HealthChecks[profile] -> {"PASS", "FAIL", "NOT_OBSERVED"}], said \in SUBSET ReasonOrder :
            udHealth' = HealthReport(profile, udLock, complete, statuses, said)
      BY <2>2
    <2>4. LET h == udHealth'.core IN
          h.profile = profile /\ h.lock = udLock /\ h.complete = complete /\ h.statuses = statuses /\ h.safe = said
      BY <2>3 DEF HealthReport, Stamped
    <2> QED BY <2>1, <2>3, <2>4 DEF DoctorInv
  <1>8. CASE OperationPlanned \/ OperationReceipted \/ OperationAskedAgain
    <2>1. UNCHANGED <<udServices, udConfig, udLock, udSnapshot, udReport, udHealth, udVerdict>>
      BY <1>8 DEF OperationPlanned, OperationReceipted, OperationAskedAgain, udWorld
    <2> QED BY <1>2, <2>1 DEF DoctorInv
  <1>9. CASE BundleVerified
    BY <1>9, Zenon DEF BundleVerified, udWorld, udDocuments, DoctorInv
  <1> QED BY <1>1, <1>3, <1>4, <1>5, <1>6, <1>7, <1>8, <1>9 DEF DoctorNext

(* The probes of a snapshot, and what a check makes of them.               *)
LEMMA ProbeOf ==
  ASSUME NEW s
  PROVE  /\ DOMAIN Probes(s) = {"installation", "runtime", "configuration", "version-lock", "health-readback"}
         /\ Probes(s)["installation"] = "MATCH" => s.compose
         /\ Probes(s)["configuration"] = "MATCH" => s.config \notin {"UNREADABLE", "OTHER"}
         /\ Probes(s)["runtime"] = "MATCH" =>
              \A t \in RequiredServices : t \in DOMAIN s.services /\ s.services[t].state \notin {"UNAVAILABLE", "STOPPED"}
         /\ Probes(s)["health-readback"] = "MATCH" =>
              \A t \in RequiredServices : t \in DOMAIN s.services /\ s.services[t].health \notin {"NOT_AVAILABLE", "UNHEALTHY"}
  BY DEF Probes, QuickProbes, ToSet, Worst

LEMMA CheckPasses ==
  ASSUME NEW probes, NEW id, NEW late, NEW observed, NEW expected
  PROVE  /\ Check(probes, id, late, observed, expected).id = id
         /\ Check(probes, id, late, observed, expected).status = "PASS" =>
              /\ id \in DOMAIN probes
              /\ id # "version-lock" => probes[id] = "MATCH"
              /\ id = "version-lock" => observed = expected
  BY DEF Check, Worst

LEMMA ReportPasses ==
  ASSUME NEW s, NEW profile, NEW late, NEW expected, NEW id \in Passed(Report(s, profile, late, expected))
  PROVE  /\ id \in DOMAIN Probes(s)
         /\ id # "version-lock" => Probes(s)[id] = "MATCH"
         /\ id = "version-lock" => s.lock = expected
  <1> DEFINE ids == IF profile = "QUICK" THEN QuickProbes ELSE StandardProbes
             checks == [i \in DOMAIN ids |-> Check(Probes(s), ids[i], late, s.lock, expected)]
  <1>1. Report(s, profile, late, expected).core.checks = checks
    BY DEF Report, Stamped
  <1>2. PICK c \in ToSet(checks) : c.status = "PASS" /\ c.id = id
    BY <1>1 DEF Passed
  <1>3. PICK i \in DOMAIN ids : c = Check(Probes(s), ids[i], late, s.lock, expected)
    BY <1>2 DEF ToSet
  <1> QED BY <1>2, <1>3, CheckPasses

LEMMA HealthIsSound ==
  ASSUME NEW said, NEW profile0 \in DOMAIN HealthChecks, NEW lock0, NEW complete0 \in BOOLEAN,
         NEW statuses \in [DOMAIN HealthChecks[profile0] -> {"PASS", "FAIL", "NOT_OBSERVED"}],
         NEW h, h = HealthReport(profile0, lock0, complete0, statuses, said),
         NEW lock, NEW complete \in BOOLEAN, NEW profile
  PROVE  HealthIsSaid(h, lock, complete, profile)
  <1>1. h.core.statuses = statuses
    BY DEF HealthReport, Stamped
  <1>2. 1 \in DOMAIN HealthChecks[profile0]
    BY DEF HealthChecks
  <1>3. ToSet(statuses) \subseteq {"PASS", "FAIL", "NOT_OBSERVED"} /\ ToSet(statuses) # {}
    BY <1>2 DEF ToSet
  <1>4. HealthIssues(complete, statuses) = {} <=> complete /\ ToSet(statuses) = {"PASS"}
    <2>1. "LKG_INCOMPLETE" \in HealthIssues(complete, statuses) <=> ~complete
      BY DEF HealthIssues, ReasonOrder
    <2>2. "HEALTH_CHECK_FAILED" \in HealthIssues(complete, statuses) <=> "FAIL" \in ToSet(statuses)
      BY DEF HealthIssues, ReasonOrder
    <2>3. "HEALTH_CHECK_UNOBSERVED" \in HealthIssues(complete, statuses) <=> "NOT_OBSERVED" \in ToSet(statuses)
      BY DEF HealthIssues, ReasonOrder
    <2>4. HealthIssues(complete, statuses) \subseteq {"LKG_INCOMPLETE", "HEALTH_CHECK_FAILED", "HEALTH_CHECK_UNOBSERVED"}
      BY DEF HealthIssues, ReasonOrder
    <2> QED BY <1>3, <2>1, <2>2, <2>3, <2>4
  <1>5. PICK issues : issues = HealthIssues(complete, statuses)
    OBVIOUS
  <1>6. /\ HealthVerdict(h, lock, complete, profile) \in {"ACCEPTED", "SAFE_MODE"} => h.core.lock = lock /\ h.core.safe = issues
        /\ HealthVerdict(h, lock, complete, profile) = "ACCEPTED" => issues = {}
        /\ HealthVerdict(h, lock, complete, profile) = "SAFE_MODE" => issues # {}
    BY <1>1, <1>5 DEF HealthVerdict
  <1> QED BY <1>1, <1>4, <1>5, <1>6 DEF HealthIsSaid

LEMMA BundlesAreOne ==
  ASSUME NEW lock, NEW plan, NEW report, NEW receipt, BundleReasons(lock, plan, report, receipt) = {}
  PROVE  /\ plan.core.from = lock /\ plan.core.target = lock /\ report.core.lock = lock
         /\ receipt.core.plan = plan /\ receipt.core.before = lock /\ receipt.core.after = lock
  <1>1. "MUTATION_CLAIM_DENIED" \notin BundleReasons(lock, plan, report, receipt)
    OBVIOUS
  <1> QED BY <1>1 DEF BundleReasons

LEMMA ReportsAreSeen ==
  ASSUME DoctorInv
  PROVE  ReportsSayWhatWasSeen
  <1>1. ASSUME udReport # NoObservation
        PROVE  LET All(field, value) == \A s \in RequiredServices : s \in DOMAIN udSnapshot.services /\ udSnapshot.services[s][field] = value
                   passed == Passed(udReport)
               IN /\ "runtime" \in passed => All("state", "RUNNING")
                  /\ "health-readback" \in passed => All("health", "HEALTHY")
                  /\ "configuration" \in passed => udSnapshot.config = "EXPECTED"
                  /\ "version-lock" \in passed => udSnapshot.lock = udReport.core.expected
                  /\ "installation" \in passed => udSnapshot.compose
                  /\ ~(ToSet(StandardProbes) \subseteq passed)
    <2>0. \E profile, late : udReport = Report(udSnapshot, profile, late, udReport.core.expected)
      BY <1>1, Zenon DEF DoctorInv
    <2>1. PICK profile, late, expected : udReport = Report(udSnapshot, profile, late, expected)
      BY <2>0
    <2>2. /\ ServicesTyped(udSnapshot.services) /\ udSnapshot.config \in {"EXPECTED", "OTHER", "UNREADABLE"}
      BY <1>1 DEF DoctorInv
    <2>3. udReport.core.expected = expected
      BY <2>1 DEF Report, Stamped
    <2>4. \A id \in Passed(udReport) :
            /\ id \in DOMAIN Probes(udSnapshot)
            /\ id # "version-lock" => Probes(udSnapshot)[id] = "MATCH"
            /\ id = "version-lock" => udSnapshot.lock = expected
      BY <2>1, ReportPasses
    <2>5. "storage" \in ToSet(StandardProbes) /\ "storage" \notin DOMAIN Probes(udSnapshot)
      <3>1. StandardProbes[6] = "storage" /\ 6 \in DOMAIN StandardProbes
        BY DEF StandardProbes, QuickProbes
      <3> QED BY <3>1, ProbeOf DEF ToSet
    <2>6. "runtime" \in Passed(udReport) =>
            \A s \in RequiredServices : s \in DOMAIN udSnapshot.services /\ udSnapshot.services[s].state = "RUNNING"
      BY <2>2, <2>4, ProbeOf DEF ServicesTyped
    <2>7. "health-readback" \in Passed(udReport) =>
            \A s \in RequiredServices : s \in DOMAIN udSnapshot.services /\ udSnapshot.services[s].health = "HEALTHY"
      BY <2>2, <2>4, ProbeOf DEF ServicesTyped
    <2>8. "configuration" \in Passed(udReport) => udSnapshot.config = "EXPECTED"
      BY <2>2, <2>4, ProbeOf
    <2>9. "installation" \in Passed(udReport) => udSnapshot.compose
      BY <2>4, ProbeOf
    <2> QED BY <2>3, <2>4, <2>5, <2>6, <2>7, <2>8, <2>9
  <1>2. ASSUME udHealth # NoObservation, NEW lock, NEW complete \in BOOLEAN, NEW profile
        PROVE  HealthIsSaid(udHealth, lock, complete, profile)
    <2>1. LET h == udHealth.core IN
          /\ h.profile \in DOMAIN HealthChecks /\ h.complete \in BOOLEAN
          /\ h.statuses \in [DOMAIN HealthChecks[h.profile] -> {"PASS", "FAIL", "NOT_OBSERVED"}]
          /\ udHealth = HealthReport(h.profile, h.lock, h.complete, h.statuses, h.safe)
      BY <1>2, Zenon DEF DoctorInv
    <2> QED BY <1>2, <2>1, HealthIsSound
  <1>3. ASSUME udVerdict # NoObservation, udVerdict.accepted
        PROVE  /\ udReceipt.core.plan = udPlan /\ udPlan.core.target = udPlan.core.from
               /\ {udPlan.core.from, udSnapshot.lock, udReceipt.core.before, udReceipt.core.after} = {udVerdict.lock}
    <2>0. \E profile, late : udReport = Report(udSnapshot, profile, late, udReport.core.expected)
      BY <1>3, Zenon DEF DoctorInv
    <2>1. PICK profile, late, expected : udReport = Report(udSnapshot, profile, late, expected)
      BY <2>0
    <2>2. PICK good : udVerdict = [lock |-> udLock, accepted |-> good] /\ good = (BundleReasons(udLock, udPlan, udReport, udReceipt) = {})
      BY <1>3, Zenon DEF DoctorInv
    <2>3. udVerdict.lock = udLock /\ BundleReasons(udLock, udPlan, udReport, udReceipt) = {}
      BY <1>3, <2>2
    <2>4. udReport.core.lock = udSnapshot.lock
      BY <2>1 DEF Report, Stamped
    <2> QED BY <2>3, <2>4, BundlesAreOne
  <1> QED BY <1>1, <1>2, <1>3 DEF ReportsSayWhatWasSeen

-----------------------------------------------------------------------------
(* The update plan                                                          *)

(* A plan's parts; and those of one that was edited.                       *)
PlanOf(c, cd, d, l, ld, s, n) ==
  [candidate |-> [core |-> c, digest |-> cd], decision |-> d, lkg |-> [core |-> l, digest |-> ld], safe |-> s,
   executes |-> FALSE, widened |-> FALSE, at |-> n]

LEMMA EditedParts ==
  ASSUME NEW c, NEW cd, NEW d, NEW l, NEW ld, NEW s, NEW n, NEW lkg, d = Decision(c, lkg),
         NEW field \in {"NONE", "tuple", "promoter", "age", "verdict", "subject", "safe"}
  PROVE  \E c1, d1, l1, s1 :
           /\ Edit(PlanOf(c, cd, d, l, ld, s, n), field) = PlanOf(c1, cd, d1, l1, ld, s1, n)
           /\ field \notin {"verdict", "subject"} => d1 = d
           /\ field # "verdict" => \E l2 : d1.core = Decision(c, l2).core
  <1> DEFINE core == PlanOf(c, cd, d, l, ld, s, n)
  <1>1. \E l2 : d.core = Decision(c, l2).core
    OBVIOUS
  <1>2. CASE field = "NONE"
    BY <1>1, <1>2 DEF Edit
  <1>3. CASE field = "tuple"
    <2>1. Edit(core, field) = PlanOf(OtherTuple(c), cd, d, l, ld, s, n)
      BY <1>3 DEF Edit, PlanOf
    <2> QED BY <1>1, <1>3, <2>1
  <1>4. CASE field = "promoter"
    <2>1. Edit(core, field) = PlanOf([c EXCEPT !.promotedBy = "promoter:other"], cd, d, l, ld, s, n)
      BY <1>4 DEF Edit, PlanOf
    <2> QED BY <1>1, <1>4, <2>1
  <1>5. CASE field = "age"
    <2>1. Edit(core, field) = PlanOf(c, cd, d, [l EXCEPT !.at = MaxUpdateTime], ld, s, n)
      BY <1>5 DEF Edit, PlanOf
    <2> QED BY <1>1, <1>5, <2>1
  <1>6. CASE field = "safe"
    <2>1. Edit(core, field) = PlanOf(c, cd, d, l, ld, {}, n)
      BY <1>6 DEF Edit, PlanOf
    <2> QED BY <1>1, <1>6, <2>1
  <1>7. CASE field = "verdict"
    <2>1. PICK d1 : d1 = [d EXCEPT !.core.says = [verdict |-> "COMPATIBLE", added |-> {}, removed |-> {}]]
      OBVIOUS
    <2>2. Edit(core, field) = PlanOf(c, cd, d1, l, ld, s, n)
      BY <1>7, <2>1 DEF Edit, PlanOf
    <2> QED BY <1>7, <2>2
  <1>8. CASE field = "subject"
    <2>1. PICK d1 : d1 = [d EXCEPT !.core.lkg.core.at = MaxUpdateTime]
      OBVIOUS
    <2>2. Edit(core, field) = PlanOf(c, cd, d1, l, ld, s, n)
      BY <1>8, <2>1 DEF Edit, PlanOf
    <2>3. \E l2 : d1.core = Decision(c, l2).core
      <3>1. PICK a, says, l2 : a = CandidateDocument(c) /\ says = Decide(c) /\ l2 = [lkg EXCEPT !.core.at = MaxUpdateTime]
        OBVIOUS
      <3>2. PICK by : by = Trusted.resolvedBy
        OBVIOUS
      <3>3. d = [core |-> [candidate |-> a, lkg |-> lkg, resolvedBy |-> by, says |-> says],
                 digest |-> [candidate |-> a, lkg |-> lkg, resolvedBy |-> by, says |-> says]]
        BY <3>1, <3>2 DEF Decision, Digested
      <3>4. d1.core = [candidate |-> a, lkg |-> l2, resolvedBy |-> by, says |-> says]
        BY <2>1, <3>1, <3>3
      <3> QED BY <3>1, <3>2, <3>4 DEF Decision, Digested
    <2> QED BY <1>8, <2>2, <2>3
  <1> QED BY <1>2, <1>3, <1>4, <1>5, <1>6, <1>7, <1>8

LEMMA UpdateInitial ==
  ASSUME UpdateInit
  PROVE  UpdateInv
  BY DEF UpdateInit, UpdateInv, LkgKnown

(* A decision names what it is of.                                         *)
LEMMA DecisionParts ==
  ASSUME NEW c, NEW l, NEW d, d = Decision(c, l)
  PROVE  d = Decision(d.core.candidate.core, d.core.lkg)
  <1>1. PICK says, by, a : says = Decide(c) /\ by = Trusted.resolvedBy /\ a = CandidateDocument(c)
    OBVIOUS
  <1>2. d = [core |-> [candidate |-> a, lkg |-> l, resolvedBy |-> by, says |-> says],
             digest |-> [candidate |-> a, lkg |-> l, resolvedBy |-> by, says |-> says]]
    BY <1>1 DEF Decision, Digested
  <1>3. d.core.candidate = a /\ d.core.lkg = l
    BY <1>2
  <1>4. a.core = c
    BY <1>1 DEF CandidateDocument, Digested
  <1> QED BY <1>3, <1>4, Zenon

(* A plan as it arrives.                                                   *)
LEMMA PlanArrivesWhole ==
  ASSUME UpdateInv, NEW c, NEW change \in Changes, upEdited' = change,
         upPlan' = IF change.sealed THEN SealedAgain(Edit(IssuedPlan(c), change.field))
                   ELSE [core |-> Edit(IssuedPlan(c), change.field), digest |-> IssuedPlan(c)]
  PROVE  PlanArrived(upPlan.core)'
  <1>1. PICK n, t : upLkg = Lkg(n, t)
    BY Zenon DEF UpdateInv, LkgKnown
  <1>2. PICK l, s, d : l = upLkg.core /\ s = SafeModeOf(upLkg.core.tuple) /\ d = Decision(c, upLkg)
    OBVIOUS
  <1>3. upLkg = [core |-> l, digest |-> l]
    BY <1>1, <1>2 DEF Lkg, Digested
  <1>4. IssuedPlan(c) = PlanOf(c, c, d, l, l, s, upNow)
    BY <1>2, <1>3 DEF IssuedPlan, PlanOf, CandidateDocument, Digested
  <1>5. change.field \in {"NONE", "tuple", "promoter", "age", "verdict", "subject", "safe"}
    BY DEF Changes
  <1>6. PICK c1, d1, l1, s1 :
          /\ Edit(IssuedPlan(c), change.field) = PlanOf(c1, c, d1, l1, l, s1, upNow)
          /\ change.field \notin {"verdict", "subject"} => d1 = d
          /\ change.field # "verdict" => \E l2 : d1.core = Decision(c, l2).core
    BY <1>2, <1>4, <1>5, EditedParts
  <1>7. upNow \in Nat
    BY DEF UpdateInv
  <1>8. CASE change.sealed
    <2>1. upPlan'.core = [PlanOf(c1, c, d1, l1, l, s1, upNow) EXCEPT !.candidate = Digested(@.core), !.lkg = Digested(@.core),
                                                                      !.decision = Digested(@.core)]
      BY <1>6, <1>8 DEF SealedAgain, Digested
    <2>5. PICK core : core = d1.core
      OBVIOUS
    <2>6. upPlan'.core = PlanOf(c1, c1, [core |-> core, digest |-> core], l1, l1, s1, upNow)
      BY <2>1, <2>5, ZenonT(60) DEF PlanOf, Digested
    <2>2. /\ upPlan'.core.at = upNow
          /\ upPlan'.core.candidate = Digested(c1) /\ upPlan'.core.lkg = Digested(l1)
          /\ upPlan'.core.decision = Digested(d1.core)
      BY <2>5, <2>6 DEF PlanOf, Digested
    <2>3. change.field # "verdict" => \E l2 : upPlan'.core.decision = Decision(c, l2)
      BY <1>6, <2>2 DEF Decision, Digested
    <2>7. /\ upPlan'.core.candidate.core = c1 /\ upPlan'.core.candidate.digest = c1
          /\ upPlan'.core.lkg.core = l1 /\ upPlan'.core.lkg.digest = l1
      BY <2>2 DEF Digested
    <2>4. change # [field |-> "verdict", sealed |-> TRUE] => change.field # "verdict"
      BY <1>8 DEF Changes
    <2>8. ASSUME change # [field |-> "verdict", sealed |-> TRUE]
          PROVE  upPlan'.core.decision = Decision(upPlan'.core.decision.core.candidate.core, upPlan'.core.decision.core.lkg)
      BY <2>3, <2>4, <2>8, DecisionParts
    <2>9. upPlan'.core.candidate = [core |-> c1, digest |-> c1] /\ upPlan'.core.lkg = [core |-> l1, digest |-> l1]
      BY <2>2 DEF Digested
    <2> QED BY <1>7, <2>2, <2>7, <2>8, <2>9, Zenon DEF PlanArrived
  <1>9. CASE ~change.sealed
    <2>1. change.field \in {"NONE", "tuple"}
      BY <1>9 DEF Changes
    <2>2. upPlan'.core = PlanOf(c1, c, d, l1, l, s1, upNow)
      BY <1>6, <1>9, <2>1
    <2>3. /\ upPlan'.core.at = upNow /\ upPlan'.core.decision = Decision(c, upLkg)
          /\ upPlan'.core.candidate = [core |-> c1, digest |-> c] /\ upPlan'.core.lkg = [core |-> l1, digest |-> l]
      BY <1>2, <2>2 DEF PlanOf
    <2>4. /\ upPlan'.core.candidate.core = c1 /\ upPlan'.core.candidate.digest = c
          /\ upPlan'.core.lkg.core = l1 /\ upPlan'.core.lkg.digest = l
      BY <2>3
    <2>5. upPlan'.core.decision = Decision(upPlan'.core.decision.core.candidate.core, upPlan'.core.decision.core.lkg)
      BY <2>3, DecisionParts
    <2> QED BY <1>7, <2>3, <2>4, <2>5, Zenon DEF PlanArrived
  <1> QED BY <1>8, <1>9

LEMMA UpdateKeeps ==
  ASSUME UpdateInv, [UpdateNext]_upVars
  PROVE  UpdateInv'
  <1>0. /\ upNow \in Nat /\ \A r \in upRevoked : r.at \in Nat
        /\ LkgKnown(upLkg)
        /\ upPlan # NoUpdate => PlanArrived(upPlan.core)
        /\ upContext # NoUpdate => ContextHolds(upContext)
    BY DEF UpdateInv
  <1>1. CASE UNCHANGED upVars
    BY <1>1, Zenon DEF UpdateInv, PlanArrived, ContextHolds, LkgKnown, upVars
  <1> SUFFICES ASSUME UpdateNext PROVE UpdateInv'
    BY <1>1
  <1>2. upVerdict = NoUpdate
    BY DEF UpdateNext
  <1>3. CASE UpdateTimePasses
    <2>1. upNow' = upNow + 1 /\ UNCHANGED <<upLkg, upRevoked, upPlan, upContext, upEdited, upVerdict>>
      BY <1>3 DEF UpdateTimePasses
    <2>2. upNow' \in Nat /\ 0..upNow \subseteq 0..upNow'
      BY <1>0, <2>1
    <2>5. \A l : LkgKnown(l) => LkgKnown(l)'
      BY <2>2 DEF LkgKnown
    <2>3. (upContext # NoUpdate => ContextHolds(upContext))'
      BY <1>0, <2>1, <2>2, <2>5, Zenon DEF ContextHolds
    <2>6. LkgKnown(upLkg)'
      BY <1>0, <2>1, <2>5, Zenon
    <2>4. (upPlan # NoUpdate => PlanArrived(upPlan.core))'
      BY <1>0, <2>1, Zenon DEF PlanArrived
    <2> QED BY <1>0, <1>2, <2>1, <2>2, <2>3, <2>4, <2>6, Zenon DEF UpdateInv
  <1>4. CASE LkgObserved
    <2>1. upLkg' \in {Lkg(upNow, t) : t \in LkgTuples} /\ UNCHANGED <<upNow, upRevoked, upPlan, upContext, upEdited, upVerdict>>
      BY <1>4 DEF LkgObserved
    <2>2. LkgKnown(upLkg)'
      BY <1>0, <2>1 DEF LkgKnown
    <2>3. (upContext # NoUpdate => ContextHolds(upContext))'
      BY <1>0, <2>1, Zenon DEF ContextHolds, LkgKnown
    <2>4. (upPlan # NoUpdate => PlanArrived(upPlan.core))'
      BY <1>0, <2>1, Zenon DEF PlanArrived
    <2> QED BY <1>0, <1>2, <2>1, <2>2, <2>3, <2>4 DEF UpdateInv
  <1>5. CASE LkgRevoked
    <2>1. PICK r : r = [lkg |-> upLkg, at |-> upNow]
      OBVIOUS
    <2>2. upRevoked' = {r} /\ upRevoked = {} /\ UNCHANGED <<upNow, upLkg, upPlan, upContext, upEdited, upVerdict>>
      BY <1>5, <2>1 DEF LkgRevoked
    <2>3. r.at = upNow
      BY <2>1
    <2>4. \A n \in 0..upNow : upNow >= n
      BY <1>0
    <2>5. (upContext # NoUpdate => ContextHolds(upContext))'
      BY <1>0, <2>2, <2>3, <2>4 DEF ContextHolds, LkgKnown
    <2>6. (upPlan # NoUpdate => PlanArrived(upPlan.core))'
      BY <1>0, <2>2, Zenon DEF PlanArrived
    <2> QED BY <1>0, <1>2, <2>2, <2>3, <2>5, <2>6 DEF UpdateInv, LkgKnown
  <1>6. CASE PlanArrives
    <2>1. UNCHANGED <<upNow, upLkg, upRevoked, upContext, upVerdict>>
      BY <1>6 DEF PlanArrives
    <2>2. (upContext # NoUpdate => ContextHolds(upContext))'
      BY <1>0, <2>1, Zenon DEF ContextHolds, LkgKnown
    <2>3. PlanArrived(upPlan.core)'
      BY <1>6, PlanArrivesWhole DEF PlanArrives
    <2> QED BY <1>0, <1>2, <2>1, <2>2, <2>3 DEF UpdateInv, LkgKnown
  <1>7. ASSUME NEW lkg, lkg = upLkg
        PROVE  /\ RevocationOf(lkg).at \in 0..upNow
               /\ ~RevocationOf(lkg).revoked => \A r \in upRevoked : r.lkg = RevocationOf(lkg).lkg => r.at >= RevocationOf(lkg).at
    <2>1. PICK revoked : revoked = \E r \in upRevoked : r.lkg = lkg
      OBVIOUS
    <2>2. RevocationOf(lkg) = [lkg |-> lkg, revoked |-> revoked, at |-> upNow]
      BY <2>1, Zenon DEF RevocationOf
    <2>3. RevocationOf(lkg).lkg = lkg /\ RevocationOf(lkg).revoked = revoked /\ RevocationOf(lkg).at = upNow
      BY <2>2
    <2> QED BY <1>0, <2>1, <2>3
  <1>8. CASE ContextTaken
    <2>1. /\ upContext' \in {[candidate |-> CandidateDocument(c), lkg |-> upLkg, at |-> upNow, revocation |-> RevocationOf(upLkg)] : c \in Candidates}
          /\ UNCHANGED <<upNow, upLkg, upRevoked, upPlan, upEdited, upVerdict>>
      BY <1>8 DEF ContextTaken
    <2>2. PICK c, d, v :
            c \in Candidates /\ d = CandidateDocument(c) /\ v = RevocationOf(upLkg) /\ upContext' = [candidate |-> d, lkg |-> upLkg, at |-> upNow, revocation |-> v]
      BY <2>1
    <2>3. c \in Candidates /\ upContext'.candidate = CandidateDocument(c) /\ upContext'.lkg = upLkg /\ upContext'.at = upNow /\ upContext'.revocation = v
      BY <2>2
    <2>4. ContextHolds(upContext)'
      BY <1>0, <1>7, <2>1, <2>2, <2>3, Zenon DEF ContextHolds, LkgKnown
    <2>5. (upPlan # NoUpdate => PlanArrived(upPlan.core))'
      BY <1>0, <2>1, Zenon DEF PlanArrived
    <2> QED BY <1>0, <1>2, <2>1, <2>4, <2>5 DEF UpdateInv, LkgKnown
  <1>9. CASE RevocationRead
    <2>1. /\ upContext # NoUpdate /\ upContext' = [upContext EXCEPT !.revocation = RevocationOf(upLkg)]
          /\ UNCHANGED <<upNow, upLkg, upRevoked, upPlan, upEdited, upVerdict>>
      BY <1>9 DEF RevocationRead
    <2>2. ContextHolds(upContext)
      BY <1>0, <2>1
    <2>3. PICK x, v : x = upContext /\ v = RevocationOf(upLkg)
      OBVIOUS
    <2>4. upContext'.at = x.at /\ upContext'.candidate = x.candidate /\ upContext'.lkg = x.lkg
      BY <2>1, <2>3
    <2>6. upContext'.revocation = v
      <3>1. PICK a, b, c, d : x = [candidate |-> a, lkg |-> b, at |-> c, revocation |-> d]
        BY <2>2, <2>3, Zenon DEF ContextHolds
      <3> QED BY <2>1, <2>3, <3>1
    <2>8. upContext' = [candidate |-> x.candidate, lkg |-> x.lkg, at |-> x.at, revocation |-> v]
      <3>1. PICK a, b, c, d : x = [candidate |-> a, lkg |-> b, at |-> c, revocation |-> d]
        BY <2>2, <2>3, Zenon DEF ContextHolds
      <3>2. x.candidate = a /\ x.lkg = b /\ x.at = c
        BY <3>1
      <3>3. upContext' = [candidate |-> a, lkg |-> b, at |-> c, revocation |-> v]
        BY <2>1, <2>3, <3>1
      <3> QED BY <3>2, <3>3, Zenon
    <2>7. ContextHolds(upContext)'
      BY <1>0, <1>7, <2>1, <2>2, <2>3, <2>4, <2>6, <2>8, Zenon DEF ContextHolds, LkgKnown
    <2>5. (upPlan # NoUpdate => PlanArrived(upPlan.core))'
      BY <1>0, <2>1, Zenon DEF PlanArrived
    <2> QED BY <1>0, <1>2, <2>1, <2>7, <2>5 DEF UpdateInv, LkgKnown
  <1>10. CASE PlanVerified
    <2>1. /\ upPlan # NoUpdate /\ upContext # NoUpdate
          /\ upVerdict' = PlanVerdict(upPlan, upContext).outcome
          /\ UNCHANGED <<upNow, upLkg, upRevoked, upPlan, upContext, upEdited>>
      BY <1>10, Zenon DEF PlanVerified
    <2>2. (upPlan # NoUpdate => PlanArrived(upPlan.core))' /\ (upContext # NoUpdate => ContextHolds(upContext))'
      BY <1>0, <2>1, Zenon DEF PlanArrived, ContextHolds, LkgKnown
    <2> QED BY <1>0, <2>1, <2>2, Zenon DEF UpdateInv, LkgKnown
  <1> QED BY <1>3, <1>4, <1>5, <1>6, <1>8, <1>9, <1>10 DEF UpdateNext

(* What a plan that is rendered passed.                                    *)
LEMMA RenderedPasses ==
  ASSUME NEW plan, NEW x, PlanVerdict(plan, x).outcome \in {"ACCEPTED", "SAFE_MODE"}
  PROVE  /\ DigestsHold(plan, x) /\ AuthoritiesBound(plan.core, x) /\ RevocationBound(plan.core, x)
         /\ ~(plan.core.at < plan.core.lkg.core.at) /\ ~(plan.core.at > x.at) /\ ~Stale(plan.core.lkg.core, x)
         /\ ~x.revocation.revoked
         /\ plan.core.decision.core.lkg = plan.core.lkg /\ plan.core.decision.core.candidate = plan.core.candidate
         /\ plan.core.decision.core.says.verdict = "COMPATIBLE"
         /\ (PlanVerdict(plan, x).outcome = "SAFE_MODE") = ~TupleComplete(x.lkg.core.tuple)
  <1>1. Reasons(plan, x) = {}
    BY DEF PlanVerdict
  <1>2. PICK issues : issues = SafeModeOf(x.lkg.core.tuple)
    OBVIOUS
  <1>3. (PlanVerdict(plan, x).outcome = "SAFE_MODE") <=> issues # {}
    BY <1>1, <1>2 DEF PlanVerdict
  <1>4. issues # {} <=> ~TupleComplete(x.lkg.core.tuple)
    BY <1>2 DEF SafeModeOf
  <1>5. \A r \in DOMAIN Reason(plan, x) : ~Reason(plan, x)[r]
    BY <1>1 DEF Reasons
  <1>6. /\ ~Reason(plan, x).DIGEST_MISMATCH_DENIED /\ ~Reason(plan, x).AUTHORITY_BINDING_DENIED
        /\ ~Reason(plan, x).LKG_REVOCATION_DENIED /\ ~Reason(plan, x).LKG_FRESHNESS_DENIED
        /\ ~Reason(plan, x).COMPATIBILITY_DENIED
    BY <1>5 DEF Reason
  <1>7. DigestsHold(plan, x) /\ AuthoritiesBound(plan.core, x)
    BY <1>6 DEF Reason
  <1>8. RevocationBound(plan.core, x) /\ ~x.revocation.revoked
    BY <1>6 DEF Reason
  <1>9. ~(plan.core.at < plan.core.lkg.core.at) /\ ~(plan.core.at > x.at) /\ ~Stale(plan.core.lkg.core, x)
    BY <1>6 DEF Reason
  <1>10. /\ plan.core.decision.core.lkg = plan.core.lkg /\ plan.core.decision.core.candidate = plan.core.candidate
         /\ plan.core.decision.core.says.verdict = "COMPATIBLE"
    BY <1>6 DEF Reason
  <1> QED BY <1>3, <1>4, <1>7, <1>8, <1>9, <1>10, Zenon

(* One more actor than there were.                                         *)
LEMMA OneMoreActor ==
  ASSUME NEW S, NEW b, NEW c, NEW d, S = {b, c, d}, NEW a, a \notin S
  PROVE  Cardinality(S \cup {a}) = Cardinality(S) + 1
  <1>1. IsFiniteSet({}) /\ IsFiniteSet({} \cup {b}) /\ IsFiniteSet(({} \cup {b}) \cup {c})
    BY FS_EmptySet, FS_AddElement
  <1>2. IsFiniteSet((({} \cup {b}) \cup {c}) \cup {d}) /\ (({} \cup {b}) \cup {c}) \cup {d} = S
    BY <1>1, FS_AddElement
  <1> QED BY <1>2, FS_AddElement

LEMMA RenderedIsWitnessed ==
  ASSUME UpdateInv
  PROVE  RenderedPlansAreWitnessed
  <1> SUFFICES ASSUME upVerdict \in {"ACCEPTED", "SAFE_MODE"} PROVE RenderedPlansAreWitnessed
    BY DEF RenderedPlansAreWitnessed
  <1>1. /\ PlanArrived(upPlan.core) /\ ContextHolds(upContext)
        /\ upVerdict = PlanVerdict(upPlan, upContext).outcome
    BY UpdateAssumption DEF UpdateInv
  <1>2. PICK plan, x, p : plan = upPlan /\ x = upContext /\ p = upPlan.core
    OBVIOUS
  <1>3. /\ DigestsHold(plan, x) /\ AuthoritiesBound(p, x) /\ RevocationBound(p, x)
        /\ ~(p.at < p.lkg.core.at) /\ ~(p.at > x.at) /\ ~Stale(p.lkg.core, x)
        /\ ~x.revocation.revoked
        /\ p.decision.core.lkg = p.lkg /\ p.decision.core.candidate = p.candidate
        /\ p.decision.core.says.verdict = "COMPATIBLE"
        /\ (upVerdict = "SAFE_MODE") = ~TupleComplete(x.lkg.core.tuple)
    BY <1>1, <1>2, RenderedPasses
  <1>4. PICK c \in Candidates, n \in Nat, t \in LkgTuples : x.candidate = CandidateDocument(c) /\ x.lkg = Lkg(n, t)
    BY <1>1, <1>2 DEF ContextHolds, LkgKnown
  <1>5. p.candidate = x.candidate /\ p.candidate.core = c
    <2>1. PICK b, d : p.candidate = [core |-> b, digest |-> d]
      BY <1>1, <1>2, Zenon DEF PlanArrived
    <2>2. x.candidate = [core |-> c, digest |-> c]
      BY <1>4 DEF CandidateDocument, Digested
    <2>3. DigestHolds(p.candidate) /\ p.candidate.digest = x.candidate.digest
      BY <1>2, <1>3 DEF DigestsHold
    <2> QED BY <2>1, <2>2, <2>3 DEF DigestHolds
  <1>6. p.lkg = x.lkg /\ p.lkg.core.at = n
    <2>1. PICK b, d : p.lkg = [core |-> b, digest |-> d]
      BY <1>1, <1>2, Zenon DEF PlanArrived
    <2>2. PICK l : x.lkg = [core |-> l, digest |-> l] /\ l.at = n
      <3>1. PICK l, complete : /\ l = [id |-> "lkg", release |-> n, tuple |-> t, tupleDigest |-> t, state |-> complete,
                                       authority |-> LkgAuthority, at |-> n, stale |-> FALSE, revoked |-> FALSE]
                               /\ complete = IF TupleComplete(t) THEN "COMPLETE" ELSE "INCOMPLETE"
        OBVIOUS
      <3>2. x.lkg = [core |-> l, digest |-> l]
        BY <1>4, <3>1, Zenon DEF Lkg, Digested
      <3>3. l.at = n
        BY <3>1
      <3> QED BY <3>2, <3>3
    <2>3. DigestHolds(p.lkg) /\ p.lkg.digest = x.lkg.digest
      BY <1>2, <1>3 DEF DigestsHold
    <2> QED BY <2>1, <2>2, <2>3 DEF DigestHolds
  <1>7. p.lkg.core.at <= p.at /\ p.at <= x.at /\ x.at <= p.lkg.core.at + MaxLkgAge
    <2>1. p.at \in Nat /\ x.at \in Nat
      BY <1>1, <1>2 DEF PlanArrived, ContextHolds
    <2> QED BY <1>3, <1>6, <2>1, UpdateAssumption DEF Stale
  <1>8. \A r \in upRevoked : r.lkg = p.lkg => r.at >= x.at
    BY <1>1, <1>2, <1>3 DEF ContextHolds, RevocationBound
  <1>9. Cardinality({ActorAlias[a] : a \in {p.candidate.core.id, p.candidate.core.attestedBy, p.candidate.core.promotedBy, p.decision.core.resolvedBy}}) = 4
    <2>1. PICK by, pr, re : by = Trusted.attestedBy /\ pr = Trusted.promotedBy /\ re = Trusted.resolvedBy
      OBVIOUS
    <2>2. p.candidate.core.attestedBy = by /\ p.candidate.core.promotedBy = pr /\ p.decision.core.resolvedBy = re
      BY <1>3, <2>1 DEF AuthoritiesBound
    <2>3. Cardinality({ActorAlias[a] : a \in {by, pr, re}}) = 3 /\ \A a \in {by, pr, re} : ActorAlias[a] # ActorAlias[c.id]
      BY <1>3, <1>5, <2>1 DEF AuthoritiesBound, AuthoritiesIndependent
    <2>4. {ActorAlias[a] : a \in {by, pr, re}} = {ActorAlias[by], ActorAlias[pr], ActorAlias[re]}
      OBVIOUS
    <2>5. {ActorAlias[a] : a \in {c.id, by, pr, re}} = {ActorAlias[c.id], ActorAlias[by], ActorAlias[pr], ActorAlias[re]}
      OBVIOUS
    <2>6. Cardinality({ActorAlias[c.id], ActorAlias[by], ActorAlias[pr], ActorAlias[re]}) = 4
      <3>1. PICK S : S = {ActorAlias[by], ActorAlias[pr], ActorAlias[re]}
        OBVIOUS
      <3>2. Cardinality(S) = 3 /\ ActorAlias[c.id] \notin S
        BY <2>3, <2>4, <3>1
      <3>3. Cardinality(S \cup {ActorAlias[c.id]}) = Cardinality(S) + 1
        BY <3>1, <3>2, OneMoreActor, Zenon
      <3>4. S \cup {ActorAlias[c.id]} = {ActorAlias[c.id], ActorAlias[by], ActorAlias[pr], ActorAlias[re]}
        BY <3>1
      <3> QED BY <3>2, <3>3, <3>4
    <2> QED BY <1>5, <2>2, <2>5, <2>6
  <1>10. upEdited # [field |-> "verdict", sealed |-> TRUE] =>
           p.decision = Decision(p.candidate.core, p.lkg) /\ Decide(p.candidate.core).verdict = "COMPATIBLE"
    <2> SUFFICES ASSUME upEdited # [field |-> "verdict", sealed |-> TRUE]
                 PROVE  p.decision = Decision(p.candidate.core, p.lkg) /\ Decide(p.candidate.core).verdict = "COMPATIBLE"
      OBVIOUS
    <2>1. PICK b, l : p.decision = Decision(b, l)
      BY <1>1, <1>2, Zenon DEF PlanArrived
    <2>2. PICK d, says, by : d = CandidateDocument(b) /\ says = Decide(b) /\ by = Trusted.resolvedBy
      OBVIOUS
    <2>3. p.decision = [core |-> [candidate |-> d, lkg |-> l, resolvedBy |-> by, says |-> says],
                        digest |-> [candidate |-> d, lkg |-> l, resolvedBy |-> by, says |-> says]]
      BY <2>1, <2>2 DEF Decision, Digested
    <2>4. p.lkg = l /\ p.candidate = d /\ says.verdict = "COMPATIBLE"
      BY <1>3, <2>3
    <2>5. d.core = b
      BY <2>2 DEF CandidateDocument, Digested
    <2> QED BY <1>3, <2>1, <2>2, <2>4, <2>5
  <1>11. (upVerdict = "SAFE_MODE") = ~TupleComplete(p.lkg.core.tuple)
    BY <1>3, <1>6
  <1> QED BY <1>2, <1>5, <1>6, <1>7, <1>8, <1>9, <1>10, <1>11, Zenon DEF RenderedPlansAreWitnessed

-----------------------------------------------------------------------------
(* Skill bundles                                                            *)

(* A lock's core, and a lock.                                              *)
CoreOf(id, version, manifest, set, source, files, consumers, grants) ==
  [id |-> id, version |-> version, manifestDigest |-> manifest, fileSetDigest |-> set, source |-> source,
   files |-> files, consumers |-> consumers, grants |-> grants]
LockOf(core, identity, lkg) == [core |-> core, identity |-> identity, lkg |-> lkg]

LEMMA CoreParts ==
  ASSUME NEW id, NEW version, NEW manifest, NEW set, NEW source, NEW files, NEW consumers, NEW grants,
         NEW c, c = CoreOf(id, version, manifest, set, source, files, consumers, grants)
  PROVE  /\ c.id = id /\ c.version = version /\ c.manifestDigest = manifest /\ c.fileSetDigest = set
         /\ c.source = source /\ c.files = files /\ c.consumers = consumers /\ c.grants = grants
         /\ Identity(c) = [id |-> id, version |-> version, files |-> set, manifest |-> manifest]
  BY DEF CoreOf, Identity

LEMMA LockParts ==
  ASSUME NEW core, NEW identity, NEW lkg, NEW l, l = LockOf(core, identity, lkg)
  PROVE  l.core = core /\ l.identity = identity /\ l.lkg = lkg
  BY DEF LockOf

LEMMA TypedLock ==
  ASSUME NEW l
  PROVE  LockTyped(l) <=>
           \E id, version, manifest, set, source, files, consumers, grants, identity, lkg :
             l = LockOf(CoreOf(id, version, manifest, set, source, files, consumers, grants), identity, lkg)
  <1>1. ASSUME LockTyped(l)
        PROVE  \E id, version, manifest, set, source, files, consumers, grants, identity, lkg :
                 l = LockOf(CoreOf(id, version, manifest, set, source, files, consumers, grants), identity, lkg)
    <2>1. PICK core, identity, lkg : core = l.core /\ l = [core |-> core, identity |-> identity, lkg |-> lkg]
      BY <1>1, Zenon DEF LockTyped
    <2>2. PICK id, version, manifest, set, source, files, consumers, grants :
            core = CoreOf(id, version, manifest, set, source, files, consumers, grants)
      BY <1>1, <2>1, Zenon DEF CoreOf, LockTyped
    <2>3. l = LockOf(core, identity, lkg)
      BY <2>1, Zenon DEF LockOf
    <2> QED BY <2>2, <2>3, Zenon
  <1>2. ASSUME NEW core, NEW identity, NEW lkg, l = LockOf(core, identity, lkg),
               NEW id, NEW version, NEW manifest, NEW set, NEW source, NEW files, NEW consumers, NEW grants,
               core = CoreOf(id, version, manifest, set, source, files, consumers, grants)
        PROVE  LockTyped(l)
    <2>1. l.core = core /\ l.identity = identity /\ l.lkg = lkg
      BY <1>2, LockParts
    <2>2. /\ core.id = id /\ core.version = version /\ core.manifestDigest = manifest /\ core.fileSetDigest = set
          /\ core.source = source /\ core.files = files /\ core.consumers = consumers /\ core.grants = grants
      BY <1>2, CoreParts
    <2> QED BY <1>2, <2>1, <2>2, Zenon DEF LockTyped, LockOf, CoreOf
  <1> QED BY <1>1, <1>2, Zenon

(* A lock over a manifest's files, and the one that is built.              *)
BuildsLock(m, files) ==
  ValidManifest(m) /\ DOMAIN files = DOMAIN m.files /\ HasEntrypoint(files)

LEMMA LockOverParts ==
  ASSUME NEW m, NEW files, ValidManifest(m)
  PROVE  LockOver(m, files) =
           LockOf(CoreOf(m.id, m.version, m, files, files, files, Consumers, {}),
                  [id |-> m.id, version |-> m.version, files |-> files, manifest |-> m],
                  [id |-> m.id, version |-> m.version, files |-> files, manifest |-> m])
  <1>1. PICK core : core = CoreOf(m.id, m.version, m, files, files, files, Consumers, {})
    OBVIOUS
  <1>2. m.consumers = Consumers /\ m.grants = {}
    BY DEF ValidManifest, NormalCompatibility, NormalAuthority
  <1>3. LockOver(m, files) = LockOf(core, Identity(core), Identity(core))
    BY <1>1, <1>2, Zenon DEF LockOver, LockOf, CoreOf
  <1>4. Identity(core) = [id |-> m.id, version |-> m.version, files |-> files, manifest |-> m]
    BY <1>1, CoreParts
  <1> QED BY <1>1, <1>3, <1>4

LEMMA LockIsBuilt ==
  ASSUME NEW m, NEW inputs, CanLock(m, inputs)
  PROVE  \E files : BuiltLock(m, inputs) = LockOver(m, files) /\ BuildsLock(m, files)
  <1>1. PICK files : files = [p \in DOMAIN m.files |-> [role |-> m.files[p].role, media |-> m.files[p].media,
                                                        size |-> ByteSize[inputs[p]], bytes |-> inputs[p]]]
    OBVIOUS
  <1>2. BuiltLock(m, inputs) = LockOver(m, files)
    BY <1>1, Zenon DEF BuiltLock
  <1>3. DOMAIN files = DOMAIN m.files /\ HasEntrypoint(files)
    BY <1>1 DEF HasEntrypoint, CanLock, ValidManifest
  <1> QED BY <1>2, <1>3 DEF BuildsLock, CanLock

LEMMA RelockedCore ==
  ASSUME NEW i, NEW v, NEW m, NEW s, NEW o, NEW f, NEW n, NEW g, NEW c, c = CoreOf(i, v, m, s, o, f, n, g),
         NEW k, k = CoreOf(i, v, m, f, f, f, n, g)
  PROVE  Relocked(c) = LockOf(k, Identity(k), Identity(k))
  <1>1. PICK b : b = [c EXCEPT !.fileSetDigest = f]
    OBVIOUS
  <1>2. b = CoreOf(i, v, m, f, o, f, n, g)
    BY <1>1 DEF CoreOf
  <1>3. [b EXCEPT !.source = f] = k
    BY <1>2 DEF CoreOf
  <1>4. c.files = f
    BY CoreParts
  <1> QED BY <1>1, <1>3, <1>4, Zenon DEF Relocked, LockOf

LEMMA EditsKeepLocks ==
  ASSUME NEW l, LockTyped(l), NEW e \in LockEdits(l)
  PROVE  LockTyped(e) /\ LockTyped(Relocked(e.core))
  <1>1. PICK id, version, manifest, set, source, files, consumers, grants, identity, lkg :
          l = LockOf(CoreOf(id, version, manifest, set, source, files, consumers, grants), identity, lkg)
    BY TypedLock
  <1>2. LockTyped(e)
    <2>1. CASE e = [l EXCEPT !.core.version = "2.0.0"]
      <3>1. e = LockOf(CoreOf(id, "2.0.0", manifest, set, source, files, consumers, grants), identity, lkg)
        BY <1>1, <2>1 DEF LockOf, CoreOf
      <3> QED BY <3>1, TypedLock
    <2>2. CASE e = [l EXCEPT !.core.grants = {"any"}]
      <3>1. e = LockOf(CoreOf(id, version, manifest, set, source, files, consumers, {"any"}), identity, lkg)
        BY <1>1, <2>2 DEF LockOf, CoreOf
      <3> QED BY <3>1, TypedLock
    <2>3. CASE e = [l EXCEPT !.core.consumers = {"ROLLBACK"}]
      <3>1. e = LockOf(CoreOf(id, version, manifest, set, source, files, {"ROLLBACK"}, grants), identity, lkg)
        BY <1>1, <2>3 DEF LockOf, CoreOf
      <3> QED BY <3>1, TypedLock
    <2>4. CASE e = [l EXCEPT !.core.files["SKILL.md"].bytes = "other"]
      <3>1. PICK f : f = [files EXCEPT !["SKILL.md"].bytes = "other"]
        OBVIOUS
      <3>2. e = LockOf(CoreOf(id, version, manifest, set, source, f, consumers, grants), identity, lkg)
        BY <1>1, <2>4, <3>1 DEF LockOf, CoreOf
      <3> QED BY <3>2, TypedLock
    <2>5. CASE e = [l EXCEPT !.core.files["SKILL.md"].role = "DOC"]
      <3>1. PICK f : f = [files EXCEPT !["SKILL.md"].role = "DOC"]
        OBVIOUS
      <3>2. e = LockOf(CoreOf(id, version, manifest, set, source, f, consumers, grants), identity, lkg)
        BY <1>1, <2>5, <3>1 DEF LockOf, CoreOf
      <3> QED BY <3>2, TypedLock
    <2>6. CASE e = [l EXCEPT !.lkg.version = "2.0.0"]
      <3>1. PICK k : k = [lkg EXCEPT !.version = "2.0.0"]
        OBVIOUS
      <3>2. e = LockOf(CoreOf(id, version, manifest, set, source, files, consumers, grants), identity, k)
        BY <1>1, <2>6, <3>1 DEF LockOf, CoreOf
      <3> QED BY <3>2, TypedLock
    <2> QED BY <2>1, <2>2, <2>3, <2>4, <2>5, <2>6 DEF LockEdits
  <1>3. PICK i, v, m, s, o, f, n, g, y, k : e = LockOf(CoreOf(i, v, m, s, o, f, n, g), y, k)
    BY <1>2, TypedLock
  <1>4. e.core = CoreOf(i, v, m, s, o, f, n, g)
    BY <1>3, LockParts
  <1>6. PICK c : c = CoreOf(i, v, m, f, f, f, n, g)
    OBVIOUS
  <1>7. Relocked(e.core) = LockOf(c, Identity(c), Identity(c))
    BY <1>4, <1>6, RelockedCore
  <1> QED BY <1>2, <1>6, <1>7, TypedLock

(* A lock that verifies is what its identity says.                         *)
LEMMA IdentityBinds ==
  ASSUME NEW l, NEW m, NEW files0, LockTyped(l), ValidLock(l), ValidManifest(m),
         l.identity = LockOver(m, files0).identity
  PROVE  l = LockOver(m, files0)
  <1>1. PICK id, version, manifest, set, source, files, consumers, grants, identity, lkg :
          l = LockOf(CoreOf(id, version, manifest, set, source, files, consumers, grants), identity, lkg)
    BY TypedLock
  <1>2. PICK c : c = CoreOf(id, version, manifest, set, source, files, consumers, grants)
    OBVIOUS
  <1>3. l.core = c /\ l.identity = identity /\ l.lkg = lkg
    BY <1>1, <1>2, LockParts
  <1>4. /\ c.id = id /\ c.version = version /\ c.manifestDigest = manifest /\ c.fileSetDigest = set
        /\ c.source = source /\ c.files = files /\ c.consumers = consumers /\ c.grants = grants
        /\ Identity(c) = [id |-> id, version |-> version, files |-> set, manifest |-> manifest]
    BY <1>2, CoreParts
  <1>5. /\ source = set /\ files = set /\ identity = Identity(c) /\ lkg = identity
        /\ consumers = Consumers /\ grants = {}
    BY <1>3, <1>4 DEF ValidLock, NormalCompatibility, NormalAuthority
  <1>6. PICK f, y :
           /\ f = files0 /\ LockOver(m, files0) = LockOf(CoreOf(m.id, m.version, m, f, f, f, Consumers, {}), y, y)
           /\ y = [id |-> m.id, version |-> m.version, files |-> f, manifest |-> m]
    BY LockOverParts, Zenon
  <1>7. identity = [id |-> m.id, version |-> m.version, files |-> f, manifest |-> m]
    <2>1. PICK b, core : b = LockOver(m, files0) /\ b = LockOf(core, y, y)
      BY <1>6, Zenon
    <2>2. b.identity = y
      BY <2>1, LockParts
    <2> QED BY <1>3, <1>6, <2>1, <2>2, Zenon
  <1>8. identity = [id |-> id, version |-> version, files |-> set, manifest |-> manifest]
    BY <1>4, <1>5
  <1>9. id = m.id /\ version = m.version /\ set = f /\ manifest = m
    <2>1. identity.id = m.id /\ identity.version = m.version /\ identity.files = f /\ identity.manifest = m
      BY <1>7
    <2>2. identity.id = id /\ identity.version = version /\ identity.files = set /\ identity.manifest = manifest
      BY <1>8
    <2> QED BY <2>1, <2>2
  <1> QED BY <1>1, <1>5, <1>6, <1>7, <1>9, Zenon

LEMMA BuiltVerifies ==
  ASSUME NEW m, NEW files, NEW l, BuildsLock(m, files), l = LockOver(m, files), NEW consumer \in Consumers
  PROVE  Compatible(l, consumer, "OPENCLAW", "v1") <=> \A p \in DOMAIN l.core.files : l.core.files[p].size <= MaxFileSize
  <1>1. PICK f, y :
          /\ l = LockOf(CoreOf(m.id, m.version, m, f, f, f, Consumers, {}), y, y)
          /\ y = [id |-> m.id, version |-> m.version, files |-> f, manifest |-> m]
          /\ f = files
    BY LockOverParts DEF BuildsLock
  <1>5. DOMAIN f # {} /\ NoAliases(DOMAIN f) /\ HasEntrypoint(f)
    BY <1>1 DEF BuildsLock, ValidManifest
  <1>2. PICK c : c = CoreOf(m.id, m.version, m, f, f, f, Consumers, {})
    OBVIOUS
  <1>3. l.core = c /\ l.identity = y /\ l.lkg = y
    BY <1>1, <1>2, LockParts
  <1>4. c.source = f /\ c.fileSetDigest = f /\ c.files = f /\ c.consumers = Consumers /\ c.grants = {} /\ Identity(c) = y
    BY <1>1, <1>2, CoreParts
  <1> QED BY <1>1, <1>3, <1>4, <1>5 DEF Compatible, ValidLock, NormalCompatibility, NormalAuthority

LEMMA BundleInitial ==
  ASSUME BundleInit
  PROVE  BundleInv
  BY DEF BundleInit, BundleInv

LEMMA BundleKeeps ==
  ASSUME BundleInv, [BundleNext]_bnVars
  PROVE  BundleInv'
  <1>1. CASE UNCHANGED <<bnManifest, bnBuilt, bnLock, bnVerification>>
    BY <1>1 DEF bnVerification, BundleInv, ReadSoFar
  <1>2. CASE LockBuilt
    <2>1. /\ bnBuilt = NoBundle /\ CanLock(bnManifest, bnDisk)
          /\ bnBuilt' = BuiltLock(bnManifest, bnDisk) /\ bnLock' = bnBuilt'
          /\ UNCHANGED <<bnManifest, bnDisk, bnWrites, bnWalk, bnSeen, bnEvidence>>
      BY <1>2 DEF LockBuilt, bnVerification
    <2>2. bnWalk = NoBundle /\ bnSeen = <<>> /\ bnEvidence = NoBundle
      BY <2>1 DEF BundleInv
    <2>3. PICK files : bnBuilt' = LockOver(bnManifest, files) /\ BuildsLock(bnManifest, files)
      BY <2>1, LockIsBuilt
    <2>4. PICK m, core, y : m = bnManifest /\ core = CoreOf(m.id, m.version, m, files, files, files, Consumers, {}) /\ bnBuilt' = LockOf(core, y, y)
      BY <2>3, LockOverParts DEF BuildsLock
    <2>5. LockTyped(bnLock')
      BY <2>1, <2>4, TypedLock, Zenon
    <2>6. bnBuilt'.core.files = files
      <3>1. bnBuilt'.core = core
        BY <2>4, LockParts
      <3> QED BY <2>4, <3>1, CoreParts
    <2> QED BY <2>1, <2>2, <2>3, <2>5, <2>6, Zenon DEF BundleInv, BuildsLock
  <1>3. CASE LockEdited
    <2>1. /\ bnLock # NoBundle /\ bnWalk = NoBundle
          /\ bnLock' \in LockEdits(bnLock) \cup {Relocked(l.core) : l \in LockEdits(bnLock)}
          /\ UNCHANGED <<bnManifest, bnDisk, bnWrites, bnBuilt, bnWalk, bnSeen, bnEvidence>>
      BY <1>3 DEF LockEdited, bnVerification
    <2>2. LockTyped(bnLock) /\ bnBuilt # NoBundle /\ bnSeen = <<>> /\ bnEvidence = NoBundle
      BY <2>1 DEF BundleInv
    <2>3. LockTyped(bnLock')
      BY <2>1, <2>2, EditsKeepLocks
    <2> QED BY <2>1, <2>2, <2>3, Zenon DEF BundleInv
  <1>4. CASE Walks
    <2>1. /\ bnLock # NoBundle /\ bnWalk = NoBundle /\ ValidLock(bnLock) /\ DOMAIN bnDisk = DOMAIN bnLock.core.files
          /\ bnWalk' = DOMAIN bnDisk
          /\ UNCHANGED <<bnManifest, bnDisk, bnWrites, bnBuilt, bnLock, bnSeen, bnEvidence>>
      BY <1>4 DEF Walks
    <2>2. bnSeen = <<>> /\ bnEvidence = NoBundle
      BY <2>1 DEF BundleInv
    <2>3. bnSeen = [p \in DOMAIN bnSeen |-> bnSeen[p]] /\ DOMAIN bnSeen = {}
      BY <2>2
    <2>4. ReadSoFar(bnLock.core.files)'
      BY <2>1, <2>3 DEF ReadSoFar
    <2> QED BY <2>1, <2>2, <2>3, <2>4, Zenon DEF BundleInv
  <1>5. CASE ReadsFile
    <2>1. PICK files : files = bnLock.core.files
      OBVIOUS
    <2>2. /\ bnWalk # NoBundle
          /\ UNCHANGED <<bnManifest, bnDisk, bnWrites, bnBuilt, bnLock, bnWalk, bnEvidence>>
      BY <1>5 DEF ReadsFile
    <2>3. PICK p \in bnWalk \ DOMAIN bnSeen :
            /\ bnDisk[p] = files[p].bytes /\ ByteSize[bnDisk[p]] = files[p].size
            /\ bnSeen' = [q \in DOMAIN bnSeen \cup {p} |-> IF q = p THEN bnDisk[p] ELSE bnSeen[q]]
      BY <1>5, <2>1 DEF ReadsFile
    <2>4. bnWalk = DOMAIN files /\ ReadSoFar(files)
      BY <2>1, <2>2 DEF BundleInv
    <2>5. bnSeen' = [q \in DOMAIN bnSeen' |-> bnSeen'[q]]
      BY <2>3
    <2>6. DOMAIN bnSeen' \subseteq bnWalk /\ \A q \in DOMAIN bnSeen' : bnSeen'[q] = files[q].bytes /\ ByteSize[bnSeen'[q]] = files[q].size
      BY <2>3, <2>4 DEF ReadSoFar
    <2>7. bnEvidence = NoBundle
      BY <2>1, <2>3, <2>4 DEF BundleInv
    <2>8. ReadSoFar(bnLock.core.files)'
      BY <2>1, <2>2, <2>6, Zenon DEF ReadSoFar
    <2> QED BY <2>2, <2>5, <2>7, <2>8, Zenon DEF BundleInv
  <1>6. CASE EvidenceMade
    <2>1. PICK files, sizes : files = bnLock.core.files /\ sizes = [p \in DOMAIN files |-> files[p].size]
      OBVIOUS
    <2>2. /\ bnWalk # NoBundle /\ bnEvidence = NoBundle /\ DOMAIN bnSeen = bnWalk
          /\ UNCHANGED <<bnManifest, bnDisk, bnWrites, bnBuilt, bnLock, bnWalk, bnSeen>>
      BY <1>6 DEF EvidenceMade
    <2>3. bnWalk = DOMAIN files /\ ReadSoFar(files)
      BY <2>1, <2>2 DEF BundleInv
    <2>4. [p \in bnWalk |-> ByteSize[bnSeen[p]]] = sizes
      BY <2>1, <2>2, <2>3 DEF ReadSoFar
    <2>5. bnEvidence' = [identity |-> bnLock.identity, files |-> Cardinality(DOMAIN files), consumers |-> bnLock.core.consumers,
                         material |-> SumOf(sizes)]
      BY <1>6, <2>1, <2>4, Zenon DEF EvidenceMade
    <2>6. ReadSoFar(bnLock.core.files)'
      BY <2>1, <2>2, <2>3, Zenon DEF ReadSoFar
    <2> QED BY <2>1, <2>2, <2>3, <2>5, <2>6, Zenon DEF BundleInv
  <1>7. CASE AuthorWrites \/ UNCHANGED bnVars
    BY <1>1, <1>7 DEF AuthorWrites, bnVars, bnVerification
  <1> QED BY <1>2, <1>3, <1>4, <1>5, <1>6, <1>7 DEF BundleNext

(* Evidence is of exactly the lock's files.                                *)
LEMMA EvidenceCovers ==
  ASSUME BundleInv
  PROVE  EvidenceCoversItsLock
  <1>1. ASSUME bnLock # NoBundle, ValidLock(bnLock), bnLock.identity = bnBuilt.identity
        PROVE  bnLock = bnBuilt
    <2>1. PICK files : ValidManifest(bnManifest) /\ bnBuilt = LockOver(bnManifest, files)
      BY <1>1, Zenon DEF BundleInv
    <2>2. LockTyped(bnLock)
      BY <1>1 DEF BundleInv
    <2> QED BY <1>1, <2>1, <2>2, IdentityBinds
  <1>2. ASSUME bnBuilt # NoBundle, NEW consumer \in Consumers
        PROVE  Compatible(bnBuilt, consumer, "OPENCLAW", "v1") =
                 (\A p \in DOMAIN bnBuilt.core.files : bnBuilt.core.files[p].size <= MaxFileSize)
    <2>1. PICK files : BuildsLock(bnManifest, files) /\ bnBuilt = LockOver(bnManifest, files)
      BY <1>2, Zenon DEF BundleInv, BuildsLock
    <2>2. /\ Compatible(bnBuilt, consumer, "OPENCLAW", "v1") \in BOOLEAN
          /\ (\A p \in DOMAIN bnBuilt.core.files : bnBuilt.core.files[p].size <= MaxFileSize) \in BOOLEAN
      BY DEF Compatible
    <2> QED BY <1>2, <2>1, <2>2, BuiltVerifies
  <1>3. ASSUME bnEvidence # NoBundle
        PROVE  /\ bnSeen = [p \in DOMAIN bnLock.core.files |-> bnLock.core.files[p].bytes]
               /\ bnEvidence.material = SumOf([p \in DOMAIN bnLock.core.files |-> bnLock.core.files[p].size])
               /\ bnEvidence.files = Cardinality(DOMAIN bnLock.core.files) /\ bnEvidence.consumers = Consumers
               /\ (bnEvidence.identity = bnBuilt.identity) = (bnLock = bnBuilt)
    <2>1. PICK files, sizes, count : files = bnLock.core.files /\ sizes = [p \in DOMAIN files |-> files[p].size]
                                     /\ count = Cardinality(DOMAIN files)
      OBVIOUS
    <2>2. bnWalk # NoBundle
      BY <1>3 DEF BundleInv
    <2>3. /\ bnLock # NoBundle /\ ValidLock(bnLock) /\ bnWalk = DOMAIN files
          /\ bnSeen = [p \in DOMAIN bnSeen |-> bnSeen[p]] /\ ReadSoFar(files)
      BY <2>1, <2>2, Zenon DEF BundleInv
    <2>4. /\ DOMAIN bnSeen = DOMAIN files
          /\ bnEvidence = [identity |-> bnLock.identity, files |-> count, consumers |-> bnLock.core.consumers, material |-> SumOf(sizes)]
      BY <1>3, <2>1, Zenon DEF BundleInv
    <2>5. bnSeen = [p \in DOMAIN files |-> files[p].bytes]
      BY <2>3, <2>4 DEF ReadSoFar
    <2>6. bnEvidence.material = SumOf(sizes) /\ bnEvidence.files = count /\ bnEvidence.consumers = bnLock.core.consumers
          /\ bnEvidence.identity = bnLock.identity
      BY <2>4
    <2>7. bnLock.core.consumers = Consumers
      BY <2>3 DEF ValidLock, NormalCompatibility
    <2>8. bnLock.identity = bnBuilt.identity <=> bnLock = bnBuilt
      BY <1>1, <2>3
    <2> QED BY <2>1, <2>5, <2>6, <2>7, <2>8, Zenon
  <1> QED BY <1>1, <1>2, <1>3, Zenon DEF EvidenceCoversItsLock

-----------------------------------------------------------------------------
(* The builder's plan and evidence                                          *)

(* What the closure holds: the seed, what its members lean on, and no more *)
(* than there is.                                                          *)
LEMMA ClosureCloses ==
  ASSUME NEW seed, NEW objects, seed \subseteq DOMAIN objects, \A t \in DOMAIN objects : objects[t] \subseteq DOMAIN objects
  PROVE  LET found == DependencyClosure(seed, objects)
         IN seed \subseteq found /\ found \subseteq DOMAIN objects /\ Closed(found, objects)
  <1> DEFINE found == DependencyClosure(seed, objects)
  <1>1. seed \subseteq found /\ found \subseteq DOMAIN objects
    BY DEF DependencyClosure
  <1>2. ASSUME NEW t \in found, NEW u \in objects[t]
        PROVE  u \in found
    <2>1. t \in DOMAIN objects /\ u \in DOMAIN objects
      BY <1>1, <1>2
    <2>2. ASSUME NEW S \in SUBSET DOMAIN objects, seed \subseteq S, Closed(S, objects)
          PROVE  u \in S
      <3>1. t \in S
        BY <1>2, <2>2, Zenon DEF DependencyClosure
      <3> QED BY <1>2, <2>2, <3>1 DEF Closed
    <2> QED BY <2>1, <2>2, Zenon DEF DependencyClosure
  <1> QED BY <1>1, <1>2 DEF Closed

(* A description that is sound, and the record that is discovered of it.   *)
LEMMA DiscoveredParts ==
  ASSUME NEW name \in DOMAIN Descriptions, Discoverable(Descriptions[name])
  PROVE  LET m == Descriptions[name].manifest
             record == Discoveries[name]
         IN /\ DOMAIN record.operations = Descriptions[name].requested
            /\ \A p \in Descriptions[name].requested : record.operations[p] = m.operations[p]
            /\ record.type = m.type
            /\ \A t \in DOMAIN record.objects : record.objects[t] \subseteq DOMAIN record.objects
            /\ \A p \in Descriptions[name].requested :
                 record.operations[p].object \in DOMAIN record.objects /\ record.operations[p].contexts \subseteq DOMAIN record.contexts
  <1>1. PICK d, m, asked, used, found :
          /\ d = Descriptions[name] /\ m = d.manifest
          /\ asked = {m.operations[p].object : p \in d.requested}
          /\ used = UNION {m.operations[p].contexts : p \in d.requested}
          /\ found = DependencyClosure(asked, m.objects)
    OBVIOUS
  <1>2. PICK record : record = Discoveries[name]
    OBVIOUS
  <1>3. record = [digest |-> name, tenant |-> d.tenant, actor |-> d.actor, type |-> m.type,
                  objects |-> [t \in found |-> m.objects[t]], operations |-> [p \in d.requested |-> m.operations[p]],
                  contexts |-> [c \in used |-> d.contexts[c]]]
    BY <1>1, <1>2 DEF Discoveries, Discovery, Restrict
  <1>4. /\ record.type = m.type /\ record.objects = [t \in found |-> m.objects[t]]
        /\ record.operations = [p \in d.requested |-> m.operations[p]] /\ record.contexts = [c \in used |-> d.contexts[c]]
    BY <1>3
  <1>5. /\ \A t \in DOMAIN m.objects : m.objects[t] \subseteq DOMAIN m.objects
        /\ asked \subseteq DOMAIN m.objects
    BY <1>1 DEF Discoverable, ManifestSound
  <1>6. asked \subseteq found /\ Closed(found, m.objects)
    BY <1>1, <1>5, ClosureCloses
  <1>7. /\ DOMAIN record.operations = d.requested /\ \A p \in d.requested : record.operations[p] = m.operations[p]
        /\ DOMAIN record.contexts = used /\ DOMAIN record.objects = found
        /\ \A t \in found : record.objects[t] = m.objects[t]
    BY <1>4
  <1>8. \A p \in d.requested : m.operations[p].object \in found /\ m.operations[p].contexts \subseteq used
    BY <1>1, <1>6
  <1>9. \A t \in DOMAIN record.objects : record.objects[t] \subseteq DOMAIN record.objects
    BY <1>6, <1>7 DEF Closed
  <1> QED BY <1>1, <1>2, <1>4, <1>7, <1>8, <1>9

(* A plan's parts.                                                         *)
MadeOf(plan, name, record, resolution, authority) ==
  /\ plan.digest = plan.core
  /\ plan.core.description = name /\ plan.core.authority = authority
  /\ plan.core.contracts = [p \in DOMAIN record.operations |-> Contract(record, resolution, p)]
  /\ plan.core.routes = [p \in DOMAIN record.operations |-> BuilderDecision(Authorities[authority], p)]
  /\ plan.core.status = IF \E p \in DOMAIN record.operations : resolution[p].state = "UNRESOLVED_INTENT"
                        THEN "PREPARATION_REQUIRED" ELSE "READY_FOR_QUALITY_GATE"

LEMMA PlanParts ==
  ASSUME NEW plan \in BuilderPlans
  PROVE  /\ plan = BuilderDigested(plan.core)
         /\ \E name \in DOMAIN Descriptions, registry \in SUBSET Registrations, authority \in DOMAIN Authorities :
           /\ BuilderPlannable(name, registry, authority)
           /\ MadeOf(plan, name, Discoveries[name], Resolution(Discoveries[name], registry), authority)
  <1>1. PICK i \in PlanInputs : BuilderPlannable(i[1], i[2], i[3]) /\ plan = BuilderPlan(i[1], i[2], i[3])
    BY Zenon DEF BuilderPlans
  <1>2. PICK name, registry, authority : name = i[1] /\ registry = i[2] /\ authority = i[3]
    OBVIOUS
  <1>3. name \in DOMAIN Descriptions /\ registry \in SUBSET Registrations /\ authority \in DOMAIN Authorities
    BY <1>2 DEF PlanInputs
  <1>4. PICK record, resolution, core : 
          /\ record = Discoveries[name] /\ resolution = Resolution(record, registry)
          /\ core = [description |-> name, authority |-> authority,
                     contracts |-> [p \in DOMAIN record.operations |-> Contract(record, resolution, p)],
                     routes |-> [p \in DOMAIN record.operations |-> BuilderDecision(Authorities[authority], p)],
                     status |-> IF \E p \in DOMAIN record.operations : resolution[p].state = "UNRESOLVED_INTENT"
                                THEN "PREPARATION_REQUIRED" ELSE "READY_FOR_QUALITY_GATE"]
    OBVIOUS
  <1>5. plan = BuilderDigested(core)
    BY <1>1, <1>2, <1>4, Zenon DEF BuilderPlan
  <1>6. plan.core = core /\ plan.digest = core
    BY <1>5 DEF BuilderDigested
  <1>7. MadeOf(plan, name, record, resolution, authority)
    <2>1. /\ core.description = name /\ core.authority = authority
          /\ core.contracts = [p \in DOMAIN record.operations |-> Contract(record, resolution, p)]
          /\ core.routes = [p \in DOMAIN record.operations |-> BuilderDecision(Authorities[authority], p)]
          /\ core.status = IF \E p \in DOMAIN record.operations : resolution[p].state = "UNRESOLVED_INTENT"
                           THEN "PREPARATION_REQUIRED" ELSE "READY_FOR_QUALITY_GATE"
      BY <1>4
    <2> QED BY <1>6, <2>1, Zenon DEF MadeOf
  <1>8. BuilderPlannable(name, registry, authority)
    BY <1>1, <1>2
  <1> QED BY <1>3, <1>4, <1>5, <1>6, <1>7, <1>8, Zenon

(* What a plan's authority may let run, and what a registered capability   *)
(* fits.                                                                   *)
LEMMA RoutesAllowed ==
  ASSUME NEW a, NEW p, AuthoritySound(a)
  PROVE  LET decision == BuilderDecision(a, p)
         IN /\ decision.route # "DENY" => p \in a.ceiling \cap a.assigned \cap a.constrained
            /\ decision.route = "AUTO_EXECUTE" /\ a.rights[p] # "READ_ONLY" =>
                 a.requested \in RampageRequests \/ (p \in DOMAIN a.rules /\ a.rules[p] = "AUTO_EXECUTE")
  <1>1. PICK route, profile, effective :
          /\ profile = SelectedProfile(a)
          /\ effective = (/\ p \in a.ceiling \cap a.assigned \cap a.constrained
                          /\ profile = "CUSTOM" => p \in DOMAIN a.rules)
          /\ route = IF ~effective THEN "DENY"
                     ELSE CASE profile = "SAFE_GUIDED" -> SafeGuidedRoute(a.rights[p])
                            [] profile = "CUSTOM" -> a.rules[p]
                            [] OTHER -> "AUTO_EXECUTE"
    OBVIOUS
  <1>2. BuilderDecision(a, p).route = route
    <2>1. BuilderDecision(a, p) = [effect |-> a.rights[p], effective |-> effective, route |-> route]
      BY <1>1, Zenon DEF BuilderDecision
    <2> QED BY <2>1
  <1>3. profile \in {"SAFE_GUIDED", "CUSTOM"} \/ (profile = "RAMPAGE_FULL_CONTROL_LAB" /\ a.requested \in RampageRequests)
    BY <1>1 DEF AuthoritySound, SelectedProfile, ProfileRequests, RampageRequests
  <1>4. route # "DENY" => effective
    BY <1>1
  <1>5. ASSUME route = "AUTO_EXECUTE", a.rights[p] # "READ_ONLY"
        PROVE  a.requested \in RampageRequests \/ (p \in DOMAIN a.rules /\ a.rules[p] = "AUTO_EXECUTE")
    <2>1. profile = "SAFE_GUIDED" => route = "OWNER_APPROVAL"
      BY <1>1, <1>4, <1>5 DEF SafeGuidedRoute
    <2>2. profile = "CUSTOM" => p \in DOMAIN a.rules /\ a.rules[p] = "AUTO_EXECUTE"
      BY <1>1, <1>4, <1>5
    <2> QED BY <1>3, <1>5, <2>1, <2>2
  <1> QED BY <1>1, <1>2, <1>4, <1>5

LEMMA ResolutionFits ==
  ASSUME NEW record, NEW registry, Resolvable(record, registry), NEW p \in DOMAIN record.operations,
         Resolution(record, registry)[p].state # "UNRESOLVED_INTENT"
  PROVE  LET r == Resolution(record, registry)[p].binding
         IN r.capability = record.operations[p].hint /\ p \in r.operations /\ record.type \in r.types
  <1>1. PICK found : found = Registered(registry, record.operations[p].hint)
    OBVIOUS
  <1>2. Resolution(record, registry)[p] =
          IF found = {} THEN [state |-> "UNRESOLVED_INTENT", binding |-> [gap |-> p, record |-> record.digest]]
          ELSE [state |-> "REUSE_REGISTERED", binding |-> CHOOSE r \in found : TRUE]
    BY <1>1 DEF Resolution
  <1>3. found # {}
    BY <1>2
  <1>4. PICK r : r = CHOOSE x \in found : TRUE
    OBVIOUS
  <1>5. r \in found
    BY <1>3, <1>4
  <1>6. Resolution(record, registry)[p].binding = r
    BY <1>2, <1>3, <1>4
  <1>7. r.capability = record.operations[p].hint
    BY <1>1, <1>5 DEF Registered
  <1>8. p \in r.operations /\ record.type \in r.types
    BY <1>1, <1>5 DEF Resolvable
  <1> QED BY <1>6, <1>7, <1>8

LEMMA PlansAreWhole ==
  ASSUME NEW plan \in BuilderPlans
  PROVE  PlanIsWhole(plan.core)
  <1>1. PICK name \in DOMAIN Descriptions, registry \in SUBSET Registrations, authority \in DOMAIN Authorities :
          /\ BuilderPlannable(name, registry, authority)
          /\ MadeOf(plan, name, Discoveries[name], Resolution(Discoveries[name], registry), authority)
    BY PlanParts
  <1>2. PICK core, record, d, a :
          core = plan.core /\ record = Discoveries[name] /\ d = Descriptions[name] /\ a = Authorities[authority]
    OBVIOUS
  <1>3. /\ core.description = name /\ core.authority = authority
        /\ DOMAIN core.contracts = DOMAIN record.operations
        /\ \A p \in DOMAIN record.operations : core.routes[p] = BuilderDecision(a, p)
    BY <1>1, <1>2 DEF MadeOf
  <1>4. /\ Discoverable(d) /\ AuthoritySound(a) /\ \A p \in d.requested : a.rights[p] = d.manifest.operations[p].effect
    BY <1>1, <1>2 DEF BuilderPlannable
  <1>5. /\ DOMAIN record.operations = d.requested
        /\ \A p \in d.requested : record.operations[p] = d.manifest.operations[p]
        /\ \A t \in DOMAIN record.objects : record.objects[t] \subseteq DOMAIN record.objects
        /\ \A p \in d.requested :
             record.operations[p].object \in DOMAIN record.objects /\ record.operations[p].contexts \subseteq DOMAIN record.contexts
    BY <1>2, <1>4, DiscoveredParts
  <1>6. ObjectGraph(record).edges \subseteq ObjectGraph(record).nodes \X ObjectGraph(record).nodes
    <2>1. PICK edges : edges = UNION {{t} \X record.objects[t] : t \in DOMAIN record.objects}
      OBVIOUS
    <2>2. ObjectGraph(record).edges = edges /\ ObjectGraph(record).nodes = DOMAIN record.objects
      BY <2>1 DEF ObjectGraph
    <2>3. ASSUME NEW e \in edges PROVE e \in (DOMAIN record.objects) \X (DOMAIN record.objects)
      <3>1. PICK t \in DOMAIN record.objects : e \in {t} \X record.objects[t]
        BY <2>1, <2>3
      <3> QED BY <1>5, <3>1
    <2> QED BY <2>2, <2>3
  <1>7. ObjectGraph(record).nodes = DOMAIN record.objects
    BY DEF ObjectGraph
  <1>8. ASSUME NEW p \in DOMAIN core.contracts
        PROVE  LET operation == record.operations[p]
                   route == core.routes[p].route
               IN /\ operation.object \in ObjectGraph(record).nodes /\ operation.contexts \subseteq DOMAIN record.contexts
                  /\ RollbackFor(record, p).contexts \subseteq DOMAIN record.contexts
                  /\ route # "DENY" => p \in a.ceiling \cap a.assigned \cap a.constrained
                  /\ route = "AUTO_EXECUTE" /\ operation.effect # "READ_ONLY" =>
                       a.requested \in RampageRequests \/ (p \in DOMAIN a.rules /\ a.rules[p] = "AUTO_EXECUTE")
    <2>1. p \in d.requested
      BY <1>3, <1>5
    <2>2. record.operations[p].object \in ObjectGraph(record).nodes /\ record.operations[p].contexts \subseteq DOMAIN record.contexts
      BY <1>5, <1>7, <2>1
    <2>3. RollbackFor(record, p).contexts \subseteq DOMAIN record.contexts
      <3>1. RollbackFor(record, p).contexts = {c \in record.operations[p].contexts : record.contexts[c].kind \in {"ROLLBACK", "SAFETY"}}
        BY DEF RollbackFor
      <3> QED BY <2>2, <3>1
    <2>4. core.routes[p] = BuilderDecision(a, p) /\ record.operations[p].effect = a.rights[p]
      BY <1>3, <1>4, <1>5, <2>1
    <2> QED BY <1>4, <2>2, <2>3, <2>4, RoutesAllowed
  <1> QED BY <1>2, <1>3, <1>6, <1>8, Zenon DEF PlanIsWhole

LEMMA DesignInitial ==
  ASSUME DesignInit
  PROVE  DesignInv
  BY DEF DesignInit, DesignInv

LEMMA DesignKeeps ==
  ASSUME DesignInv, [DesignNext]_bpVars
  PROVE  DesignInv'
  <1>1. CASE UNCHANGED bpVars
    BY <1>1 DEF DesignInv, bpVars
  <1>2. CASE IntegrationPlanned
    BY <1>2, Zenon DEF IntegrationPlanned, DesignInv
  <1>3. CASE IntegrationPlanEdited
    <2>1. bpPlan # NoPlan /\ bpEdited = FALSE /\ bpEdited' = TRUE /\ bpEvidence' = NoEvidence
      BY <1>3 DEF IntegrationPlanEdited, DesignInv
    <2>2. PICK plan, core : plan \in BuilderPlans /\ bpPlan = plan /\ core = plan.core
      BY <2>1, Zenon DEF DesignInv
    <2>3. plan = BuilderDigested(core)
      BY <2>2, PlanParts
    <2>4. PICK p \in DOMAIN core.contracts :
            bpPlan' \in {[plan EXCEPT !.core.contracts[p].state = "UNRESOLVED_INTENT"],
                         [plan EXCEPT !.core.status = "READY_FOR_QUALITY_GATE"]} \ {plan}
      BY <1>3, <2>2, Zenon DEF IntegrationPlanEdited
    <2>5. PICK made, stated : made = [core EXCEPT !.contracts[p].state = "UNRESOLVED_INTENT"]
                              /\ stated = [core EXCEPT !.status = "READY_FOR_QUALITY_GATE"]
      OBVIOUS
    <2>6. bpPlan' \in {[core |-> made, digest |-> core], [core |-> stated, digest |-> core]}
      BY <2>3, <2>4, <2>5 DEF BuilderDigested
    <2>7. bpPlan'.digest = core /\ bpPlan' = [core |-> bpPlan'.core, digest |-> core] /\ bpPlan' # plan
      BY <2>4, <2>6
    <2>8. bpPlan'.core # core
      BY <2>3, <2>7, Zenon DEF BuilderDigested
    <2> QED BY <2>1, <2>2, <2>7, <2>8, Zenon DEF DesignInv
  <1>4. CASE OperationObserved
    <2>1. bpSeen \subseteq bpSeen' /\ UNCHANGED <<bpPlan, bpEdited, bpEvidence>>
      BY <1>4 DEF OperationObserved
    <2> QED BY <2>1, Zenon DEF DesignInv
  <1>5. CASE EvidenceBuilt
    <2>0. PICK chosen \in SUBSET bpSeen :
            LET observations == [p \in {o.operation : o \in chosen} |-> CHOOSE o \in chosen : o.operation = p]
            IN EvidenceAdmitted(bpPlan, observations) /\ bpEvidence' = Evidence(bpPlan, observations)
      BY <1>5, Zenon DEF EvidenceBuilt
    <2>1. PICK observations :
            /\ observations = [p \in {o.operation : o \in chosen} |-> CHOOSE o \in chosen : o.operation = p]
            /\ EvidenceAdmitted(bpPlan, observations)
            /\ bpEvidence' = Evidence(bpPlan, observations)
      BY <2>0, Zenon
    <2>2. bpPlan # NoPlan /\ UNCHANGED <<bpPlan, bpEdited, bpSeen>>
      BY <1>5 DEF EvidenceBuilt
    <2>3. ~bpEdited
      <3>1. bpPlan.digest = bpPlan.core
        BY <2>1 DEF EvidenceAdmitted, BuilderPlanVerified
      <3> QED BY <2>2, <3>1, Zenon DEF DesignInv
    <2>4. ASSUME NEW p \in DOMAIN observations PROVE observations[p] \in bpSeen /\ observations[p].operation = p
      <3>1. \E o \in chosen : o.operation = p
        BY <2>1
      <3>2. observations[p] = CHOOSE o \in chosen : o.operation = p
        BY <2>1
      <3>3. PICK o : o = observations[p]
        OBVIOUS
      <3>4. o \in chosen /\ o.operation = p
        BY <3>1, <3>2, <3>3
      <3> QED BY <3>3, <3>4
    <2>5. bpEvidence'.observations = observations /\ bpEvidence'.plan = bpPlan.digest /\ bpEvidence'.status = Evidence(bpPlan, observations).status
      BY <2>1 DEF Evidence
    <2>6. EvidenceAdmitted(bpPlan', bpEvidence'.observations) /\ bpEvidence'.status = Evidence(bpPlan', bpEvidence'.observations).status
      BY <2>1, <2>2, <2>5, Zenon
    <2>7. \A p \in DOMAIN bpEvidence'.observations : bpEvidence'.observations[p] \in bpSeen' /\ bpEvidence'.observations[p].operation = p
      BY <2>2, <2>4, <2>5, Zenon
    <2> QED BY <2>2, <2>3, <2>5, <2>6, <2>7, Zenon DEF DesignInv
  <1> QED BY <1>1, <1>2, <1>3, <1>4, <1>5 DEF DesignNext

(* An observation that fits its contract.                                  *)
LEMMA ObservedFits ==
  ASSUME NEW o, NEW contract, NEW plan, ObservationFits(o, contract, plan)
  PROVE  /\ o.plan = plan.digest /\ (Untouched(o) \/ o.states[1] = o.states[3])
         /\ contract.effect \notin {"READ_ONLY", "REVERSIBLE_WRITE"} \/ contract.state = "UNRESOLVED_INTENT" => Untouched(o)
  <1>1. contract.effect \notin {"READ_ONLY", "REVERSIBLE_WRITE"} \/ contract.state = "UNRESOLVED_INTENT" =>
          Expected(contract) \notin {"MATCHED_NO_CHANGE", "MATCHED_ROLLBACK"}
    BY DEF Expected
  <1>2. o.plan = plan.digest /\ StatesFit(o, contract)
    BY DEF ObservationFits
  <1> QED BY <1>1, <1>2, Zenon DEF StatesFit

(* Evidence is of the very plan it names.                                  *)
LEMMA EvidenceIsItsPlans ==
  ASSUME DesignInv
  PROVE  EvidenceIsOfItsPlan
  <1>1. ASSUME bpPlan # NoPlan, BuilderPlanVerified(bpPlan)
        PROVE  ~bpEdited /\ PlanIsWhole(bpPlan.core)
    <2>1. PICK plan \in BuilderPlans :
            IF bpEdited THEN bpPlan.digest = plan.core /\ bpPlan.core # plan.core ELSE bpPlan = plan
      BY <1>1, Zenon DEF DesignInv
    <2>2. bpPlan.digest = bpPlan.core
      BY <1>1 DEF BuilderPlanVerified
    <2>3. ~bpEdited /\ bpPlan = plan
      BY <2>1, <2>2, Zenon
    <2> QED BY <2>3, PlansAreWhole
  <1>2. ASSUME bpEvidence # NoEvidence
        PROVE  LET core == bpEvidence.plan
                   record == Discoveries[core.description]
               IN \A p \in DOMAIN record.operations :
                    LET contract == core.contracts[p] IN
                    /\ \E o \in bpSeen : o.plan = core /\ o.operation = p /\ (Untouched(o) \/ o.states[1] = o.states[3])
                    /\ contract.effect \notin {"READ_ONLY", "REVERSIBLE_WRITE"} \/ contract.state = "UNRESOLVED_INTENT" =>
                         Untouched(bpEvidence.observations[p])
                    /\ bpEvidence.status = "PASS_READY_FOR_G6" =>
                         LET r == contract.binding IN
                         r.capability = record.operations[p].hint /\ p \in r.operations /\ record.type \in r.types
    <2>1. PICK seen : seen = bpEvidence.observations
      OBVIOUS
    <2>2. /\ bpPlan # NoPlan /\ ~bpEdited /\ EvidenceAdmitted(bpPlan, seen)
          /\ bpEvidence.plan = bpPlan.digest /\ bpEvidence.status = Evidence(bpPlan, seen).status
          /\ \A p \in DOMAIN seen : seen[p] \in bpSeen /\ seen[p].operation = p
      BY <1>2, <2>1, Zenon DEF DesignInv
    <2>3. PICK plan \in BuilderPlans : bpPlan = plan
      BY <2>2, Zenon DEF DesignInv
    <2>4. PICK name \in DOMAIN Descriptions, registry \in SUBSET Registrations, authority \in DOMAIN Authorities :
            /\ BuilderPlannable(name, registry, authority)
            /\ MadeOf(plan, name, Discoveries[name], Resolution(Discoveries[name], registry), authority)
      BY PlanParts
    <2>5. PICK core, record, resolution :
            core = plan.core /\ record = Discoveries[name] /\ resolution = Resolution(record, registry)
      OBVIOUS
    <2>6. /\ plan.digest = core /\ core.description = name
          /\ core.contracts = [p \in DOMAIN record.operations |-> Contract(record, resolution, p)]
          /\ core.status = IF \E p \in DOMAIN record.operations : resolution[p].state = "UNRESOLVED_INTENT"
                           THEN "PREPARATION_REQUIRED" ELSE "READY_FOR_QUALITY_GATE"
      BY <2>4, <2>5, Zenon DEF MadeOf
    <2>7. /\ DOMAIN seen = DOMAIN record.operations
          /\ \A p \in DOMAIN record.operations : ObservationFits(seen[p], core.contracts[p], plan)
      BY <2>2, <2>3, <2>5, <2>6 DEF EvidenceAdmitted
    <2>8. Resolvable(record, registry)
      BY <2>4, <2>5 DEF BuilderPlannable
    <2>9. bpEvidence.status = IF core.status = "PREPARATION_REQUIRED" THEN "PASS_PREPARATION_REQUIRED" ELSE "PASS_READY_FOR_G6"
      BY <2>2, <2>3, <2>5 DEF Evidence
    <2>10. ASSUME NEW p \in DOMAIN record.operations
           PROVE  /\ \E o \in bpSeen : o.plan = core /\ o.operation = p /\ (Untouched(o) \/ o.states[1] = o.states[3])
                  /\ core.contracts[p].effect \notin {"READ_ONLY", "REVERSIBLE_WRITE"} \/ core.contracts[p].state = "UNRESOLVED_INTENT" =>
                       Untouched(seen[p])
                  /\ bpEvidence.status = "PASS_READY_FOR_G6" =>
                       LET r == core.contracts[p].binding IN
                       r.capability = record.operations[p].hint /\ p \in r.operations /\ record.type \in r.types
      <3>1. ObservationFits(seen[p], core.contracts[p], plan)
        BY <2>7
      <3>2. seen[p] \in bpSeen /\ seen[p].operation = p
        BY <2>2, <2>7
      <3>3. ASSUME bpEvidence.status = "PASS_READY_FOR_G6"
            PROVE  LET r == core.contracts[p].binding IN
                   r.capability = record.operations[p].hint /\ p \in r.operations /\ record.type \in r.types
        <4>1. resolution[p].state # "UNRESOLVED_INTENT"
          BY <2>6, <2>9, <3>3
        <4>2. core.contracts[p].binding = resolution[p].binding
          BY <2>6 DEF Contract
        <4> QED BY <2>5, <2>8, <4>1, <4>2, ResolutionFits
      <3>4. PICK o, contract : o = seen[p] /\ contract = core.contracts[p]
        OBVIOUS
      <3>5. /\ o.plan = core /\ (Untouched(o) \/ o.states[1] = o.states[3])
            /\ contract.effect \notin {"READ_ONLY", "REVERSIBLE_WRITE"} \/ contract.state = "UNRESOLVED_INTENT" => Untouched(o)
        BY <2>6, <3>1, <3>4, ObservedFits
      <3> QED BY <3>2, <3>3, <3>4, <3>5, Zenon
    <2>11. bpEvidence.plan = core /\ Discoveries[core.description] = record
      BY <2>2, <2>3, <2>5, <2>6
    <2> QED BY <2>1, <2>10, <2>11
  <1> QED BY <1>1, <1>2, Zenon DEF EvidenceIsOfItsPlan

-----------------------------------------------------------------------------
(* Effective rights                                                         *)

(* An operand's parts; a sequence is one of its own elements.              *)
RightsOperand(k, a, t, g, p, pg, c, s) ==
  [kind |-> k, actor |-> a, tenant |-> t, generation |-> g, profile |-> p, profileGeneration |-> pg, ceiling |-> c, scope |-> s]
RightsScope(s) ==
  /\ s = [d \in DOMAIN RightsDomains |-> s[d]]
  /\ \A d \in DOMAIN RightsDomains : s[d] \in Seq(ToSet(s[d]))
RightsInputOf(sound, actor, tenant, operands) ==
  [sound |-> sound, actor |-> actor, tenant |-> tenant, operands |-> operands]

LEMMA RightsOperandTyped ==
  ASSUME NEW k, NEW a, NEW t, NEW g \in Nat, NEW p, NEW pg \in Nat, NEW c, NEW s, RightsScope(s),
         NEW o, o = RightsOperand(k, a, t, g, p, pg, c, s)
  PROVE  /\ OperandTyped(o)
         /\ o.kind = k /\ o.actor = a /\ o.tenant = t /\ o.generation = g /\ o.profile = p /\ o.profileGeneration = pg
         /\ o.ceiling = c /\ o.scope = s
  <1>1. /\ o.kind = k /\ o.actor = a /\ o.tenant = t /\ o.generation = g /\ o.profile = p /\ o.profileGeneration = pg
        /\ o.ceiling = c /\ o.scope = s
    BY DEF RightsOperand
  <1>2. OperandTyped(o)
    BY <1>1, Zenon DEF OperandTyped, RightsScope, RightsOperand
  <1> QED BY <1>1, <1>2, Zenon

LEMMA RightsOperandParts ==
  ASSUME NEW o, OperandTyped(o)
  PROVE  \E k, a, t, p, c, s : \E g \in Nat, pg \in Nat : RightsScope(s) /\ o = RightsOperand(k, a, t, g, p, pg, c, s)
  BY Zenon DEF OperandTyped, RightsScope, RightsOperand

LEMMA OwnSeq ==
  ASSUME NEW T, NEW s \in Seq(T)
  PROVE  s \in Seq(ToSet(s)) /\ ToSet(s) \subseteq T /\ DOMAIN s = 1..Len(s) /\ Len(s) \in Nat
  <1>1. s \in [1..Len(s) -> T] /\ Len(s) \in Nat /\ DOMAIN s = 1..Len(s)
    BY LenProperties
  <1>2. PICK own : own = ToSet(s)
    OBVIOUS
  <1>3. own = {s[i] : i \in 1..Len(s)}
    BY <1>1, <1>2 DEF ToSet
  <1>4. s \in [1..Len(s) -> own] /\ own \subseteq T
    BY <1>1, <1>3
  <1> QED BY <1>1, <1>2, <1>4, SeqDef

LEMMA RemovedSeq ==
  ASSUME NEW T, NEW s \in Seq(T), NEW n \in DOMAIN s
  PROVE  LET r == RemoveAt(s, n) IN r \in Seq(ToSet(r)) /\ ToSet(r) \subseteq ToSet(s)
  <1>1. PICK own : own = ToSet(s)
    OBVIOUS
  <1>2. s \in Seq(own) /\ DOMAIN s = 1..Len(s) /\ Len(s) \in Nat
    BY <1>1, OwnSeq
  <1>3. \A i \in 1..Len(s) : s[i] \in own
    BY <1>2, LenProperties
  <1>4. n \in 1..Len(s)
    BY <1>2
  <1>5. SubSeq(s, 1, n - 1) \in Seq(own)
    <2>1. \A i \in 1..(n - 1) : s[i] \in own
      BY <1>2, <1>3, <1>4
    <2> QED BY <1>2, <1>4, <2>1, SubSeqProperties
  <1>6. SubSeq(s, n + 1, Len(s)) \in Seq(own)
    <2>1. \A i \in (n + 1)..Len(s) : s[i] \in own
      BY <1>2, <1>3, <1>4
    <2> QED BY <1>2, <1>4, <2>1, SubSeqProperties
  <1>7. PICK r : r = RemoveAt(s, n)
    OBVIOUS
  <1>8. r \in Seq(own)
    <2>1. PICK u \in Seq(own), v \in Seq(own) : u = SubSeq(s, 1, n - 1) /\ v = SubSeq(s, n + 1, Len(s))
      BY <1>5, <1>6
    <2> QED BY <1>7, <2>1, ConcatProperties DEF RemoveAt
  <1> QED BY <1>1, <1>7, <1>8, OwnSeq

LEMMA AppendedSeq ==
  ASSUME NEW T, NEW s \in Seq(T), NEW x
  PROVE  Append(s, x) \in Seq(ToSet(Append(s, x))) /\ ToSet(Append(s, x)) \subseteq ToSet(s) \cup {x}
  <1>1. PICK own : own = ToSet(s) \cup {x}
    OBVIOUS
  <1>2. s \in Seq(ToSet(s))
    BY OwnSeq
  <1>3. s \in Seq(own)
    BY <1>1, <1>2, LargerSeq
  <1>4. Append(s, x) \in Seq(own)
    BY <1>1, <1>3, AppendProperties
  <1> QED BY <1>1, <1>4, OwnSeq

LEMMA DoubledSeq ==
  ASSUME NEW T, NEW s \in Seq(T)
  PROVE  s \o s \in Seq(ToSet(s \o s))
  BY ConcatProperties, OwnSeq

(* A scope with one list changed.                                          *)
ChangedScope(s, d, l) == [s EXCEPT ![d] = l]

LEMMA ScopeChanged ==
  ASSUME NEW s, RightsScope(s), NEW d, NEW l, l \in Seq(ToSet(l)), NEW t, t = ChangedScope(s, d, l)
  PROVE  RightsScope(t) /\ \A e \in DOMAIN RightsDomains : t[e] = IF e = d THEN l ELSE s[e]
  <1>2. DOMAIN s = DOMAIN RightsDomains
    BY DEF RightsScope
  <1>3. \A e \in DOMAIN RightsDomains : t[e] = IF e = d THEN l ELSE s[e]
    BY <1>2 DEF ChangedScope
  <1>4. DOMAIN t = DOMAIN RightsDomains /\ t = [e \in DOMAIN t |-> t[e]]
    BY <1>2 DEF ChangedScope
  <1>5. RightsScope(t)
    BY <1>3, <1>4, Zenon DEF RightsScope
  <1> QED BY <1>3, <1>5, Zenon

(* A reissued operand is one.                                              *)
NarrowedTo(o, n) ==
  /\ OperandTyped(n) /\ n.kind = o.kind /\ n.actor = o.actor /\ n.tenant = o.tenant /\ n.profile = o.profile
  /\ n.profileGeneration = o.profileGeneration
  /\ \A d \in DOMAIN RightsDomains : ToSet(n.scope[d]) \subseteq ToSet(o.scope[d])

LEMMA NarrowingParts ==
  ASSUME NEW o, OperandTyped(o), NEW n \in Narrowings(o)
  PROVE  NarrowedTo(o, n)
  <1>1. PICK k, a, t, p, c, s : \E g \in Nat, pg \in Nat : RightsScope(s) /\ o = RightsOperand(k, a, t, g, p, pg, c, s)
    BY RightsOperandParts
  <1>2. PICK g \in Nat, pg \in Nat : RightsScope(s) /\ o = RightsOperand(k, a, t, g, p, pg, c, s)
    BY <1>1
  <1>3. o.scope = s /\ o.kind = k /\ o.actor = a /\ o.tenant = t /\ o.profile = p /\ o.profileGeneration = pg
    BY <1>2, RightsOperandTyped
  <1>0. \/ \E i \in DOMAIN o.scope : \E m \in DOMAIN o.scope[i] : n = [o EXCEPT !.scope[i] = RemoveAt(@, m)]
        \/ \E x \in {"ESCALATE", "DENY"} : n = [o EXCEPT !.ceiling = x]
    <2>1. PICK B : B = {[o EXCEPT !.ceiling = x] : x \in {"ESCALATE", "DENY"}}
      OBVIOUS
    <2>2. n \in Shortened(o) \/ n \in B
      BY <2>1 DEF Narrowings
    <2>3. ASSUME n \in B PROVE \E x \in {"ESCALATE", "DENY"} : n = [o EXCEPT !.ceiling = x]
      BY <2>1, <2>3
    <2>4. ASSUME n \in Shortened(o)
          PROVE  \E i \in DOMAIN o.scope : \E m \in DOMAIN o.scope[i] : n = [o EXCEPT !.scope[i] = RemoveAt(@, m)]
      <3>1. PICK i \in DOMAIN o.scope : n \in {[o EXCEPT !.scope[i] = RemoveAt(@, m)] : m \in DOMAIN o.scope[i]}
        BY <2>4, Zenon DEF Shortened
      <3> QED BY <3>1, Zenon
    <2> QED BY <2>2, <2>3, <2>4, Zenon
  <1>4. \/ \E i \in DOMAIN s : \E m \in DOMAIN s[i] : n = [o EXCEPT !.scope[i] = RemoveAt(@, m)]
        \/ \E x : n = [o EXCEPT !.ceiling = x]
    BY <1>0, <1>3
  <1>5. CASE \E x : n = [o EXCEPT !.ceiling = x]
    <2>1. PICK x : n = [o EXCEPT !.ceiling = x]
      BY <1>5
    <2>2. n = RightsOperand(k, a, t, g, p, pg, x, s)
      BY <1>2, <2>1 DEF RightsOperand
    <2>3. /\ OperandTyped(n) /\ n.kind = k /\ n.actor = a /\ n.tenant = t /\ n.profile = p /\ n.profileGeneration = pg
          /\ n.scope = s
      BY <1>2, <2>2, RightsOperandTyped
    <2> QED BY <1>3, <2>3, Zenon DEF NarrowedTo
  <1>6. CASE \E i \in DOMAIN s : \E m \in DOMAIN s[i] : n = [o EXCEPT !.scope[i] = RemoveAt(@, m)]
    <2>1. PICK i \in DOMAIN s : \E m \in DOMAIN s[i] : n = [o EXCEPT !.scope[i] = RemoveAt(@, m)]
      BY <1>6
    <2>2. PICK m \in DOMAIN s[i] : n = [o EXCEPT !.scope[i] = RemoveAt(@, m)]
      BY <2>1
    <2>3. PICK l : l = RemoveAt(s[i], m)
      OBVIOUS
    <2>4. PICK w : w = ChangedScope(s, i, l)
      OBVIOUS
    <2>5. n = RightsOperand(k, a, t, g, p, pg, c, w)
      BY <1>2, <2>2, <2>3, <2>4 DEF RightsOperand, ChangedScope
    <2>6. i \in DOMAIN RightsDomains
      BY <1>2, <2>1 DEF RightsScope
    <2>7. s[i] \in Seq(ToSet(s[i]))
      BY <1>2, <2>6, Zenon DEF RightsScope
    <2>8. l \in Seq(ToSet(l)) /\ ToSet(l) \subseteq ToSet(s[i])
      BY <2>3, <2>7, RemovedSeq, Zenon
    <2>9. RightsScope(w) /\ \A e \in DOMAIN RightsDomains : w[e] = IF e = i THEN l ELSE s[e]
      BY <1>2, <2>4, <2>8, ScopeChanged
    <2>10. \A e \in DOMAIN RightsDomains : ToSet(w[e]) \subseteq ToSet(s[e])
      BY <2>8, <2>9, Zenon
    <2>11. /\ OperandTyped(n) /\ n.kind = k /\ n.actor = a /\ n.tenant = t /\ n.profile = p /\ n.profileGeneration = pg
           /\ n.scope = w
      BY <2>5, <2>9, RightsOperandTyped
    <2> QED BY <1>3, <2>10, <2>11, Zenon DEF NarrowedTo
  <1> QED BY <1>4, <1>5, <1>6

LEMMA ReissuedTyped ==
  ASSUME NEW o, OperandTyped(o), NEW n \in Reissues(o)
  PROVE  OperandTyped(n)
  <1>1. PICK k, a, t, p, c, s : \E g \in Nat, pg \in Nat : RightsScope(s) /\ o = RightsOperand(k, a, t, g, p, pg, c, s)
    BY RightsOperandParts
  <1>2. PICK g \in Nat, pg \in Nat : RightsScope(s) /\ o = RightsOperand(k, a, t, g, p, pg, c, s)
    BY <1>1
  <1>3. o.scope = s /\ o.profileGeneration = pg
    BY <1>2, RightsOperandTyped
  <1>4. \/ n \in Narrowings(o)
        \/ n \in {[o EXCEPT !.profileGeneration = o.profileGeneration + 1], [o EXCEPT !.tenant = "other"],
                  [o EXCEPT !.kind = "ASSIGNMENT"], [o EXCEPT !.kind = "OTHER"], [o EXCEPT !.generation = 0]}
        \/ n \in {[o EXCEPT !.scope[1] = Append(@, "*")], [o EXCEPT !.scope[1] = @ \o @]}
    BY DEF Reissues
  <1>5. CASE n \in Narrowings(o)
    BY <1>5, NarrowingParts DEF NarrowedTo
  <1>6. CASE n \in {[o EXCEPT !.profileGeneration = o.profileGeneration + 1], [o EXCEPT !.tenant = "other"],
                    [o EXCEPT !.kind = "ASSIGNMENT"], [o EXCEPT !.kind = "OTHER"], [o EXCEPT !.generation = 0]}
    <2>1. n \in {RightsOperand(k, a, t, g, p, pg + 1, c, s), RightsOperand(k, a, "other", g, p, pg, c, s),
                 RightsOperand("ASSIGNMENT", a, t, g, p, pg, c, s), RightsOperand("OTHER", a, t, g, p, pg, c, s),
                 RightsOperand(k, a, t, 0, p, pg, c, s)}
      BY <1>2, <1>3, <1>6 DEF RightsOperand
    <2>2. pg + 1 \in Nat /\ 0 \in Nat
      OBVIOUS
    <2> QED BY <1>2, <2>1, <2>2, RightsOperandTyped
  <1>7. CASE n \in {[o EXCEPT !.scope[1] = Append(@, "*")], [o EXCEPT !.scope[1] = @ \o @]}
    <2>1. CASE 1 \notin DOMAIN RightsDomains
      <3>1. DOMAIN s = DOMAIN RightsDomains /\ s = [d \in DOMAIN s |-> s[d]]
        BY <1>2 DEF RightsScope
      <3>2. \A x : ChangedScope(s, 1, x) = s
        BY <2>1, <3>1 DEF ChangedScope
      <3>3. PICK l : n = RightsOperand(k, a, t, g, p, pg, c, ChangedScope(s, 1, l))
        BY <1>2, <1>7 DEF RightsOperand, ChangedScope
      <3> QED BY <1>2, <3>2, <3>3, RightsOperandTyped
    <2>2. CASE 1 \in DOMAIN RightsDomains
      <3>1. s[1] \in Seq(ToSet(s[1]))
        BY <1>2, <2>2, Zenon DEF RightsScope
      <3>2. PICK l : l \in {Append(s[1], "*"), s[1] \o s[1]} /\ n = RightsOperand(k, a, t, g, p, pg, c, ChangedScope(s, 1, l))
        BY <1>2, <1>7 DEF RightsOperand, ChangedScope
      <3>3. Append(s[1], "*") \in Seq(ToSet(Append(s[1], "*"))) /\ s[1] \o s[1] \in Seq(ToSet(s[1] \o s[1]))
        BY <3>1, AppendedSeq, DoubledSeq
      <3>4. l \in Seq(ToSet(l))
        BY <3>2, <3>3, Zenon
      <3>5. PICK w : w = ChangedScope(s, 1, l)
        OBVIOUS
      <3>6. RightsScope(w)
        BY <1>2, <3>4, <3>5, ScopeChanged
      <3> QED BY <1>2, <3>2, <3>5, <3>6, RightsOperandTyped
    <2> QED BY <2>1, <2>2
  <1> QED BY <1>4, <1>5, <1>6, <1>7

(* An input of operands.                                                   *)
LEMMA InputParts ==
  ASSUME NEW input, InputTyped(input)
  PROVE  /\ \E sound, actor, tenant : input = RightsInputOf(sound, actor, tenant, input.operands)
         /\ input.operands \in Seq(ToSet(input.operands)) /\ \A o \in ToSet(input.operands) : OperandTyped(o)
  BY Zenon DEF InputTyped, RightsInputOf

LEMMA InputMade ==
  ASSUME NEW sound, NEW actor, NEW tenant, NEW operands, NEW input, input = RightsInputOf(sound, actor, tenant, operands)
  PROVE  /\ input.sound = sound /\ input.actor = actor /\ input.tenant = tenant /\ input.operands = operands
         /\ operands \in Seq(ToSet(operands)) /\ (\A o \in ToSet(operands) : OperandTyped(o)) => InputTyped(input)
  <1>1. input.sound = sound /\ input.actor = actor /\ input.tenant = tenant /\ input.operands = operands
    BY DEF RightsInputOf
  <1>2. operands \in Seq(ToSet(operands)) /\ (\A o \in ToSet(operands) : OperandTyped(o)) => InputTyped(input)
    BY <1>1, Zenon DEF RightsInputOf, InputTyped
  <1> QED BY <1>1, <1>2, Zenon

LEMMA EffectiveInitial == EffectiveInit => EffectiveInv
  BY RightsAssumption, Zenon DEF EffectiveInit, EffectiveInv

(* Operands that change are operands.                                      *)
LEMMA ChangeKeeps ==
  ASSUME EffectiveInv, NEW operands, OperandsChange(operands),
         operands \in Seq(ToSet(operands)), \A o \in ToSet(operands) : OperandTyped(o)
  PROVE  EffectiveInv'
  <1>1. PICK input : input = erInput
    OBVIOUS
  <1>2. InputTyped(input)
    BY <1>1 DEF EffectiveInv
  <1>3. PICK sound, actor, tenant : input = RightsInputOf(sound, actor, tenant, input.operands)
    BY <1>2, InputParts
  <1>4. erInput' = [input EXCEPT !.operands = operands] /\ erResult = NoRights /\ UNCHANGED <<erResult, erView, erEdited>>
    BY <1>1 DEF OperandsChange
  <1>5. erInput' = RightsInputOf(sound, actor, tenant, operands)
    BY <1>3, <1>4 DEF RightsInputOf
  <1>6. InputTyped(erInput')
    BY <1>5, InputMade
  <1> QED BY <1>4, <1>6 DEF EffectiveInv

LEMMA EffectiveKeeps ==
  ASSUME EffectiveInv, [EffectiveNext]_erVars
  PROVE  EffectiveInv'
  <1>1. PICK ops : ops = erInput.operands
    OBVIOUS
  <1>2. ops \in Seq(ToSet(ops)) /\ \A o \in ToSet(ops) : OperandTyped(o)
    BY <1>1, InputParts, Zenon DEF EffectiveInv
  <1>3. DOMAIN ops = 1..Len(ops) /\ Len(ops) \in Nat /\ \A i \in DOMAIN ops : ops[i] \in ToSet(ops)
    BY <1>2, OwnSeq, Zenon DEF ToSet
  <1>4. CASE UNCHANGED erVars
    BY <1>4 DEF EffectiveInv, erVars
  <1>5. CASE OperandReissued
    <2>0. PICK i \in DOMAIN ops : \E o \in Reissues(ops[i]) : OperandsChange([ops EXCEPT ![i] = o])
      BY <1>1, <1>5, Zenon DEF OperandReissued
    <2>1. PICK o \in Reissues(ops[i]) : OperandsChange([ops EXCEPT ![i] = o])
      BY <2>0
    <2>2. OperandTyped(o)
      BY <1>2, <1>3, <2>1, ReissuedTyped, Zenon
    <2>3. PICK made : made = [ops EXCEPT ![i] = o]
      OBVIOUS
    <2>4. DOMAIN made = 1..Len(ops) /\ \A j \in 1..Len(ops) : made[j] = IF j = i THEN o ELSE ops[j]
      BY <1>2, <1>3, <2>3
    <2>5. PICK T : T = ToSet(ops) \cup {o}
      OBVIOUS
    <2>6. made \in Seq(T)
      <3>1. \A j \in 1..Len(ops) : made[j] \in T
        BY <1>3, <2>4, <2>5, Zenon
      <3>2. made = [j \in 1..Len(ops) |-> made[j]]
        BY <1>3, <2>3, <2>4
      <3>3. made \in [1..Len(ops) -> T]
        BY <3>1, <3>2
      <3> QED BY <1>3, <3>3, SeqDef
    <2>7. made \in Seq(ToSet(made)) /\ ToSet(made) \subseteq T
      BY <2>6, OwnSeq
    <2>8. \A q \in ToSet(made) : OperandTyped(q)
      BY <1>2, <2>2, <2>5, <2>7, Zenon
    <2> QED BY <2>1, <2>3, <2>7, <2>8, ChangeKeeps, Zenon
  <1>6. CASE OperandAdded
    <2>1. PICK i \in DOMAIN ops : OperandsChange(Append(ops, ops[i]))
      BY <1>1, <1>6, Zenon DEF OperandAdded
    <2>2. PICK o : o = ops[i]
      OBVIOUS
    <2>3. Append(ops, o) \in Seq(ToSet(Append(ops, o))) /\ ToSet(Append(ops, o)) \subseteq ToSet(ops) \cup {o}
      BY <1>2, AppendedSeq, Zenon
    <2>4. \A q \in ToSet(Append(ops, o)) : OperandTyped(q)
      BY <1>2, <1>3, <2>2, <2>3, Zenon
    <2> QED BY <2>1, <2>2, <2>3, <2>4, ChangeKeeps, Zenon
  <1>7. CASE OperandDropped
    <2>1. PICK i \in DOMAIN ops : OperandsChange(RemoveAt(ops, i))
      BY <1>1, <1>7, Zenon DEF OperandDropped
    <2>2. RemoveAt(ops, i) \in Seq(ToSet(RemoveAt(ops, i))) /\ ToSet(RemoveAt(ops, i)) \subseteq ToSet(ops)
      BY <1>2, RemovedSeq, Zenon
    <2> QED BY <1>2, <2>1, <2>2, ChangeKeeps, Zenon
  <1>8. CASE RightsCompiled
    BY <1>8, Zenon DEF RightsCompiled, EffectiveInv
  <1>9. CASE ResultEdited
    <2>1. /\ erResult # NoRights /\ erView = NoRights /\ erEdited = "NO" /\ erResult = Compiled(erInput)
          /\ UNCHANGED <<erInput, erChanges, erView>> /\ InputTyped(erInput)
      BY <1>9, Zenon DEF ResultEdited, EffectiveInv
    <2>2. PICK r \in ResultEdits(erResult) :
            (erResult' = r /\ erEdited' = "FIELD") \/ (erResult' = RightsSealed(r.core) /\ erEdited' = "SEALED")
      BY <1>9, Zenon DEF ResultEdited
    <2>3. r.digest # r.core
      <3>1. PICK core : Compiled(erInput) = RightsSealed(core)
        BY Zenon DEF Compiled
      <3>2. erResult = [core |-> core, digest |-> core]
        BY <2>1, <3>1 DEF RightsSealed
      <3>3. PICK c : r = [erResult EXCEPT !.core.outcome = c] /\ c # core.outcome
        BY <2>2, <3>2 DEF ResultEdits
      <3>4. PICK e : e = [core EXCEPT !.outcome = c]
        OBVIOUS
      <3>5. r.core = e /\ r.digest = core
        BY <3>2, <3>3, <3>4
      <3>6. "outcome" \in DOMAIN core
        <4>1. "outcome" \in DOMAIN Compiled(erInput).core
          BY DEF Compiled, RightsSealed
        <4> QED BY <2>1, <3>2, <4>1
      <3>7. e.outcome = c
        BY <3>4, <3>6
      <3> QED BY <3>3, <3>5, <3>7
    <2>4. InputTyped(erInput') /\ erView' = NoRights /\ erEdited' \in {"FIELD", "SEALED"} /\ (erEdited' = "FIELD" => erResult'.digest # erResult'.core)
      BY <2>1, <2>2, <2>3
    <2> QED BY <2>4, Zenon DEF EffectiveInv
  <1>10. CASE XrayRendered
    BY <1>10, Zenon DEF XrayRendered, EffectiveInv
  <1> QED BY <1>4, <1>5, <1>6, <1>7, <1>8, <1>9, <1>10 DEF EffectiveNext

(* What operands that are not denied are: one of each kind, all of them    *)
(* for one actor and one generation of a profile, and each allowing it.    *)
OneOfEach(input) ==
  LET ops == input.operands IN
  /\ input.sound
  /\ \A i \in DOMAIN ops : OperandIssues(ops[i]) = {} /\ ops[i].actor = input.actor /\ ops[i].tenant = input.tenant /\ ops[i].ceiling # "DENY"
  /\ \A i, j \in DOMAIN ops : ops[i].profile = ops[j].profile /\ ops[i].profileGeneration = ops[j].profileGeneration
  /\ \A i, j \in DOMAIN ops : ops[i].kind = ops[j].kind => i = j
  /\ \A k \in OperandKinds : \E i \in DOMAIN ops : ops[i].kind = k
Agreed(input) ==
  /\ OneOfEach(input)
  /\ \A d \in DOMAIN RightsDomains : \E x : \A i \in DOMAIN input.operands : x \in ToSet(input.operands[i].scope[d])

RightsOutcome(issues, operands) ==
  IF issues # {} THEN "DENY" ELSE IF \E o \in ToSet(operands) : o.ceiling = "ESCALATE" THEN "ESCALATE" ELSE "ALLOW"
RightsCore(actor, tenant, byKind, outcome, scope, issues) ==
  [of |-> [actor |-> actor, tenant |-> tenant, byKind |-> byKind], outcome |-> outcome, scope |-> scope,
   ceilings |-> byKind, issues |-> issues]
RightsCoreOf(input, ops) ==
  RightsCore(input.actor, input.tenant, ByKind(ops), RightsOutcome(RightsIssues(input, ops), ops), CommonScope(ops), RightsIssues(input, ops))

LEMMA CompiledCore ==
  ASSUME NEW input, NEW ops, ops = Parsed(input.operands), NEW core, core = Compiled(input).core
  PROVE  /\ core = RightsCoreOf(input, ops)
         /\ core.outcome = RightsOutcome(RightsIssues(input, ops), ops) /\ core.scope = CommonScope(ops)
  <1>1. core = RightsCoreOf(input, ops)
    BY Zenon DEF Compiled, RightsSealed, RightsCoreOf, RightsCore, RightsOutcome
  <1> QED BY <1>1 DEF RightsCoreOf, RightsCore

(* What is parsed of operands without an issue is all of them.             *)
LEMMA AllParsed ==
  ASSUME NEW T, NEW ops \in Seq(T), \A i \in DOMAIN ops : OperandIssues(ops[i]) = {}
  PROVE  Parsed(ops) = ops
  <1>1. DOMAIN ops = 1..Len(ops) /\ ops = [i \in DOMAIN ops |-> ops[i]]
    <2>1. ops \in [1..Len(ops) -> T]
      BY LenProperties
    <2> QED BY <2>1
  <1>2. {j \in DOMAIN ops : Parses(ops[j])} = DOMAIN ops
    BY Zenon DEF Parses
  <1> QED BY <1>1, <1>2, Zenon DEF Parsed

(* Kinds: what one without an issue is of.                                 *)
LEMMA SoundOperand ==
  ASSUME NEW o, OperandIssues(o) = {}
  PROVE  /\ o.kind \in OperandKinds /\ o.ceiling \in Ceilings
         /\ \A d \in DOMAIN o.scope : ToSet(o.scope[d]) \subseteq RightsDomains[d]
  <1>1. o.kind \in OperandKinds
    BY Zenon DEF OperandIssues
  <1>2. o.ceiling \in Ceilings
    BY <1>1, Zenon DEF OperandIssues
  <1>3. ScopeIssues(o.scope) = {}
    BY <1>1, <1>2, Zenon DEF OperandIssues
  <1>4. PICK s : s = o.scope
    OBVIOUS
  <1>5. \A d \in DOMAIN s : d \in ReadDomains(s)
    <2>1. PICK A : A = {"SCHEMA" : i \in DOMAIN s \ ReadDomains(s)}
      OBVIOUS
    <2>2. A = {}
      BY <1>3, <1>4, <2>1, Zenon DEF ScopeIssues
    <2>3. \A d \in DOMAIN s \ ReadDomains(s) : "SCHEMA" \in A
      BY <2>1
    <2> QED BY <2>2, <2>3
  <1>6. \A d \in ReadDomains(s) : ToSet(s[d]) \subseteq RightsDomains[d]
    <2>1. PICK A : A = {"UNKNOWN" : i \in {j \in ReadDomains(s) : ~(ToSet(s[j]) \subseteq RightsDomains[j])}}
      OBVIOUS
    <2>2. A = {}
      BY <1>3, <1>4, <2>1, Zenon DEF ScopeIssues
    <2>3. \A d \in ReadDomains(s) : ~(ToSet(s[d]) \subseteq RightsDomains[d]) => "UNKNOWN" \in A
      BY <2>1
    <2> QED BY <2>2, <2>3
  <1> QED BY <1>1, <1>2, <1>4, <1>5, <1>6, Zenon

LEMMA CountOne ==
  ASSUME NEW S, IsFiniteSet(S), NEW x, x \notin S
  PROVE  IsFiniteSet(S \cup {x}) /\ Cardinality(S \cup {x}) = Cardinality(S) + 1
  BY FS_AddElement

(* Four operands, one of each kind.                                        *)
LEMMA FourOperands ==
  ASSUME NEW input, InputTyped(input), OneOfEach(input)
  PROVE  LET ops == input.operands IN
         Len(ops) = 4 /\ Cardinality(DOMAIN ops) = 4 /\ {o.kind : o \in ToSet(ops)} = OperandKinds
  <1>1. PICK ops : ops = input.operands
    OBVIOUS
  <1>2. /\ \A i \in DOMAIN ops : ops[i].kind \in OperandKinds
        /\ \A i, j \in DOMAIN ops : ops[i].kind = ops[j].kind => i = j
        /\ \A k \in OperandKinds : \E i \in DOMAIN ops : ops[i].kind = k
    BY <1>1, SoundOperand, Zenon DEF OneOfEach
  <1>3. DOMAIN ops = 1..Len(ops) /\ Len(ops) \in Nat
    <2>1. ops \in Seq(ToSet(ops))
      BY <1>1, InputParts, Zenon
    <2> QED BY <2>1, OwnSeq
  <1>4. PICK a \in DOMAIN ops : ops[a].kind = "PROFILE"
    BY <1>2, Zenon DEF OperandKinds
  <1>5. PICK b \in DOMAIN ops : ops[b].kind = "ASSIGNMENT"
    BY <1>2, Zenon DEF OperandKinds
  <1>6. PICK c \in DOMAIN ops : ops[c].kind = "CAPABILITY"
    BY <1>2, Zenon DEF OperandKinds
  <1>7. PICK d \in DOMAIN ops : ops[d].kind = "CONSTRAINT"
    BY <1>2, Zenon DEF OperandKinds
  <1>8. a # b /\ a # c /\ a # d /\ b # c /\ b # d /\ c # d
    BY <1>4, <1>5, <1>6, <1>7
  <1>9. DOMAIN ops = {b, c, d} \cup {a}
    <2>1. \A i \in DOMAIN ops : i \in {a, b, c, d}
      BY <1>2, <1>4, <1>5, <1>6, <1>7, Zenon DEF OperandKinds
    <2> QED BY <1>4, <1>5, <1>6, <1>7, <2>1
  <1>10. Cardinality(DOMAIN ops) = 4
    <2>1. IsFiniteSet({}) /\ Cardinality({}) = 0
      BY FS_EmptySet
    <2>2. PICK one, two, three : one = {b} /\ two = {b, c} /\ three = {b, c, d}
      OBVIOUS
    <2>3. one = {} \cup {b} /\ two = one \cup {c} /\ three = two \cup {d} /\ c \notin one /\ d \notin two /\ a \notin three
      BY <1>8, <2>2
    <2>4. IsFiniteSet(one) /\ Cardinality(one) = 0 + 1
      BY <2>1, <2>3, CountOne, Zenon
    <2>5. IsFiniteSet(two) /\ Cardinality(two) = Cardinality(one) + 1
      BY <2>3, <2>4, CountOne, Zenon
    <2>6. IsFiniteSet(three) /\ Cardinality(three) = Cardinality(two) + 1
      BY <2>3, <2>5, CountOne, Zenon
    <2>7. Cardinality(three \cup {a}) = Cardinality(three) + 1
      BY <2>3, <2>6, CountOne, Zenon
    <2>8. DOMAIN ops = three \cup {a}
      BY <1>9, <2>2, Zenon
    <2> QED BY <2>4, <2>5, <2>6, <2>7, <2>8
  <1>11. Len(ops) = 4
    <2>1. Cardinality(1..Len(ops)) = IF 1 > Len(ops) THEN 0 ELSE Len(ops) - 1 + 1
      BY <1>3, FS_Interval
    <2> QED BY <1>3, <1>10, <2>1
  <1>12. {o.kind : o \in ToSet(ops)} = OperandKinds
    <2>1. PICK S, K : S = ToSet(ops) /\ K = {o.kind : o \in S}
      OBVIOUS
    <2>2. \A o : o \in S <=> \E i \in DOMAIN ops : o = ops[i]
      BY <2>1 DEF ToSet
    <2>3. \A k : k \in K <=> k \in OperandKinds
      BY <1>2, <2>1, <2>2
    <2> QED BY <2>1, <2>3
  <1> QED BY <1>1, <1>10, <1>11, <1>12

(* What operands share, by their places.                                   *)
LEMMA SharedScope ==
  ASSUME NEW ops, Cardinality(DOMAIN ops) = 4, NEW n \in DOMAIN ops, NEW d \in DOMAIN RightsDomains, NEW x
  PROVE  x \in CommonScope(ops)[d] <=> \A i \in DOMAIN ops : x \in ToSet(ops[i].scope[d])
  <1>1. CommonScope(ops)[d] = {y \in UNION {ToSet(o.scope[d]) : o \in ToSet(ops)} : \A o \in ToSet(ops) : y \in ToSet(o.scope[d])}
    BY Zenon DEF CommonScope
  <1>2. PICK S : S = ToSet(ops)
    OBVIOUS
  <1>3. \A o : o \in S <=> \E i \in DOMAIN ops : o = ops[i]
    BY <1>2 DEF ToSet
  <1>4. (\A i \in DOMAIN ops : x \in ToSet(ops[i].scope[d])) <=> \A o \in S : x \in ToSet(o.scope[d])
    BY <1>3, Zenon
  <1>5. (\A o \in S : x \in ToSet(o.scope[d])) => x \in UNION {ToSet(o.scope[d]) : o \in S}
    <2>1. PICK o : o = ops[n] /\ o \in S
      BY <1>3
    <2> QED BY <2>1, Zenon
  <1> QED BY <1>1, <1>2, <1>4, <1>5, Zenon

(* Without an issue, operands agree.                                       *)
LEMMA NoIssueAgrees ==
  ASSUME NEW input, InputTyped(input), RightsIssues(input, Parsed(input.operands)) = {}
  PROVE  Agreed(input) /\ Parsed(input.operands) = input.operands
  <1>1. PICK ops, issues : ops = input.operands /\ issues = UNION {OperandIssues(o) : o \in ToSet(ops)}
    OBVIOUS
  <1>2. /\ input.sound /\ issues = {} /\ KindIssues(Parsed(ops)) = {}
        /\ BindingIssues(input, Parsed(ops)) = {} /\ ScopeDenials(Parsed(ops)) = {}
    <2>1. PICK A, B, C, D :
            /\ A = InputIssues(input) /\ B = KindIssues(Parsed(input.operands))
            /\ C = BindingIssues(input, Parsed(input.operands)) /\ D = ScopeDenials(Parsed(input.operands))
      OBVIOUS
    <2>2. A = {} /\ B = {} /\ C = {} /\ D = {}
      BY <2>1 DEF RightsIssues
    <2>3. issues = {}
      BY <1>1, <2>1, <2>2 DEF InputIssues
    <2>4. input.sound
      BY <2>1, <2>2 DEF InputIssues
    <2> QED BY <1>1, <2>1, <2>2, <2>3, <2>4
  <1>3. ops \in Seq(ToSet(ops)) /\ \A o \in ToSet(ops) : OperandTyped(o)
    BY <1>1, InputParts, Zenon
  <1>4. \A o : o \in ToSet(ops) <=> \E i \in DOMAIN ops : o = ops[i]
    BY DEF ToSet
  <1>5. \A i \in DOMAIN ops : OperandIssues(ops[i]) = {}
    <2>1. ASSUME NEW o \in ToSet(ops) PROVE OperandIssues(o) = {}
      <3>1. OperandIssues(o) \subseteq issues
        BY <1>1
      <3> QED BY <1>2, <3>1
    <2> QED BY <1>4, <2>1, Zenon
  <1>6. Parsed(ops) = ops
    BY <1>3, <1>5, AllParsed, Zenon
  <1>7. /\ \A k \in OperandKinds : \E i \in DOMAIN ops : ops[i].kind = k
        /\ \A i, j \in DOMAIN ops : ops[i].kind = ops[j].kind => i = j
    <2>1. PICK A, B : A = {"MISSING" : k \in {x \in OperandKinds : OfKind(ops, x) = {}}}
                      /\ B = {"DUPLICATE" : k \in {x \in OperandKinds : \E i, j \in OfKind(ops, x) : i # j}}
      OBVIOUS
    <2>2. A = {} /\ B = {}
      BY <1>2, <1>6, <2>1, Zenon DEF KindIssues
    <2>3. \A k \in OperandKinds : OfKind(ops, k) # {}
      BY <2>1, <2>2
    <2>4. \A k \in OperandKinds : \A i, j \in OfKind(ops, k) : i = j
      BY <2>1, <2>2
    <2>5. \A k, i : i \in OfKind(ops, k) <=> i \in DOMAIN ops /\ ops[i].kind = k
      BY DEF OfKind
    <2>6. \A i \in DOMAIN ops : ops[i].kind \in OperandKinds
      BY <1>5, SoundOperand, Zenon
    <2>7. \A k \in OperandKinds : \E i \in DOMAIN ops : ops[i].kind = k
      BY <2>3, <2>5
    <2>8. ASSUME NEW i \in DOMAIN ops, NEW j \in DOMAIN ops, ops[i].kind = ops[j].kind PROVE i = j
      <3>1. PICK k \in OperandKinds : k = ops[i].kind
        BY <2>6
      <3> QED BY <2>4, <2>5, <2>8, <3>1
    <2> QED BY <2>7, <2>8, Zenon
  <1>8. \A i \in DOMAIN ops : ops[i].ceiling # "DENY"
    <2>1. PICK A : A = {"EXPLICIT_DENY" : o \in {x \in ToSet(ops) : x.ceiling = "DENY"}}
      OBVIOUS
    <2>2. A = {}
      BY <1>2, <1>6, <2>1, Zenon DEF ScopeDenials
    <2>3. \A o \in ToSet(ops) : o.ceiling # "DENY"
      BY <2>1, <2>2
    <2> QED BY <1>4, <2>3, Zenon
  <1>9. PICK p \in DOMAIN ops : \A o \in ToSet(ops) :
          /\ o.actor = input.actor /\ o.tenant = input.tenant /\ o.profile = ops[p].profile
          /\ ~(o.profileGeneration > ops[p].profileGeneration) /\ ~(o.profileGeneration < ops[p].profileGeneration)
    <2>1. PICK profiles, p : profiles = OfKind(ops, "PROFILE") /\ p = CHOOSE i \in profiles : \A j \in profiles : i <= j
      OBVIOUS
    <2>2. PICK q \in DOMAIN ops : profiles = {q}
      <3>1. PICK q \in DOMAIN ops : ops[q].kind = "PROFILE"
        BY <1>7, Zenon DEF OperandKinds
      <3>2. \A i : i \in profiles <=> i \in DOMAIN ops /\ ops[i].kind = "PROFILE"
        BY <2>1 DEF OfKind
      <3>3. profiles = {q}
        BY <1>7, <3>1, <3>2
      <3> QED BY <3>1, <3>3
    <2>3. p = q
      <3>1. q \in Int
        BY <1>3, <2>2, OwnSeq
      <3>2. \E i \in profiles : \A j \in profiles : i <= j
        BY <2>2, <3>1
      <3>3. p \in profiles
        BY <2>1, <3>2
      <3> QED BY <2>2, <3>3
    <2>4. PICK profile : profile = ops[p]
      OBVIOUS
    <2>5. BindingIssues(input, ops) = UNION {OperandBinding(input, profile, o) : o \in ToSet(ops)}
      <3>1. PICK S : S = ToSet(ops)
        OBVIOUS
      <3>2. {x \in S : profiles # {}} = S
        BY <2>2
      <3> QED BY <2>1, <2>4, <3>1, <3>2, Zenon DEF BindingIssues
    <2>6. ASSUME NEW o \in ToSet(ops)
          PROVE  /\ o.actor = input.actor /\ o.tenant = input.tenant /\ o.profile = profile.profile
                 /\ ~(o.profileGeneration > profile.profileGeneration) /\ ~(o.profileGeneration < profile.profileGeneration)
      <3>1. OperandBinding(input, profile, o) \subseteq BindingIssues(input, ops)
        BY <2>5, Zenon
      <3>2. OperandBinding(input, profile, o) = {}
        BY <1>2, <1>6, <3>1
      <3> QED BY <3>2 DEF OperandBinding
    <2> QED BY <2>2, <2>3, <2>4, <2>6, Zenon
  <1>10. \A i, j \in DOMAIN ops : ops[i].profile = ops[j].profile /\ ops[i].profileGeneration = ops[j].profileGeneration
    <2>1. \A i \in DOMAIN ops : ops[i] \in ToSet(ops) /\ ops[i].profileGeneration \in Nat
      BY <1>3, <1>4, Zenon DEF OperandTyped
    <2>2. \A i \in DOMAIN ops : ops[i].profile = ops[p].profile /\ ops[i].profileGeneration = ops[p].profileGeneration
      BY <1>9, <2>1
    <2> QED BY <2>2, Zenon
  <1>11. OneOfEach(input)
    <2>1. \A i \in DOMAIN ops : ops[i] \in ToSet(ops)
      BY <1>4
    <2>2. \A i \in DOMAIN ops : OperandIssues(ops[i]) = {} /\ ops[i].actor = input.actor /\ ops[i].tenant = input.tenant /\ ops[i].ceiling # "DENY"
      BY <1>5, <1>8, <1>9, <2>1, Zenon
    <2> QED BY <1>1, <1>2, <1>7, <1>10, <2>2 DEF OneOfEach
  <1>12. \A d \in DOMAIN RightsDomains : \E x : \A i \in DOMAIN ops : x \in ToSet(ops[i].scope[d])
    <2>1. Cardinality(DOMAIN ops) = 4 /\ Len(ops) = 4
      BY <1>1, <1>11, FourOperands, Zenon
    <2>2. PICK n \in DOMAIN ops : n = 1
      BY <1>3, <2>1, OwnSeq
    <2>3. PICK A : A = {"EMPTY" : i \in {j \in DOMAIN RightsDomains : Cardinality(DOMAIN ops) = 4 /\ CommonScope(ops)[j] = {}}}
      OBVIOUS
    <2>4. A = {}
      BY <1>2, <1>6, <2>3, Zenon DEF ScopeDenials
    <2>5. \A d \in DOMAIN RightsDomains : CommonScope(ops)[d] # {}
      BY <2>1, <2>3, <2>4
    <2>6. ASSUME NEW d \in DOMAIN RightsDomains PROVE \E x : \A i \in DOMAIN ops : x \in ToSet(ops[i].scope[d])
      <3>1. PICK x : x \in CommonScope(ops)[d]
        BY <2>5
      <3> QED BY <2>1, <2>2, <3>1, SharedScope, Zenon
    <2> QED BY <2>6
  <1> QED BY <1>1, <1>6, <1>11, <1>12, Zenon DEF Agreed

(* Operands that agree have no issue.                                      *)
LEMMA AgreesNoIssue ==
  ASSUME NEW input, InputTyped(input), Agreed(input)
  PROVE  RightsIssues(input, Parsed(input.operands)) = {} /\ Parsed(input.operands) = input.operands
  <1>1. PICK ops : ops = input.operands
    OBVIOUS
  <1>2. ops \in Seq(ToSet(ops)) /\ \A o \in ToSet(ops) : OperandTyped(o)
    BY <1>1, InputParts, Zenon
  <1>3. \A o : o \in ToSet(ops) <=> \E i \in DOMAIN ops : o = ops[i]
    BY DEF ToSet
  <1>4. OneOfEach(input)
    BY DEF Agreed
  <1>5. \A i \in DOMAIN ops : OperandIssues(ops[i]) = {} /\ ops[i].actor = input.actor /\ ops[i].tenant = input.tenant /\ ops[i].ceiling # "DENY"
    BY <1>1, <1>4, Zenon DEF OneOfEach
  <1>6. Parsed(ops) = ops
    BY <1>2, <1>5, AllParsed, Zenon
  <1>7. Cardinality(DOMAIN ops) = 4 /\ Len(ops) = 4
    BY <1>1, <1>4, FourOperands, Zenon
  <1>8. PICK n \in DOMAIN ops : n = 1
    BY <1>2, <1>7, OwnSeq
  <1>9. InputIssues(input) = {}
    <2>1. \A o \in ToSet(ops) : OperandIssues(o) = {}
      BY <1>3, <1>5, Zenon
    <2>2. input.sound
      BY <1>4 DEF OneOfEach
    <2>3. UNION {OperandIssues(o) : o \in ToSet(ops)} = {}
      BY <2>1
    <2> QED BY <1>1, <2>2, <2>3 DEF InputIssues
  <1>10. KindIssues(ops) = {}
    <2>1. /\ \A k \in OperandKinds : \E i \in DOMAIN ops : ops[i].kind = k
          /\ \A i, j \in DOMAIN ops : ops[i].kind = ops[j].kind => i = j
      BY <1>1, <1>4 DEF OneOfEach
    <2>2. \A k, i : i \in OfKind(ops, k) <=> i \in DOMAIN ops /\ ops[i].kind = k
      BY DEF OfKind
    <2>3. \A k \in OperandKinds : OfKind(ops, k) # {} /\ \A i, j \in OfKind(ops, k) : i = j
      BY <2>1, <2>2
    <2> QED BY <2>3 DEF KindIssues
  <1>11. BindingIssues(input, ops) = {}
    <2>1. PICK q : q = CHOOSE i \in OfKind(ops, "PROFILE") : \A j \in OfKind(ops, "PROFILE") : i <= j
      OBVIOUS
    <2>2. q \in DOMAIN ops
      <3>1. PICK p \in DOMAIN ops : ops[p].kind = "PROFILE"
        BY <1>1, <1>4, Zenon DEF OneOfEach, OperandKinds
      <3>2. \A i : i \in OfKind(ops, "PROFILE") <=> i = p
        <4>1. \A i, j \in DOMAIN ops : ops[i].kind = ops[j].kind => i = j
          BY <1>1, <1>4 DEF OneOfEach
        <4> QED BY <3>1, <4>1 DEF OfKind
      <3>3. p \in Int
        BY <1>2, OwnSeq
      <3>4. \E i \in OfKind(ops, "PROFILE") : \A j \in OfKind(ops, "PROFILE") : i <= j
        BY <3>2, <3>3
      <3>5. q \in OfKind(ops, "PROFILE")
        BY <2>1, <3>4
      <3> QED BY <3>1, <3>2, <3>5
    <2>3. PICK profile : profile = ops[q]
      OBVIOUS
    <2>4. ASSUME NEW o \in ToSet(ops) PROVE OperandBinding(input, profile, o) = {}
      <3>1. PICK i \in DOMAIN ops : o = ops[i]
        BY <1>3
      <3>2. \A j \in DOMAIN ops : ops[i].profile = ops[j].profile /\ ops[i].profileGeneration = ops[j].profileGeneration
        BY <1>1, <1>4 DEF OneOfEach
      <3>3. o.actor = input.actor /\ o.tenant = input.tenant /\ o.profile = profile.profile /\ o.profileGeneration = profile.profileGeneration
        BY <1>5, <2>2, <2>3, <3>1, <3>2
      <3>4. o.profileGeneration \in Nat
        BY <1>2, Zenon DEF OperandTyped
      <3>5. ~(o.profileGeneration > profile.profileGeneration) /\ ~(o.profileGeneration < profile.profileGeneration)
        BY <3>3, <3>4
      <3> QED BY <3>3, <3>5, Zenon DEF OperandBinding
    <2>5. BindingIssues(input, ops) = UNION {OperandBinding(input, profile, o) : o \in {x \in ToSet(ops) : OfKind(ops, "PROFILE") # {}}}
      BY <2>1, <2>3, Zenon DEF BindingIssues
    <2> QED BY <2>4, <2>5
  <1>12. ScopeDenials(ops) = {}
    <2>1. ASSUME NEW d \in DOMAIN RightsDomains PROVE CommonScope(ops)[d] # {}
      <3>1. PICK x : \A i \in DOMAIN ops : x \in ToSet(ops[i].scope[d])
        BY <1>1, Zenon DEF Agreed
      <3> QED BY <1>7, <1>8, <3>1, SharedScope, Zenon
    <2>2. \A o \in ToSet(ops) : o.ceiling # "DENY"
      BY <1>3, <1>5
    <2> QED BY <2>1, <2>2 DEF ScopeDenials
  <1> QED BY <1>1, <1>6, <1>9, <1>10, <1>11, <1>12 DEF RightsIssues

(* What is compiled of operands that agree says nothing of their order.    *)
ScopeOf(S) == [d \in DOMAIN RightsDomains |-> {x \in UNION {ToSet(o.scope[d]) : o \in S} : \A o \in S : x \in ToSet(o.scope[d])}]
KindsOf(S) == [k \in OperandKinds |-> [o \in {q \in S : q.kind = k} |-> 1]]

LEMMA OrderIsNothing ==
  ASSUME NEW input, InputTyped(input), Agreed(input), NEW S, S = ToSet(input.operands)
  PROVE  Compiled(input).core =
           RightsCore(input.actor, input.tenant, KindsOf(S), IF \E o \in S : o.ceiling = "ESCALATE" THEN "ESCALATE" ELSE "ALLOW", ScopeOf(S), {})
  <1>1. PICK ops : ops = input.operands
    OBVIOUS
  <1>2. RightsIssues(input, ops) = {} /\ Parsed(ops) = ops
    BY <1>1, AgreesNoIssue, Zenon
  <1>3. OneOfEach(input) /\ Cardinality(DOMAIN ops) = 4
    BY <1>1, FourOperands, Zenon DEF Agreed
  <1>4. CommonScope(ops) = ScopeOf(S)
    BY <1>1, <1>3 DEF CommonScope, ScopeOf
  <1>5. ByKind(ops) = KindsOf(S)
    <2>1. ASSUME NEW k \in OperandKinds PROVE ByKind(ops)[k] = KindsOf(S)[k]
      <3>1. \A o : o \in S <=> \E i \in DOMAIN ops : o = ops[i]
        BY <1>1 DEF ToSet
      <3>2. PICK A, B : A = {ops[i] : i \in OfKind(ops, k)} /\ B = {q \in S : q.kind = k}
        OBVIOUS
      <3>3. A = B
        BY <3>1, <3>2 DEF OfKind
      <3>4. ASSUME NEW o \in A PROVE Cardinality({i \in OfKind(ops, k) : ops[i] = o}) = 1
        <4>1. PICK i \in OfKind(ops, k) : o = ops[i]
          BY <3>2, <3>4
        <4>2. \A j \in OfKind(ops, k) : j = i
          <5>1. \A m, j \in DOMAIN ops : ops[m].kind = ops[j].kind => m = j
            BY <1>1, <1>3 DEF OneOfEach
          <5> QED BY <4>1, <5>1 DEF OfKind
        <4>3. {j \in OfKind(ops, k) : ops[j] = o} = {i}
          BY <4>1, <4>2
        <4> QED BY <4>3, FS_Singleton
      <3>5. ByKind(ops)[k] = [o \in A |-> Cardinality({i \in OfKind(ops, k) : ops[i] = o})]
        BY <3>2, Zenon DEF ByKind
      <3>6. KindsOf(S)[k] = [o \in B |-> 1]
        BY <3>2, Zenon DEF KindsOf
      <3>7. [o \in A |-> Cardinality({i \in OfKind(ops, k) : ops[i] = o})] = [o \in A |-> 1]
        BY <3>4
      <3> QED BY <3>3, <3>5, <3>6, <3>7
    <2>2. PICK f, g : f = ByKind(ops) /\ g = KindsOf(S)
      OBVIOUS
    <2>3. f = [k \in OperandKinds |-> f[k]] /\ g = [k \in OperandKinds |-> g[k]]
      BY <2>2 DEF ByKind, KindsOf
    <2>4. \A k \in OperandKinds : f[k] = g[k]
      BY <2>1, <2>2
    <2> QED BY <2>2, <2>3, <2>4, Zenon
  <1>6. Compiled(input).core = RightsCoreOf(input, ops)
    BY <1>1, <1>2, CompiledCore
  <1>7. RightsOutcome({}, ops) = IF \E o \in S : o.ceiling = "ESCALATE" THEN "ESCALATE" ELSE "ALLOW"
    BY <1>1 DEF RightsOutcome
  <1> QED BY <1>2, <1>4, <1>5, <1>6, <1>7, Zenon DEF RightsCoreOf

LEMMA DeniedOrAgreed ==
  ASSUME NEW input, InputTyped(input), ~RightsDenied(input)
  PROVE  Agreed(input)
  <1>1. PICK ops, issues : ops = Parsed(input.operands) /\ issues = RightsIssues(input, ops)
    OBVIOUS
  <1>2. RightsOutcome(issues, ops) # "DENY"
    BY <1>1, CompiledCore, Zenon DEF RightsDenied
  <1>3. issues = {}
    BY <1>2 DEF RightsOutcome
  <1> QED BY <1>1, <1>3, NoIssueAgrees

LEMMA BackwardsIsSame ==
  ASSUME NEW input, InputTyped(input), Agreed(input)
  PROVE  Compiled([input EXCEPT !.operands = Reverse(input.operands)]).core = Compiled(input).core
  <1>1. PICK sound, actor, tenant, ops : ops = input.operands /\ input = RightsInputOf(sound, actor, tenant, ops)
    BY InputParts
  <1>2. PICK back, other : back = Reverse(ops) /\ other = [input EXCEPT !.operands = back]
    OBVIOUS
  <1>3. other = RightsInputOf(sound, actor, tenant, back)
    BY <1>1, <1>2 DEF RightsInputOf
  <1>4. ops \in Seq(ToSet(ops)) /\ \A o \in ToSet(ops) : OperandTyped(o)
    BY <1>1, InputParts, Zenon
  <1>5. DOMAIN ops = 1..Len(ops) /\ Len(ops) \in Nat
    BY <1>4, OwnSeq
  <1>6. back = [i \in 1..Len(ops) |-> ops[(Len(ops) - i) + 1]]
    BY <1>2 DEF Reverse
  <1>7. PICK m : DOMAIN back = DOMAIN ops /\ \A i \in DOMAIN ops : m[i] \in DOMAIN ops /\ back[i] = ops[m[i]] /\ m[m[i]] = i
    <2>1. PICK m : m = [i \in DOMAIN ops |-> (Len(ops) - i) + 1]
      OBVIOUS
    <2>2. DOMAIN back = DOMAIN ops /\ \A i \in DOMAIN ops : m[i] \in DOMAIN ops /\ back[i] = ops[m[i]] /\ m[m[i]] = i
      BY <1>5, <1>6, <2>1
    <2> QED BY <2>2
  <1>8. ToSet(back) = ToSet(ops)
    <2>1. \A o : o \in ToSet(back) <=> \E i \in DOMAIN back : o = back[i]
      BY DEF ToSet
    <2>2. \A o : o \in ToSet(ops) <=> \E i \in DOMAIN ops : o = ops[i]
      BY DEF ToSet
    <2>3. \A o : o \in ToSet(back) <=> o \in ToSet(ops)
      BY <1>7, <2>1, <2>2
    <2> QED BY <2>3
  <1>9. back \in Seq(ToSet(ops))
    <2>1. \A i \in 1..Len(ops) : back[i] \in ToSet(ops)
      <3>1. \A i \in DOMAIN ops : ops[i] \in ToSet(ops)
        BY DEF ToSet
      <3> QED BY <1>5, <1>7, <3>1
    <2>2. back \in [1..Len(ops) -> ToSet(ops)]
      BY <1>6, <2>1
    <2> QED BY <1>5, <2>2, SeqDef
  <1>10. InputTyped(other)
    BY <1>3, <1>4, <1>8, <1>9, InputMade
  <1>11. other.sound = input.sound /\ other.actor = input.actor /\ other.tenant = input.tenant /\ other.operands = back
    BY <1>1, <1>3, InputMade
  <1>12. OneOfEach(other)
    <2>1. OneOfEach(input)
      BY DEF Agreed
    <2>2. /\ input.sound
          /\ \A i \in DOMAIN ops : OperandIssues(ops[i]) = {} /\ ops[i].actor = input.actor /\ ops[i].tenant = input.tenant /\ ops[i].ceiling # "DENY"
          /\ \A i, j \in DOMAIN ops : ops[i].profile = ops[j].profile /\ ops[i].profileGeneration = ops[j].profileGeneration
          /\ \A i, j \in DOMAIN ops : ops[i].kind = ops[j].kind => i = j
          /\ \A k \in OperandKinds : \E i \in DOMAIN ops : ops[i].kind = k
      BY <1>1, <2>1 DEF OneOfEach
    <2>3. \A i \in DOMAIN ops : OperandIssues(back[i]) = {} /\ back[i].actor = input.actor /\ back[i].tenant = input.tenant /\ back[i].ceiling # "DENY"
      BY <1>7, <2>2
    <2>4. \A i, j \in DOMAIN ops : back[i].profile = back[j].profile /\ back[i].profileGeneration = back[j].profileGeneration
      BY <1>7, <2>2
    <2>5. ASSUME NEW i \in DOMAIN ops, NEW j \in DOMAIN ops, back[i].kind = back[j].kind PROVE i = j
      <3>1. m[i] = m[j]
        BY <1>7, <2>2, <2>5
      <3> QED BY <1>7, <3>1
    <2>6. \A k \in OperandKinds : \E i \in DOMAIN ops : back[i].kind = k
      BY <1>7, <2>2
    <2> QED BY <1>7, <1>11, <2>2, <2>3, <2>4, <2>5, <2>6 DEF OneOfEach
  <1>13. Agreed(other)
    <2>1. \A d \in DOMAIN RightsDomains : \E x : \A i \in DOMAIN ops : x \in ToSet(ops[i].scope[d])
      BY <1>1, Zenon DEF Agreed
    <2>2. \A d \in DOMAIN RightsDomains : \E x : \A i \in DOMAIN ops : x \in ToSet(back[i].scope[d])
      BY <1>7, <2>1
    <2> QED BY <1>7, <1>11, <1>12, <2>2 DEF Agreed
  <1>14. PICK S : S = ToSet(ops)
    OBVIOUS
  <1>15. Compiled(input).core =
           RightsCore(input.actor, input.tenant, KindsOf(S), IF \E o \in S : o.ceiling = "ESCALATE" THEN "ESCALATE" ELSE "ALLOW", ScopeOf(S), {})
    BY <1>1, <1>14, OrderIsNothing
  <1>16. Compiled(other).core =
           RightsCore(other.actor, other.tenant, KindsOf(S), IF \E o \in S : o.ceiling = "ESCALATE" THEN "ESCALATE" ELSE "ALLOW", ScopeOf(S), {})
    BY <1>8, <1>10, <1>11, <1>13, <1>14, OrderIsNothing
  <1> QED BY <1>1, <1>2, <1>11, <1>15, <1>16, Zenon

(* What is compiled of operands that agree.                                *)
LEMMA AgreedCore ==
  ASSUME NEW input, InputTyped(input), Agreed(input), NEW ops, ops = input.operands, NEW core, core = Compiled(input).core
  PROVE  /\ Len(ops) = 4 /\ 1 \in DOMAIN ops
         /\ \A i \in DOMAIN ops : ops[i].ceiling \in {core.outcome, "ALLOW"}
         /\ \A d \in DOMAIN RightsDomains : \A x : x \in core.scope[d] <=> \A i \in DOMAIN ops : x \in ToSet(ops[i].scope[d])
  <1>1. RightsIssues(input, ops) = {} /\ Parsed(ops) = ops
    BY AgreesNoIssue, Zenon
  <1>2. OneOfEach(input) /\ Len(ops) = 4 /\ Cardinality(DOMAIN ops) = 4
    BY FourOperands, Zenon DEF Agreed
  <1>3. 1 \in DOMAIN ops
    <2>1. ops \in Seq(ToSet(ops))
      BY InputParts, Zenon
    <2> QED BY <1>2, <2>1, OwnSeq
  <1>4. core.outcome = RightsOutcome({}, ops) /\ core.scope = CommonScope(ops)
    <2>1. ops = Parsed(input.operands)
      BY <1>1
    <2>2. core.outcome = RightsOutcome(RightsIssues(input, ops), ops) /\ core.scope = CommonScope(ops)
      BY <2>1, CompiledCore, Zenon
    <2> QED BY <1>1, <2>2, Zenon
  <1>5. ASSUME NEW i \in DOMAIN ops PROVE ops[i].ceiling \in {core.outcome, "ALLOW"}
    <2>1. OperandIssues(ops[i]) = {} /\ ops[i].ceiling # "DENY"
      BY <1>2, <1>5, Zenon DEF OneOfEach
    <2>2. ops[i].ceiling \in Ceilings
      BY <2>1, SoundOperand, Zenon
    <2>3. ops[i].ceiling = "ESCALATE" => core.outcome = "ESCALATE"
      BY <1>4 DEF RightsOutcome, ToSet
    <2> QED BY <2>1, <2>2, <2>3 DEF Ceilings
  <1>6. ASSUME NEW d \in DOMAIN RightsDomains, NEW x
        PROVE  x \in core.scope[d] <=> \A i \in DOMAIN ops : x \in ToSet(ops[i].scope[d])
    BY <1>2, <1>3, <1>4, SharedScope, Zenon
  <1> QED BY <1>2, <1>3, <1>5, <1>6

(* What a narrower operand takes is taken of what all of them share.       *)
LEMMA NarrowedCore ==
  ASSUME NEW input, InputTyped(input), Agreed(input), NEW ops, ops = input.operands, NEW n \in DOMAIN ops,
         NEW o \in Narrowings(ops[n]), NEW less, less = [input EXCEPT !.operands[n] = o], ~RightsDenied(less)
  PROVE  /\ o.ceiling \in {Compiled(less).core.outcome, "ALLOW"}
         /\ \A d \in DOMAIN RightsDomains :
              Compiled(less).core.scope[d] = Compiled(input).core.scope[d] \ (ToSet(ops[n].scope[d]) \ ToSet(o.scope[d]))
  <1>1. PICK sound, actor, tenant : input = RightsInputOf(sound, actor, tenant, ops)
    BY InputParts
  <1>2. PICK made : made = [ops EXCEPT ![n] = o]
    OBVIOUS
  <1>3. less = RightsInputOf(sound, actor, tenant, made)
    BY <1>1, <1>2 DEF RightsInputOf
  <1>4. ops \in Seq(ToSet(ops)) /\ \A q \in ToSet(ops) : OperandTyped(q)
    BY InputParts, Zenon
  <1>5. \A i \in DOMAIN ops : ops[i] \in ToSet(ops)
    BY DEF ToSet
  <1>6. NarrowedTo(ops[n], o)
    BY <1>4, <1>5, NarrowingParts, Zenon
  <1>7. DOMAIN ops = 1..Len(ops) /\ Len(ops) \in Nat
    BY <1>4, OwnSeq
  <1>8. DOMAIN made = DOMAIN ops /\ made = [i \in DOMAIN ops |-> made[i]] /\ \A i \in DOMAIN ops : made[i] = IF i = n THEN o ELSE ops[i]
    <2>1. ops \in [1..Len(ops) -> ToSet(ops)]
      BY <1>4, LenProperties
    <2> QED BY <1>2, <2>1
  <1>9. PICK T : T = ToSet(ops) \cup {o}
    OBVIOUS
  <1>10. made \in Seq(T)
    <2>1. \A i \in DOMAIN ops : made[i] \in T
      BY <1>5, <1>8, <1>9
    <2>2. made \in [1..Len(ops) -> T]
      BY <1>7, <1>8, <2>1
    <2> QED BY <1>7, <2>2, SeqDef
  <1>11. made \in Seq(ToSet(made)) /\ ToSet(made) \subseteq T
    BY <1>10, OwnSeq
  <1>12. \A q \in ToSet(made) : OperandTyped(q)
    <2>1. OperandTyped(o)
      BY <1>6, Zenon DEF NarrowedTo
    <2> QED BY <1>4, <1>9, <1>11, <2>1
  <1>13. InputTyped(less) /\ less.operands = made
    <2>1. PICK other : other = less
      OBVIOUS
    <2>2. other = RightsInputOf(sound, actor, tenant, made)
      BY <1>3, <2>1, Zenon
    <2>3. InputTyped(other) /\ other.operands = made
      BY ONLY <1>11, <1>12, <2>2, InputMade
    <2> QED BY <2>1, <2>3, Zenon
  <1>14. Agreed(less)
    BY <1>13, DeniedOrAgreed
  <1>15. PICK core, old : core = Compiled(less).core /\ old = Compiled(input).core
    OBVIOUS
  <1>16. /\ \A i \in DOMAIN made : made[i].ceiling \in {core.outcome, "ALLOW"}
         /\ \A d \in DOMAIN RightsDomains : \A x : x \in core.scope[d] <=> \A i \in DOMAIN made : x \in ToSet(made[i].scope[d])
    BY <1>13, <1>14, <1>15, AgreedCore
  <1>17. \A d \in DOMAIN RightsDomains : \A x : x \in old.scope[d] <=> \A i \in DOMAIN ops : x \in ToSet(ops[i].scope[d])
    BY <1>15, AgreedCore, Zenon
  <1>18. o.ceiling \in {core.outcome, "ALLOW"}
    BY <1>8, <1>16
  <1>19. ASSUME NEW d \in DOMAIN RightsDomains
         PROVE  core.scope[d] = old.scope[d] \ (ToSet(ops[n].scope[d]) \ ToSet(o.scope[d]))
    <2>1. ToSet(o.scope[d]) \subseteq ToSet(ops[n].scope[d])
      BY <1>6, Zenon DEF NarrowedTo
    <2>2. PICK P, Q, C, D : P = ToSet(ops[n].scope[d]) /\ Q = ToSet(o.scope[d]) /\ C = core.scope[d] /\ D = old.scope[d]
      OBVIOUS
    <2>3. ASSUME NEW x PROVE x \in C <=> x \in D /\ ~(x \in P /\ x \notin Q)
      <3>1. x \in C <=> \A i \in DOMAIN ops : x \in ToSet(made[i].scope[d])
        BY <1>8, <1>16, <2>2, Zenon
      <3>2. x \in D <=> \A i \in DOMAIN ops : x \in ToSet(ops[i].scope[d])
        BY <1>17, <2>2, Zenon
      <3>3. x \in Q => x \in P
        BY <2>1, <2>2
      <3>4. x \in C => x \in D
        BY <1>8, <2>2, <3>1, <3>2, <3>3
      <3>5. x \in C => x \in Q
        BY <1>8, <2>2, <3>1
      <3>6. x \in D /\ x \in Q => x \in C
        BY <1>8, <2>2, <3>1, <3>2
      <3>7. x \in D => x \in P
        BY <2>2, <3>2
      <3> QED BY <3>3, <3>4, <3>5, <3>6, <3>7
    <2> QED BY <2>2, <2>3
  <1> QED BY <1>15, <1>18, <1>19

(* Rights only narrow, and an X-ray shows what was compiled.               *)
LEMMA RightsNarrow == EffectiveInv => RightsOnlyNarrow
  <1> SUFFICES ASSUME EffectiveInv PROVE RightsOnlyNarrow
    OBVIOUS
  <1>1. PICK input, ops, core : input = erInput /\ ops = input.operands /\ core = Compiled(input).core
    OBVIOUS
  <1>2. InputTyped(input)
    BY <1>1 DEF EffectiveInv
  <1>3. erView # NoRights /\ erEdited # "SEALED" => XrayParity(erView, Compiled(input))
    <2> SUFFICES ASSUME erView # NoRights, erEdited # "SEALED" PROVE XrayParity(erView, Compiled(input))
      OBVIOUS
    <2>1. VerifiedResult(erResult) /\ erView = Xray(erResult) /\ erResult # NoRights
      BY Zenon DEF EffectiveInv
    <2>2. erResult.digest = erResult.core
      BY <2>1, Zenon DEF VerifiedResult
    <2>3. erEdited = "NO"
      BY <2>1, <2>2, Zenon DEF EffectiveInv
    <2>4. erResult = Compiled(input)
      BY <1>1, <2>1, <2>3, Zenon DEF EffectiveInv
    <2> QED BY <2>1, <2>4, Zenon DEF XrayParity
  <1>4. ASSUME ~RightsDenied(input)
        PROVE  /\ Len(ops) = 4 /\ {o.kind : o \in ToSet(ops)} = OperandKinds
               /\ \A o \in ToSet(ops) :
                    /\ o.actor = input.actor /\ o.tenant = input.tenant
                    /\ o.profile = ops[1].profile /\ o.profileGeneration = ops[1].profileGeneration
                    /\ o.ceiling \in {core.outcome, "ALLOW"}
                    /\ \A i \in DOMAIN RightsDomains : core.scope[i] # {} /\ core.scope[i] \subseteq ToSet(o.scope[i]) \cap RightsDomains[i]
               /\ Compiled([input EXCEPT !.operands = Reverse(ops)]).core = core
    <2>1. Agreed(input) /\ OneOfEach(input)
      BY <1>2, <1>4, DeniedOrAgreed, Zenon DEF Agreed
    <2>2. {o.kind : o \in ToSet(ops)} = OperandKinds
      BY <1>1, <1>2, <2>1, FourOperands
    <2>3. /\ Len(ops) = 4 /\ 1 \in DOMAIN ops
          /\ \A i \in DOMAIN ops : ops[i].ceiling \in {core.outcome, "ALLOW"}
          /\ \A d \in DOMAIN RightsDomains : \A x : x \in core.scope[d] <=> \A i \in DOMAIN ops : x \in ToSet(ops[i].scope[d])
      BY <1>1, <1>2, <2>1, AgreedCore
    <2>4. Compiled([input EXCEPT !.operands = Reverse(ops)]).core = core
      BY <1>1, <1>2, <2>1, BackwardsIsSame
    <2>5. ASSUME NEW o \in ToSet(ops)
          PROVE  /\ o.actor = input.actor /\ o.tenant = input.tenant
                 /\ o.profile = ops[1].profile /\ o.profileGeneration = ops[1].profileGeneration
                 /\ o.ceiling \in {core.outcome, "ALLOW"}
                 /\ \A d \in DOMAIN RightsDomains : core.scope[d] # {} /\ core.scope[d] \subseteq ToSet(o.scope[d]) \cap RightsDomains[d]
      <3>1. PICK i \in DOMAIN ops : o = ops[i]
        BY <2>5 DEF ToSet
      <3>2. OperandIssues(o) = {} /\ o.actor = input.actor /\ o.tenant = input.tenant
        BY <1>1, <2>1, <3>1 DEF OneOfEach
      <3>3. o.profile = ops[1].profile /\ o.profileGeneration = ops[1].profileGeneration
        BY <1>1, <2>1, <2>3, <3>1 DEF OneOfEach
      <3>4. o.ceiling \in {core.outcome, "ALLOW"}
        BY <2>3, <3>1
      <3>5. ASSUME NEW d \in DOMAIN RightsDomains PROVE core.scope[d] # {} /\ core.scope[d] \subseteq ToSet(o.scope[d]) \cap RightsDomains[d]
        <4>1. PICK x : \A j \in DOMAIN ops : x \in ToSet(ops[j].scope[d])
          BY <1>1, <2>1, Zenon DEF Agreed
        <4>2. x \in core.scope[d]
          BY <2>3, <4>1, Zenon
        <4>3. OperandTyped(o)
          BY <1>1, <1>2, <2>5, InputParts, Zenon
        <4>4. d \in DOMAIN o.scope
          <5>1. o.scope = [e \in DOMAIN RightsDomains |-> o.scope[e]]
            BY <4>3, Zenon DEF OperandTyped
          <5> QED BY <5>1
        <4>5. ToSet(o.scope[d]) \subseteq RightsDomains[d]
          BY <3>2, <4>4, SoundOperand, Zenon
        <4>6. \A y \in core.scope[d] : y \in ToSet(o.scope[d])
          BY <2>3, <3>1, Zenon
        <4> QED BY <4>2, <4>5, <4>6
      <3> QED BY <3>2, <3>3, <3>4, <3>5
    <2> QED BY <2>2, <2>3, <2>4, <2>5
  <1>5. ASSUME ~RightsDenied(input), NEW n \in DOMAIN ops, NEW o \in Narrowings(ops[n]),
               NEW less, less = [input EXCEPT !.operands[n] = o], ~RightsDenied(less)
        PROVE  /\ \A d \in DOMAIN RightsDomains : Compiled(less).core.scope[d] = core.scope[d] \ (ToSet(ops[n].scope[d]) \ ToSet(o.scope[d]))
               /\ o.ceiling \in {Compiled(less).core.outcome, "ALLOW"}
    <2>1. Agreed(input)
      BY <1>2, <1>5, DeniedOrAgreed
    <2> QED BY <1>1, <1>2, <1>5, <2>1, NarrowedCore
  <1>6. ~RightsDenied(erInput) =>
          /\ Len(erInput.operands) = 4 /\ {o.kind : o \in ToSet(erInput.operands)} = OperandKinds
          /\ \A o \in ToSet(erInput.operands) :
               /\ o.actor = erInput.actor /\ o.tenant = erInput.tenant
               /\ o.profile = erInput.operands[1].profile /\ o.profileGeneration = erInput.operands[1].profileGeneration
               /\ o.ceiling \in {Compiled(erInput).core.outcome, "ALLOW"}
               /\ \A i \in DOMAIN RightsDomains :
                    Compiled(erInput).core.scope[i] # {} /\ Compiled(erInput).core.scope[i] \subseteq ToSet(o.scope[i]) \cap RightsDomains[i]
          /\ Compiled([erInput EXCEPT !.operands = Reverse(erInput.operands)]).core = Compiled(erInput).core
    BY <1>1, <1>4
  <1>7. ~RightsDenied(erInput) =>
          \A n \in DOMAIN erInput.operands : \A o \in Narrowings(erInput.operands[n]) :
            LET less == [erInput EXCEPT !.operands[n] = o]
                taken(i) == ToSet(erInput.operands[n].scope[i]) \ ToSet(o.scope[i])
            IN \/ RightsDenied(less)
               \/ /\ \A i \in DOMAIN RightsDomains : Compiled(less).core.scope[i] = Compiled(erInput).core.scope[i] \ taken(i)
                  /\ o.ceiling \in {Compiled(less).core.outcome, "ALLOW"}
    <2> SUFFICES ASSUME ~RightsDenied(erInput), NEW n \in DOMAIN erInput.operands, NEW o \in Narrowings(erInput.operands[n]),
                        NEW less, less = [erInput EXCEPT !.operands[n] = o], ~RightsDenied(less)
                 PROVE  /\ \A i \in DOMAIN RightsDomains :
                             Compiled(less).core.scope[i] = Compiled(erInput).core.scope[i] \ (ToSet(erInput.operands[n].scope[i]) \ ToSet(o.scope[i]))
                        /\ o.ceiling \in {Compiled(less).core.outcome, "ALLOW"}
      OBVIOUS
    <2>1. ~RightsDenied(input) /\ n \in DOMAIN ops /\ o \in Narrowings(ops[n]) /\ less = [input EXCEPT !.operands[n] = o]
      BY <1>1, Zenon
    <2>2. /\ \A d \in DOMAIN RightsDomains : Compiled(less).core.scope[d] = core.scope[d] \ (ToSet(ops[n].scope[d]) \ ToSet(o.scope[d]))
          /\ o.ceiling \in {Compiled(less).core.outcome, "ALLOW"}
      BY <1>5, <2>1, Zenon
    <2> QED BY <1>1, <2>2, Zenon
  <1>8. erView # NoRights /\ erEdited # "SEALED" => XrayParity(erView, Compiled(erInput))
    BY <1>1, <1>3
  <1> QED BY <1>6, <1>7, <1>8, Zenon DEF RightsOnlyNarrow

-----------------------------------------------------------------------------
(* The setup compatibility planner                                         *)

(* The sets a fold of the use cases goes through.                          *)
AskedTo(r, n, f) ==
  f = [m \in 0..n |-> IF m = 0 THEN Chose(r) ELSE WithUseCase(r, r.useCases[m], f[m - 1])]

LEMMA AskedExists ==
  ASSUME NEW r, NEW len \in Nat
  PROVE  \E f : AskedTo(r, len, f)
  <1> DEFINE T == {n \in Nat : ~\E f : AskedTo(r, n, f)}
  <1>1. SUFFICES ASSUME T # {} PROVE FALSE
    OBVIOUS
  <1>2. PICK n \in T : \A m \in T : n <= m
    BY <1>1, LeastNatural
  <1>3. n # 0
    <2>1. PICK f : f = [m \in 0..0 |-> Chose(r)]
      OBVIOUS
    <2>2. f = [m \in 0..0 |-> IF m = 0 THEN Chose(r) ELSE WithUseCase(r, r.useCases[m], f[m - 1])]
      BY <2>1
    <2>3. AskedTo(r, 0, f)
      BY <2>2 DEF AskedTo
    <2> QED BY <2>3
  <1>4. PICK p \in Nat : n = p + 1
    BY <1>2, <1>3
  <1>5. p \notin T
    BY <1>2, <1>4
  <1>6. PICK f : AskedTo(r, p, f)
    BY <1>5
  <1>7. PICK g : g = [m \in 0..n |-> IF m = n THEN WithUseCase(r, r.useCases[n], f[p]) ELSE f[m]]
    OBVIOUS
  <1>8. \A m \in 0..p : f[m] = IF m = 0 THEN Chose(r) ELSE WithUseCase(r, r.useCases[m], f[m - 1])
    BY <1>6 DEF AskedTo
  <1>9. \A m \in 0..n : g[m] = IF m = 0 THEN Chose(r) ELSE WithUseCase(r, r.useCases[m], g[m - 1])
    <2>1. SUFFICES ASSUME NEW m \in 0..n PROVE g[m] = IF m = 0 THEN Chose(r) ELSE WithUseCase(r, r.useCases[m], g[m - 1])
      OBVIOUS
    <2>2. CASE m = n
      <3>1. g[m] = WithUseCase(r, r.useCases[m], f[p]) /\ g[p] = f[p] /\ p = m - 1 /\ m # 0
        BY <1>4, <1>7, <2>2
      <3> QED BY <3>1
    <2>3. CASE m # n
      <3>1. m \in 0..p /\ g[m] = f[m] /\ (m # 0 => g[m - 1] = f[m - 1])
        BY <1>4, <1>7, <2>3
      <3> QED BY <1>8, <3>1
    <2> QED BY <2>2, <2>3
  <1>10. AskedTo(r, n, g)
    <2>1. g = [m \in 0..n |-> g[m]]
      BY <1>7
    <2>2. [m \in 0..n |-> g[m]] = [m \in 0..n |-> IF m = 0 THEN Chose(r) ELSE WithUseCase(r, r.useCases[m], g[m - 1])]
      BY <1>9
    <2> QED BY <2>1, <2>2, Zenon DEF AskedTo
  <1> QED BY <1>2, <1>10

LEMMA AskedSteps ==
  ASSUME NEW r, Len(r.useCases) \in Nat
  PROVE  \E f : AskedTo(r, Len(r.useCases), f) /\ Asked(r) = f[Len(r.useCases)]
  <1>1. \E f : AskedTo(r, Len(r.useCases), f)
    BY AskedExists
  <1>2. Asked(r) = (CHOOSE f : AskedTo(r, Len(r.useCases), f))[Len(r.useCases)]
    BY Zenon DEF Asked, AskedTo
  <1> QED BY <1>1, <1>2, Zenon

LEMMA SequenceParts ==
  ASSUME NEW T, NEW s \in Seq(T)
  PROVE  Len(s) \in Nat /\ DOMAIN s = 1..Len(s) /\ ToSet(s) \subseteq T /\ \A n \in 1..Len(s) : s[n] \in ToSet(s)
  <1>1. s \in [1..Len(s) -> T] /\ Len(s) \in Nat /\ DOMAIN s = 1..Len(s)
    BY LenProperties
  <1> QED BY <1>1 DEF ToSet

(* What is so of no step and of the next is so of all of them.             *)
LEMMA StepByStep ==
  ASSUME NEW T, NEW len \in Nat, 0 \in T, \A n \in 0..(len - 1) : n \in T => n + 1 \in T
  PROVE  len \in T
  <1>1. SUFFICES ASSUME len \notin T PROVE FALSE
    OBVIOUS
  <1>2. PICK n \in {k \in 0..len : k \notin T} : \A m \in {k \in 0..len : k \notin T} : n <= m
    <2>1. {k \in 0..len : k \notin T} \in SUBSET Nat /\ len \in {k \in 0..len : k \notin T}
      BY <1>1
    <2> QED BY <2>1, LeastNatural
  <1>3. n \in 0..len /\ n \notin T /\ n # 0
    BY <1>2
  <1>4. n - 1 \in 0..(len - 1) /\ n - 1 \in 0..len /\ ~(n <= n - 1) /\ (n - 1) + 1 = n
    BY <1>3
  <1>5. n - 1 \in T
    BY <1>2, <1>4
  <1> QED BY <1>3, <1>4, <1>5

(* A valid catalog's parts.                                                *)
LEMMA CatalogParts ==
  ASSUME NEW c, ValidCatalog(c)
  PROVE  LET ids == DOMAIN c.components IN
         /\ \A id \in ids : NeedsMet(c, c.components[id].needs) /\ DOMAIN c.components[id].needs \subseteq ids
         /\ \A u \in DOMAIN c.useCases :
              /\ DOMAIN c.useCases[u].needs \subseteq ids
              /\ c.useCases[u].simulator = NoSimulator \/ c.useCases[u].simulator \in ids
              /\ \A g \in ToSet(c.useCases[u].groups) : g.oneOf # <<>> /\ ToSet(g.oneOf) \subseteq ids
         /\ \A b \in DOMAIN c.bases : c.bases[b].components \subseteq ids /\ c.bases[b].useCases \subseteq DOMAIN c.useCases
         /\ Cardinality(Recommended(c)) = 1
  <1>1. \A id \in DOMAIN c.components : NeedsMet(c, c.components[id].needs)
    BY Zenon DEF ValidCatalog
  <1>2. \A id \in DOMAIN c.components : DOMAIN c.components[id].needs \subseteq DOMAIN c.components
    BY <1>1 DEF NeedsMet
  <1>3. ASSUME NEW u \in DOMAIN c.useCases
        PROVE  /\ DOMAIN c.useCases[u].needs \subseteq DOMAIN c.components
               /\ c.useCases[u].simulator = NoSimulator \/ c.useCases[u].simulator \in DOMAIN c.components
               /\ \A g \in ToSet(c.useCases[u].groups) : g.oneOf # <<>> /\ ToSet(g.oneOf) \subseteq DOMAIN c.components
    <2>1. PICK use, ids : use = c.useCases[u] /\ ids = DOMAIN c.components
      OBVIOUS
    <2>2. /\ DOMAIN use.needs \cup use.blocks \subseteq ids
          /\ \A i \in DOMAIN use.groups : use.groups[i].oneOf # <<>> /\ \A id \in ToSet(use.groups[i].oneOf) : id \in ids
          /\ use.simulator = NoSimulator \/ use.simulator \in ids
      BY <1>3, <2>1, Zenon DEF ValidCatalog
    <2>3. \A g \in ToSet(use.groups) : \E i \in DOMAIN use.groups : g = use.groups[i]
      BY DEF ToSet
    <2>4. \A g \in ToSet(use.groups) : g.oneOf # <<>> /\ ToSet(g.oneOf) \subseteq ids
      BY <2>2, <2>3
    <2> QED BY <2>1, <2>2, <2>4
  <1>4. \A b \in DOMAIN c.bases : c.bases[b].components \subseteq DOMAIN c.components /\ c.bases[b].useCases \subseteq DOMAIN c.useCases
    BY Zenon DEF ValidCatalog
  <1>5. Cardinality(Recommended(c)) = 1
    BY Zenon DEF ValidCatalog
  <1> QED BY <1>1, <1>2, <1>3, <1>4, <1>5

LEMMA ProviderIsOne ==
  ASSUME NEW r, RequestTyped(r), ProvidersAllowed(r), NEW u \in ToSet(r.useCases), NEW g \in ToSet(CatalogOf(r).useCases[u].groups)
  PROVE  ProviderOf(r, g) \in ToSet(g.oneOf)
  <1>1. r.useCases \in Seq(DOMAIN CatalogOf(r).useCases) /\ r.catalog \in DOMAIN PlannerCatalogs /\ ValidCatalog(CatalogOf(r))
    BY Zenon DEF RequestTyped
  <1>2. u \in DOMAIN CatalogOf(r).useCases
    BY <1>1, SequenceParts
  <1>3. u \in Evaluated(r)
    BY <1>2 DEF Evaluated
  <1>4. CASE g.group \in DOMAIN r.providers
    BY <1>3, <1>4, Zenon DEF ProvidersAllowed, ProviderOf
  <1>5. CASE g.group \notin DOMAIN r.providers
    <2>1. g.oneOf # <<>>
      BY <1>1, <1>2, CatalogParts, Zenon
    <2>2. g.oneOf \in Seq(ToSet(g.oneOf))
      BY <1>1, <1>2, PlanningAssumption, Zenon DEF CatalogOf
    <2>3. g.oneOf[1] \in ToSet(g.oneOf)
      BY <2>1, <2>2, EmptySeq, LenProperties
    <2> QED BY <1>5, <2>3 DEF ProviderOf
  <1> QED BY <1>4, <1>5

(* What a use case asks for, and that it has it.                           *)
AskedBy(r, u, id) ==
  LET use == CatalogOf(r).useCases[u] IN
  id = use.simulator \/ id \in DOMAIN use.needs \/ \E g \in ToSet(use.groups) : id = ProviderOf(r, g)

LEMMA UseCaseServed ==
  ASSUME NEW r, RequestTyped(r), ProvidersAllowed(r), NEW u \in ToSet(r.useCases), NEW s, s \subseteq DOMAIN CatalogOf(r).components,
         NEW w, w = WithUseCase(r, u, s)
  PROVE  /\ s \subseteq w /\ w \subseteq DOMAIN CatalogOf(r).components /\ \A id \in w \ s : AskedBy(r, u, id)
         /\ \A t : w \subseteq t => WithUseCase(r, u, t) = t
  <1>1. PICK ids, use : ids = DOMAIN CatalogOf(r).components /\ use = CatalogOf(r).useCases[u]
    OBVIOUS
  <1>2. r.useCases \in Seq(DOMAIN CatalogOf(r).useCases) /\ ValidCatalog(CatalogOf(r))
    BY Zenon DEF RequestTyped
  <1>3. u \in DOMAIN CatalogOf(r).useCases
    BY <1>2, SequenceParts
  <1>4. /\ DOMAIN use.needs \subseteq ids /\ (use.simulator = NoSimulator \/ use.simulator \in ids)
        /\ \A g \in ToSet(use.groups) : ToSet(g.oneOf) \subseteq ids
    BY <1>1, <1>2, <1>3, CatalogParts
  <1>5. PICK groups, needs : groups = ToSet(use.groups) /\ needs = DOMAIN use.needs
    OBVIOUS
  <1>6. \A g \in groups : ProviderOf(r, g) \in ToSet(g.oneOf) /\ ProviderOf(r, g) \in ids
    BY <1>1, <1>4, <1>5, ProviderIsOne
  <1>7. \A id : AskedBy(r, u, id) <=> id = use.simulator \/ id \in needs \/ \E g \in groups : id = ProviderOf(r, g)
    BY <1>1, <1>5, Zenon DEF AskedBy
  <1>8. CASE r.mode = "SYSTEM_FIRST" /\ ~r.complete
    <2>1. \A t : WithUseCase(r, u, t) = t
      BY <1>8 DEF WithUseCase
    <2> QED BY <1>1, <2>1
  <1>9. CASE r.mode = "SYSTEM_FIRST" /\ r.complete
    <2>1. \A t, id : id \in WithUseCase(r, u, t) <=>
            id \in t \/ id \in needs \/ \E g \in groups : ToSet(g.oneOf) \cap t = {} /\ id = ProviderOf(r, g)
      <3>1. ASSUME NEW t PROVE WithUseCase(r, u, t) = t \cup Completion(r, u, t)
        BY <1>9 DEF WithUseCase
      <3>2. ASSUME NEW t PROVE Completion(r, u, t) = (needs \ t) \cup {ProviderOf(r, g) : g \in {x \in groups : ToSet(x.oneOf) \cap t = {}}}
        BY <1>1, <1>5, Zenon DEF Completion
      <3>3. ASSUME NEW t, NEW id
            PROVE  id \in WithUseCase(r, u, t) <=>
                     id \in t \/ id \in needs \/ \E g \in groups : ToSet(g.oneOf) \cap t = {} /\ id = ProviderOf(r, g)
        BY <3>1, <3>2
      <3> QED BY <3>3
    <2>2. \A g \in groups : ToSet(g.oneOf) \cap w # {}
      BY <1>6, <2>1
    <2>3. ASSUME NEW t, w \subseteq t PROVE WithUseCase(r, u, t) = t
      <3>1. needs \subseteq t /\ \A g \in groups : ToSet(g.oneOf) \cap t # {}
        BY <2>1, <2>2, <2>3
      <3>2. \A id : id \in WithUseCase(r, u, t) <=> id \in t
        BY <2>1, <3>1
      <3> QED BY <3>2
    <2> QED BY <1>1, <1>4, <1>5, <1>6, <1>7, <2>1, <2>3
  <1>10. CASE r.mode # "SYSTEM_FIRST"
    <2>1. PICK more : more = needs \cup (IF r.simulate /\ use.simulator # NoSimulator THEN {use.simulator} ELSE {ProviderOf(r, g) : g \in groups})
      OBVIOUS
    <2>2. \A t : WithUseCase(r, u, t) = t \cup more
      BY <1>1, <1>5, <1>10, <2>1 DEF WithUseCase
    <2>3. more \subseteq ids /\ \A id \in more : AskedBy(r, u, id)
      BY <1>1, <1>4, <1>5, <1>6, <1>7, <2>1
    <2> QED BY <1>1, <2>2, <2>3
  <1> QED BY <1>8, <1>9, <1>10

(* What was asked for.                                                     *)
LEMMA AskedHasAll ==
  ASSUME NEW r, RequestTyped(r), ProvidersAllowed(r)
  PROVE  /\ Chose(r) \subseteq Asked(r) /\ Asked(r) \subseteq DOMAIN CatalogOf(r).components
         /\ \A id \in Asked(r) \ Chose(r) : \E u \in ToSet(r.useCases) : AskedBy(r, u, id)
         /\ \A u \in ToSet(r.useCases) : \A t : Asked(r) \subseteq t => WithUseCase(r, u, t) = t
  <1>1. PICK ids, uses, len : ids = DOMAIN CatalogOf(r).components /\ uses = r.useCases /\ len = Len(uses)
    OBVIOUS
  <1>2. len \in Nat /\ DOMAIN uses = 1..len /\ \A n \in 1..len : uses[n] \in ToSet(uses)
    <2>1. uses \in Seq(DOMAIN CatalogOf(r).useCases)
      BY <1>1, Zenon DEF RequestTyped
    <2> QED BY <1>1, <2>1, SequenceParts
  <1>3. Chose(r) \subseteq ids
    <2>1. r.base \in DOMAIN CatalogOf(r).bases /\ r.extras \subseteq ids /\ ValidCatalog(CatalogOf(r))
      BY <1>1, Zenon DEF RequestTyped
    <2>2. CatalogOf(r).bases[r.base].components \subseteq ids
      BY <1>1, <2>1, CatalogParts
    <2> QED BY <2>1, <2>2 DEF Chose
  <1>4. PICK f : AskedTo(r, len, f) /\ Asked(r) = f[len]
    BY <1>1, <1>2, AskedSteps
  <1>5. \A m \in 0..len : f[m] = IF m = 0 THEN Chose(r) ELSE WithUseCase(r, uses[m], f[m - 1])
    BY <1>1, <1>4 DEF AskedTo
  <1> DEFINE Good(m) == /\ Chose(r) \subseteq f[m] /\ f[m] \subseteq ids
                        /\ \A id \in f[m] \ Chose(r) : \E u \in ToSet(uses) : AskedBy(r, u, id)
                        /\ \A n \in 1..m : \A t : f[m] \subseteq t => WithUseCase(r, uses[n], t) = t
             T == {m \in 0..len : Good(m)}
  <1>6. 0 \in T
    BY <1>2, <1>3, <1>5
  <1>7. ASSUME NEW n \in 0..(len - 1), n \in T PROVE n + 1 \in T
    <2>1. n + 1 \in 1..len /\ n + 1 \in 0..len /\ (n + 1) - 1 = n /\ n + 1 # 0
      BY <1>2
    <2>2. f[n + 1] = WithUseCase(r, uses[n + 1], f[n])
      BY <1>5, <2>1
    <2>3. PICK u, s, w : u = uses[n + 1] /\ s = f[n] /\ w = f[n + 1]
      OBVIOUS
    <2>4. u \in ToSet(r.useCases) /\ s \subseteq ids /\ w = WithUseCase(r, u, s)
      BY <1>1, <1>2, <1>7, <2>1, <2>2, <2>3
    <2>5. s \subseteq w /\ w \subseteq ids /\ (\A id \in w \ s : AskedBy(r, u, id)) /\ \A t : w \subseteq t => WithUseCase(r, u, t) = t
      BY <1>1, <2>4, UseCaseServed
    <2>6. /\ Chose(r) \subseteq s /\ \A id \in s \ Chose(r) : \E v \in ToSet(uses) : AskedBy(r, v, id)
          /\ \A m \in 1..n : \A t : s \subseteq t => WithUseCase(r, uses[m], t) = t
      BY <1>7, <2>3
    <2>7. \A id \in w \ Chose(r) : \E v \in ToSet(uses) : AskedBy(r, v, id)
      BY <1>1, <2>4, <2>5, <2>6
    <2>8. ASSUME NEW m \in 1..(n + 1), NEW t, w \subseteq t PROVE WithUseCase(r, uses[m], t) = t
      <3>1. CASE m = n + 1
        BY <2>3, <2>5, <2>8, <3>1
      <3>2. CASE m # n + 1
        <4>1. m \in 1..n /\ s \subseteq t
          BY <1>2, <2>5, <2>8, <3>2
        <4> QED BY <2>6, <4>1
      <3> QED BY <3>1, <3>2
    <2> QED BY <2>1, <2>3, <2>5, <2>6, <2>7, <2>8
  <1>8. len \in T
    <2> HIDE DEF T
    <2> QED BY <1>2, <1>6, <1>7, StepByStep
  <1>9. Good(len)
    BY <1>8
  <1>10. \A u \in ToSet(uses) : \E n \in 1..len : u = uses[n]
    BY <1>2 DEF ToSet
  <1>11. PICK all : all = Asked(r)
    OBVIOUS
  <1>12. all = f[len]
    BY <1>4, <1>11
  <1>13. ASSUME NEW u \in ToSet(uses), NEW t, all \subseteq t PROVE WithUseCase(r, u, t) = t
    <2>1. PICK n \in 1..len : u = uses[n]
      BY <1>10
    <2> QED BY <1>9, <1>12, <1>13, <2>1
  <1> HIDE DEF T
  <1>14. /\ Chose(r) \subseteq all /\ all \subseteq ids
         /\ \A id \in all \ Chose(r) : \E u \in ToSet(uses) : AskedBy(r, u, id)
    BY <1>9, <1>12, Zenon
  <1> QED BY <1>1, <1>11, <1>13, <1>14, Zenon

(* What the closure holds.                                                 *)
LEMMA ClosureOfNeeds ==
  ASSUME NEW c, ValidCatalog(c), NEW initial, initial \subseteq DOMAIN c.components, NEW found, found = Closure(c, initial)
  PROVE  /\ initial \subseteq found /\ found \subseteq DOMAIN c.components /\ HoldsNeeds(c, found)
         /\ \A id \in found \ initial : \E a \in found : id \in DOMAIN c.components[a].needs
         /\ HoldsNeeds(c, initial) => found = initial
  <1>1. PICK ids : ids = DOMAIN c.components
    OBVIOUS
  <1>2. found = {x \in ids : \A S \in SUBSET ids : initial \subseteq S /\ HoldsNeeds(c, S) => x \in S}
    <2>1. found = initial \cup {x \in ids \ initial :
                       \A R \in {T \in SUBSET (ids \ initial) : HoldsNeeds(c, initial \cup T)} : x \in R}
      BY <1>1, Zenon DEF Closure
    <2>2. found \subseteq ids
      BY <1>1, <2>1
    <2>3. ASSUME NEW x \in found, NEW S \in SUBSET ids, initial \subseteq S, HoldsNeeds(c, S) PROVE x \in S
      <3>1. PICK R \in SUBSET (ids \ initial) : R = S \ initial
        OBVIOUS
      <3>2. initial \cup R = S
        BY <2>3, <3>1
      <3> QED BY <2>1, <2>3, <3>1, <3>2
    <2>4. ASSUME NEW x \in ids, \A S \in SUBSET ids : initial \subseteq S /\ HoldsNeeds(c, S) => x \in S PROVE x \in found
      <3>1. ASSUME x \notin initial, NEW R \in SUBSET (ids \ initial), HoldsNeeds(c, initial \cup R) PROVE x \in R
        <4>1. PICK S \in SUBSET ids : S = initial \cup R
          BY <1>1
        <4> QED BY <2>4, <3>1, <4>1
      <3> QED BY <2>1, <2>4, <3>1
    <2> QED BY <2>2, <2>3, <2>4
  <1>3. initial \subseteq found /\ found \subseteq ids
    BY <1>1, <1>2
  <1>4. \A S \in SUBSET ids : initial \subseteq S /\ HoldsNeeds(c, S) => found \subseteq S
    BY <1>2
  <1>5. \A id \in ids : DOMAIN c.components[id].needs \subseteq ids
    BY <1>1, CatalogParts
  <1>6. HoldsNeeds(c, found)
    <2>1. ASSUME NEW id \in found, NEW x \in DOMAIN c.components[id].needs PROVE x \in found
      <3>1. x \in ids
        BY <1>3, <1>5, <2>1
      <3>2. ASSUME NEW S \in SUBSET ids, initial \subseteq S, HoldsNeeds(c, S) PROVE x \in S
        <4>1. id \in S
          BY <1>4, <2>1, <3>2
        <4> QED BY <2>1, <3>2, <4>1, Zenon DEF HoldsNeeds
      <3> QED BY <1>2, <3>1, <3>2
    <2> QED BY <2>1 DEF HoldsNeeds
  <1>7. ASSUME NEW id \in found \ initial PROVE \E a \in found : id \in DOMAIN c.components[a].needs
    <2>1. SUFFICES ASSUME \A a \in found : id \notin DOMAIN c.components[a].needs PROVE FALSE
      OBVIOUS
    <2>2. PICK S \in SUBSET ids : S = found \ {id}
      BY <1>3
    <2>3. initial \subseteq S
      BY <1>3, <1>7, <2>2
    <2>4. HoldsNeeds(c, S)
      <3>1. \A a \in S : DOMAIN c.components[a].needs \subseteq found
        BY <1>6, <2>2 DEF HoldsNeeds
      <3> QED BY <2>1, <2>2, <3>1 DEF HoldsNeeds
    <2> QED BY <1>4, <1>7, <2>2, <2>3, <2>4
  <1>8. HoldsNeeds(c, initial) => found = initial
    BY <1>1, <1>3, <1>4
  <1> QED BY <1>1, <1>3, <1>6, <1>7, <1>8

(* A request with other extras is the same in all else.                    *)
RequestOf(catalog, mode, base, useCases, extras, providers, simulate, complete) ==
  [catalog |-> catalog, mode |-> mode, base |-> base, useCases |-> useCases, extras |-> extras,
   providers |-> providers, simulate |-> simulate, complete |-> complete]

LEMMA RequestParts ==
  ASSUME NEW r, RequestTyped(r)
  PROVE  /\ r = RequestOf(r.catalog, r.mode, r.base, r.useCases, r.extras, r.providers, r.simulate, r.complete)
         /\ r.catalog \in DOMAIN PlannerCatalogs /\ ValidCatalog(CatalogOf(r)) /\ r.base \in DOMAIN CatalogOf(r).bases
         /\ r.mode \in {"USE_CASE_FIRST", "SYSTEM_FIRST"}
         /\ r.useCases \in Seq(DOMAIN CatalogOf(r).useCases) /\ r.extras \subseteq DOMAIN CatalogOf(r).components
  BY Zenon DEF RequestTyped, RequestOf

LEMMA RequestFields ==
  ASSUME NEW k, NEW m, NEW b, NEW u, NEW e, NEW p, NEW si, NEW co, NEW r, r = RequestOf(k, m, b, u, e, p, si, co)
  PROVE  r.catalog = k /\ r.mode = m /\ r.base = b /\ r.useCases = u /\ r.extras = e /\ r.providers = p /\ r.simulate = si /\ r.complete = co
  BY DEF RequestOf

LEMMA OtherExtras ==
  ASSUME NEW r, RequestTyped(r), NEW s, NEW q, q = [r EXCEPT !.extras = s]
  PROVE  /\ q.catalog = r.catalog /\ q.mode = r.mode /\ q.base = r.base /\ q.useCases = r.useCases /\ q.extras = s
         /\ q.providers = r.providers /\ q.simulate = r.simulate /\ q.complete = r.complete
  <1>1. PICK k, m, b, u, e, p, si, co : r = RequestOf(k, m, b, u, e, p, si, co)
    BY RequestParts
  <1>2. q = RequestOf(k, m, b, u, s, p, si, co)
    BY <1>1 DEF RequestOf
  <1> QED BY <1>1, <1>2, RequestFields

LEMMA AskedAgain ==
  ASSUME NEW r, RequestTyped(r), ProvidersAllowed(r), NEW s, Asked(r) \subseteq s, s \subseteq DOMAIN CatalogOf(r).components,
         NEW q, q = [r EXCEPT !.extras = s]
  PROVE  Asked(q) = s /\ Chose(q) = s
  <1>1. /\ q.catalog = r.catalog /\ q.mode = r.mode /\ q.base = r.base /\ q.useCases = r.useCases /\ q.extras = s
        /\ q.providers = r.providers /\ q.simulate = r.simulate /\ q.complete = r.complete
    BY OtherExtras
  <1>2. CatalogOf(q) = CatalogOf(r)
    BY <1>1 DEF CatalogOf
  <1>3. \A g : ProviderOf(q, g) = ProviderOf(r, g)
    BY <1>1 DEF ProviderOf
  <1>4. ASSUME NEW u, NEW t PROVE WithUseCase(q, u, t) = WithUseCase(r, u, t)
    <2>1. Completion(q, u, t) = Completion(r, u, t)
      BY <1>2, <1>3, Zenon DEF Completion
    <2>2. PICK use : use = CatalogOf(r).useCases[u]
      OBVIOUS
    <2>3. {ProviderOf(q, g) : g \in ToSet(use.groups)} = {ProviderOf(r, g) : g \in ToSet(use.groups)}
      BY <1>3
    <2> QED BY <1>1, <1>2, <2>1, <2>2, <2>3 DEF WithUseCase
  <1>5. Chose(q) = s
    <2>1. Chose(r) \subseteq s
      BY AskedHasAll
    <2> QED BY <1>1, <1>2, <2>1 DEF Chose
  <1>6. PICK uses, len : uses = r.useCases /\ len = Len(uses)
    OBVIOUS
  <1>7. len \in Nat /\ \A n \in 1..len : uses[n] \in ToSet(uses)
    BY <1>6, RequestParts, SequenceParts
  <1>8. PICK f : AskedTo(q, len, f) /\ Asked(q) = f[len]
    BY <1>1, <1>6, <1>7, AskedSteps
  <1>9. \A m \in 0..len : f[m] = IF m = 0 THEN s ELSE WithUseCase(q, uses[m], f[m - 1])
    <2>1. \A m \in 0..len : f[m] = IF m = 0 THEN Chose(q) ELSE WithUseCase(q, q.useCases[m], f[m - 1])
      BY <1>8, Zenon DEF AskedTo
    <2>2. Chose(q) = s /\ q.useCases = uses
      BY <1>1, <1>5, <1>6
    <2> QED BY <2>1, <2>2
  <1>10. \A u \in ToSet(uses) : WithUseCase(r, u, s) = s
    BY <1>6, AskedHasAll, Zenon
  <1> DEFINE T == {m \in 0..len : f[m] = s}
  <1>11. 0 \in T
    BY <1>7, <1>9
  <1>12. ASSUME NEW n \in 0..(len - 1), n \in T PROVE n + 1 \in T
    <2>1. n + 1 \in 1..len /\ n + 1 \in 0..len /\ (n + 1) - 1 = n /\ n + 1 # 0
      BY <1>7
    <2>2. f[n + 1] = WithUseCase(q, uses[n + 1], s)
      BY <1>9, <1>12, <2>1
    <2>3. PICK u : u = uses[n + 1]
      OBVIOUS
    <2>4. WithUseCase(q, u, s) = s
      BY <1>4, <1>7, <1>10, <2>1, <2>3
    <2> QED BY <2>1, <2>2, <2>3, <2>4
  <1>13. len \in T
    <2> HIDE DEF T
    <2> QED BY <1>7, <1>11, <1>12, StepByStep
  <1>14. f[len] = s
    BY <1>13
  <1> QED BY <1>5, <1>8, <1>14

(* What the analysis says of a request that could be planned.              *)
LEMMA SelectionHolds ==
  ASSUME NEW r, RequestTyped(r), ProvidersAllowed(r), NEW s, s = Selection(r)
  PROVE  /\ s \subseteq DOMAIN CatalogOf(r).components /\ Asked(r) \subseteq s
         /\ \A id \in s : NeedsMet(CatalogOf(r), CatalogOf(r).components[id].needs) /\ DOMAIN CatalogOf(r).components[id].needs \subseteq s
         /\ \A id \in s \ Chose(r) :
              (\E a \in s : id \in DOMAIN CatalogOf(r).components[a].needs) \/ (\E u \in ToSet(r.useCases) : AskedBy(r, u, id))
         /\ Selection([r EXCEPT !.extras = s]) = s /\ Chose([r EXCEPT !.extras = s]) = s
  <1>1. PICK c, all : c = CatalogOf(r) /\ all = Asked(r)
    OBVIOUS
  <1>2. ValidCatalog(c)
    BY <1>1, RequestParts
  <1>3. Chose(r) \subseteq all /\ all \subseteq DOMAIN c.components /\ \A id \in all \ Chose(r) : \E u \in ToSet(r.useCases) : AskedBy(r, u, id)
    BY <1>1, AskedHasAll
  <1>4. s = Closure(c, all)
    BY <1>1 DEF Selection
  <1>5. /\ all \subseteq s /\ s \subseteq DOMAIN c.components /\ HoldsNeeds(c, s)
        /\ \A id \in s \ all : \E a \in s : id \in DOMAIN c.components[a].needs
    BY <1>2, <1>3, <1>4, ClosureOfNeeds
  <1>6. \A id \in s : NeedsMet(c, c.components[id].needs) /\ DOMAIN c.components[id].needs \subseteq s
    BY <1>2, <1>5, CatalogParts, Zenon DEF HoldsNeeds
  <1>7. ASSUME NEW id \in s \ Chose(r)
        PROVE  (\E a \in s : id \in DOMAIN c.components[a].needs) \/ (\E u \in ToSet(r.useCases) : AskedBy(r, u, id))
    BY <1>3, <1>5, <1>7
  <1>8. PICK q : q = [r EXCEPT !.extras = s]
    OBVIOUS
  <1>9. Asked(q) = s /\ Chose(q) = s
    BY <1>1, <1>5, <1>8, AskedAgain
  <1>10. CatalogOf(q) = c
    BY <1>1, <1>8, OtherExtras DEF CatalogOf
  <1>11. Selection(q) = Closure(c, s)
    BY <1>9, <1>10 DEF Selection
  <1>12. Selection(q) = s
    BY <1>2, <1>5, <1>11, ClosureOfNeeds
  <1> QED BY <1>1, <1>5, <1>6, <1>7, <1>8, <1>9, <1>12

LEMMA AnalysisParts ==
  ASSUME NEW r, NEW a, a = Analysis(r)
  PROVE  /\ a.selected = Selection(r) /\ a.added = Selection(r) \ Chose(r)
         /\ a.status = [u \in Evaluated(r) |-> Status(r, u, Selection(r))]
  BY DEF Analysis

LEMMA AnalysisAgain ==
  ASSUME NEW r, RequestTyped(r), ProvidersAllowed(r), NEW s, s = Selection(r), NEW q, q = [r EXCEPT !.extras = s]
  PROVE  Analysis(q).selected = s /\ Analysis(q).added = {} /\ Analysis(q).status = Analysis(r).status
  <1>1. Selection(q) = s /\ Chose(q) = s
    BY SelectionHolds
  <1>2. /\ q.catalog = r.catalog /\ q.mode = r.mode /\ q.useCases = r.useCases /\ q.providers = r.providers
    BY OtherExtras
  <1>3. CatalogOf(q) = CatalogOf(r) /\ \A g : ProviderOf(q, g) = ProviderOf(r, g)
    BY <1>2 DEF CatalogOf, ProviderOf
  <1>4. Evaluated(q) = Evaluated(r)
    BY <1>2, <1>3 DEF Evaluated
  <1>5. ASSUME NEW u PROVE Status(q, u, s) = Status(r, u, s)
    <2>1. SelectedProviders(q, u, s) = SelectedProviders(r, u, s)
      BY <1>2, <1>3, Zenon DEF SelectedProviders
    <2> QED BY <1>3, <2>1, Zenon DEF Status
  <1>6. [u \in Evaluated(q) |-> Status(q, u, s)] = [u \in Evaluated(r) |-> Status(r, u, s)]
    BY <1>4, <1>5
  <1>7. PICK a1 : a1 = Analysis(q)
    OBVIOUS
  <1>8. PICK a2 : a2 = Analysis(r)
    OBVIOUS
  <1>9. a1.selected = s /\ a1.added = {} /\ a1.status = [u \in Evaluated(q) |-> Status(q, u, s)]
    <2>1. a1.added = Selection(q) \ Chose(q) /\ a1.selected = Selection(q) /\ a1.status = [u \in Evaluated(q) |-> Status(q, u, Selection(q))]
      BY <1>7, AnalysisParts
    <2> QED BY <1>1, <2>1
  <1>10. a2.status = [u \in Evaluated(r) |-> Status(r, u, s)]
    BY <1>8, AnalysisParts
  <1> QED BY <1>6, <1>7, <1>8, <1>9, <1>10

LEMMA PromisedRuns ==
  ASSUME NEW r, RequestTyped(r), ProvidersAllowed(r), Executable(r, Analysis(r)), r.mode = "USE_CASE_FIRST",
         NEW u \in ToSet(r.useCases), NEW s, s = Selection(r)
  PROVE  Runs(CatalogOf(r), u, s)
  <1>1. PICK c, status : c = CatalogOf(r) /\ status = Status(r, u, s)
    OBVIOUS
  <1>2. status \notin {"PARTIAL_MISSING", "INCOMPATIBLE"}
    <2>1. u \in Evaluated(r)
      BY DEF Evaluated
    <2>2. Analysis(r).status = [v \in Evaluated(r) |-> Status(r, v, s)]
      BY AnalysisParts
    <2>3. u \in DOMAIN Analysis(r).status /\ Analysis(r).status[u] = status
      BY <1>1, <2>1, <2>2
    <2> QED BY <2>3, Zenon DEF Executable
  <1>3. Conflicts(c, u, s) = {}
    BY <1>1, <1>2, Zenon DEF Status
  <1>4. ~Lacks(c, u, s) \/ (c.useCases[u].simulator \in s /\ DOMAIN c.components[c.useCases[u].simulator].needs \subseteq s)
    BY <1>1, <1>2, <1>3, Zenon DEF Status
  <1>5. \A a, b \in s : b \notin c.components[a].blocks \cup c.useCases[u].blocks
    <2>1. PICK A, B : A = {<<u, b>> : b \in c.useCases[u].blocks \cap s} /\ B = {e \in s \X s : e[2] \in c.components[e[1]].blocks}
      OBVIOUS
    <2>2. A = {} /\ B = {}
      BY <1>3, <2>1, Zenon DEF Conflicts
    <2>3. \A b \in s : b \notin c.useCases[u].blocks
      BY <2>1, <2>2
    <2>4. ASSUME NEW a \in s, NEW b \in s PROVE b \notin c.components[a].blocks
      <3>1. <<a, b>> \in s \X s /\ <<a, b>>[1] = a /\ <<a, b>>[2] = b
        OBVIOUS
      <3> QED BY <2>1, <2>2, <3>1
    <2> QED BY <2>3, <2>4
  <1> QED BY <1>1, <1>4, <1>5 DEF Runs

(* A use case whose plain run passes is accepted: each negative case is    *)
(* one change of that run, and the first stop it hits is its own.          *)
Stopping(o, n) ==
  \/ n = 1 /\ o.useCase \notin DOMAIN Showcase
  \/ n = 2 /\ o.text # "clean"
  \/ n = 3 /\ o.useCase \in DOMAIN Showcase /\ o.module # Showcase[o.useCase].module
  \/ n = 4 /\ o.useCase \in DOMAIN Showcase /\ o.action \notin Showcase[o.useCase].actions
  \/ n = 5 /\ o.actor # DemoActor
  \/ n = 6 /\ o.scope # DemoScope
  \/ n = 7 /\ o.stale
  \/ n = 8 /\ o.duplicate
  \/ n = 9 /\ o.plan # "made"
  \/ n = 10 /\ o.receipt # "made"

LEMMA StopNames ==
  /\ DOMAIN Stops = 1..10
  /\ Stops[1] = "UNKNOWN_USE_CASE_DENIED" /\ Stops[2] = "EMBEDDED_SECRET_OR_PII_DENIED" /\ Stops[3] = "UNKNOWN_MODULE_DENIED"
  /\ Stops[4] = "UNKNOWN_ACTION_DENIED" /\ Stops[5] = "UNAUTHORIZED_ACTOR_DENIED" /\ Stops[6] = "CROSS_TENANT_CELL_BINDING_DENIED"
  /\ Stops[7] = "STALE_APPROVAL_LEASE_DENIED" /\ Stops[8] = "DUPLICATE_REPLAY_DENIED" /\ Stops[9] = "TAMPERED_PLAN_DENIED"
  /\ Stops[10] = "TAMPERED_RECEIPT_DENIED"
  BY DEF Stops

LEMMA StopsAt ==
  ASSUME NEW o, NEW n \in 1..10
  PROVE  StoppedBy(o, Stops[n]) <=> Stopping(o, n)
  <1>1. n \in {1, 2, 3, 4, 5, 6, 7, 8, 9, 10}
    OBVIOUS
  <1>2. CASE n = 1
    BY <1>2, StopNames DEF StoppedBy, Stopping
  <1>3. CASE n = 2
    BY <1>3, StopNames DEF StoppedBy, Stopping
  <1>4. CASE n = 3
    BY <1>4, StopNames DEF StoppedBy, Stopping
  <1>5. CASE n = 4
    BY <1>5, StopNames DEF StoppedBy, Stopping
  <1>6. CASE n = 5
    BY <1>6, StopNames DEF StoppedBy, Stopping
  <1>7. CASE n = 6
    BY <1>7, StopNames DEF StoppedBy, Stopping
  <1>8. CASE n = 7
    BY <1>8, StopNames DEF StoppedBy, Stopping
  <1>9. CASE n = 8
    BY <1>9, StopNames DEF StoppedBy, Stopping
  <1>10. CASE n = 9
    BY <1>10, StopNames DEF StoppedBy, Stopping
  <1>11. CASE n = 10
    BY <1>11, StopNames DEF StoppedBy, Stopping
  <1> QED BY <1>1, <1>2, <1>3, <1>4, <1>5, <1>6, <1>7, <1>8, <1>9, <1>10, <1>11

LEMMA DenialIs ==
  ASSUME NEW o, NEW n \in 1..10, Stopping(o, n), \A m \in 1..10 : m < n => ~Stopping(o, m)
  PROVE  Denial(o) = Stops[n]
  <1>1. PICK hit : hit = {i \in 1..10 : StoppedBy(o, Stops[i])}
    OBVIOUS
  <1>2. DOMAIN Stops = 1..10
    BY StopNames
  <1>3. n \in hit /\ \A j \in hit : n <= j
    BY <1>1, StopsAt
  <1>4. (CHOOSE i \in hit : \A j \in hit : i <= j) = n
    BY <1>1, <1>3
  <1>5. Denial(o) = IF hit = {} THEN "NONE" ELSE Stops[CHOOSE i \in hit : \A j \in hit : i <= j]
    BY <1>1, <1>2 DEF Denial
  <1> QED BY <1>3, <1>4, <1>5

LEMMA NoDenial ==
  ASSUME NEW o, Denial(o) = "NONE"
  PROVE  \A n \in 1..10 : ~Stopping(o, n)
  <1>1. SUFFICES ASSUME \E n \in 1..10 : Stopping(o, n) PROVE FALSE
    OBVIOUS
  <1>2. PICK n \in Nat : n \in 1..10 /\ Stopping(o, n) /\ \A m \in Nat : m \in 1..10 /\ Stopping(o, m) => n <= m
    <2> DEFINE T == {n \in 1..10 : Stopping(o, n)}
    <2>1. T \in SUBSET Nat /\ T # {} /\ \A n : n \in T <=> n \in 1..10 /\ Stopping(o, n)
      BY <1>1
    <2> HIDE DEF T
    <2>2. PICK n \in T : \A m \in T : n <= m
      BY <2>1, LeastNatural
    <2> QED BY <2>1, <2>2
  <1>3. Denial(o) = Stops[n]
    <2>1. \A m \in 1..10 : m < n => ~Stopping(o, m)
      BY <1>2
    <2> QED BY <1>2, <2>1, DenialIs
  <1>4. \A m \in 1..10 : Stops[m] # "NONE"
    BY StopNames
  <1> QED BY <1>2, <1>3, <1>4

(* The options of a run, each one opaque.                                  *)
OptionsOf(useCase, text, module, action, actor, scope, stale, duplicate, plan, receipt) ==
  [useCase |-> useCase, text |-> text, module |-> module, action |-> action,
   actor |-> actor, scope |-> scope, stale |-> stale, duplicate |-> duplicate, plan |-> plan, receipt |-> receipt]

LEMMA OptionsParts ==
  ASSUME NEW u, NEW te, NEW m, NEW a, NEW ac, NEW sc, NEW st, NEW du, NEW pl, NEW re, NEW o,
         o = OptionsOf(u, te, m, a, ac, sc, st, du, pl, re)
  PROVE  /\ o.useCase = u /\ o.text = te /\ o.module = m /\ o.action = a /\ o.actor = ac /\ o.scope = sc
         /\ o.stale = st /\ o.duplicate = du /\ o.plan = pl /\ o.receipt = re
  BY DEF OptionsOf

LEMMA AcceptedWhenPassing ==
  ASSUME NEW id, Denial(RunOptions(id)) = "NONE"
  PROVE  UseCaseAccepted(id)
  <1>1. PICK m, a, o : m = Showcase[id].module /\ a = (CHOOSE x \in Showcase[id].actions : TRUE) /\ o = RunOptions(id)
    OBVIOUS
  <1>a. PICK yes \in BOOLEAN, no \in BOOLEAN : yes = TRUE /\ no = FALSE
    OBVIOUS
  <1>2. o = OptionsOf(id, "clean", m, a, DemoActor, DemoScope, no, no, "made", "made")
    BY <1>1, <1>a DEF RunOptions, OptionsOf
  <1>3. \A n \in 1..10 : ~Stopping(o, n)
    BY <1>1, NoDenial
  <1>4. id \in DOMAIN Showcase /\ a \in Showcase[id].actions
    <2>1. ~Stopping(o, 1) /\ ~Stopping(o, 4)
      BY <1>3
    <2> QED BY <1>2, <2>1, OptionsParts DEF Stopping
  <1>5. m # "unknown" /\ "unknown" \notin Showcase[id].actions
    BY <1>1, <1>4, GuidedAssumption
  <1>6. Simulated(o).residue = 0
    BY DEF Simulated
  <1>7. ASSUME NEW te \in {"clean", "secret"}, NEW mo \in {m, "unknown"}, NEW ac \in {a, "unknown"}, NEW act, NEW sc,
               NEW pl, NEW re, NEW n \in {2, 3, 4, 5, 6, 9, 10}, NEW q,
               q = OptionsOf(id, te, mo, ac, act, sc, no, no, pl, re),
               (te = "secret") <=> n = 2, (mo = "unknown") <=> n = 3, (ac = "unknown") <=> n = 4, (act # DemoActor) <=> n = 5,
               (sc # DemoScope) <=> n = 6, (pl # "made") <=> n = 9, (re # "made") <=> n = 10
        PROVE  Denial(q) = Stops[n]
    <2>1. /\ q.useCase = id /\ q.text = te /\ q.module = mo /\ q.action = ac /\ q.actor = act /\ q.scope = sc
          /\ q.stale = no /\ q.duplicate = no /\ q.plan = pl /\ q.receipt = re
      BY <1>7, OptionsParts
    <2>2. ~q.stale /\ ~q.duplicate
      BY <1>a, <2>1
    <2>3. Stopping(q, n)
      BY <1>1, <1>4, <1>5, <1>7, <2>1, <2>2 DEF Stopping
    <2>4. ASSUME NEW k \in 1..10, k < n PROVE ~Stopping(q, k)
      BY <1>1, <1>4, <1>5, <1>7, <2>1, <2>2, <2>4 DEF Stopping
    <2> QED BY <2>3, <2>4, DenialIs
  <1>8. a # "unknown"
    BY <1>4, <1>5
  <1>9. PICK N : N = NegativeCase(id)
    OBVIOUS
  <1>10. /\ N = [UNKNOWN_MODULE_DENIED |-> [o EXCEPT !.module = "unknown"],
                 UNKNOWN_ACTION_DENIED |-> [o EXCEPT !.action = "unknown"],
                 UNAUTHORIZED_ACTOR_DENIED |-> [o EXCEPT !.actor = "untrusted"],
                 CROSS_TENANT_CELL_BINDING_DENIED |-> [o EXCEPT !.scope = "bravo"],
                 STALE_APPROVAL_LEASE_DENIED |-> [o EXCEPT !.stale = TRUE],
                 TAMPERED_PLAN_DENIED |-> [o EXCEPT !.plan = "forged"],
                 TAMPERED_RECEIPT_DENIED |-> [o EXCEPT !.receipt = "forged"],
                 DUPLICATE_REPLAY_DENIED |-> [o EXCEPT !.duplicate = TRUE],
                 EMBEDDED_SECRET_OR_PII_DENIED |-> [o EXCEPT !.text = "secret"]]
    BY <1>1, <1>9, Zenon DEF NegativeCase
  <1>11. Denial(N.UNKNOWN_MODULE_DENIED) = "UNKNOWN_MODULE_DENIED"
    <2>1. N.UNKNOWN_MODULE_DENIED = OptionsOf(id, "clean", "unknown", a, DemoActor, DemoScope, no, no, "made", "made")
      BY <1>2, <1>10, <1>a DEF OptionsOf
    <2>2. Denial(N.UNKNOWN_MODULE_DENIED) = Stops[3]
      BY <1>5, <1>7, <1>8, <1>a, <2>1
    <2> QED BY <2>2, StopNames
  <1>12. Denial(N.UNKNOWN_ACTION_DENIED) = "UNKNOWN_ACTION_DENIED"
    <2>1. N.UNKNOWN_ACTION_DENIED = OptionsOf(id, "clean", m, "unknown", DemoActor, DemoScope, no, no, "made", "made")
      BY <1>2, <1>10, <1>a DEF OptionsOf
    <2>2. Denial(N.UNKNOWN_ACTION_DENIED) = Stops[4]
      BY <1>5, <1>7, <1>8, <1>a, <2>1
    <2> QED BY <2>2, StopNames
  <1>13. Denial(N.UNAUTHORIZED_ACTOR_DENIED) = "UNAUTHORIZED_ACTOR_DENIED"
    <2>1. N.UNAUTHORIZED_ACTOR_DENIED = OptionsOf(id, "clean", m, a, "untrusted", DemoScope, no, no, "made", "made")
      BY <1>2, <1>10, <1>a DEF OptionsOf
    <2>2. "untrusted" # DemoActor
      BY DEF DemoActor
    <2>3. Denial(N.UNAUTHORIZED_ACTOR_DENIED) = Stops[5]
      BY <1>5, <1>7, <1>8, <1>a, <2>1, <2>2
    <2> QED BY <2>3, StopNames
  <1>14. Denial(N.CROSS_TENANT_CELL_BINDING_DENIED) = "CROSS_TENANT_CELL_BINDING_DENIED"
    <2>1. N.CROSS_TENANT_CELL_BINDING_DENIED = OptionsOf(id, "clean", m, a, DemoActor, "bravo", no, no, "made", "made")
      BY <1>2, <1>10, <1>a DEF OptionsOf
    <2>2. "bravo" # DemoScope
      BY DEF DemoScope
    <2>3. Denial(N.CROSS_TENANT_CELL_BINDING_DENIED) = Stops[6]
      BY <1>5, <1>7, <1>8, <1>a, <2>1, <2>2
    <2> QED BY <2>3, StopNames
  <1>15. Denial(N.STALE_APPROVAL_LEASE_DENIED) = "STALE_APPROVAL_LEASE_DENIED"
    <2>1. N.STALE_APPROVAL_LEASE_DENIED = OptionsOf(id, "clean", m, a, DemoActor, DemoScope, yes, no, "made", "made")
      BY <1>2, <1>10, <1>a DEF OptionsOf
    <2>2. PICK q : q = N.STALE_APPROVAL_LEASE_DENIED
      OBVIOUS
    <2>3. /\ q.useCase = id /\ q.text = "clean" /\ q.module = m /\ q.action = a /\ q.actor = DemoActor /\ q.scope = DemoScope
          /\ q.stale = yes
      BY <2>1, <2>2, OptionsParts
    <2>a. q.stale
      BY <1>a, <2>3
    <2>4. Stopping(q, 7) /\ \A k \in 1..10 : k < 7 => ~Stopping(q, k)
      BY <1>1, <1>4, <2>3, <2>a DEF Stopping
    <2>5. Denial(q) = Stops[7]
      BY <2>4, DenialIs
    <2> QED BY <2>2, <2>5, StopNames
  <1>16. Denial(N.DUPLICATE_REPLAY_DENIED) = "DUPLICATE_REPLAY_DENIED"
    <2>1. N.DUPLICATE_REPLAY_DENIED = OptionsOf(id, "clean", m, a, DemoActor, DemoScope, no, yes, "made", "made")
      BY <1>2, <1>10, <1>a DEF OptionsOf
    <2>2. PICK q : q = N.DUPLICATE_REPLAY_DENIED
      OBVIOUS
    <2>3. /\ q.useCase = id /\ q.text = "clean" /\ q.module = m /\ q.action = a /\ q.actor = DemoActor /\ q.scope = DemoScope
          /\ q.duplicate = yes /\ q.stale = no
      BY <2>1, <2>2, OptionsParts
    <2>a. q.duplicate /\ ~q.stale
      BY <1>a, <2>3
    <2>4. Stopping(q, 8) /\ \A k \in 1..10 : k < 8 => ~Stopping(q, k)
      BY <1>1, <1>4, <2>3, <2>a DEF Stopping
    <2>5. Denial(q) = Stops[8]
      BY <2>4, DenialIs
    <2> QED BY <2>2, <2>5, StopNames
  <1>17. Denial(N.TAMPERED_PLAN_DENIED) = "TAMPERED_PLAN_DENIED"
    <2>1. N.TAMPERED_PLAN_DENIED = OptionsOf(id, "clean", m, a, DemoActor, DemoScope, no, no, "forged", "made")
      BY <1>2, <1>10, <1>a DEF OptionsOf
    <2>2. Denial(N.TAMPERED_PLAN_DENIED) = Stops[9]
      BY <1>5, <1>7, <1>8, <1>a, <2>1
    <2> QED BY <2>2, StopNames
  <1>18. Denial(N.TAMPERED_RECEIPT_DENIED) = "TAMPERED_RECEIPT_DENIED"
    <2>1. N.TAMPERED_RECEIPT_DENIED = OptionsOf(id, "clean", m, a, DemoActor, DemoScope, no, no, "made", "forged")
      BY <1>2, <1>10, <1>a DEF OptionsOf
    <2>2. Denial(N.TAMPERED_RECEIPT_DENIED) = Stops[10]
      BY <1>5, <1>7, <1>8, <1>a, <2>1
    <2> QED BY <2>2, StopNames
  <1>19. Denial(N.EMBEDDED_SECRET_OR_PII_DENIED) = "EMBEDDED_SECRET_OR_PII_DENIED"
    <2>1. N.EMBEDDED_SECRET_OR_PII_DENIED = OptionsOf(id, "secret", m, a, DemoActor, DemoScope, no, no, "made", "made")
      BY <1>2, <1>10, <1>a DEF OptionsOf
    <2>2. Denial(N.EMBEDDED_SECRET_OR_PII_DENIED) = Stops[2]
      BY <1>5, <1>7, <1>8, <1>a, <2>1
    <2> QED BY <2>2, StopNames
  <1>20. DOMAIN N = {"UNKNOWN_MODULE_DENIED", "UNKNOWN_ACTION_DENIED", "UNAUTHORIZED_ACTOR_DENIED", "CROSS_TENANT_CELL_BINDING_DENIED",
                     "STALE_APPROVAL_LEASE_DENIED", "TAMPERED_PLAN_DENIED", "TAMPERED_RECEIPT_DENIED", "DUPLICATE_REPLAY_DENIED",
                     "EMBEDDED_SECRET_OR_PII_DENIED"}
    BY <1>10
  <1>21. \A code \in DOMAIN N : Denial(N[code]) = code
    BY <1>11, <1>12, <1>13, <1>14, <1>15, <1>16, <1>17, <1>18, <1>19, <1>20
  <1> QED BY <1>1, <1>6, <1>9, <1>21 DEF UseCaseAccepted

(* A request that could be planned asks only for use cases whose runs pass. *)
LEMMA PlannedAreAccepted ==
  ASSUME NEW r, CouldBePlanned(r)
  PROVE  ProvidersAllowed(r) /\ Executable(r, Analysis(r)) /\ \A u \in ToSet(r.useCases) : UseCaseAccepted(u)
  <1>1. PICK a, t : a = Analysis(r) /\ t = Composed(r, a)
    OBVIOUS
  <1>2. PICK ts, req : ts = BuiltinTemplates \cup {t} /\ req = GuidedRequest(t.id)
    OBVIOUS
  <1>3. ProvidersAllowed(r) /\ Executable(r, a) /\ Plannable(ts, req)
    BY <1>1, <1>2, Zenon DEF CouldBePlanned
  <1>4. t.id = <<r, a>> /\ t.useCases = ToSet(r.useCases)
    BY <1>1 DEF Composed, MadeTemplate
  <1>5. req.template = <<r, a>>
    BY <1>2, <1>4 DEF GuidedRequest
  <1>6. t \in Chosen(ts, req)
    BY <1>2, <1>4, <1>5 DEF Chosen
  <1>7. \A id \in t.useCases : Denial(RunOptions(id)) = "NONE"
    BY <1>3, <1>6, Zenon DEF Plannable
  <1> QED BY <1>1, <1>3, <1>4, <1>7, AcceptedWhenPassing

(* A plan in its file, part by part.                                       *)
Doc(core, seal) == [core |-> core, seal |-> seal]
PlanCore(request, analysis, trust, guided) ==
  [request |-> request, analysis |-> analysis, active |-> "SAFE_GUIDED", trust |-> trust, guided |-> guided]
GuidedOf(template, node, root, network, smoke, config, lock) ==
  [template |-> template, node |-> node, root |-> root, network |-> network, smoke |-> smoke, config |-> config, lock |-> lock]
ConfigOf(template, synthetic) == [template |-> template, synthetic |-> synthetic]

LEMMA DocParts ==
  ASSUME NEW c, NEW s, NEW d, d = Doc(c, s)
  PROVE  d.core = c /\ d.seal = s /\ "core" \in DOMAIN d /\ \A x : [d EXCEPT !.core = x] = Doc(x, s)
  BY DEF Doc

LEMMA PlanCoreParts ==
  ASSUME NEW r, NEW a, NEW tr, NEW g, NEW k, k = PlanCore(r, a, tr, g)
  PROVE  /\ k.guided = g /\ k.trust = tr /\ k.request = r /\ k.analysis = a /\ k.active = "SAFE_GUIDED"
         /\ \A x : [k EXCEPT !.guided = x] = PlanCore(r, a, tr, x)
         /\ \A x : [k EXCEPT !.trust = x] = PlanCore(r, a, x, g)
  BY DEF PlanCore

LEMMA GuidedParts ==
  ASSUME NEW t, NEW n, NEW ro, NEW ne, NEW sm, NEW cf, NEW lk, NEW h, h = GuidedOf(t, n, ro, ne, sm, cf, lk)
  PROVE  /\ h.template = t /\ h.root = ro /\ h.network = ne /\ h.smoke = sm /\ h.config = cf /\ h.lock = lk
         /\ \A x : [h EXCEPT !.root = x] = GuidedOf(t, n, x, ne, sm, cf, lk)
         /\ \A x : [h EXCEPT !.network = x] = GuidedOf(t, n, ro, x, sm, cf, lk)
         /\ \A x : [h EXCEPT !.config = x] = GuidedOf(t, n, ro, ne, sm, x, lk)
  BY DEF GuidedOf

LEMMA ConfigParts ==
  ASSUME NEW i, NEW y, NEW c, c = ConfigOf(i, y)
  PROVE  c.synthetic = y /\ \A x : [c EXCEPT !.synthetic = x] = ConfigOf(i, x)
  BY DEF ConfigOf

LEMMA DeepRoot ==
  ASSUME NEW p, NEW v
  PROVE  [p EXCEPT !.core.guided.core.root = v]
           = [p EXCEPT !.core = [p.core EXCEPT !.guided = [p.core.guided EXCEPT !.core = [p.core.guided.core EXCEPT !.root = v]]]]
  BY Zenon

LEMMA DeepSynthetic ==
  ASSUME NEW p, NEW v
  PROVE  [p EXCEPT !.core.guided.core.config.core.synthetic = v]
           = [p EXCEPT !.core = [p.core EXCEPT !.guided = [p.core.guided EXCEPT !.core = [p.core.guided.core EXCEPT !.config =
                [p.core.guided.core.config EXCEPT !.core = [p.core.guided.core.config.core EXCEPT !.synthetic = v]]]]]]
  BY Zenon

LEMMA DeepGuided ==
  ASSUME NEW p, NEW v
  PROVE  [p EXCEPT !.core.guided = Sealed([@.core EXCEPT !.root = v])]
           = [p EXCEPT !.core = [p.core EXCEPT !.guided = Sealed([p.core.guided.core EXCEPT !.root = v])]]
  BY Zenon

LEMMA DeepNetwork ==
  ASSUME NEW k, NEW v
  PROVE  [k EXCEPT !.guided.core.network = v] = [k EXCEPT !.guided = [k.guided EXCEPT !.core = [k.guided.core EXCEPT !.network = v]]]
  BY Zenon

LEMMA EditIs ==
  ASSUME NEW p, NEW e \in Edits(p), NEW v, v = <<"elsewhere">>
  PROVE  \/ e = [p EXCEPT !.core = [p.core EXCEPT !.guided = [p.core.guided EXCEPT !.core = [p.core.guided.core EXCEPT !.root = v]]]]
         \/ e = [p EXCEPT !.core = [p.core EXCEPT !.guided = Sealed([p.core.guided.core EXCEPT !.root = v])]]
         \/ e = [p EXCEPT !.core = [p.core EXCEPT !.guided = [p.core.guided EXCEPT !.core = [p.core.guided.core EXCEPT !.config =
                   [p.core.guided.core.config EXCEPT !.core = [p.core.guided.core.config.core EXCEPT !.synthetic = FALSE]]]]]]
         \/ e = Sealed([p.core EXCEPT !.trust = "BUILTIN_VERIFIED"])
         \/ e = Sealed([p.core EXCEPT !.guided = [p.core.guided EXCEPT !.core = [p.core.guided.core EXCEPT !.network = {"any"}]]])
  BY Zenon DEF Edits

LEMMA UnsealedPlan ==
  ASSUME NEW k, NEW s, NEW g, k.guided = g, NEW e, e = Doc(k, s), ~VerifiedPlan(g), NEW rc
  PROVE  ~VerifiedCompatibility(e) /\ "core" \in DOMAIN e /\ ~VerifiedReceipt(rc, e.core.guided)
  <1>1. e.core = k /\ "core" \in DOMAIN e
    BY DocParts
  <1>2. e.core.guided = g
    BY <1>1, Zenon
  <1> QED BY <1>1, <1>2, Zenon DEF VerifiedCompatibility, VerifiedReceipt

(* How the parts of a plan lie in each other.                              *)
Laid(r, a, tr, tp, n, ro, sm, i, lk, x, cf, h, g, k, p, ne, yes, no) ==
  /\ yes = TRUE /\ no = FALSE /\ ne = {} /\ x = ConfigOf(i, yes) /\ cf = Doc(x, x)
  /\ h = GuidedOf(tp, n, ro, ne, sm, cf, lk) /\ g = Doc(h, h) /\ k = PlanCore(r, a, tr, g) /\ p = Doc(k, k)
  /\ ro # <<"elsewhere">> /\ tr # "BUILTIN_VERIFIED" /\ tp.tier = tr

LEMMA EditRefused ==
  ASSUME NEW r, NEW a, NEW tr, NEW tp, NEW n, NEW ro, NEW sm, NEW i, NEW lk, NEW x, NEW cf, NEW h, NEW g, NEW k, NEW p, NEW ne, NEW yes, NEW no,
         Laid(r, a, tr, tp, n, ro, sm, i, lk, x, cf, h, g, k, p, ne, yes, no), NEW e \in Edits(p)
  PROVE  /\ ~VerifiedCompatibility(e) /\ "core" \in DOMAIN e
         /\ e.core.guided = g \/ ~VerifiedReceipt(SetupReceipt(g), e.core.guided)
  <1>x. x = ConfigOf(i, yes) /\ yes = TRUE /\ no = FALSE
    BY Zenon DEF Laid
  <1>c. cf = Doc(x, x)
    BY Zenon DEF Laid
  <1>h. h = GuidedOf(tp, n, ro, ne, sm, cf, lk)
    BY Zenon DEF Laid
  <1>g. g = Doc(h, h)
    BY Zenon DEF Laid
  <1>k. k = PlanCore(r, a, tr, g)
    BY Zenon DEF Laid
  <1>p. p = Doc(k, k)
    BY Zenon DEF Laid
  <1>t. ro # <<"elsewhere">> /\ tr # "BUILTIN_VERIFIED" /\ tp.tier = tr /\ ne = {}
    BY Zenon DEF Laid
  <1>1. PICK v : v = <<"elsewhere">>
    OBVIOUS
  <1>2. ro # v
    BY <1>1, <1>t
  <1>3. p.core = k /\ k.guided = g /\ g.core = h /\ g.seal = h /\ h.config = cf /\ cf.core = x /\ cf.seal = x /\ h.root = ro
    <2>1. p.core = k
      BY <1>p, DocParts
    <2>2. g.core = h /\ g.seal = h
      BY <1>g, DocParts
    <2>3. cf.core = x /\ cf.seal = x
      BY <1>c, DocParts
    <2>4. h.config = cf /\ h.root = ro
      BY <1>h, GuidedParts
    <2>5. k.guided = g
      BY <1>k, PlanCoreParts
    <2> QED BY <2>1, <2>2, <2>3, <2>4, <2>5
  <1>4. CASE e = [p EXCEPT !.core = [p.core EXCEPT !.guided = [p.core.guided EXCEPT !.core = [p.core.guided.core EXCEPT !.root = v]]]]
    <2>1. PICK h2 : h2 = GuidedOf(tp, n, v, ne, sm, cf, lk)
      OBVIOUS
    <2>2. PICK g2 : g2 = Doc(h2, h)
      OBVIOUS
    <2>3. PICK k2 : k2 = PlanCore(r, a, tr, g2)
      OBVIOUS
    <2>4. [h EXCEPT !.root = v] = h2
      BY <1>h, <2>1, GuidedParts
    <2>5. [g EXCEPT !.core = h2] = g2
      BY <1>g, <2>2, DocParts
    <2>6. [k EXCEPT !.guided = g2] = k2
      BY <1>k, <2>3, PlanCoreParts
    <2>7. e = Doc(k2, k)
      <3>1. e = [p EXCEPT !.core = k2]
        BY <1>3, <1>4, <2>4, <2>5, <2>6
      <3> QED BY <1>p, <3>1, DocParts
    <2>8. ~VerifiedPlan(g2)
      <3>1. h2.root = v
        BY <2>1, GuidedParts
      <3>2. g2.core = h2 /\ g2.seal = h
        BY <2>2, DocParts
      <3>3. h2 # h
        BY <1>2, <1>3, <3>1
      <3> QED BY <3>2, <3>3, Zenon DEF VerifiedPlan, Intact
    <2>9. k2.guided = g2
      BY <2>3, PlanCoreParts
    <2> QED BY <2>7, <2>8, <2>9, UnsealedPlan
  <1>5. CASE e = [p EXCEPT !.core = [p.core EXCEPT !.guided = Sealed([p.core.guided.core EXCEPT !.root = v])]]
    <2>1. PICK h2 : h2 = GuidedOf(tp, n, v, ne, sm, cf, lk)
      OBVIOUS
    <2>2. PICK g2 : g2 = Doc(h2, h2)
      OBVIOUS
    <2>3. PICK k2 : k2 = PlanCore(r, a, tr, g2)
      OBVIOUS
    <2>4. [h EXCEPT !.root = v] = h2
      BY <1>h, <2>1, GuidedParts
    <2>5. Sealed(h2) = g2
      BY <2>2 DEF Sealed, Doc
    <2>6. [k EXCEPT !.guided = g2] = k2
      BY <1>k, <2>3, PlanCoreParts
    <2>7. e = Doc(k2, k)
      <3>1. e = [p EXCEPT !.core = k2]
        BY <1>3, <1>5, <2>4, <2>5, <2>6
      <3> QED BY <1>p, <3>1, DocParts
    <2>8. h2.root = v /\ g2.core = h2 /\ g2.seal = h2 /\ k2.guided = g2 /\ e.core = k2 /\ e.seal = k /\ "core" \in DOMAIN e
      <3>1. h2.root = v
        BY <2>1, GuidedParts
      <3>2. g2.core = h2 /\ g2.seal = h2 /\ e.core = k2 /\ e.seal = k /\ "core" \in DOMAIN e
        BY <2>2, <2>7, DocParts
      <3> QED BY <2>3, <3>1, <3>2, PlanCoreParts
    <2>9. h2 # h
      BY <1>2, <1>3, <2>8
    <2>10. g2 # g
      BY <1>3, <2>8, <2>9
    <2>11. k2 # k
      BY <1>3, <2>8, <2>10
    <2>12. ~VerifiedCompatibility(e)
      BY <2>8, <2>11, Zenon DEF VerifiedCompatibility, Intact
    <2>13. SetupReceipt(g).core.plan = h
      BY <1>3 DEF SetupReceipt, Sealed
    <2>14. e.core.guided = g2
      BY <2>8
    <2>15. ~VerifiedReceipt(SetupReceipt(g), g2)
      BY <2>8, <2>9, <2>13, Zenon DEF VerifiedReceipt
    <2> QED BY <2>8, <2>12, <2>14, <2>15
  <1>6. CASE e = [p EXCEPT !.core = [p.core EXCEPT !.guided = [p.core.guided EXCEPT !.core = [p.core.guided.core EXCEPT !.config =
                   [p.core.guided.core.config EXCEPT !.core = [p.core.guided.core.config.core EXCEPT !.synthetic = FALSE]]]]]]
    <2>1. PICK x2 : x2 = ConfigOf(i, no)
      OBVIOUS
    <2>2. PICK cf2 : cf2 = Doc(x2, x)
      OBVIOUS
    <2>3. PICK h2 : h2 = GuidedOf(tp, n, ro, ne, sm, cf2, lk)
      OBVIOUS
    <2>4. PICK g2 : g2 = Doc(h2, h)
      OBVIOUS
    <2>5. PICK k2 : k2 = PlanCore(r, a, tr, g2)
      OBVIOUS
    <2>6. [x EXCEPT !.synthetic = no] = x2
      <3>1. x = ConfigOf(i, yes)
        BY <1>x
      <3> QED BY <2>1, <3>1, ConfigParts
    <2>7. [cf EXCEPT !.core = x2] = cf2 /\ [g EXCEPT !.core = h2] = g2
      <3>1. [cf EXCEPT !.core = x2] = cf2
        BY <1>c, <2>2, DocParts
      <3>2. [g EXCEPT !.core = h2] = g2
        BY <1>g, <2>4, DocParts
      <3> QED BY <3>1, <3>2
    <2>8. [h EXCEPT !.config = cf2] = h2
      BY <1>h, <2>3, GuidedParts
    <2>9. [k EXCEPT !.guided = g2] = k2
      BY <1>k, <2>5, PlanCoreParts
    <2>10. e = Doc(k2, k)
      <3>1. e = [p EXCEPT !.core = [k EXCEPT !.guided = [g EXCEPT !.core = [h EXCEPT !.config =
                   [cf EXCEPT !.core = [x EXCEPT !.synthetic = no]]]]]]
        BY <1>3, <1>6, <1>x
      <3>2. e = [p EXCEPT !.core = k2]
        BY <2>6, <2>7, <2>8, <2>9, <3>1
      <3> QED BY <1>p, <3>2, DocParts
    <2>11. ~VerifiedPlan(g2)
      <3>1. x2.synthetic = no /\ x.synthetic = yes
        BY <1>x, <2>1, ConfigParts
      <3>2. x2 # x
        BY <1>x, <3>1
      <3>3. cf2.core = x2 /\ cf2.seal = x /\ g2.core = h2
        BY <2>2, <2>4, DocParts
      <3>4. h2.config = cf2
        BY <2>3, GuidedParts
      <3> QED BY <3>2, <3>3, <3>4, Zenon DEF VerifiedPlan, Intact
    <2>12. k2.guided = g2
      BY <2>5, PlanCoreParts
    <2> QED BY <2>10, <2>11, <2>12, UnsealedPlan
  <1>7. CASE e = Sealed([p.core EXCEPT !.trust = "BUILTIN_VERIFIED"])
    <2>1. PICK k2 : k2 = PlanCore(r, a, "BUILTIN_VERIFIED", g)
      OBVIOUS
    <2>2. [k EXCEPT !.trust = "BUILTIN_VERIFIED"] = k2
      BY <1>k, <2>1, PlanCoreParts
    <2>3. e = Doc(k2, k2)
      BY <1>3, <1>7, <2>2 DEF Sealed, Doc
    <2>4. e.core = k2 /\ "core" \in DOMAIN e
      BY <2>3, DocParts
    <2>5. k2.trust = "BUILTIN_VERIFIED" /\ k2.guided = g
      BY <2>1, PlanCoreParts
    <2>6. h.template = tp
      BY <1>h, GuidedParts
    <2>7. e.core.trust = "BUILTIN_VERIFIED" /\ e.core.guided = g /\ e.core.guided.core.template.tier = tr
      BY <1>3, <1>t, <2>4, <2>5, <2>6
    <2> QED BY <1>t, <2>4, <2>7, Zenon DEF VerifiedCompatibility
  <1>8. CASE e = Sealed([p.core EXCEPT !.guided = [p.core.guided EXCEPT !.core = [p.core.guided.core EXCEPT !.network = {"any"}]]])
    <2>1. PICK w : w = {"any"}
      OBVIOUS
    <2>2. PICK h2 : h2 = GuidedOf(tp, n, ro, w, sm, cf, lk)
      OBVIOUS
    <2>3. PICK g2 : g2 = Doc(h2, h)
      OBVIOUS
    <2>4. PICK k2 : k2 = PlanCore(r, a, tr, g2)
      OBVIOUS
    <2>5. [h EXCEPT !.network = w] = h2
      BY <1>h, <2>2, GuidedParts
    <2>6. [g EXCEPT !.core = h2] = g2
      BY <1>g, <2>3, DocParts
    <2>7. [k EXCEPT !.guided = g2] = k2
      BY <1>k, <2>4, PlanCoreParts
    <2>8. e = Doc(k2, k2)
      <3>1. e = Sealed(k2)
        BY <1>3, <1>8, <2>1, <2>5, <2>6, <2>7
      <3> QED BY <3>1 DEF Sealed, Doc
    <2>9. ~VerifiedPlan(g2)
      <3>1. h2.network = w
        BY <2>2, GuidedParts
      <3>2. g2.core = h2
        BY <2>3, DocParts
      <3>3. w # {}
        BY <2>1
      <3> QED BY <3>1, <3>2, <3>3, Zenon DEF VerifiedPlan
    <2>10. k2.guided = g2
      BY <2>4, PlanCoreParts
    <2> QED BY <2>8, <2>9, <2>10, UnsealedPlan
  <1> QED BY <1>1, <1>4, <1>5, <1>6, <1>7, <1>8, EditIs

LEMMA PlanAsDoc ==
  ASSUME NEW r, NEW a, a = Analysis(r), NEW k, k = PlanCore(r, a, TierOf(CatalogOf(r)), SetupPlan(Composed(r, a)))
  PROVE  CompatibilityPlan(r) = Doc(k, k)
  <1>1. CompatibilityPlan(r) = CompatibilityPlanOf(r, a)
    BY Zenon DEF CompatibilityPlan
  <1>2. PICK tr, g : tr = TierOf(CatalogOf(r)) /\ g = SetupPlan(Composed(r, a))
    OBVIOUS
  <1>3. PICK core : core = [request |-> r, analysis |-> a, active |-> "SAFE_GUIDED", trust |-> tr, guided |-> g]
    OBVIOUS
  <1>4. k = core
    BY <1>2, <1>3, Zenon DEF PlanCore
  <1>5. CompatibilityPlanOf(r, a) = Sealed(core)
    BY <1>2, <1>3, Zenon DEF CompatibilityPlanOf
  <1>6. Sealed(core) = Doc(core, core)
    BY Zenon DEF Sealed, Doc
  <1> QED BY <1>1, <1>4, <1>5, <1>6

(* The plan of a request.                                                  *)
LEMMA PlanMade ==
  ASSUME NEW r, NEW p, p = CompatibilityPlan(r), NEW g, g = p.core.guided, NEW e \in Edits(p)
  PROVE  /\ ~VerifiedCompatibility(e) /\ "core" \in DOMAIN e
         /\ e.core.guided = g \/ ~VerifiedReceipt(SetupReceipt(g), e.core.guided)
  <1>1. PICK a : a = Analysis(r)
    OBVIOUS
  <1>2. PICK t : t = Composed(r, a)
    OBVIOUS
  <1>3. PICK tr : tr = TierOf(CatalogOf(r))
    OBVIOUS
  <1>4. t.id = <<r, a>> /\ t.root = <<r, a>> /\ t.tier = tr
    BY <1>2, <1>3 DEF Composed, MadeTemplate
  <1>5. tr # "BUILTIN_VERIFIED"
    BY <1>3 DEF TierOf
  <1>6. PICK sm : sm = {Simulated(RunOptions(id)) : id \in t.useCases}
    OBVIOUS
  <1>7. PICK tp : tp = [id |-> t.id, tier |-> t.tier, manifest |-> t,
                        confirmed |-> t.tier \in {"COMMUNITY_LOCAL_UNVERIFIED", "CUSTOM_LOCAL_UNVERIFIED"}]
    OBVIOUS
  <1>8. PICK lk : lk = Sealed([template |-> t, smoke |-> sm])
    OBVIOUS
  <1>9. PICK ne, yes, no : ne = {} /\ yes = TRUE /\ no = FALSE
    OBVIOUS
  <1>10. PICK x : x = ConfigOf(t.id, yes)
    OBVIOUS
  <1>11. PICK cf : cf = Doc(x, x)
    OBVIOUS
  <1>12. PICK h : h = GuidedOf(tp, NodeMajor, t.root, ne, sm, cf, lk)
    OBVIOUS
  <1>13. SetupPlan(t) = Doc(h, h)
    BY <1>6, <1>7, <1>8, <1>9, <1>10, <1>11, <1>12, Zenon DEF SetupPlan, Sealed, Doc, GuidedOf, ConfigOf
  <1>14. PICK made : made = SetupPlan(t)
    OBVIOUS
  <1>15. PICK k : k = PlanCore(r, a, tr, made)
    OBVIOUS
  <1>16. p = Doc(k, k)
    <2>1. k = PlanCore(r, a, TierOf(CatalogOf(r)), SetupPlan(Composed(r, a)))
      BY <1>2, <1>3, <1>14, <1>15, Zenon
    <2> QED BY <1>1, <2>1, PlanAsDoc
  <1>17. g = made
    <2>1. p.core = k
      BY <1>16, DocParts
    <2> QED BY <1>15, <2>1, PlanCoreParts
  <1>18. t.root # <<"elsewhere">>
    BY <1>4
  <1>19. tp.tier = tr
    BY <1>4, <1>7
  <1>20. PICK i, ro, n : i = t.id /\ ro = t.root /\ n = NodeMajor
    OBVIOUS
  <1>21. Laid(r, a, tr, tp, n, ro, sm, i, lk, x, cf, h, g, k, p, ne, yes, no)
    BY <1>5, <1>9, <1>10, <1>11, <1>12, <1>13, <1>14, <1>15, <1>16, <1>17, <1>18, <1>19, <1>20 DEF Laid
  <1> QED BY <1>21, EditRefused

(* A finite set is listed in some order.                                   *)
LEMMA ListOf ==
  ASSUME NEW S, IsFiniteSet(S), NEW T, S \subseteq T
  PROVE  SetToSeq(S) \in Seq(T)
  <1>1. PICK n : n = Cardinality(S)
    OBVIOUS
  <1>2. n \in Nat /\ ExistsBijection(1..n, S)
    BY <1>1, FS_CardinalityType
  <1>3. PICK f : f \in [1..n -> S] /\ IsInjective(f)
    BY <1>2 DEF ExistsBijection, Bijection, Injection
  <1>4. SetToSeq(S) \in [1..n -> S]
    BY <1>1, <1>3, Zenon DEF SetToSeq
  <1>5. PICK q : q = SetToSeq(S)
    OBVIOUS
  <1>6. q \in [1..n -> T]
    BY <1>4, <1>5
  <1> QED BY <1>2, <1>5, <1>6, IsASeq

LEMMA TypedIs ==
  ASSUME NEW k \in DOMAIN PlannerCatalogs, NEW c, c = PlannerCatalogs[k], ValidCatalog(c), NEW b \in DOMAIN c.bases,
         NEW m \in {"USE_CASE_FIRST", "SYSTEM_FIRST"}, NEW u \in Seq(DOMAIN c.useCases), NEW e \in SUBSET DOMAIN c.components,
         NEW p, NEW si, NEW co, NEW r, r = RequestOf(k, m, b, u, e, p, si, co)
  PROVE  RequestTyped(r)
  <1>1. r.catalog = k /\ r.mode = m /\ r.base = b /\ r.useCases = u /\ r.extras = e /\ r.providers = p /\ r.simulate = si /\ r.complete = co
    BY RequestFields
  <1>2. r = [catalog |-> r.catalog, mode |-> r.mode, base |-> r.base, useCases |-> r.useCases, extras |-> r.extras,
             providers |-> r.providers, simulate |-> r.simulate, complete |-> r.complete]
    BY <1>1 DEF RequestOf
  <1>3. CatalogOf(r) = c
    BY <1>1 DEF CatalogOf
  <1> QED BY <1>1, <1>2, <1>3, Zenon DEF RequestTyped

LEMMA DefaultTyped ==
  ASSUME NEW name \in DOMAIN PlannerCatalogs, ValidCatalog(PlannerCatalogs[name]), NEW r, r = DefaultRequest(name)
  PROVE  RequestTyped(r)
  <1>1. PICK c : c = PlannerCatalogs[name]
    OBVIOUS
  <1>2. ValidCatalog(c)
    BY <1>1
  <1>3. PICK base : base = (CHOOSE b \in Recommended(c) : TRUE)
    OBVIOUS
  <1>4. base \in Recommended(c)
    <2>1. Cardinality(Recommended(c)) = 1
      BY <1>2, CatalogParts
    <2>2. Recommended(c) # {}
      BY <2>1, FS_EmptySet
    <2> QED BY <1>3, <2>2
  <1>5. base \in DOMAIN c.bases
    BY <1>4 DEF Recommended
  <1>6. c.bases[base].components \subseteq DOMAIN c.components /\ c.bases[base].useCases \subseteq DOMAIN c.useCases
    BY <1>2, <1>5, CatalogParts
  <1>7. IsFiniteSet(c.bases[base].useCases)
    BY <1>1, <1>5, PlanningAssumption
  <1>8. PICK list : list = SetToSeq(c.bases[base].useCases)
    OBVIOUS
  <1>9. list \in Seq(DOMAIN c.useCases)
    BY <1>6, <1>7, <1>8, ListOf
  <1>10. PICK e : e = c.bases[base].components
    OBVIOUS
  <1>11. PICK no, yes : no = <<>> /\ yes = TRUE
    OBVIOUS
  <1>12. r = RequestOf(name, "USE_CASE_FIRST", base, list, e, no, yes, yes)
    BY <1>1, <1>3, <1>8, <1>10, <1>11, Zenon DEF DefaultRequest, RequestOf
  <1>13. e \in SUBSET DOMAIN c.components
    BY <1>6, <1>10
  <1> QED BY <1>1, <1>2, <1>5, <1>9, <1>12, <1>13, TypedIs

LEMMA PlanningInitial == PlanningInit => PlanningInv
  <1>1. SUFFICES ASSUME PlanningInit PROVE PlanningInv
    OBVIOUS
  <1>2. RequestTyped(spRequest)
    BY <1>1, DefaultTyped DEF PlanningInit
  <1>3. spPlan = NoDocument /\ spReceipt = NoDocument /\ spCleanup = NoDocument /\ spEdited = "NO"
    BY <1>1 DEF PlanningInit
  <1> QED BY <1>2, <1>3, Zenon DEF PlanningInv

(* A choice makes another request of the same catalog.                     *)
LEMMA ChoiceTyped ==
  ASSUME NEW r, RequestTyped(r), NEW q \in Choice(r)
  PROVE  RequestTyped(q)
  <1>1. PICK k, m, b, u, e, p, si, co : k = r.catalog /\ m = r.mode /\ b = r.base /\ u = r.useCases /\ e = r.extras /\ p = r.providers
                                         /\ si = r.simulate /\ co = r.complete
    OBVIOUS
  <1>2. r = RequestOf(k, m, b, u, e, p, si, co)
    BY <1>1, RequestParts
  <1>3. PICK c : c = CatalogOf(r)
    OBVIOUS
  <1>4. /\ k \in DOMAIN PlannerCatalogs /\ c = PlannerCatalogs[k] /\ ValidCatalog(c) /\ b \in DOMAIN c.bases
        /\ m \in {"USE_CASE_FIRST", "SYSTEM_FIRST"} /\ u \in Seq(DOMAIN c.useCases) /\ e \in SUBSET DOMAIN c.components
    BY <1>1, <1>3, RequestParts DEF CatalogOf
  <1>5. /\ \A x : [r EXCEPT !.mode = x] = RequestOf(k, x, b, u, e, p, si, co)
        /\ \A x : [r EXCEPT !.useCases = x] = RequestOf(k, m, b, x, e, p, si, co)
        /\ \A x : [r EXCEPT !.extras = x] = RequestOf(k, m, b, u, x, p, si, co)
        /\ \A x : [r EXCEPT !.providers = x] = RequestOf(k, m, b, u, e, x, si, co)
        /\ \A x : [r EXCEPT !.simulate = x] = RequestOf(k, m, b, u, e, p, x, co)
        /\ \A x : [r EXCEPT !.complete = x] = RequestOf(k, m, b, u, e, p, si, x)
    BY <1>2 DEF RequestOf
  <1>6. CASE \E x \in {"USE_CASE_FIRST", "SYSTEM_FIRST"} : q = [r EXCEPT !.mode = x]
    <2>1. PICK x \in {"USE_CASE_FIRST", "SYSTEM_FIRST"} : q = [r EXCEPT !.mode = x]
      BY <1>6
    <2>2. q = RequestOf(k, x, b, u, e, p, si, co)
      BY <1>5, <2>1
    <2> QED BY <1>4, <2>2, TypedIs
  <1>7. CASE \E x \in DOMAIN c.useCases : q = [r EXCEPT !.useCases = Append(u, x)]
    <2>1. PICK x \in DOMAIN c.useCases : q = [r EXCEPT !.useCases = Append(u, x)]
      BY <1>7
    <2>2. PICK longer : longer = Append(u, x)
      OBVIOUS
    <2>3. longer \in Seq(DOMAIN c.useCases)
      BY <1>4, <2>2, AppendProperties
    <2>4. q = RequestOf(k, m, b, longer, e, p, si, co)
      BY <1>5, <2>1, <2>2
    <2> QED BY <1>4, <2>3, <2>4, TypedIs
  <1>8. CASE 1 \in DOMAIN u /\ q = [r EXCEPT !.useCases = Tail(u)]
    <2>1. PICK shorter : shorter = Tail(u)
      OBVIOUS
    <2>2. u # <<>>
      BY <1>8
    <2>3. shorter \in Seq(DOMAIN c.useCases)
      BY <1>4, <2>1, <2>2, HeadTailProperties
    <2>4. q = RequestOf(k, m, b, shorter, e, p, si, co)
      BY <1>5, <1>8, <2>1
    <2> QED BY <1>4, <2>3, <2>4, TypedIs
  <1>9. CASE \E x \in SUBSET DOMAIN c.components : q = [r EXCEPT !.extras = x]
    <2>1. PICK x \in SUBSET DOMAIN c.components : q = [r EXCEPT !.extras = x]
      BY <1>9
    <2>2. q = RequestOf(k, m, b, u, x, p, si, co)
      BY <1>5, <2>1
    <2> QED BY <1>4, <2>2, TypedIs
  <1>10. CASE \E x : q = [r EXCEPT !.providers = x]
    <2>1. PICK x : q = [r EXCEPT !.providers = x]
      BY <1>10
    <2>2. q = RequestOf(k, m, b, u, e, x, si, co)
      BY <1>5, <2>1
    <2> QED BY <1>4, <2>2, TypedIs
  <1>11. CASE \E x : q = [r EXCEPT !.simulate = x]
    <2>1. PICK x : q = [r EXCEPT !.simulate = x]
      BY <1>11
    <2>2. q = RequestOf(k, m, b, u, e, p, x, co)
      BY <1>5, <2>1
    <2> QED BY <1>4, <2>2, TypedIs
  <1>12. CASE \E x : q = [r EXCEPT !.complete = x]
    <2>1. PICK x : q = [r EXCEPT !.complete = x]
      BY <1>12
    <2>2. q = RequestOf(k, m, b, u, e, p, si, x)
      BY <1>5, <2>1
    <2> QED BY <1>4, <2>2, TypedIs
  <1>13. \/ \E x \in {"USE_CASE_FIRST", "SYSTEM_FIRST"} : q = [r EXCEPT !.mode = x]
         \/ \E x \in DOMAIN c.useCases : q = [r EXCEPT !.useCases = Append(u, x)]
         \/ 1 \in DOMAIN u /\ q = [r EXCEPT !.useCases = Tail(u)]
         \/ \E x \in SUBSET DOMAIN c.components : q = [r EXCEPT !.extras = x]
         \/ \E x : q = [r EXCEPT !.providers = x]
         \/ \E x : q = [r EXCEPT !.simulate = x]
         \/ \E x : q = [r EXCEPT !.complete = x]
    <2>1. CASE \E x \in DOMAIN c.components : q = [r EXCEPT !.extras = @ \cup {x}]
      <3>1. PICK x \in DOMAIN c.components : q = [r EXCEPT !.extras = r.extras \cup {x}]
        BY <2>1
      <3>2. PICK more : more = r.extras \cup {x}
        OBVIOUS
      <3>3. more \in SUBSET DOMAIN c.components /\ q = [r EXCEPT !.extras = more]
        BY <1>1, <1>4, <3>1, <3>2
      <3> QED BY <3>3
    <2>2. CASE \E x \in r.extras : q = [r EXCEPT !.extras = @ \ {x}]
      <3>1. PICK x \in r.extras : q = [r EXCEPT !.extras = r.extras \ {x}]
        BY <2>2
      <3>2. PICK fewer : fewer = r.extras \ {x}
        OBVIOUS
      <3>3. fewer \in SUBSET DOMAIN c.components /\ q = [r EXCEPT !.extras = fewer]
        BY <1>1, <1>4, <3>1, <3>2
      <3> QED BY <3>3
    <2> QED BY <1>1, <1>3, <2>1, <2>2, Zenon DEF Choice
  <1> QED BY <1>6, <1>7, <1>8, <1>9, <1>10, <1>11, <1>12, <1>13

(* Each step of the planner keeps what is kept.                            *)
LEMMA BuiltIsSome ==
  ASSUME NEW r
  PROVE  "core" \in DOMAIN CompatibilityPlan(r) /\ CompatibilityPlan(r) # NoDocument
  <1>1. "core" \in DOMAIN CompatibilityPlan(r)
    <2>1. PICK a : a = Analysis(r)
      OBVIOUS
    <2>2. PICK k : k = PlanCore(r, a, TierOf(CatalogOf(r)), SetupPlan(Composed(r, a)))
      OBVIOUS
    <2>3. CompatibilityPlan(r) = Doc(k, k)
      BY <2>1, <2>2, PlanAsDoc
    <2> QED BY <2>3, DocParts
  <1> QED BY <1>1, PlanningAssumption

LEMMA PlanningParts ==
  ASSUME PlanningInv, NEW made, made = CompatibilityPlan(spRequest).core.guided
  PROVE  /\ RequestTyped(spRequest) /\ spEdited \in {"NO", "FIELD", "ALL"}
         /\ spPlan = NoDocument => spReceipt = NoDocument /\ spCleanup = NoDocument /\ spEdited = "NO"
         /\ spPlan # NoDocument =>
              /\ CouldBePlanned(spRequest)
              /\ spEdited = "NO" => spPlan = CompatibilityPlan(spRequest)
              /\ spEdited = "FIELD" =>
                   ~VerifiedCompatibility(spPlan) /\ (spPlan.core.guided = made \/ ~VerifiedReceipt(SetupReceipt(made), spPlan.core.guided))
              /\ spEdited # "ALL" =>
                   /\ spReceipt # NoDocument => spReceipt = SetupReceipt(made)
                   /\ spCleanup # NoDocument => spCleanup.core.root = Composed(spRequest, Analysis(spRequest)).root
  BY Zenon DEF PlanningInv, CompatibilityPlan

LEMMA PlanningMade ==
  ASSUME NEW req, NEW plan, NEW receipt, NEW cleanup, NEW edited,
         req = spRequest', plan = spPlan', receipt = spReceipt', cleanup = spCleanup', edited = spEdited',
         NEW made, made = CompatibilityPlan(req).core.guided,
         /\ RequestTyped(req) /\ edited \in {"NO", "FIELD", "ALL"}
         /\ plan = NoDocument => receipt = NoDocument /\ cleanup = NoDocument /\ edited = "NO"
         /\ plan # NoDocument =>
              /\ CouldBePlanned(req)
              /\ edited = "NO" => plan = CompatibilityPlan(req)
              /\ edited = "FIELD" =>
                   ~VerifiedCompatibility(plan) /\ (plan.core.guided = made \/ ~VerifiedReceipt(SetupReceipt(made), plan.core.guided))
              /\ edited # "ALL" =>
                   /\ receipt # NoDocument => receipt = SetupReceipt(made)
                   /\ cleanup # NoDocument => cleanup.core.root = Composed(req, Analysis(req)).root
  PROVE  PlanningInv'
  BY Zenon DEF PlanningInv, CompatibilityPlan

LEMMA ReceiptPasses ==
  ASSUME NEW g, NEW rc, rc = SetupReceipt(g), NEW cl, cl = CleanupReceipt(rc, g)
  PROVE  cl.core.root = g.core.root
  BY DEF CleanupReceipt, Sealed

LEMMA PlannedRoot ==
  ASSUME NEW r
  PROVE  CompatibilityPlan(r).core.guided.core.root = Composed(r, Analysis(r)).root
  <1>1. PICK t : t = Composed(r, Analysis(r))
    OBVIOUS
  <1>2. CompatibilityPlan(r).core.guided = SetupPlan(t)
    <2>1. PICK a, tr, g : a = Analysis(r) /\ tr = TierOf(CatalogOf(r)) /\ g = SetupPlan(t)
      OBVIOUS
    <2>2. PICK k : k = PlanCore(r, a, tr, g)
      OBVIOUS
    <2>3. k = PlanCore(r, a, TierOf(CatalogOf(r)), SetupPlan(Composed(r, a)))
      BY <1>1, <2>1, <2>2, Zenon
    <2>4. CompatibilityPlan(r).core = k
      BY <2>1, <2>3, PlanAsDoc, DocParts
    <2> QED BY <2>1, <2>2, <2>4, PlanCoreParts
  <1>3. SetupPlan(t).core.root = t.root
    BY DEF SetupPlan, Sealed
  <1> QED BY <1>1, <1>2, <1>3

LEMMA PlanningKeeps == PlanningInv /\ [PlanningNext]_spVars => PlanningInv'
  <1>1. SUFFICES ASSUME PlanningInv, [PlanningNext]_spVars PROVE PlanningInv'
    OBVIOUS
  <1>2. PICK req, plan, receipt, cleanup, edited :
          req = spRequest' /\ plan = spPlan' /\ receipt = spReceipt' /\ cleanup = spCleanup' /\ edited = spEdited'
    OBVIOUS
  <1>3. PICK r, p, rc, cl, ed : r = spRequest /\ p = spPlan /\ rc = spReceipt /\ cl = spCleanup /\ ed = spEdited
    OBVIOUS
  <1>4. PICK made : made = CompatibilityPlan(r).core.guided
    OBVIOUS
  <1>5. PICK root : root = Composed(r, Analysis(r)).root
    OBVIOUS
  <1>6. /\ RequestTyped(r) /\ ed \in {"NO", "FIELD", "ALL"}
        /\ p = NoDocument => rc = NoDocument /\ cl = NoDocument /\ ed = "NO"
        /\ p # NoDocument =>
             /\ CouldBePlanned(r)
             /\ ed = "NO" => p = CompatibilityPlan(r)
             /\ ed = "FIELD" => ~VerifiedCompatibility(p) /\ (p.core.guided = made \/ ~VerifiedReceipt(SetupReceipt(made), p.core.guided))
             /\ ed # "ALL" =>
                  /\ rc # NoDocument => rc = SetupReceipt(made)
                  /\ cl # NoDocument => cl.core.root = root
    BY <1>1, <1>3, <1>4, <1>5, PlanningParts
  <1>7. CASE UNCHANGED spVars
    <2>1. req = r /\ plan = p /\ receipt = rc /\ cleanup = cl /\ edited = ed
      BY <1>2, <1>3, <1>7 DEF spVars
    <2> QED BY <1>2, <1>4, <1>5, <1>6, <2>1, PlanningMade
  <1>8. CASE UserChooses
    <2>1. p = NoDocument /\ req \in Choice(r) /\ plan = p /\ receipt = rc /\ cleanup = cl /\ edited = ed
      BY <1>2, <1>3, <1>8 DEF UserChooses
    <2>2. RequestTyped(req)
      BY <1>6, <2>1, ChoiceTyped
    <2> QED BY <1>2, <1>6, <2>1, <2>2, PlanningMade
  <1>9. CASE PlanBuilt
    <2>1. p = NoDocument /\ CouldBePlanned(r) /\ plan = CompatibilityPlan(r) /\ req = r /\ receipt = rc /\ cleanup = cl /\ edited = ed
      BY <1>2, <1>3, <1>9, Zenon DEF PlanBuilt, CompatibilityPlan
    <2>2. plan # NoDocument
      BY <2>1, BuiltIsSome
    <2> QED BY <1>2, <1>6, <2>1, <2>2, PlanningMade
  <1>10. CASE PlanEdited
    <2>1. /\ p # NoDocument /\ cl = NoDocument /\ ed = "NO" /\ req = r /\ receipt = rc /\ cleanup = cl
          /\ (plan \in Edits(p) /\ edited = "FIELD") \/ (plan = Forged(p) /\ edited = "ALL")
      BY <1>2, <1>3, <1>10 DEF PlanEdited
    <2>2. p = CompatibilityPlan(r) /\ made = p.core.guided
      BY <1>4, <1>6, <2>1
    <2>3. CASE plan \in Edits(p) /\ edited = "FIELD"
      <3>1. /\ ~VerifiedCompatibility(plan) /\ "core" \in DOMAIN plan
            /\ plan.core.guided = made \/ ~VerifiedReceipt(SetupReceipt(made), plan.core.guided)
        BY <2>2, <2>3, PlanMade
      <3>2. plan # NoDocument
        BY <3>1, PlanningAssumption
      <3> QED BY <1>2, <1>4, <1>6, <2>1, <2>3, <3>1, <3>2, PlanningMade
    <2>4. CASE plan = Forged(p) /\ edited = "ALL"
      <3>1. "core" \in DOMAIN plan
        BY <2>4 DEF Forged, Sealed
      <3>2. plan # NoDocument
        BY <3>1, PlanningAssumption
      <3> QED BY <1>2, <1>6, <2>1, <2>4, <3>2, PlanningMade
    <2> QED BY <2>1, <2>3, <2>4
  <1>11. CASE ReceiptBuilt
    <2>1. p # NoDocument /\ VerifiedCompatibility(p) /\ receipt = SetupReceipt(p.core.guided) /\ req = r /\ plan = p /\ cleanup = cl /\ edited = ed
      BY <1>2, <1>3, <1>11 DEF ReceiptBuilt
    <2>2. ed # "FIELD"
      BY <1>6, <2>1
    <2>3. ed = "NO" => receipt = SetupReceipt(made)
      BY <1>4, <1>6, <2>1
    <2>4. ed # "ALL" => receipt = SetupReceipt(made)
      BY <1>6, <2>2, <2>3
    <2> QED BY <1>2, <1>4, <1>5, <1>6, <2>1, <2>2, <2>4, PlanningMade
  <1>12. CASE CleanupBuilt
    <2>1. rc # NoDocument /\ VerifiedReceipt(rc, p.core.guided) /\ cleanup = CleanupReceipt(rc, p.core.guided)
          /\ req = r /\ plan = p /\ receipt = rc /\ edited = ed
      BY <1>2, <1>3, <1>12 DEF CleanupBuilt
    <2>2. p # NoDocument
      BY <1>6, <2>1
    <2>3. ASSUME ed # "ALL" PROVE cleanup.core.root = root
      <3>1. rc = SetupReceipt(made)
        BY <1>6, <2>1, <2>2, <2>3
      <3>2. p.core.guided = made
        BY <1>4, <1>6, <2>1, <2>2, <2>3, <3>1
      <3>3. cleanup = CleanupReceipt(rc, made)
        BY <2>1, <3>2
      <3>4. cleanup.core.root = made.core.root
        BY <3>1, <3>3, ReceiptPasses
      <3> QED BY <1>4, <1>5, <3>4, PlannedRoot
    <2> QED BY <1>2, <1>4, <1>5, <1>6, <2>1, <2>2, <2>3, PlanningMade
  <1> QED BY <1>1, <1>7, <1>8, <1>9, <1>10, <1>11, <1>12 DEF PlanningNext

(* A plan, and whatever was chosen before it: what the planner promised    *)
(* holds.                                                                  *)
PlanHolds(r, s, again) ==
  /\ \A id \in s : NeedsMet(CatalogOf(r), CatalogOf(r).components[id].needs) /\ DOMAIN CatalogOf(r).components[id].needs \subseteq s
  /\ \A id \in s \ Chose(r) :
       \/ \E a \in s : id \in DOMAIN CatalogOf(r).components[a].needs
       \/ \E u \in ToSet(r.useCases) :
            LET use == CatalogOf(r).useCases[u] IN
            id = use.simulator \/ id \in DOMAIN use.needs \/ \E g \in ToSet(use.groups) : id = ProviderOf(r, g)
  /\ r.mode = "USE_CASE_FIRST" => \A u \in ToSet(r.useCases) : Runs(CatalogOf(r), u, s)
  /\ \A u \in ToSet(r.useCases) : UseCaseAccepted(u)
  /\ again.selected = s /\ again.added = {} /\ again.status = Analysis(r).status

LEMMA PlannedHolds ==
  ASSUME NEW r, RequestTyped(r), CouldBePlanned(r), NEW s, s = Selection(r), NEW again, again = Analysis([r EXCEPT !.extras = s])
  PROVE  PlanHolds(r, s, again)
  <1>1. ProvidersAllowed(r) /\ Executable(r, Analysis(r)) /\ \A u \in ToSet(r.useCases) : UseCaseAccepted(u)
    BY PlannedAreAccepted
  <1>2. /\ \A id \in s : NeedsMet(CatalogOf(r), CatalogOf(r).components[id].needs) /\ DOMAIN CatalogOf(r).components[id].needs \subseteq s
        /\ \A id \in s \ Chose(r) :
             (\E a \in s : id \in DOMAIN CatalogOf(r).components[a].needs) \/ (\E u \in ToSet(r.useCases) : AskedBy(r, u, id))
    BY <1>1, SelectionHolds
  <1>3. r.mode = "USE_CASE_FIRST" => \A u \in ToSet(r.useCases) : Runs(CatalogOf(r), u, s)
    BY <1>1, PromisedRuns
  <1>4. again.selected = s /\ again.added = {} /\ again.status = Analysis(r).status
    <2>1. PICK q : q = [r EXCEPT !.extras = s]
      OBVIOUS
    <2> QED BY <1>1, <2>1, AnalysisAgain
  <1> QED BY <1>1, <1>2, <1>3, <1>4, Zenon DEF PlanHolds, AskedBy

LEMMA PlansExecute == PlanningInv => PlansAreExecutable
  <1>1. SUFFICES ASSUME PlanningInv PROVE PlansAreExecutable
    OBVIOUS
  <1>2. spPlan # NoDocument =>
          PlanHolds(spRequest, Selection(spRequest), Analysis([spRequest EXCEPT !.extras = Selection(spRequest)]))
    <2>1. SUFFICES ASSUME spPlan # NoDocument
                   PROVE  PlanHolds(spRequest, Selection(spRequest), Analysis([spRequest EXCEPT !.extras = Selection(spRequest)]))
      OBVIOUS
    <2>2. RequestTyped(spRequest) /\ CouldBePlanned(spRequest)
      BY <1>1, <2>1, PlanningParts
    <2> QED BY <2>2, PlannedHolds
  <1>3. spEdited # "ALL" =>
          /\ spReceipt # NoDocument => spReceipt = SetupReceipt(CompatibilityPlan(spRequest).core.guided)
          /\ spCleanup # NoDocument => spCleanup.core.root = Composed(spRequest, Analysis(spRequest)).root
    BY <1>1, PlanningParts
  <1> QED BY <1>2, <1>3, Zenon DEF PlansAreExecutable, PlanHolds, CompatibilityPlan

-----------------------------------------------------------------------------
(* All of them                                                             *)

(* The steps of all the services are steps of each, or leave it alone.     *)
LEMMA DocumentSteps ==
  ASSUME [ServicesNext]_serviceVars
  PROVE  /\ [AuditNext]_atVars /\ [DoctorNext]_udVars /\ [UpdateNext]_upVars /\ [BundleNext]_bnVars
         /\ [DesignNext]_bpVars /\ [EffectiveNext]_erVars /\ [PlanningNext]_spVars
  <1>1. CASE UNCHANGED serviceVars
    BY <1>1 DEF serviceVars
  <1>2. CASE ServicesNext
    <2>1. /\ service # "audit" => UNCHANGED atVars
          /\ service # "doctor" => UNCHANGED udVars
          /\ service # "update" => UNCHANGED upVars
          /\ service # "bundles" => UNCHANGED bnVars
          /\ service # "design" => UNCHANGED bpVars
          /\ service # "rights" => UNCHANGED erVars
          /\ service # "planning" => UNCHANGED spVars
      BY <1>2 DEF ServicesNext, Others
    <2>2. /\ service = "audit" => AuditNext
          /\ service = "doctor" => DoctorNext
          /\ service = "update" => UpdateNext
          /\ service = "bundles" => BundleNext
          /\ service = "design" => DesignNext
          /\ service = "rights" => EffectiveNext
          /\ service = "planning" => PlanningNext
      BY <1>2 DEF ServicesNext
    <2> QED BY <2>1, <2>2
  <1> QED BY <1>1, <1>2

DocumentInv ==
  /\ AuditInv /\ DoctorInv /\ UpdateInv /\ BundleInv /\ DesignInv /\ EffectiveInv /\ PlanningInv

LEMMA DocumentInitial == ServicesInit => DocumentInv
  BY AuditInitial, DoctorInitial, UpdateInitial, BundleInitial, DesignInitial, EffectiveInitial, PlanningInitial
     DEF ServicesInit, DocumentInv

LEMMA DocumentStep == DocumentInv /\ [ServicesNext]_serviceVars => DocumentInv'
  <1>1. SUFFICES ASSUME DocumentInv, [ServicesNext]_serviceVars PROVE DocumentInv'
    OBVIOUS
  <1>2. AuditInv' /\ DoctorInv' /\ UpdateInv'
    BY <1>1, DocumentSteps, AuditKeeps, DoctorKeeps, UpdateKeeps DEF DocumentInv
  <1>3. BundleInv' /\ DesignInv'
    BY <1>1, DocumentSteps, BundleKeeps, DesignKeeps DEF DocumentInv
  <1>4. EffectiveInv' /\ PlanningInv'
    BY <1>1, DocumentSteps, EffectiveKeeps, PlanningKeeps DEF DocumentInv
  <1> QED BY <1>2, <1>3, <1>4 DEF DocumentInv

(* Whatever a file, a forger or an interleaving did to a document between  *)
(* its making and its reading, what a reader accepts of it holds: the      *)
(* timeline proves its own chain, a plan can be executed, an update plan   *)
(* and a report say what was seen, evidence covers its lock and is of its  *)
(* own plan, and rights only narrow.                                       *)
THEOREM DocumentsAlwaysHold == ServicesSpec => []DocumentsHold
  <1>1. DocumentInv => DocumentsHold
    BY TimelineFrom, PlansExecute, RenderedIsWitnessed, ReportsAreSeen, EvidenceCovers, RightsNarrow, EvidenceIsItsPlans
       DEF DocumentInv, DocumentsHold
  <1> QED BY <1>1, DocumentInitial, DocumentStep, PTL DEF ServicesSpec

(* The inductive invariants of the eighteen services hold in every         *)
(* behaviour of them together: a service that is not the one explored      *)
(* stays as it began (Others()).                                           *)
THEOREM ServicesInvariant == ServicesSpec => []ServicesInv
  <1> DEFINE Inv == /\ StoringInv /\ AnsweringInv /\ DocumentInv
                    /\ SetupInv /\ WorkbenchInv /\ SkillsInv /\ CapabilityInv /\ ModelInv
  <1>1. ServicesInit => Inv
    <2>1. ServicesInit => StoringInv /\ AnsweringInv
      BY UsageInitial, LoadInitial, BuilderInitial, DailyInitial, GatewayInitial, ManagerInitial, CellInitial
         DEF ServicesInit, StoringInv, AnsweringInv
    <2>2. ServicesInit => SetupInv /\ WorkbenchInv /\ SkillsInv /\ CapabilityInv /\ ModelInv
      BY SetupInitial, WorkbenchInitial, SkillsInitial, CapabilityInitial, ModelInitial DEF ServicesInit
    <2> QED BY <2>1, <2>2, DocumentInitial
  <1>2. Inv /\ [ServicesNext]_serviceVars => Inv'
    <2> SUFFICES ASSUME Inv, [ServicesNext]_serviceVars PROVE Inv'
      OBVIOUS
    <2>1. StoringInv' /\ AnsweringInv'
      BY StoringStep, AnsweringStep
    <2>2. SetupInv'
      BY StoreSteps, SetupKeeps
    <2>3. WorkbenchInv' /\ SkillsInv' /\ CapabilityInv' /\ ModelInv'
      BY AuthoritySteps, WorkbenchKeeps, SkillsKeeps, CapabilityKeeps, ModelKeeps
    <2>4. DocumentInv'
      BY DocumentStep
    <2> QED BY <2>1, <2>2, <2>3, <2>4
  <1>3. Inv => ServicesInv
    BY DEF StoringInv, AnsweringInv, DocumentInv, ServicesInv
  <1> QED BY <1>1, <1>2, <1>3, PTL DEF ServicesSpec
=============================================================================
