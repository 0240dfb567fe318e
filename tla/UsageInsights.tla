---------------------------- MODULE UsageInsights ----------------------------
(***************************************************************************)
(* UsageInsightsLocalServiceV1 (packages/usage-insights/src/index.ts) over *)
(* UsageInsightsRuntimeV1 (packages/contracts/src/usage-insights.ts), as   *)
(* its command line drives them: one process per command opens the store,  *)
(* works and ends.  A command without an await is one step on the store,   *)
(* which is replaced by rename; share and delete await a receiver for each *)
(* batch, and may lose an answer, time out while the receiver is still at  *)
(* it, or be killed.  Commands of two processes do not overlap, and the    *)
(* clock, in the units of the intervals, stands still during one.          *)
(*                                                                         *)
(* Pseudonyms and deletion ids are random: a new one is the least number   *)
(* that occurs nowhere.  Digests and endpoint syntax are left out; an event*)
(* is its outcome, its time and the pseudonym it was recorded under.       *)
(***************************************************************************)
EXTENDS Naturals, FiniteSets

CONSTANTS
  Profiles,           \* profile -> the outcomes it allows
  Endpoints, NoEndpoint,
  NoStore, NoBatch, NoCall,
  RotationInterval, LazyExpiry,
  Ttl,                \* diagnosticsTtlMs of a grant
  MaxEventRecords, MaxSharedBatches,
  MaxUsageTime,       \* bound of the clock
  MaxHeld             \* bound of the batches there are at a time

VARIABLES
  uiClock,
  uiDisk,             \* the store file, or NoStore
  uiCall,             \* the share or delete that is awaiting, or NoCall
  uiRemote,           \* what the receivers hold
  uiLate              \* requests a receiver is still at after the client gave up

uiVars == <<uiClock, uiDisk, uiCall, uiRemote, uiLate>>

Outcomes == UNION {Profiles[p] : p \in DOMAIN Profiles}

Event == [outcome : Outcomes, at : Nat, id : Nat]

(* An event in a batch: whether the batch's profile allows its outcome, and*)
(* its pseudonym.                                                          *)
SentEvent == [allowed : BOOLEAN, id : Nat]

(* A batch that was or is to be shared, the state of a runtime, the consent*)
(* and UsageInsightsStoredStateV1.  "inst" and "overtaken" are history: the*)
(* runtime's pseudonym when the batch was made, and whether the batch was  *)
(* deleted while a receiver was still at it.                               *)
Batch ==
  [endpoint : Endpoints \cup {NoEndpoint}, del : Nat \ {0}, inst : Nat \ {0},
   events : SUBSET SentEvent, overtaken : BOOLEAN]

RuntimeState ==
  [state : {"DISABLED", "ENABLED", "REVOKED", "DELETED"}, id : Nat,
   events : SUBSET Event, rotated : Nat, until : Nat]

Consent ==
  [state : {"DISABLED", "GRANTED", "REVOKED"}, profile : DOMAIN Profiles \cup {"none"},
   expires : Nat, endpoint : Endpoints \cup {NoEndpoint}]

StoredState ==
  [consent : Consent, rt : RuntimeState, pending : Batch \cup {NoBatch}, batches : SUBSET Batch]

ASSUME UsageAssumption ==
  /\ NoStore \notin StoredState /\ NoBatch \notin Batch
  /\ LazyExpiry \in Nat /\ Ttl \in Nat \ {0} /\ "none" \notin DOMAIN Profiles

(* One batch, wherever it is: a deletion id means it only at its endpoint. *)
SameBatch(b, c) == b.endpoint = c.endpoint /\ b.del = c.del

(* The batches a store can delete at their receivers.                      *)
StoredBatches(d) ==
  IF d = NoStore THEN {} ELSE d.batches \cup ({d.pending} \ {NoBatch})

(* The batches there are, at a receiver or in the store.                   *)
Held == uiRemote \cup uiLate \cup StoredBatches(uiDisk)

(* The ids that occur anywhere.                                            *)
UsedIds ==
  (IF uiDisk = NoStore THEN {} ELSE {uiDisk.rt.id})
  \cup UNION {{b.del, b.inst} : b \in Held \cup (IF uiCall = NoCall THEN {} ELSE uiCall.batches)}

(* generatePseudonym(), newDeleteId(): the k-th new id of a step.          *)
FreshId(k) == CHOOSE i \in 1..Cardinality(UsedIds) + k :
  i \notin UsedIds /\ Cardinality((1..i) \ UsedIds) = k

(* A new UsageInsightsRuntimeV1.                                           *)
NewRuntime == [state |-> "DISABLED", id |-> 0, events |-> {}, rotated |-> 0, until |-> 0]

(* deleteState(), and #deleteIfDue() when it is due.                       *)
Erased == [state |-> "DELETED", id |-> 0, events |-> {}, rotated |-> 0, until |-> 0]

(* optIn() on a new runtime.                                               *)
OptedIn(now, id) ==
  [state |-> "ENABLED", id |-> id, events |-> {}, rotated |-> now, until |-> 0]

(* Mutant of Rotated: the new epoch goes on under the old pseudonym.       *)
RotatedInPlace(rt, now, id) == [rt EXCEPT !.events = {}, !.rotated = now]

(* #rotate(): the old epoch is erased with its pseudonym.                  *)
Rotated(rt, now, id) == [rt EXCEPT !.id = id, !.events = {}, !.rotated = now]

(* #refresh(): an expired revocation erases, a due rotation rotates.       *)
RtRefreshed(rt, now) ==
  IF rt.state = "REVOKED" /\ now >= rt.until THEN Erased
  ELSE IF rt.state = "ENABLED" /\ now - rt.rotated >= RotationInterval
  THEN Rotated(rt, now, FreshId(1))
  ELSE rt

(* revoke() of the runtime.                                                *)
RtRevoked(rt, now) == [rt EXCEPT !.state = "REVOKED", !.until = now + LazyExpiry]

(* defaultConsent() *)
DefaultConsent ==
  [state |-> "DISABLED", profile |-> "none", expires |-> 0, endpoint |-> NoEndpoint]

ConsentRevoked(c) == [c EXCEPT !.state = "REVOKED", !.endpoint = NoEndpoint]

(* #refresh() of the service: a diagnostics consent ends at its expiry.    *)
Refreshed(d, now) ==
  LET rt == RtRefreshed(d.rt, now)
  IN  IF d.consent.state = "GRANTED" /\ d.consent.profile = "diagnostics"
         /\ now >= d.consent.expires
      THEN [d EXCEPT !.rt = IF rt.state = "ENABLED" THEN RtRevoked(rt, now) ELSE rt,
                     !.consent = ConsentRevoked(@)]
      ELSE [d EXCEPT !.rt = rt]

(* open(): the stored state, or the default one.                           *)
Opened ==
  IF uiDisk = NoStore
  THEN [consent |-> DefaultConsent, rt |-> NewRuntime, pending |-> NoBatch, batches |-> {}]
  ELSE [uiDisk EXCEPT !.rt = RtRefreshed(@, uiClock)]

(* The state a command finds after its own #refresh().                     *)
Found == Refreshed(Opened, uiClock)

Idle == uiCall = NoCall

(* A command that changes the store and ends.                              *)
Store(d) == uiDisk' = d /\ UNCHANGED <<uiClock, uiCall, uiRemote, uiLate>>

UsageInit ==
  /\ uiClock = 0 /\ uiDisk = NoStore /\ uiCall = NoCall
  /\ uiRemote = {} /\ uiLate = {}

(* grant(): the consent found on disk is not refreshed first.              *)
Grant(profile) ==
  /\ Idle
  /\ Opened.consent.state # "GRANTED"
  /\ Opened.pending = NoBatch /\ Opened.batches = {}
  /\ Store([Opened EXCEPT
       !.rt = OptedIn(uiClock, FreshId(1)),
       !.consent = [state |-> "GRANTED", profile |-> profile, endpoint |-> NoEndpoint,
                    expires |-> IF profile = "diagnostics" THEN uiClock + Ttl ELSE 0]])

(* enableSharing(), disableSharing() *)
SetSharing(endpoint) ==
  /\ Idle /\ Found.consent.state = "GRANTED"
  /\ Store([Found EXCEPT !.consent.endpoint = endpoint])

(* record(): an accepted event is stored under the current pseudonym.      *)
RecordEvent(outcome) ==
  /\ Idle /\ Found.consent.state = "GRANTED" /\ Found.pending = NoBatch
  /\ outcome \in Profiles[Found.consent.profile]
  /\ Cardinality(Found.rt.events) < MaxEventRecords
  /\ Store([Found EXCEPT !.rt.events = @ \cup {[outcome |-> outcome, at |-> uiClock, id |-> Found.rt.id]}])

(* consentStatus(), status(), preview(), exportData(): what #refresh()     *)
(* changed is stored.                                                      *)
Look == Idle /\ uiDisk # NoStore /\ Store(Found)

(* revoke() *)
Revoke ==
  /\ Idle /\ Found.consent.state = "GRANTED"
  /\ Store([Found EXCEPT !.rt = RtRevoked(@, uiClock), !.consent = ConsentRevoked(@)])

(* rotate() *)
Rotate ==
  /\ Idle /\ Found.consent.state = "GRANTED" /\ Found.pending = NoBatch
  /\ Store([Found EXCEPT !.rt = Rotated(@, uiClock, FreshId(2))])

(* makeEnvelope() of everything recorded, under a new deletion id.         *)
Envelope(d) ==
  [endpoint |-> d.consent.endpoint, del |-> FreshId(2), inst |-> d.rt.id,
   events |-> {[allowed |-> e.outcome \in Profiles[d.consent.profile], id |-> e.id] : e \in d.rt.events},
   overtaken |-> FALSE]

Awaiting(kind, batches) == uiCall' = [kind |-> kind, batches |-> batches]

(* share() up to its await: a pending batch is sent again as it is; a new  *)
(* one is stored before it is sent.                                        *)
PreparedShare(d) ==
  IF d.pending # NoBatch THEN UNCHANGED uiDisk /\ Awaiting("share", {d.pending})
  ELSE uiDisk' = [d EXCEPT !.pending = Envelope(d)] /\ Awaiting("share", {Envelope(d)})

Share ==
  /\ Idle /\ Found.consent.state = "GRANTED" /\ Found.consent.endpoint # NoEndpoint
  /\ Found.pending = NoBatch =>
       /\ Found.rt.events # {} /\ Cardinality(Found.batches) < MaxSharedBatches
       /\ Cardinality({b.del : b \in Held}) < MaxHeld
  /\ PreparedShare(Found)
  /\ UNCHANGED <<uiClock, uiRemote, uiLate>>

(* The receiver keeps a batch once per deletion id.                        *)
Received(b) == IF \E r \in uiRemote : SameBatch(r, b) THEN uiRemote ELSE uiRemote \cup {b}

(* Mutant of ReceiptOf: the endpoint kept is the one sharing is set to.    *)
ReceiptOfConsent(b) == [b EXCEPT !.events = {}, !.endpoint = Found.consent.endpoint]

(* What the store keeps of a batch that was acknowledged.                  *)
ReceiptOf(b) == [b EXCEPT !.events = {}]

Calling(kind) == uiCall # NoCall /\ uiCall.kind = kind

(* The receiver answers 202, and share() goes on: the batch is a receipt,  *)
(* and the epoch ends.                                                     *)
ShareAcknowledged ==
  /\ Calling("share")
  /\ \E b \in uiCall.batches :
       /\ uiRemote' = Received(b)
       /\ uiDisk' = [Found EXCEPT !.batches = @ \cup {ReceiptOf(b)}, !.pending = NoBatch,
                                  !.rt = Rotated(@, uiClock, FreshId(2))]
  /\ uiCall' = NoCall
  /\ UNCHANGED <<uiClock, uiLate>>

(* No valid answer within two seconds, or the process is killed: the       *)
(* receiver had the batch, never gets it, or is still at it.               *)
ShareFails ==
  /\ Calling("share")
  /\ \E b \in uiCall.batches :
       \/ uiRemote' = Received(b) /\ UNCHANGED uiLate
       \/ UNCHANGED <<uiRemote, uiLate>>
       \/ uiLate = {} /\ uiLate' = {b} /\ UNCHANGED uiRemote
  /\ uiCall' = NoCall
  /\ UNCHANGED <<uiClock, uiDisk>>

(* deleteManagedData() up to its first await.                              *)
Delete ==
  /\ Idle
  /\ Awaiting("delete", StoredBatches(Found))
  /\ UNCHANGED <<uiClock, uiDisk, uiRemote, uiLate>>

(* One batch is deleted at its receiver, the pending one first; the answer *)
(* arrives, or it does not and the command ends.                           *)
DeleteRemote ==
  /\ Calling("delete")
  /\ \E b \in uiCall.batches :
       /\ uiDisk.pending \in uiCall.batches => b = uiDisk.pending
       /\ uiRemote' = {r \in uiRemote : ~SameBatch(r, b)}
       /\ uiLate' = {[r EXCEPT !.overtaken = @ \/ SameBatch(r, b)] : r \in uiLate}
       /\ \/ uiCall' = [uiCall EXCEPT !.batches = @ \ {b}]
          \/ uiCall' = NoCall
  /\ UNCHANGED <<uiClock, uiDisk>>

(* The rest of deleteManagedData(): the store file is removed.             *)
DeleteLocal ==
  /\ Calling("delete") /\ uiCall.batches = {}
  /\ uiDisk' = NoStore
  /\ uiCall' = NoCall
  /\ UNCHANGED <<uiClock, uiRemote, uiLate>>

(* The process is killed, or the receiver does not answer a DELETE.        *)
Killed == uiCall # NoCall /\ uiCall' = NoCall /\ UNCHANGED <<uiClock, uiDisk, uiRemote, uiLate>>

(* A receiver finishes a request whose client gave up.                     *)
LateArrival ==
  /\ \E b \in uiLate : uiRemote' = Received(b) /\ uiLate' = uiLate \ {b}
  /\ UNCHANGED <<uiClock, uiDisk, uiCall>>

UsageTick ==
  /\ Idle /\ uiClock < MaxUsageTime /\ uiClock' = uiClock + 1
  /\ UNCHANGED <<uiDisk, uiCall, uiRemote, uiLate>>

UsageNext ==
  \/ \E p \in DOMAIN Profiles : Grant(p)
  \/ \E e \in Endpoints \cup {NoEndpoint} : SetSharing(e)
  \/ \E o \in Outcomes : RecordEvent(o)
  \/ Look \/ Revoke \/ Rotate
  \/ Share \/ ShareAcknowledged \/ ShareFails
  \/ Delete \/ DeleteRemote \/ DeleteLocal
  \/ Killed \/ LateArrival \/ UsageTick

(***************************************************************************)
(* Properties                                                              *)
(***************************************************************************)
(* What the store tracks of the receivers' batches.                        *)
Tracked(b) == \E t \in StoredBatches(uiDisk) : SameBatch(t, b)

(* The events of a batch: allowed by its profile, and all recorded under   *)
(* the pseudonym the runtime had when the batch was made.                  *)
OfItsEpoch(b) == \A e \in b.events : e.allowed /\ e.id = b.inst

(* Whatever answer is lost, wherever a process is killed and whatever      *)
(* endpoint sharing is set to meanwhile, every batch a receiver holds can  *)
(* still be deleted with an id the store keeps for that receiver's         *)
(* endpoint, except one that was deleted before the receiver was done with *)
(* it; it carries no event outside its profile and none of an earlier      *)
(* epoch; and no two batches, nor a batch and the current epoch after it   *)
(* was sent, share a pseudonym.                                            *)
SharedDataIsManaged ==
  /\ \A b \in uiRemote : b.overtaken \/ Tracked(b)
  /\ \A b \in uiRemote : OfItsEpoch(b)
  /\ \A b, c \in uiRemote : ~SameBatch(b, c) => b.inst # c.inst
  /\ uiDisk # NoStore /\ uiDisk.pending = NoBatch =>
       uiDisk.rt.id \notin {b.inst : b \in uiRemote \cup uiLate}

(* The inductive invariant: a granted consent covers what is recorded, and *)
(* that is of the current epoch; a deletion id, a pseudonym and an endpoint*)
(* are of one batch, wherever it is; the pseudonym of no batch is used     *)
(* further once it was sent; and a command that awaits has yet to handle   *)
(* every batch a receiver can have.                                        *)
UsageTypeOk ==
  /\ uiClock \in Nat
  /\ uiDisk \in StoredState \cup {NoStore}
  /\ Held \subseteq Batch /\ IsFiniteSet(Held)
  /\ uiCall # NoCall => uiCall = [kind |-> uiCall.kind, batches |-> uiCall.batches]

ConsentCovers(d) ==
  /\ d.consent.state = "GRANTED" =>
       /\ d.rt.state = "ENABLED" /\ d.consent.profile \in DOMAIN Profiles
       /\ {e.outcome : e \in d.rt.events} \subseteq Profiles[d.consent.profile]
  /\ d.rt.state = "ENABLED" => d.rt.id # 0
  /\ \A e \in d.rt.events : e.id = d.rt.id

IdsPair ==
  /\ \A b, c \in Held : b.del = c.del <=> b.inst = c.inst
  /\ \A b, c \in Held : b.del = c.del => b.endpoint = c.endpoint
  /\ uiDisk # NoStore /\ uiDisk.pending = NoBatch => uiDisk.rt.id \notin {b.inst : b \in Held}

CallHandles ==
  uiCall # NoCall =>
    \/ /\ uiCall.kind = "share" /\ uiDisk # NoStore
       /\ uiDisk.pending # NoBatch /\ uiCall.batches = {uiDisk.pending}
    \/ /\ uiCall.kind = "delete" /\ uiCall.batches \subseteq StoredBatches(uiDisk)
       /\ \A b \in uiRemote \cup uiLate : b.overtaken \/ \E c \in uiCall.batches : SameBatch(c, b)

UsageInv ==
  /\ UsageTypeOk /\ IdsPair /\ CallHandles
  /\ uiDisk # NoStore => ConsentCovers(uiDisk)
  /\ \A b \in Held : OfItsEpoch(b)
  /\ \A b \in uiRemote \cup uiLate : b.overtaken \/ Tracked(b)

(* readStoredState() and validRuntimeSnapshotSemantics() accept a store.   *)
Loadable(d) ==
  /\ d.consent.state = "GRANTED" => d.rt.state = "ENABLED" /\ d.consent.profile # "none"
  /\ d.consent.state = "REVOKED" => d.rt.state \in {"REVOKED", "DELETED"}
                                    /\ d.consent.endpoint = NoEndpoint
  /\ d.consent.state # "DISABLED"
  /\ d.consent.profile # "diagnostics" <=> d.consent.expires = 0
  /\ d.rt.state \in {"ENABLED", "REVOKED"} =>
       d.rt.id # 0 /\ \A e \in d.rt.events : e.id = d.rt.id /\ e.at >= d.rt.rotated /\ e.at <= uiClock
  /\ d.rt.state = "DELETED" => d.rt.id = 0 /\ d.rt.events = {}
  /\ Cardinality({b.del : b \in d.batches}) = Cardinality(d.batches)
  /\ d.pending # NoBatch =>
       /\ d.pending.del \notin {b.del : b \in d.batches}
       /\ d.pending.events # {} /\ OfItsEpoch(d.pending)

(* Every store a sequence of commands leaves is one the next command opens.*)
UsageStoreLoads == uiDisk # NoStore => Loadable(uiDisk)

(* The inductive invariant, with UsageInv.                                 *)
LoadInv ==
  /\ UsageStoreLoads
  /\ uiDisk # NoStore =>
       uiDisk.rt.rotated <= uiClock /\ \A b, c \in uiDisk.batches : b.del = c.del => b = c
  /\ Calling("share") => uiDisk.consent.state = "GRANTED"
=============================================================================
