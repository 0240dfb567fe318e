-------------------------- MODULE EffectGateProofs --------------------------
(***************************************************************************)
(* Theorems about EffectGate, for any calls, requests, keys, leases,       *)
(* faults and crashes.  GateInv is inductive; the safety properties and    *)
(* the refinement of AtMostOnceEffect follow from it.                      *)
(***************************************************************************)
EXTENDS EffectGate, TLAPS

-----------------------------------------------------------------------------
(* What the operators on the store compute.                                *)

(* A request that is admitted is a typed record, and an owner's has a      *)
(* lease.                                                                  *)
LEMMA RequestFacts ==
  ASSUME NEW r \in Requests
  PROVE  /\ r \in Request
         /\ r.key \in Keys /\ r.body \in Bodies
         /\ r.gen \in Generations \cup {None}
         /\ r.kind = "OWNER" => r.lease \in Leases
         /\ r # None
  BY RequestAssumption, NoneAssumption DEF Request

(* Reserved sets one lease and one key, and nothing else.                  *)
LEMMA ReservedFacts ==
  ASSUME NEW s \in Store, NEW r \in Requests, r.kind = "OWNER"
  PROVE  LET t == Reserved(s, r)
         IN  /\ t \in Store
             /\ t.effects = s.effects
             /\ \A l \in Leases :
                  t.consumed[l] = IF l = r.lease THEN r.key ELSE s.consumed[l]
             /\ \A k \in Keys :
                  t.reservations[k] =
                    IF k = r.key
                    THEN [lease |-> r.lease, status |-> "EXECUTING"]
                    ELSE s.reservations[k]
  BY RequestFacts DEF Reserved, Store, Reservation, Status

(* Recorded writes one receipt, and APPLIED into an owner's reservation.   *)
LEMMA RecordedFacts ==
  ASSUME NEW s \in Store, NEW c \in Calls, NEW r \in Requests,
         r.kind = "OWNER" => s.reservations[r.key] # None
  PROVE  LET t == Recorded(s, c, r)
         IN  /\ t \in Store
             /\ t.consumed = s.consumed
             /\ \A k \in Keys :
                  /\ t.effects[k] =
                       IF k = r.key
                       THEN [body |-> r.body, gen |-> r.gen, object |-> c]
                       ELSE s.effects[k]
                  /\ t.reservations[k] =
                       IF k = r.key /\ r.kind = "OWNER"
                       THEN [lease |-> s.reservations[k].lease,
                             status |-> "APPLIED"]
                       ELSE s.reservations[k]
  <1> DEFINE e == [body |-> r.body, gen |-> r.gen, object |-> c]
             t == Recorded(s, c, r)
  <1>1. e \in Effect
    BY RequestFacts DEF Effect
  <1>2. CASE r.kind = "OWNER"
    <2> DEFINE v == [lease |-> s.reservations[r.key].lease, status |-> "APPLIED"]
    <2>1. s.reservations[r.key] \in Reservation /\ v \in Reservation
      BY <1>2, RequestFacts DEF Store, Reservation, Status
    <2>2. v = [s.reservations[r.key] EXCEPT !.status = "APPLIED"]
      BY <2>1 DEF Reservation
    <2> HIDE DEF e, v
    <2>3. t = [s EXCEPT !.effects = [@ EXCEPT ![r.key] = e],
                        !.reservations = [@ EXCEPT ![r.key] = v]]
      BY <1>2, <2>2 DEF Recorded, e
    <2>4. /\ t \in Store /\ t.consumed = s.consumed
          /\ \A k \in Keys :
               /\ t.effects[k] = IF k = r.key THEN e ELSE s.effects[k]
               /\ t.reservations[k] = IF k = r.key THEN v ELSE s.reservations[k]
      <3> HIDE DEF t
      <3> QED BY <1>1, <2>1, <2>3, RequestFacts DEF Store
    <2> QED BY <1>2, <2>4 DEF e, v
  <1>3. CASE r.kind # "OWNER"
    <2> HIDE DEF e
    <2>1. t = [s EXCEPT !.effects = [@ EXCEPT ![r.key] = e]]
      BY <1>3, RequestFacts DEF Recorded, e, Store
    <2> QED BY <1>1, <1>3, <2>1, RequestFacts DEF Store, e
  <1> QED BY <1>2, <1>3

(* Doubted writes AMBIGUOUS into an owner's reservation.                   *)
LEMMA DoubtedFacts ==
  ASSUME NEW s \in Store, NEW r \in Requests,
         r.kind = "OWNER" => s.reservations[r.key] # None
  PROVE  LET t == Doubted(s, r)
         IN  /\ t \in Store
             /\ t.effects = s.effects
             /\ t.consumed = s.consumed
             /\ \A k \in Keys :
                  t.reservations[k] =
                    IF k = r.key /\ r.kind = "OWNER"
                    THEN [lease |-> s.reservations[k].lease,
                          status |-> "AMBIGUOUS"]
                    ELSE s.reservations[k]
  BY RequestFacts DEF Doubted, Store, Reservation, Status

(* The store of a gate that never ran is a store.                          *)
LEMMA EmptyStoreType == EmptyStore \in Store
  BY DEF EmptyStore, Store

-----------------------------------------------------------------------------
(* GateInv is inductive: one lemma for each group of actions.              *)

USE DEF Waiting, Finished, Owner

(* The invariant holds when the gate starts for the first time.            *)
LEMMA InitInv == Init => GateInv
  <1> SUFFICES ASSUME Init PROVE GateInv
    OBVIOUS
  <1>1. TypeOK
    BY EmptyStoreType DEF Init, TypeOK
  <1>2. CallInv
    BY DEF Init, CallInv
  <1>3. MemoryAhead
    BY DEF Init, MemoryAhead, AheadOf
  <1>4. BackedEffects(mem) /\ BackedEffects(disk)
    BY DEF Init, BackedEffects, EmptyStore
  <1> QED
    BY <1>1, <1>2, <1>3, <1>4
       DEF Init, GateInv, HolderInv, ReservedBeforeSend, OwnerAtMostOnce,
           AnswerIsBacked

(* Steps that move one call, or only its surroundings, without touching    *)
(* the store, the requests, the answers or the provider.                   *)
LEMMA QuietStep ==
  ASSUME GateInv, TypeOK', CallInv',
         UNCHANGED <<req, answer, mem, disk, up, sent, objects>>,
         \A c \in Calls : pc'[c] \in {"mutating", "readback"}
                            => pc[c] \in {"mutating", "readback"}
  PROVE  GateInv'
  BY DEF GateInv, MemoryAhead, HolderInv, BackedEffects, ReservedBeforeSend,
         ReservedOnDisk, OwnerAtMostOnce, AnswerIsBacked, TypeOK

(* Steps that only move a call, or read a snapshot, keep the invariant.    *)
LEMMA MoveCall ==
  ASSUME GateInv, NEW c \in Calls,
         SnapshotRead(c) \/ SnapshotFails(c) \/ RefuseAfterSnapshot(c)
           \/ MutateAnswered(c)
  PROVE  GateInv'
  <1>1. TypeOK'
    BY DEF GateInv, TypeOK, SnapshotRead, SnapshotFails, RefuseAfterSnapshot,
           MutateAnswered, End, envVars, MatchingOrders
  <1>2. CallInv'
    BY DEF GateInv, TypeOK, CallInv, SnapshotRead, SnapshotFails,
           RefuseAfterSnapshot, MutateAnswered, End, envVars
  <1> QED
    BY <1>1, <1>2, QuietStep
       DEF GateInv, TypeOK, SnapshotRead, SnapshotFails, RefuseAfterSnapshot,
           MutateAnswered, End, envVars

(* The fence and the clock change nothing the invariant is about.          *)
LEMMA MoveSurroundings ==
  ASSUME GateInv, PolicyActivate \/ PolicyFreeze \/ Tick
  PROVE  GateInv'
  <1>1. TypeOK'
    BY DEF GateInv, TypeOK, PolicyActivate, PolicyFreeze, Tick, callVars
  <1>2. CallInv'
    BY DEF GateInv, CallInv, PolicyActivate, PolicyFreeze, Tick, callVars
  <1> QED
    BY <1>1, <1>2, QuietStep DEF PolicyActivate, PolicyFreeze, Tick, callVars

(* A call arrives.  Its request is not that of a call already sent, so     *)
(* nothing said of sent calls changes.                                     *)
LEMMA ArriveFrame ==
  ASSUME GateInv, NEW c \in Calls, NEW r \in Requests, Arrive(c, r),
         sent' \in {sent, sent \cup {c}}, r.kind = "OWNER" => sent' = sent,
         pc' \in [Calls -> {"idle"} \cup Waiting \cup Finished],
         \A d \in Calls \ {c} : pc'[d] = pc[d],
         \A d \in Calls \ {c} : answer'[d] = answer[d]
  PROVE  /\ \A d \in sent : d # c /\ req'[d] = req[d] /\ req[d] \in Requests
         /\ req' \in [Calls -> Requests \cup {None}] /\ req'[c] = r
         /\ MemoryAhead'
         /\ HolderInv'
         /\ BackedEffects(mem)' /\ BackedEffects(disk)'
         /\ ReservedBeforeSend'
         /\ OwnerAtMostOnce'
  <1>1. \A d \in sent : d # c /\ req'[d] = req[d] /\ req[d] \in Requests
    BY DEF GateInv, TypeOK, CallInv, Arrive
  <1>2. req' \in [Calls -> Requests \cup {None}] /\ req'[c] = r
    BY DEF GateInv, TypeOK, Arrive
  <1>3. mem' = mem /\ disk' = disk /\ up' = up /\ objects' = objects
    BY DEF Arrive, envVars
  <1>4. MemoryAhead'
    BY <1>3 DEF GateInv, MemoryAhead
  <1>5. HolderInv'
    BY <1>1, <1>2, <1>3 DEF GateInv, TypeOK, HolderInv
  <1>6. BackedEffects(mem)' /\ BackedEffects(disk)'
    BY <1>1, <1>3 DEF GateInv, CallInv, BackedEffects
  <1>7. ReservedBeforeSend'
    BY <1>1, <1>2, <1>3 DEF GateInv, ReservedBeforeSend, ReservedOnDisk
  <1>8. OwnerAtMostOnce'
    BY <1>1, <1>2 DEF GateInv, OwnerAtMostOnce
  <1> QED
    BY <1>1, <1>2, <1>4, <1>5, <1>6, <1>7, <1>8

(* The four ways execute() can begin keep the invariant.                   *)
LEMMA ReceiveStep ==
  ASSUME GateInv, NEW c \in Calls, Receive(c)
  PROVE  GateInv'
  <1> PICK r \in Requests :
        Deny(c, r) \/ AskSnapshot(c, r) \/ Replay(c, r) \/ SendDirectly(c, r)
    BY DEF Receive
  <1> USE DEF End, Send
  <1>1. /\ Arrive(c, r) /\ c \notin sent /\ pc[c] = "idle" /\ up /\ answer[c] = None
        /\ mem' = mem /\ disk' = disk /\ up' = up /\ objects' = objects
        /\ profile' = profile /\ ctxGen' = ctxGen
    BY DEF GateInv, CallInv, Deny, AskSnapshot, Replay, SendDirectly, Arrive, envVars
  <1>2. /\ sent' \in {sent, sent \cup {c}} /\ (r.kind = "OWNER" => sent' = sent)
        /\ pc' \in [Calls -> {"idle"} \cup Waiting \cup Finished]
        /\ \A d \in Calls \ {c} : pc'[d] = pc[d] /\ answer'[d] = answer[d]
        /\ answer' = answer \/ Replay(c, r)
    BY DEF GateInv, TypeOK, Deny, AskSnapshot, Replay, SendDirectly
  <1>3. /\ \A d \in sent : d # c /\ req'[d] = req[d] /\ req[d] \in Requests
        /\ req' \in [Calls -> Requests \cup {None}] /\ req'[c] = r
        /\ MemoryAhead'
        /\ HolderInv'
        /\ BackedEffects(mem)' /\ BackedEffects(disk)'
        /\ ReservedBeforeSend'
        /\ OwnerAtMostOnce'
    BY <1>1, <1>2, ArriveFrame
  <1>4. Replay(c, r) =>
          /\ answer' = [answer EXCEPT ![c] = mem.effects[r.key].object]
          /\ mem.effects[r.key] # None /\ mem.effects[r.key].body = r.body
          /\ mem.effects[r.key] \in Effect
    BY RequestFacts DEF Replay, SameEffect, GateInv, TypeOK, Store
  <1>5. answer' \in [Calls -> Calls \cup {None}]
    BY <1>2, <1>4 DEF GateInv, TypeOK, Effect
  <1>6. TypeOK'
    BY <1>1, <1>2, <1>3, <1>5 DEF GateInv, TypeOK, Arrive, envVars
  <1>7. CallInv'
    <2>1. /\ pc'[c] \in {"denied", "snapshot", "replayed", "mutating"}
          /\ pc'[c] = "snapshot" => /\ r.kind = "OWNER" /\ r.valid /\ c \notin sent'
                                    /\ r.profile = profile /\ r.gen = ctxGen
          /\ pc'[c] = "mutating" => c \in sent'
          /\ c \in sent' => r.valid
      BY <1>1 DEF GateInv, TypeOK, Deny, AskSnapshot, Replay, SendDirectly, Admissible,
             AuthorityHolds
    <2>2. objects' \subseteq sent' /\ \A d \in sent' : d = c \/ d \in sent
      BY <1>1, <1>2 DEF GateInv, CallInv
    <2>3. \A d \in sent' : req'[d] \in Requests /\ req'[d].valid
      BY <1>3, <2>1, <2>2 DEF GateInv, CallInv
    <2>4. ASSUME NEW d \in Calls, d # c
          PROVE  /\ pc'[d] = pc[d] /\ answer'[d] = answer[d] /\ req'[d] = req[d]
                 /\ d \in sent' <=> d \in sent
      BY <1>1, <1>2, <2>4 DEF GateInv, TypeOK, Arrive
    <2> QED
      BY <1>1, <1>3, <2>1, <2>2, <2>3, <2>4 DEF GateInv, CallInv
  <1>8. AnswerIsBacked'
    <2> SUFFICES ASSUME NEW d \in Calls, answer'[d] # None
                 PROVE  /\ answer'[d] \in objects
                        /\ req'[answer'[d]].key = req'[d].key
                        /\ req'[answer'[d]].body = req'[d].body
      BY <1>1 DEF AnswerIsBacked
    <2>1. CASE d # c
      BY <1>1, <1>2, <1>3, <2>1
         DEF GateInv, CallInv, TypeOK, AnswerIsBacked, Arrive
    <2>2. CASE d = c
      BY <1>1, <1>2, <1>3, <1>4, <2>2, RequestFacts
         DEF GateInv, CallInv, TypeOK, BackedEffects
    <2> QED
      BY <2>1, <2>2
  <1> QED
    BY <1>3, <1>6, <1>7, <1>8 DEF GateInv

(* Memory moves to t and the file stays or moves to t, where t keeps every *)
(* lease and every reservation that the file has: what is said of a sent   *)
(* call's durable reservation stays true.                                  *)
LEMMA DurableFrame ==
  ASSUME GateInv, NEW t \in Store, disk' \in {disk, t},
         \A d \in sent : req'[d] = req[d] /\ (Owner(d) =>
           /\ t.consumed[req[d].lease] = mem.consumed[req[d].lease]
           /\ t.reservations[req[d].key] # None
           /\ t.reservations[req[d].key].lease = req[d].lease),
         up
  PROVE  \A d \in sent : Owner(d) => ReservedOnDisk(req[d])'
  <1> SUFFICES ASSUME NEW d \in sent, Owner(d) PROVE ReservedOnDisk(req[d])'
    OBVIOUS
  <1>1. req[d] \in Requests /\ req'[d] = req[d] /\ ReservedOnDisk(req[d])
    BY DEF GateInv, CallInv, ReservedBeforeSend
  <1>2. req[d].lease \in Leases /\ req[d].key \in Keys
    BY <1>1, RequestFacts
  <1>3. t.consumed[req[d].lease] = req[d].key
    BY <1>1, <1>2, NoneAssumption DEF GateInv, MemoryAhead, ReservedOnDisk
  <1> QED
    BY <1>1, <1>2, <1>3 DEF ReservedOnDisk

(* For a sent owner call, memory has a reservation with its lease.         *)
LEMMA MemoryHolds ==
  ASSUME GateInv, up, NEW d \in sent, Owner(d)
  PROVE  /\ req[d] \in Requests
         /\ req[d].key \in Keys /\ req[d].lease \in Leases
         /\ mem.consumed[req[d].lease] = req[d].key
         /\ mem.reservations[req[d].key] \in Reservation
         /\ mem.reservations[req[d].key] # None
         /\ mem.reservations[req[d].key].lease = req[d].lease
         /\ disk.reservations[req[d].key] \in Reservation
         /\ mem.reservations[req[d].key].status = "APPLIED" => d \in objects
  <1>1. req[d] \in Requests /\ ReservedOnDisk(req[d])
    BY DEF GateInv, CallInv, ReservedBeforeSend
  <1>2. req[d].key \in Keys /\ req[d].lease \in Leases
    BY <1>1, RequestFacts
  <1>3. mem.consumed[req[d].lease] = req[d].key
    BY <1>1, <1>2, NoneAssumption DEF GateInv, MemoryAhead, ReservedOnDisk
  <1>4. disk.reservations[req[d].key] \in Reservation
    BY <1>1, <1>2 DEF ReservedOnDisk, GateInv, TypeOK, Store
  <1>5. AheadOf(mem.reservations[req[d].key], disk.reservations[req[d].key])
    BY <1>2 DEF GateInv, MemoryAhead
  <1>6. /\ mem.reservations[req[d].key] \in Reservation
        /\ mem.reservations[req[d].key].lease = req[d].lease
    BY <1>1, <1>4, <1>5 DEF AheadOf, ReservedOnDisk, Reservation, Status
  <1>7. mem.reservations[req[d].key].status = "APPLIED" =>
          disk.reservations[req[d].key].status = "APPLIED"
    BY <1>4, <1>5, NoneAssumption DEF AheadOf, Reservation
  <1> QED
    BY <1>1, <1>2, <1>3, <1>4, <1>6, <1>7, NoneAssumption DEF GateInv, HolderInv

(* Taking a reservation keeps the invariant, whether its write succeeds or *)
(* throws.                                                                 *)
LEMMA ReserveStep ==
  ASSUME GateInv, NEW c \in Calls, ReserveAndSend(c) \/ ReserveThrows(c)
  PROVE  GateInv'
  <1> DEFINE r == req[c]
             t == Reserved(mem, r)
             v == [lease |-> r.lease, status |-> "EXECUTING"]
  <1>1. /\ up /\ up' = up /\ pc[c] = "reserve" /\ c \notin sent
        /\ r \in Requests /\ r.kind = "OWNER" /\ r.valid
        /\ req' = req /\ answer' = answer /\ objects' = objects
        /\ profile' = profile /\ ctxGen' = ctxGen
        /\ mem' = t /\ disk' \in {disk, t}
        /\ sent' \in {sent, sent \cup {c}} /\ (c \in sent' => disk' = t)
        /\ pc' = [pc EXCEPT ![c] = IF c \in sent' THEN "mutating" ELSE "denied"]
    BY DEF GateInv, CallInv, ReserveAndSend, ReserveThrows, PersistOk,
           PersistThrows, Send, End, envVars
  <1>2. /\ mem.consumed[r.lease] = None /\ mem.reservations[r.key] = None
        /\ r.key \in Keys /\ r.lease \in Leases
    BY <1>1, RequestFacts DEF ReserveAndSend, ReserveThrows, MayReserve, Unused
  <1>3. /\ t \in Store
        /\ t.effects = mem.effects
        /\ \A l \in Leases :
             t.consumed[l] = IF l = r.lease THEN r.key ELSE mem.consumed[l]
        /\ \A k \in Keys :
             t.reservations[k] = IF k = r.key THEN v ELSE mem.reservations[k]
    BY <1>1, ReservedFacts DEF GateInv, TypeOK
  <1>4. v \in Reservation /\ v # None /\ v.lease = r.lease /\ v.status = "EXECUTING"
    BY <1>2, NoneAssumption DEF Reservation, Status
  <1> HIDE DEF t, r, v
  <1>5. disk.consumed[r.lease] = None /\ disk.reservations[r.key] = None
    <2>1. AheadOf(mem.reservations[r.key], disk.reservations[r.key])
      BY <1>1, <1>2 DEF GateInv, MemoryAhead
    <2>2. disk.reservations[r.key] \in Reservation \cup {None}
      BY <1>2 DEF GateInv, TypeOK, Store
    <2>3. disk.reservations[r.key] \in Reservation =>
            [disk.reservations[r.key] EXCEPT !.status = "AMBIGUOUS"] \in Reservation
      BY DEF Reservation, Status
    <2>4. disk.reservations[r.key] = None
      BY <1>2, <2>1, <2>2, <2>3, NoneAssumption DEF AheadOf
    <2> QED
      BY <1>1, <1>2, <2>4 DEF GateInv, MemoryAhead
  <1>6. \A d \in sent : Owner(d) => req[d].lease # r.lease /\ req[d].key # r.key
    BY <1>2, MemoryHolds, <1>1, NoneAssumption
  <1>7. \A d \in sent : d \in Calls /\ d # c /\ pc'[d] = pc[d] /\ req[d] \in Requests
    BY <1>1 DEF GateInv, TypeOK, CallInv
  <1>8. TypeOK'
    BY <1>1, <1>3
       DEF GateInv, TypeOK, ReserveAndSend, ReserveThrows, PersistOk,
           PersistThrows, envVars
  <1>9. CallInv'
    BY <1>1, <1>7 DEF GateInv, TypeOK, CallInv, r
  <1>10. MemoryAhead'
    <2>1. CASE disk' = t
      BY <1>1, <2>1 DEF MemoryAhead, AheadOf
    <2>2. CASE disk' = disk
      BY <1>1, <1>3, <1>4, <1>5, <2>2 DEF GateInv, MemoryAhead, AheadOf
    <2> QED
      BY <1>1, <2>1, <2>2
  <1>11. HolderInv'
    <2>1. \A d \in sent : Owner(d) =>
            /\ t.reservations[req[d].key] = mem.reservations[req[d].key]
            /\ mem.reservations[req[d].key] # None
            /\ mem.reservations[req[d].key].status = "APPLIED" => d \in objects
      BY <1>1, <1>3, <1>6, MemoryHolds
    <2>2. ASSUME NEW d \in sent, Owner(d)
          PROVE  /\ pc'[d] \in {"mutating", "readback"} =>
                      mem'.reservations[req[d].key] =
                        [lease |-> req[d].lease, status |-> "EXECUTING"]
                 /\ disk'.reservations[req[d].key] # None
                 /\ disk'.reservations[req[d].key].status = "APPLIED" => d \in objects
      BY <1>1, <1>7, <2>1, <2>2 DEF GateInv, HolderInv
    <2>3. c \in sent' => /\ mem'.reservations[r.key] = v
                         /\ disk'.reservations[r.key] = v
      BY <1>1, <1>2, <1>3
    <2> QED
      BY <1>1, <1>4, <2>2, <2>3 DEF HolderInv, r, v
  <1>12. BackedEffects(mem)' /\ BackedEffects(disk)'
    BY <1>1, <1>3 DEF GateInv, BackedEffects
  <1>13. ReservedBeforeSend'
    <2>1. \A d \in sent : Owner(d) => ReservedOnDisk(req[d])'
      <3>1. \A d \in sent : req'[d] = req[d] /\ (Owner(d) =>
              /\ t.consumed[req[d].lease] = mem.consumed[req[d].lease]
              /\ t.reservations[req[d].key] # None
              /\ t.reservations[req[d].key].lease = req[d].lease)
        BY <1>1, <1>3, <1>6, MemoryHolds
      <3> QED
        BY <1>1, <1>3, <3>1, DurableFrame
    <2>2. c \in sent' => ReservedOnDisk(req[c])'
      BY <1>1, <1>2, <1>3, <1>4 DEF ReservedOnDisk, r
    <2> QED
      BY <1>1, <2>1, <2>2 DEF ReservedBeforeSend
  <1>14. OwnerAtMostOnce'
    BY <1>1, <1>6 DEF GateInv, OwnerAtMostOnce, r
  <1>15. AnswerIsBacked'
    BY <1>1 DEF GateInv, AnswerIsBacked
  <1> QED
    BY <1>8, <1>9, <1>10, <1>11, <1>12, <1>13, <1>14, <1>15 DEF GateInv

(* A call whose mutation was sent reaches its outcome: memory moves to t,  *)
(* which differs from it in the call's own reservation and in receipts.    *)
LEMMA OutcomeFrame ==
  ASSUME GateInv, NEW c \in Calls, NEW t \in Store,
         NEW x \in {"APPLIED", "AMBIGUOUS"},
         up, up' = up, pc[c] \in {"mutating", "readback"},
         pc' \in [Calls -> {"idle"} \cup Waiting \cup Finished],
         pc'[c] \in {"done", "failed"}, \A d \in Calls \ {c} : pc'[d] = pc[d],
         req' = req, sent' = sent, objects' = objects,
         profile' = profile, ctxGen' = ctxGen,
         answer' = answer \/ (c \in objects /\ answer' = [answer EXCEPT ![c] = c]),
         mem' = t, disk' \in {disk, t},
         x = "APPLIED" => c \in objects /\ (Owner(c) => disk' = t),
         t.consumed = mem.consumed,
         \A k \in Keys :
           t.reservations[k] = IF k = req[c].key /\ Owner(c)
                               THEN [lease |-> mem.reservations[k].lease, status |-> x]
                               ELSE mem.reservations[k],
         BackedEffects(t),
         TypeOK'
  PROVE  GateInv'
  <1>1. c \in sent /\ \A d \in sent : d \in Calls
    BY DEF GateInv, TypeOK, CallInv
  <1>2. CallInv'
    BY DEF GateInv, TypeOK, CallInv
  <1>3. \A d \in sent : Owner(d) =>
          /\ req[d] \in Requests /\ req[d].key \in Keys /\ req[d].lease \in Leases
          /\ mem.reservations[req[d].key] \in Reservation
          /\ mem.reservations[req[d].key] # None
          /\ mem.reservations[req[d].key].lease = req[d].lease
          /\ mem.reservations[req[d].key].status = "APPLIED" => d \in objects
    BY MemoryHolds
  <1>4. \A d \in sent : Owner(d) /\ Owner(c) /\ req[d].key = req[c].key => d = c
    BY <1>1 DEF GateInv, OwnerAtMostOnce
  <1>5. ASSUME NEW d \in sent, Owner(d)
        PROVE  /\ t.reservations[req[d].key] # None
               /\ t.reservations[req[d].key].lease = req[d].lease
               /\ d # c => t.reservations[req[d].key] = mem.reservations[req[d].key]
               /\ t.reservations[req[d].key].status = "APPLIED" => d \in objects
    <2>1. CASE d # c
      BY <1>3, <1>4, <1>5, <2>1
    <2>2. CASE d = c
      <3>1. t.reservations[req[c].key] = [lease |-> req[c].lease, status |-> x]
        BY <1>3, <1>5, <2>2
      <3>2. [lease |-> req[c].lease, status |-> x] \in Reservation
        BY <1>3, <1>5, <2>2 DEF Reservation, Status
      <3> QED
        BY <2>2, <3>1, <3>2, NoneAssumption
    <2> QED
      BY <2>1, <2>2
  <1>6. MemoryAhead'
    <2>1. CASE disk' = t
      BY <2>1 DEF MemoryAhead, AheadOf
    <2>2. CASE disk' = disk /\ ~Owner(c)
      BY <2>2 DEF GateInv, MemoryAhead
    <2>3. CASE disk' = disk /\ Owner(c) /\ disk' # t
      <3> DEFINE k == req[c].key
                 m == mem.reservations[k]
                 d == disk.reservations[k]
      <3>1. /\ k \in Keys /\ d \in Reservation /\ AheadOf(m, d) /\ x = "AMBIGUOUS"
            /\ m = [lease |-> req[c].lease, status |-> "EXECUTING"]
        BY <1>1, <2>3, MemoryHolds DEF GateInv, MemoryAhead, HolderInv
      <3>2. t.reservations[k] = [lease |-> req[c].lease, status |-> "AMBIGUOUS"]
        BY <2>3, <3>1
      <3>3. d = [lease |-> req[c].lease, status |-> "EXECUTING"]
        <4> HIDE DEF k, m, d
        <4> QED BY <3>1, NoneAssumption DEF AheadOf, Reservation
      <3>4. AheadOf(t.reservations[k], d)
        BY <3>1, <3>2, <3>3, NoneAssumption DEF AheadOf
      <3>5. \A j \in Keys : AheadOf(t.reservations[j], disk.reservations[j])
        BY <3>4 DEF GateInv, MemoryAhead
      <3> QED
        BY <2>3, <3>5 DEF GateInv, MemoryAhead
    <2> QED
      BY <2>1, <2>2, <2>3
  <1>7. HolderInv'
    BY <1>1, <1>5 DEF GateInv, HolderInv
  <1>8. BackedEffects(mem)' /\ BackedEffects(disk)'
    BY DEF GateInv, BackedEffects
  <1>9. ReservedBeforeSend'
    BY <1>5, DurableFrame DEF ReservedBeforeSend
  <1>10. OwnerAtMostOnce'
    BY DEF GateInv, OwnerAtMostOnce
  <1>11. AnswerIsBacked'
    BY DEF GateInv, TypeOK, AnswerIsBacked
  <1> QED
    BY <1>2, <1>6, <1>7, <1>8, <1>9, <1>10, <1>11 DEF GateInv

(* Recording an effect or a doubt keeps the invariant.                     *)
LEMMA OutcomeStep ==
  ASSUME GateInv, NEW c \in Calls,
         ProviderFails(c) \/ Record(c) \/ RecordThrows(c)
  PROVE  GateInv'
  <1> DEFINE r == req[c]
             u == Recorded(mem, c, r)
  <1>1. /\ up /\ up' = up /\ pc[c] \in {"mutating", "readback"} /\ c \in sent
        /\ r \in Requests /\ mem \in Store /\ disk \in Store
        /\ req' = req /\ sent' = sent /\ objects' = objects
        /\ pc' \in [Calls -> {"idle"} \cup Waiting \cup Finished]
        /\ pc'[c] \in {"done", "failed"} /\ \A d \in Calls \ {c} : pc'[d] = pc[d]
    BY DEF GateInv, TypeOK, CallInv, ProviderFails, Record, RecordThrows, Catch,
           End, envVars
  <1>2. r.kind = "OWNER" => mem.reservations[r.key] # None
    BY <1>1, MemoryHolds
  <1>3. /\ u \in Store /\ u.consumed = mem.consumed
        /\ \A k \in Keys :
             /\ u.effects[k] = IF k = r.key
                               THEN [body |-> r.body, gen |-> r.gen, object |-> c]
                               ELSE mem.effects[k]
             /\ u.reservations[k] =
                  IF k = r.key /\ r.kind = "OWNER"
                  THEN [lease |-> mem.reservations[k].lease, status |-> "APPLIED"]
                  ELSE mem.reservations[k]
    BY <1>1, <1>2, RecordedFacts
  <1>4. r.kind = "OWNER" => u.reservations[r.key] # None
    <2>1. r.kind = "OWNER" =>
            [lease |-> mem.reservations[r.key].lease, status |-> "APPLIED"] \in Reservation
      BY <1>1, MemoryHolds DEF Reservation, Status
    <2> QED
      BY <1>1, <1>3, <2>1, RequestFacts, NoneAssumption
  <1>5. pc[c] = "readback" => c \in objects /\ BackedEffects(u)
    <2> SUFFICES ASSUME pc[c] = "readback" PROVE c \in objects /\ BackedEffects(u)
      OBVIOUS
    <2>1. c \in objects
      BY DEF GateInv, CallInv
    <2>2. r.key \in Keys /\ [body |-> r.body, gen |-> r.gen, object |-> c].object = c
          /\ [body |-> r.body, gen |-> r.gen, object |-> c].body = r.body
      BY <1>1, RequestFacts
    <2> HIDE DEF u
    <2> QED
      BY <1>3, <2>1, <2>2, ZenonT(90) DEF GateInv, BackedEffects
  <1>6. policy' = policy /\ now' = now /\ profile' = profile /\ ctxGen' = ctxGen
        /\ seen' = seen /\ crashes' = crashes
    BY DEF ProviderFails, Record, RecordThrows, envVars
  <1> HIDE DEF u, r
  <1>7. CASE ProviderFails(c)
    <2> DEFINE t == Doubted(mem, r)
    <2>1. /\ t \in Store /\ t.effects = mem.effects /\ t.consumed = mem.consumed
          /\ \A k \in Keys :
               t.reservations[k] =
                 IF k = r.key /\ r.kind = "OWNER"
                 THEN [lease |-> mem.reservations[k].lease, status |-> "AMBIGUOUS"]
                 ELSE mem.reservations[k]
      BY <1>1, <1>2, DoubtedFacts
    <2>2. r.kind # "OWNER" => t = mem
      BY DEF Doubted
    <2> HIDE DEF t
    <2>3. /\ mem' = t /\ disk' \in {disk, t} /\ answer' = answer /\ faults' \in Nat
      BY <1>7, <2>2
         DEF ProviderFails, Catch, PersistOk, PersistThrows, GateInv, TypeOK, r, t
    <2>4. TypeOK'
      BY <1>1, <1>6, <2>1, <2>3 DEF GateInv, TypeOK
    <2>5. BackedEffects(t)
      BY <2>1 DEF GateInv, BackedEffects
    <2> QED
      BY <1>1, <1>6, <2>1, <2>3, <2>4, <2>5, OutcomeFrame DEF r
  <1>8. CASE Record(c)
    <2>1. /\ mem' = u /\ disk' = u /\ answer' = [answer EXCEPT ![c] = c]
          /\ faults' = faults /\ pc[c] = "readback"
      BY <1>8 DEF Record, PersistOk, u, r
    <2>2. TypeOK'
      BY <1>1, <1>3, <1>6, <2>1 DEF GateInv, TypeOK
    <2> QED
      BY <1>1, <1>3, <1>5, <1>6, <2>1, <2>2, OutcomeFrame DEF r
  <1>9. CASE RecordThrows(c)
    <2> DEFINE t == Doubted(u, r)
    <2>1. /\ t \in Store /\ t.effects = u.effects /\ t.consumed = u.consumed
          /\ \A k \in Keys :
               t.reservations[k] =
                 IF k = r.key /\ r.kind = "OWNER"
                 THEN [lease |-> u.reservations[k].lease, status |-> "AMBIGUOUS"]
                 ELSE u.reservations[k]
      BY <1>1, <1>3, <1>4, DoubtedFacts
    <2> HIDE DEF t
    <2>2. /\ mem' = t /\ disk' \in {disk, t} /\ answer' = answer /\ faults' \in Nat
          /\ pc[c] = "readback"
      BY <1>9 DEF RecordThrows, GateInv, TypeOK, r, t, u
    <2>3. TypeOK'
      BY <1>1, <1>6, <2>1, <2>2 DEF GateInv, TypeOK
    <2>4. BackedEffects(t)
      BY <1>5, <2>1, <2>2 DEF BackedEffects
    <2>5. /\ t.consumed = mem.consumed
          /\ \A k \in Keys :
               t.reservations[k] =
                 IF k = r.key /\ r.kind = "OWNER"
                 THEN [lease |-> mem.reservations[k].lease, status |-> "AMBIGUOUS"]
                 ELSE mem.reservations[k]
      <3>1. r.kind = "OWNER" /\ r.key \in Keys =>
              u.reservations[r.key].lease = mem.reservations[r.key].lease
        <4> SUFFICES ASSUME r.kind = "OWNER", r.key \in Keys
                     PROVE  u.reservations[r.key].lease = mem.reservations[r.key].lease
          OBVIOUS
        <4>1. u.reservations[r.key] =
                [lease |-> mem.reservations[r.key].lease, status |-> "APPLIED"]
          BY <1>3
        <4> QED
          BY <4>1
      <3>2. ASSUME NEW k \in Keys, k = r.key, r.kind = "OWNER"
            PROVE  t.reservations[k] =
                     [lease |-> mem.reservations[k].lease, status |-> "AMBIGUOUS"]
        BY <2>1, <3>1, <3>2
      <3>3. ASSUME NEW k \in Keys, ~(k = r.key /\ r.kind = "OWNER")
            PROVE  t.reservations[k] = mem.reservations[k]
        BY <1>3, <2>1, <3>3
      <3> QED
        BY <1>3, <2>1, <3>2, <3>3
    <2> QED
      BY <1>1, <1>6, <2>1, <2>2, <2>3, <2>4, <2>5, OutcomeFrame DEF r
  <1> QED
    BY <1>7, <1>8, <1>9

(* The provider acting on a sent mutation keeps the invariant.             *)
LEMMA CommitStep ==
  ASSUME GateInv, NEW c \in Calls, ProviderCommit(c)
  PROVE  GateInv'
  <1>1. /\ c \in sent /\ objects' = objects \cup {c} /\ sent' = sent
        /\ UNCHANGED <<pc, req, seen, answer, mem, disk, up, profile, ctxGen,
                       policy, now, faults, crashes>>
    BY DEF ProviderCommit, callVars, envVars
  <1>2. TypeOK'
    BY <1>1 DEF GateInv, TypeOK
  <1>3. CallInv'
    BY <1>1 DEF GateInv, CallInv
  <1>4. MemoryAhead' /\ HolderInv'
    BY <1>1 DEF GateInv, MemoryAhead, HolderInv
  <1>5. BackedEffects(mem)' /\ BackedEffects(disk)'
    BY <1>1 DEF GateInv, BackedEffects
  <1>6. ReservedBeforeSend' /\ OwnerAtMostOnce'
    BY <1>1 DEF GateInv, ReservedBeforeSend, ReservedOnDisk, OwnerAtMostOnce
  <1>7. AnswerIsBacked'
    BY <1>1 DEF GateInv, AnswerIsBacked
  <1> QED
    BY <1>2, <1>3, <1>4, <1>5, <1>6, <1>7 DEF GateInv

(* A crash, which loses memory and every waiting call, keeps the           *)
(* invariant.                                                              *)
LEMMA CrashStep ==
  ASSUME GateInv, Crash
  PROVE  GateInv'
  <1>1. /\ up' = FALSE /\ mem' = EmptyStore
        /\ pc' = [c \in Calls |-> IF pc[c] \in Waiting THEN "crashed" ELSE pc[c]]
        /\ UNCHANGED <<req, seen, answer, disk, profile, ctxGen, policy, now,
                       sent, objects, faults>>
    BY DEF Crash
  <1>2. TypeOK'
    <2>1. pc' \in [Calls -> {"idle"} \cup Waiting \cup Finished]
      BY <1>1 DEF GateInv, TypeOK
    <2>2. crashes' \in Nat
      BY DEF GateInv, TypeOK, Crash
    <2> QED
      BY <1>1, <2>1, <2>2, EmptyStoreType DEF GateInv, TypeOK
  <1>3. CallInv'
    BY <1>1 DEF GateInv, TypeOK, CallInv
  <1>4. MemoryAhead'
    BY <1>1 DEF MemoryAhead
  <1>5. HolderInv'
    <2>1. \A c \in sent : pc'[c] \notin {"mutating", "readback"}
      BY <1>1 DEF GateInv, TypeOK
    <2> QED
      BY <1>1, <2>1 DEF GateInv, HolderInv
  <1>6. BackedEffects(mem)' /\ BackedEffects(disk)'
    BY <1>1 DEF GateInv, BackedEffects, EmptyStore
  <1>7. ReservedBeforeSend' /\ OwnerAtMostOnce' /\ AnswerIsBacked'
    BY <1>1 DEF GateInv, ReservedBeforeSend, ReservedOnDisk, OwnerAtMostOnce,
                AnswerIsBacked
  <1> QED
    BY <1>2, <1>3, <1>4, <1>5, <1>6, <1>7 DEF GateInv

(* A restart, which reads memory back from the file, keeps the invariant.  *)
LEMMA RestartStep ==
  ASSUME GateInv, Restart
  PROVE  GateInv'
  <1>1. /\ ~up /\ mem' = disk
        /\ UNCHANGED <<pc, req, seen, answer, disk, policy, now, sent, objects,
                       faults, crashes>>
    BY DEF Restart, callVars
  <1>2. TypeOK'
    BY <1>1 DEF GateInv, TypeOK, Restart
  <1>3. CallInv'
    BY <1>1 DEF GateInv, CallInv
  <1>4. MemoryAhead'
    BY <1>1 DEF MemoryAhead, AheadOf
  <1>5. HolderInv'
    BY <1>1 DEF GateInv, TypeOK, CallInv, HolderInv
  <1>6. BackedEffects(mem)' /\ BackedEffects(disk)'
    BY <1>1 DEF GateInv, BackedEffects
  <1>7. ReservedBeforeSend' /\ OwnerAtMostOnce' /\ AnswerIsBacked'
    BY <1>1 DEF GateInv, ReservedBeforeSend, ReservedOnDisk, OwnerAtMostOnce,
                AnswerIsBacked
  <1> QED
    BY <1>2, <1>3, <1>4, <1>5, <1>6, <1>7 DEF GateInv

(* Every step keeps the invariant.                                         *)
LEMMA NextInv == GateInv /\ [Next]_vars => GateInv'
  <1> SUFFICES ASSUME GateInv, [Next]_vars PROVE GateInv'
    OBVIOUS
  <1>1. ASSUME NEW c \in Calls, Receive(c) PROVE GateInv'
    BY <1>1, ReceiveStep
  <1>2. ASSUME NEW c \in Calls, Continue(c) PROVE GateInv'
    BY <1>2, MoveCall, ReserveStep, OutcomeStep DEF Continue
  <1>3. ASSUME NEW c \in Calls, ProviderCommit(c) PROVE GateInv'
    BY <1>3, CommitStep
  <1>4. CASE Crash
    BY <1>4, CrashStep
  <1>5. CASE Restart
    BY <1>5, RestartStep
  <1>6. CASE PolicyActivate \/ PolicyFreeze \/ Tick
    BY <1>6, MoveSurroundings
  <1>7. CASE UNCHANGED vars
    <2>1. TypeOK'
      BY <1>7 DEF GateInv, TypeOK, vars
    <2>2. CallInv'
      BY <1>7 DEF GateInv, CallInv, vars
    <2> QED
      BY <1>7, <2>1, <2>2, QuietStep DEF vars
  <1> QED
    BY <1>1, <1>2, <1>3, <1>4, <1>5, <1>6, <1>7 DEF Next

-----------------------------------------------------------------------------
(***************************************************************************)
(* Every reachable state of the gate satisfies its inductive invariant:    *)
(* the stores in memory and on disk agree with what was sent (execute(),   *)
(* persist(), the constructor).                                            *)
(***************************************************************************)
THEOREM GateInvariant == Spec => []GateInv
  BY InitInv, NextInv, PTL DEF Spec

(***************************************************************************)
(* Every variable of the gate keeps its type; in particular memory and     *)
(* file always have the shape normalizeEffectStore demands of a store.     *)
(***************************************************************************)
THEOREM TypeCorrect == Spec => []TypeOK
  <1>1. GateInv => TypeOK
    BY DEF GateInv
  <1> QED
    BY <1>1, GateInvariant, PTL

(***************************************************************************)
(* No owner lease and no replay key under an owner lease is ever sent      *)
(* twice, for any number of concurrent calls, write faults and crashes.    *)
(***************************************************************************)
THEOREM AtMostOnce == Spec => []OwnerAtMostOnce
  <1>1. GateInv => OwnerAtMostOnce
    BY DEF GateInv
  <1> QED
    BY <1>1, GateInvariant, PTL

(***************************************************************************)
(* A mutation under an owner lease has its reservation on disk, from the   *)
(* moment it is sent and for ever (persist() before provider.mutate()).    *)
(***************************************************************************)
THEOREM WriteAhead == Spec => []ReservedBeforeSend
  <1>1. GateInv => ReservedBeforeSend
    BY DEF GateInv
  <1> QED
    BY <1>1, GateInvariant, PTL

(***************************************************************************)
(* A successful answer names an object that exists for the same key and    *)
(* the same action.                                                        *)
(***************************************************************************)
THEOREM AnswersBacked == Spec => []AnswerIsBacked
  <1>1. GateInv => AnswerIsBacked
    BY DEF GateInv
  <1> QED
    BY <1>1, GateInvariant, PTL

(* Only two actions send, and each leaves what SendIsAuthorized asks for.  *)
LEMMA SendStep == GateInv /\ [Next]_vars =>
                    \A c \in sent' \ sent : SendIsAuthorized(c)
  <1> SUFFICES ASSUME GateInv, [Next]_vars, NEW c \in sent' \ sent
               PROVE  SendIsAuthorized(c)
    OBVIOUS
  <1>1. \/ ReserveAndSend(c)
        \/ \E r \in Requests : SendDirectly(c, r)
    <2>1. PICK d \in Calls : Receive(d) \/ Continue(d)
      BY DEF Next, vars, Crash, Restart, PolicyActivate, PolicyFreeze, Tick,
             ProviderCommit, callVars
    <2>2. CASE Receive(d)
      BY <2>2 DEF Receive, Deny, AskSnapshot, Replay, SendDirectly, Send
    <2>3. CASE Continue(d)
      BY <2>3 DEF Continue, SnapshotRead, SnapshotFails, RefuseAfterSnapshot,
                  ReserveAndSend, ReserveThrows, MutateAnswered, ProviderFails,
                  Record, RecordThrows, Send
    <2> QED
      BY <2>1, <2>2, <2>3
  <1>2. c \in Calls
    BY <1>1, NextInv DEF GateInv, TypeOK
  <1>3. CASE ReserveAndSend(c)
    BY <1>2, <1>3
       DEF ReserveAndSend, MayReserve, SnapshotFresh, SendIsAuthorized, GateInv,
           CallInv
  <1>4. ASSUME NEW r \in Requests, SendDirectly(c, r) PROVE SendIsAuthorized(c)
    <2>1. /\ req'[c] = r /\ r.valid /\ r.kind # "OWNER"
          /\ r.kind = "AGENT" => policy.status = "ACTIVE" /\ policy.gen = r.gen
      BY <1>2, <1>4 DEF SendDirectly, Arrive, Admissible, PolicyUse, GateInv, TypeOK
    <2>2. policy = [gen |-> policy.gen, status |-> policy.status]
      BY DEF GateInv, TypeOK
    <2> QED
      BY <2>1, <2>2 DEF SendIsAuthorized
  <1> QED
    BY <1>1, <1>3, <1>4

(***************************************************************************)
(* Whenever a mutation leaves the gate, its authority is that of the       *)
(* running process, the snapshot it was approved for is the one just read, *)
(* and an agent's policy generation is active in the fence's record.       *)
(***************************************************************************)
THEOREM SendsAuthorized == Spec => SendsAreAuthorized
  BY GateInvariant, SendStep, PTL DEF Spec, SendsAreAuthorized

-----------------------------------------------------------------------------
(* The gate implements AtMostOnceEffect.                                   *)

Slots == [k \in Keys |-> SlotOf(k)]
Made  == {req[c].key : c \in MatchingOrders}

(* Where a durable reservation may go when memory t is written over it.    *)
LEMMA SlotMoves ==
  ASSUME NEW k \in Keys, NEW d \in Reservation \cup {None},
         NEW m \in Reservation \cup {None}, AheadOf(m, d)
  PROVE  LET slotOf(v) == IF v = None THEN "FREE" ELSE v.status
         IN  Abstract!MayMove(k, slotOf(d), slotOf(m))
  BY NoneAssumption DEF AheadOf, Abstract!MayMove, Reservation, Status

(* A step that leaves the file, the objects and the requests of sent calls *)
(* alone is a stuttering step.                                             *)
LEMMA SameMade ==
  ASSUME GateInv, objects' = objects, \A c \in sent : req'[c] = req[c]
  PROVE  Made' = Made
  <1>1. \A c \in objects : req'[c] = req[c]
    BY DEF GateInv, CallInv
  <1>2. MatchingOrders' = MatchingOrders
    BY <1>1 DEF MatchingOrders
  <1> QED
    BY <1>1, <1>2 DEF Made, MatchingOrders

(* The abstract slots have their type.                                     *)
LEMMA SlotsType ==
  ASSUME GateInv
  PROVE  Slots \in [Keys -> Abstract!SlotStatus]
  BY DEF GateInv, TypeOK, Store, Reservation, Status, Slots, SlotOf,
         Abstract!SlotStatus

(* A write moves every slot by AheadOf, except the one it is made for.     *)
LEMMA WriteFrame ==
  ASSUME GateInv, GateInv', up, NEW t \in Store, disk' = t, NEW j \in Keys,
         objects' = objects, \A c \in sent : req'[c] = req[c],
         \A k \in Keys \ {j} : t.reservations[k] = mem.reservations[k],
         Abstract!MayMove(j, Slots[j], IF t.reservations[j] = None THEN "FREE"
                                       ELSE t.reservations[j].status)
  PROVE  Abstract!AbstractNext
  <1>1. Made' = Made
    BY SameMade
  <1>2. ASSUME NEW k \in Keys PROVE Abstract!MayMove(k, Slots[k], Slots'[k])
    <2>1. /\ Slots[k] = (IF disk.reservations[k] = None THEN "FREE"
                         ELSE disk.reservations[k].status)
          /\ Slots'[k] = (IF t.reservations[k] = None THEN "FREE"
                          ELSE t.reservations[k].status)
      BY DEF Slots, SlotOf
    <2>2. CASE k = j
      BY <2>1, <2>2
    <2>3. CASE k # j
      <3>1. /\ disk.reservations[k] \in Reservation \cup {None}
            /\ mem.reservations[k] \in Reservation \cup {None}
            /\ AheadOf(mem.reservations[k], disk.reservations[k])
            /\ t.reservations[k] = mem.reservations[k]
        BY <2>3 DEF GateInv, TypeOK, Store, MemoryAhead
      <3> QED
        BY <2>1, <3>1, SlotMoves
    <2> QED
      BY <2>2, <2>3
  <1>3. Slots' \in [Keys -> Abstract!SlotStatus]
    BY SlotsType DEF GateInv, TypeOK, Store, Reservation, Status, Slots, SlotOf,
                     Abstract!SlotStatus
  <1> QED
    BY <1>1, <1>2, <1>3 DEF Abstract!AbstractNext, Abstract!WriteSlots, Slots, Made

(* A reservation is a write of the abstract slots.                         *)
LEMMA ReserveRefines ==
  ASSUME GateInv, GateInv', NEW c \in Calls, ReserveAndSend(c)
  PROVE  Abstract!AbstractNext
  <1> DEFINE r == req[c]
             t == Reserved(mem, r)
  <1>1. /\ up /\ r \in Requests /\ r.kind = "OWNER" /\ r.key \in Keys
        /\ mem.reservations[r.key] = None
        /\ disk' = t /\ req' = req /\ objects' = objects
    BY RequestFacts
       DEF GateInv, CallInv, ReserveAndSend, MayReserve, Unused, PersistOk
  <1>2. /\ t \in Store
        /\ t.reservations[r.key] = [lease |-> r.lease, status |-> "EXECUTING"]
        /\ \A k \in Keys \ {r.key} : t.reservations[k] = mem.reservations[k]
    BY <1>1, ReservedFacts DEF GateInv, TypeOK
  <1>3. t.reservations[r.key] # None /\ t.reservations[r.key].status = "EXECUTING"
    BY <1>1, <1>2, RequestFacts, NoneAssumption DEF Reservation, Status
  <1> HIDE DEF t, r
  <1>4. Slots[r.key] = "FREE"
    <2>1. disk.reservations[r.key] \in Reservation =>
            [disk.reservations[r.key] EXCEPT !.status = "AMBIGUOUS"] \in Reservation
      BY DEF Reservation, Status
    <2>2. disk.reservations[r.key] = None
      BY <1>1, <2>1, NoneAssumption, SMTT(60)
         DEF GateInv, TypeOK, Store, MemoryAhead, AheadOf
    <2> QED
      BY <1>1, <2>2 DEF Slots, SlotOf
  <1>5. Abstract!MayMove(r.key, Slots[r.key], IF t.reservations[r.key] = None
                                THEN "FREE" ELSE t.reservations[r.key].status)
    BY <1>3, <1>4 DEF Abstract!MayMove
  <1> QED
    BY <1>1, <1>2, <1>5, WriteFrame

(* A doubt is a write of the abstract slots.                               *)
LEMMA OutcomeRefines ==
  ASSUME GateInv, GateInv', NEW c \in Calls, up, Owner(c),
         pc[c] \in {"mutating", "readback"},
         NEW x \in {"APPLIED", "AMBIGUOUS"}, x = "APPLIED" => c \in objects,
         NEW t \in Store, disk' = t, req' = req, objects' = objects,
         \A k \in Keys :
           t.reservations[k] = IF k = req[c].key
                               THEN [lease |-> mem.reservations[k].lease, status |-> x]
                               ELSE mem.reservations[k]
  PROVE  Abstract!AbstractNext
  <1> DEFINE j == req[c].key
             d == disk.reservations[j]
             m == mem.reservations[j]
  <1>1. /\ j \in Keys /\ d \in Reservation /\ c \in sent
        /\ m = [lease |-> req[c].lease, status |-> "EXECUTING"] /\ AheadOf(m, d)
        /\ req[c].lease \in Leases
    BY MemoryHolds DEF GateInv, CallInv, MemoryAhead, HolderInv
  <1>2. t.reservations[j] = [lease |-> req[c].lease, status |-> x]
    BY <1>1
  <1>3. t.reservations[j] # None /\ t.reservations[j].status = x
    BY <1>1, <1>2, NoneAssumption DEF Reservation, Status
  <1>4. Slots[j] = "EXECUTING"
    <2>1. Slots[j] = d.status
      BY <1>1, NoneAssumption DEF Slots, SlotOf
    <2> HIDE DEF j, d, m
    <2> QED
      BY <1>1, <2>1, NoneAssumption DEF AheadOf, Reservation
  <1>5. c \in objects => j \in Made
    BY DEF Made, MatchingOrders
  <1>6. Abstract!MayMove(j, Slots[j], IF t.reservations[j] = None THEN "FREE"
                                     ELSE t.reservations[j].status)
    BY <1>3, <1>4, <1>5 DEF Abstract!MayMove, Made
  <1>7. \A k \in Keys \ {j} : t.reservations[k] = mem.reservations[k]
    OBVIOUS
  <1> HIDE DEF j
  <1> QED
    BY <1>1, <1>6, <1>7, WriteFrame

(* A provider commit makes an abstract object, or is invisible.            *)
LEMMA CommitRefines ==
  ASSUME GateInv, NEW c \in Calls, ProviderCommit(c)
  PROVE  Abstract!AbstractNext \/ (Slots' = Slots /\ Made' = Made)
  <1>1. /\ c \in sent /\ c \notin objects /\ objects' = objects \cup {c}
        /\ req' = req /\ disk' = disk
    BY DEF ProviderCommit, callVars
  <1>2. Slots' = Slots
    BY <1>1 DEF Slots, SlotOf
  <1>3. CASE ~Owner(c)
    BY <1>1, <1>2, <1>3 DEF Made, MatchingOrders
  <1>4. CASE Owner(c)
    <2> DEFINE k == req[c].key
    <2>1. k \in Keys /\ Made' = Made \cup {k}
      BY <1>1, <1>4, RequestFacts DEF Made, MatchingOrders, GateInv, CallInv
    <2>2. k \notin Made
      BY <1>1, <1>4 DEF Made, MatchingOrders, GateInv, CallInv, OwnerAtMostOnce
    <2>3. Slots[k] \in {"EXECUTING", "AMBIGUOUS"}
      <3>1. disk.reservations[k] \in Reservation /\ disk.reservations[k] # None
        BY <1>1, <1>4, <2>1
           DEF GateInv, TypeOK, Store, ReservedBeforeSend, ReservedOnDisk
      <3>2. disk.reservations[k].status # "APPLIED"
        BY <1>1, <1>4 DEF GateInv, HolderInv
      <3> QED
        BY <2>1, <3>1, <3>2 DEF Slots, SlotOf, Reservation, Status
    <2> HIDE DEF k
    <2>4. Abstract!MakeObject(k)
      BY <1>2, <2>1, <2>2, <2>3 DEF Abstract!MakeObject, Slots, Made
    <2> QED
      <3>1. k \in Keys
        BY <2>1
      <3>2. \E j \in Keys : Abstract!MakeObject(j)
        BY <2>4, <3>1 DEF Abstract!MakeObject
      <3> QED
        BY <3>2 DEF Abstract!AbstractNext
  <1> QED
    BY <1>3, <1>4

(* Recording a receipt is a write of the abstract slots.                   *)
LEMMA RecordRefines ==
  ASSUME GateInv, GateInv', NEW c \in Calls,
         ProviderFails(c) \/ Record(c) \/ RecordThrows(c)
  PROVE  Abstract!AbstractNext \/ (Slots' = Slots /\ Made' = Made)
  <1> DEFINE r == req[c]
             u == Recorded(mem, c, r)
  <1>1. /\ up /\ pc[c] \in {"mutating", "readback"} /\ c \in sent
        /\ r \in Requests /\ r.key \in Keys /\ mem \in Store
        /\ req' = req /\ objects' = objects
        /\ r.kind = "OWNER" => mem.reservations[r.key] # None
    BY MemoryHolds, RequestFacts
       DEF GateInv, TypeOK, CallInv, ProviderFails, Record, RecordThrows
  <1>2. /\ u \in Store
        /\ \A k \in Keys : u.reservations[k] =
             IF k = r.key /\ r.kind = "OWNER"
             THEN [lease |-> mem.reservations[k].lease, status |-> "APPLIED"]
             ELSE mem.reservations[k]
    BY <1>1, RecordedFacts
  <1>3. CASE disk' = disk
    <2>1. Slots' = Slots
      BY <1>3 DEF Slots, SlotOf
    <2> QED
      BY <1>1, <2>1, SameMade
  <1>4. CASE disk' # disk /\ r.kind # "OWNER"
    <2>1. disk' = u
      BY <1>4 DEF ProviderFails, Catch, Record, RecordThrows, PersistOk
    <2> HIDE DEF u, r
    <2>2. \A k \in Keys : u.reservations[k] = mem.reservations[k]
      BY <1>2, <1>4
    <2>3. /\ disk.reservations[r.key] \in Reservation \cup {None}
          /\ mem.reservations[r.key] \in Reservation \cup {None}
          /\ AheadOf(mem.reservations[r.key], disk.reservations[r.key])
      BY <1>1 DEF GateInv, TypeOK, Store, MemoryAhead
    <2>4. Slots[r.key] = IF disk.reservations[r.key] = None THEN "FREE"
                         ELSE disk.reservations[r.key].status
      BY <1>1 DEF Slots, SlotOf
    <2>5. Abstract!MayMove(r.key, Slots[r.key], IF u.reservations[r.key] = None
                              THEN "FREE" ELSE u.reservations[r.key].status)
      BY <1>1, <2>2, <2>3, <2>4, SlotMoves
    <2> QED
      BY <1>1, <1>2, <2>1, <2>2, <2>5, WriteFrame
  <1>5. CASE disk' # disk /\ r.kind = "OWNER"
    <2>1. CASE Record(c)
      <3>1. disk' = u /\ c \in objects
        BY <2>1 DEF Record, PersistOk, GateInv, CallInv
      <3> HIDE DEF u
      <3> QED
        BY <1>1, <1>2, <1>5, <3>1, OutcomeRefines
    <2>2. CASE ProviderFails(c)
      <3> DEFINE t == Doubted(mem, r)
      <3>1. disk' = t
        BY <1>5, <2>2 DEF ProviderFails, Catch, PersistOk, PersistThrows
      <3>2. /\ t \in Store
            /\ \A k \in Keys : t.reservations[k] =
                 IF k = r.key /\ r.kind = "OWNER"
                 THEN [lease |-> mem.reservations[k].lease, status |-> "AMBIGUOUS"]
                 ELSE mem.reservations[k]
        BY <1>1, DoubtedFacts
      <3> HIDE DEF t
      <3> QED
        BY <1>1, <1>5, <3>1, <3>2, OutcomeRefines
    <2>3. CASE RecordThrows(c)
      <3> DEFINE t == Doubted(u, r)
      <3>1. disk' = t
        BY <1>5, <2>3 DEF RecordThrows
      <3>2. u.reservations[r.key].lease = mem.reservations[r.key].lease
            /\ u.reservations[r.key] # None
        <4>1. u.reservations[r.key] =
                [lease |-> mem.reservations[r.key].lease, status |-> "APPLIED"]
          BY <1>1, <1>2, <1>5
        <4>2. mem.reservations[r.key].lease \in Leases
          BY <1>1, <1>5, MemoryHolds
        <4>3. u.reservations[r.key] \in Reservation
          BY <4>1, <4>2 DEF Reservation, Status
        <4> QED
          BY <4>1, <4>3, NoneAssumption
      <3>3. /\ t \in Store
            /\ \A k \in Keys : t.reservations[k] =
                 IF k = r.key /\ r.kind = "OWNER"
                 THEN [lease |-> u.reservations[k].lease, status |-> "AMBIGUOUS"]
                 ELSE u.reservations[k]
        BY <1>1, <1>2, <3>2, DoubtedFacts
      <3> HIDE DEF t, u
      <3>4. \A k \in Keys \ {r.key} : t.reservations[k] = mem.reservations[k]
        BY <1>2, <3>3
      <3>5. t.reservations[r.key] =
              [lease |-> mem.reservations[r.key].lease, status |-> "AMBIGUOUS"]
        BY <1>1, <1>5, <3>2, <3>3
      <3>6. \A k \in Keys : t.reservations[k] =
              IF k = r.key
              THEN [lease |-> mem.reservations[k].lease, status |-> "AMBIGUOUS"]
              ELSE mem.reservations[k]
        BY <3>4, <3>5
      <3> QED
        BY <1>1, <1>5, <3>1, <3>3, <3>6, OutcomeRefines
    <2> QED
      BY <2>1, <2>2, <2>3
  <1> QED
    BY <1>3, <1>4, <1>5

(* Every step is an abstract step or leaves the abstract state alone.      *)
LEMMA NextRefines ==
  GateInv /\ GateInv' /\ [Next]_vars
    => Abstract!AbstractNext \/ (Slots' = Slots /\ Made' = Made)
  <1> SUFFICES ASSUME GateInv, GateInv', [Next]_vars
               PROVE  Abstract!AbstractNext \/ (Slots' = Slots /\ Made' = Made)
    OBVIOUS
  <1>1. ASSUME disk' = disk, objects' = objects, \A c \in sent : req'[c] = req[c]
        PROVE  Slots' = Slots /\ Made' = Made
    BY <1>1, SameMade DEF Slots, SlotOf
  <1>2. ASSUME NEW c \in Calls, Receive(c)
        PROVE  disk' = disk /\ objects' = objects /\ \A d \in sent : req'[d] = req[d]
    BY <1>2 DEF Receive, Deny, AskSnapshot, Replay, SendDirectly, Arrive,
                GateInv, TypeOK, CallInv
  <1>3. ASSUME NEW c \in Calls, Continue(c)
        PROVE  Abstract!AbstractNext \/ (Slots' = Slots /\ Made' = Made)
    <2>1. CASE SnapshotRead(c) \/ SnapshotFails(c) \/ RefuseAfterSnapshot(c)
                 \/ MutateAnswered(c) \/ ReserveThrows(c)
      <3>1. disk' = disk /\ objects' = objects /\ req' = req
        BY <2>1 DEF SnapshotRead, SnapshotFails, RefuseAfterSnapshot,
                    MutateAnswered, ReserveThrows, PersistThrows
      <3> QED
        BY <1>1, <3>1
    <2>2. CASE ReserveAndSend(c)
      BY <2>2, ReserveRefines
    <2>3. CASE ProviderFails(c) \/ Record(c) \/ RecordThrows(c)
      BY <2>3, RecordRefines
    <2> QED
      BY <1>3, <2>1, <2>2, <2>3 DEF Continue
  <1>4. ASSUME NEW c \in Calls, ProviderCommit(c)
        PROVE  Abstract!AbstractNext \/ (Slots' = Slots /\ Made' = Made)
    BY <1>4, CommitRefines
  <1>5. CASE Crash \/ Restart \/ PolicyActivate \/ PolicyFreeze \/ Tick
               \/ UNCHANGED vars
    <2>1. disk' = disk /\ objects' = objects /\ req' = req
      BY <1>5 DEF Crash, Restart, PolicyActivate, PolicyFreeze, Tick, vars,
                  callVars
    <2> QED
      BY <1>1, <2>1
  <1> QED
    BY <1>1, <1>2, <1>3, <1>4, <1>5 DEF Next

(* An initial state maps to an abstract initial state.                     *)
LEMMA InitRefines == Init => Abstract!AbstractInit
  BY DEF Init, Abstract!AbstractInit, EmptyStore, SlotOf, MatchingOrders

(***************************************************************************)
(* Seen through owner leases, the gate with its memory, its file, its      *)
(* crashes and its asynchronous calls is the abstract at-most-once effect. *)
(***************************************************************************)
THEOREM GateRefines == Spec => ImplementsAtMostOnce
  <1>1. GateInv /\ GateInv' /\ [Next]_vars
          => [Abstract!AbstractNext]_(Abstract!amoVars)
    BY NextRefines DEF Abstract!amoVars, Slots, Made
  <1> QED
    BY <1>1, InitRefines, GateInvariant, PTL
       DEF Spec, ImplementsAtMostOnce, Abstract!AbstractSpec
=============================================================================
