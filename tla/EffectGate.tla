----------------------------- MODULE EffectGate -----------------------------
(***************************************************************************)
(* DemoMutationGate (demo/runtime/enforcement-gate.mjs): the only code of  *)
(* the demo runtime that may change a provider (EspoCRM, Dolibarr).        *)
(*                                                                         *)
(* execute() is asynchronous.  It runs without interruption between two    *)
(* awaits, so each action below is the code from one await to the next,    *)
(* and calls interleave only at the awaits: the snapshot read, the         *)
(* mutation, and the readback.  The store is one JSON file rewritten as a  *)
(* whole (temporary file and rename); a write may fail, the process may    *)
(* crash, and the provider may act on a request after its caller gave up.  *)
(***************************************************************************)
EXTENDS Naturals, FiniteSets

CONSTANTS
  Calls,          \* HTTP calls of execute(); each sends at most one mutation
  Requests,       \* the envelopes a caller can send
  Keys,           \* replay keys
  Leases,         \* owner lease ids
  Bodies,         \* what an action does, apart from its replay key
  Generations,    \* policy generations
  None,
  SnapshotLimit,  \* matching orders an authoritative snapshot can hold (2)
  MaxTime, MaxFaults, MaxCrashes   \* bounds of the model

(***************************************************************************)
(* A request is an envelope reduced to what execute() tells apart.         *)
(* "valid" stands for every check that depends on the envelope alone:      *)
(* headers, action shape, scope, digests and HMAC bindings.  Only an OWNER *)
(* envelope carries a lease; an APPROVAL (installer) envelope carries no   *)
(* policy generation.                                                      *)
(***************************************************************************)
Request == [kind : {"APPROVAL", "AGENT", "OWNER"}, key : Keys, body : Bodies,
            valid : BOOLEAN, gen : Generations \cup {None},
            lease : Leases \cup {None}, profile : Nat,
            snapshot : SUBSET Calls, notBefore : Nat, expires : Nat]

(***************************************************************************)
(* The effect store: a receipt per replay key, a reservation per replay    *)
(* key taken under an owner lease, and the leases that were consumed.  A   *)
(* missing entry is None.                                                  *)
(***************************************************************************)
Status == {"EXECUTING", "APPLIED", "AMBIGUOUS"}
Effect == [body : Bodies, gen : Generations \cup {None}, object : Calls]
Reservation == [lease : Leases, status : Status]
Store == [effects : [Keys -> Effect \cup {None}],
          reservations : [Keys -> Reservation \cup {None}],
          consumed : [Leases -> Keys \cup {None}]]

EmptyStore == [effects |-> [k \in Keys |-> None],
               reservations |-> [k \in Keys |-> None],
               consumed |-> [l \in Leases |-> None]]

ASSUME NoneAssumption ==
  /\ None \notin Calls \cup Keys \cup Leases \cup Generations
  /\ None \notin Request /\ None \notin Effect /\ None \notin Reservation

ASSUME BoundAssumption ==
  /\ SnapshotLimit \in Nat /\ MaxTime \in Nat
  /\ MaxFaults \in Nat /\ MaxCrashes \in Nat

ASSUME GenerationAssumption == Generations \subseteq Nat

(***************************************************************************)
(* ownerAuthority() puts an HMAC of the whole lease in its leaseId, so two *)
(* valid envelopes with one lease id carry one lease.  validateAdminAi-    *)
(* Action() allows one order under an owner lease and one contact under an *)
(* agent authority.                                                        *)
(***************************************************************************)
ASSUME RequestAssumption ==
  /\ Requests \subseteq Request
  /\ \A r \in Requests :
       (r.kind = "OWNER") <=> (r.lease # None)
  /\ \A r, s \in Requests :
       (r.valid /\ s.valid /\ r.lease # None /\ r.lease = s.lease) => r = s
  /\ \A r, s \in Requests :
       (r.valid /\ s.valid /\ r.kind = s.kind /\ r.kind # "APPROVAL")
         => r.body = s.body

VARIABLES
  pc,        \* pc[c]: where the call is
  req,       \* req[c]: the envelope of the call
  seen,      \* seen[c]: the matching orders its snapshot read returned
  answer,    \* answer[c]: the provider object in the response (None: error)
  mem,       \* this.state: the store in memory
  disk,      \* the store in receiptPath
  up,        \* the process runs
  profile,   \* authorityContext.profileGeneration (random; numbered by start)
  ctxGen,    \* authorityContext.policyGeneration
  policy,    \* the fence's record on disk: [gen, status]
  now,       \* this.now()
  sent,      \* calls that have sent their mutation to the provider
  objects,   \* calls whose object exists at the provider
  faults, crashes

callVars  == <<pc, req, seen, answer>>
envVars   == <<up, profile, ctxGen, policy, now>>
vars == <<pc, req, seen, answer, mem, disk, up, profile, ctxGen, policy, now,
          sent, objects, faults, crashes>>

Waiting  == {"snapshot", "reserve", "mutating", "readback"}
Finished == {"done", "replayed", "denied", "failed", "crashed"}

TypeOK ==
  /\ pc \in [Calls -> {"idle"} \cup Waiting \cup Finished]
  /\ req \in [Calls -> Requests \cup {None}]
  /\ seen \in [Calls -> SUBSET Calls]
  /\ answer \in [Calls -> Calls \cup {None}]
  /\ mem \in Store /\ disk \in Store
  /\ up \in BOOLEAN
  /\ profile \in Nat /\ ctxGen \in Generations
  /\ policy \in [gen : Generations, status : {"ACTIVE", "FROZEN"}]
  /\ now \in Nat
  /\ sent \subseteq Calls /\ objects \subseteq Calls
  /\ faults \in Nat /\ crashes \in Nat

Init ==
  /\ pc = [c \in Calls |-> "idle"]
  /\ req = [c \in Calls |-> None]
  /\ seen = [c \in Calls |-> {}]
  /\ answer = [c \in Calls |-> None]
  /\ mem = EmptyStore /\ disk = EmptyStore
  /\ up = TRUE
  /\ profile = 0
  /\ ctxGen \in Generations
  /\ policy = [gen |-> ctxGen, status |-> "ACTIVE"]
  /\ now = 0
  /\ sent = {} /\ objects = {}
  /\ faults = 0 /\ crashes = 0

-----------------------------------------------------------------------------
(* What execute() decides.                                                 *)

Owner(c) == req[c].kind = "OWNER"

(* Mutant of AuthorityHolds: a lease outlives the process it was issued in. *)
AuthorityWithoutProfile(r) ==
  \/ r.kind = "APPROVAL"
  \/ r.kind = "AGENT" /\ r.gen = ctxGen
  \/ /\ r.kind = "OWNER" /\ r.gen = ctxGen
     /\ r.notBefore <= now /\ now < r.expires

(* validateAgentAuthority / validateOwnerAuthority: the bindings that      *)
(* depend on the gate and on the clock.                                    *)
AuthorityHolds(r) ==
  \/ r.kind = "APPROVAL"
  \/ r.kind = "AGENT" /\ r.gen = ctxGen
  \/ /\ r.kind = "OWNER"
     /\ r.gen = ctxGen /\ r.profile = profile
     /\ r.notBefore <= now /\ now < r.expires

(* assertPolicyUse: PolicyGenerationFence.assertUseBinding rereads the     *)
(* record; it is asked for the agent actor only.                           *)
PolicyUse(r) ==
  r.kind = "APPROVAL" \/ (policy.status = "ACTIVE" /\ policy.gen = r.gen)

Admissible(r) == r.valid /\ AuthorityHolds(r) /\ PolicyUse(r)

(* Neither the lease nor the replay key has been used.                     *)
Unused(r) ==
  /\ mem.consumed[r.lease] = None
  /\ mem.effects[r.key] = None
  /\ mem.reservations[r.key] = None

(* Mutant of SameEffect: the action digest is not compared.                *)
SameGeneration(r, e) == r.kind = "AGENT" => e.gen = r.gen

(* A stored effect answers a repeated request when the action digest, and  *)
(* for the agent the decision and the policy, are the same.                *)
SameEffect(r, e) == e.body = r.body /\ (r.kind = "AGENT" => e.gen = r.gen)

(* readAuthoritativeSnapshot: the orders with the fixed client reference.  *)
(* Only the order body carries it, and only an owner lease allows it.      *)
MatchingOrders == {c \in objects : Owner(c)}

(* The snapshot validates (at most SnapshotLimit matches, one sentinel     *)
(* beyond it is refused) and equals the one the lease is bound to.         *)
SnapshotFresh(c) ==
  Cardinality(seen[c]) <= SnapshotLimit /\ seen[c] = req[c].snapshot

(* The store as execute() changes it before the mutation ...               *)
Reserved(s, r) ==
  [s EXCEPT !.consumed[r.lease] = r.key,
            !.reservations[r.key] = [lease |-> r.lease, status |-> "EXECUTING"]]

(* ... after a verified readback ...                                       *)
Recorded(s, c, r) ==
  [s EXCEPT !.effects[r.key] = [body |-> r.body, gen |-> r.gen, object |-> c],
            !.reservations[r.key] =
               IF r.kind = "OWNER" THEN [@ EXCEPT !.status = "APPLIED"] ELSE @]

(* Mutants of Doubted: a status the loader does not know; the reservation  *)
(* is released for a retry; the catch block forgets it.                    *)
DoubtedUnknown(s, r) ==
  IF r.kind = "OWNER" THEN [s EXCEPT !.reservations[r.key].status = "UNKNOWN"] ELSE s
DoubtedReleased(s, r) ==
  IF r.kind = "OWNER" THEN [s EXCEPT !.reservations[r.key] = None] ELSE s
DoubtedForgotten(s, r) == s

(* ... and in the catch block, which concerns owner leases only.           *)
Doubted(s, r) ==
  IF r.kind = "OWNER"
  THEN [s EXCEPT !.reservations[r.key].status = "AMBIGUOUS"]
  ELSE s

(* normalizeEffectStore: what a starting gate accepts.                     *)
Loadable(s) ==
  \A k \in Keys : s.reservations[k] # None =>
    /\ s.consumed[s.reservations[k].lease] = k
    /\ (s.reservations[k].status = "APPLIED") <=> (s.effects[k] # None)

-----------------------------------------------------------------------------
(* Mutant of PersistOk: the write is put off.                              *)
PersistLater(s) == mem' = s /\ UNCHANGED <<disk, faults>>

(* persist(): the whole of memory reaches the file, or the write throws    *)
(* and the file is as before.                                              *)
PersistOk(s) == mem' = s /\ disk' = s /\ UNCHANGED faults

PersistThrows(s) ==
  /\ faults < MaxFaults /\ faults' = faults + 1
  /\ mem' = s /\ UNCHANGED disk

End(c, where) == pc' = [pc EXCEPT ![c] = where]

Send(c) ==
  /\ End(c, "mutating")
  /\ sent' = sent \cup {c}

(* The catch block: mark the reservation, try to persist, throw.           *)
Catch(c, s) ==
  /\ End(c, "failed")
  /\ IF Owner(c)
     THEN PersistOk(Doubted(s, req[c])) \/ PersistThrows(Doubted(s, req[c]))
     ELSE mem' = s /\ UNCHANGED <<disk, faults>>

-----------------------------------------------------------------------------
(* execute(), from its first line to its first await.                      *)
Arrive(c, r) ==
  /\ up /\ pc[c] = "idle"
  /\ req' = [req EXCEPT ![c] = r]
  /\ UNCHANGED <<seen, mem, disk, envVars, objects, faults, crashes>>

Deny(c, r) ==
  /\ Arrive(c, r)
  /\ \/ ~Admissible(r)
     \/ r.kind = "OWNER" /\ ~Unused(r)
     \/ /\ r.kind # "OWNER" /\ mem.effects[r.key] # None
        /\ ~SameEffect(r, mem.effects[r.key])
  /\ End(c, "denied")
  /\ UNCHANGED <<answer, sent>>

AskSnapshot(c, r) ==
  /\ Arrive(c, r)
  /\ r.kind = "OWNER" /\ Admissible(r) /\ Unused(r)
  /\ End(c, "snapshot")
  /\ UNCHANGED <<answer, sent>>

Replay(c, r) ==
  /\ Arrive(c, r)
  /\ r.kind # "OWNER" /\ Admissible(r)
  /\ mem.effects[r.key] # None /\ SameEffect(r, mem.effects[r.key])
  /\ End(c, "replayed")
  /\ answer' = [answer EXCEPT ![c] = mem.effects[r.key].object]
  /\ UNCHANGED sent

SendDirectly(c, r) ==
  /\ Arrive(c, r)
  /\ r.kind # "OWNER" /\ Admissible(r)
  /\ mem.effects[r.key] = None
  /\ Send(c)
  /\ UNCHANGED answer

(* The provider answers the snapshot read ...                              *)
SnapshotRead(c) ==
  /\ up /\ pc[c] = "snapshot"
  /\ seen' = [seen EXCEPT ![c] = MatchingOrders]
  /\ End(c, "reserve")
  /\ UNCHANGED <<req, answer, mem, disk, envVars, sent, objects, faults, crashes>>

(* ... or fails to; a late, failed or malformed answer denies the call.    *)
SnapshotFails(c) ==
  /\ up /\ pc[c] = "snapshot"
  /\ End(c, "denied")
  /\ UNCHANGED <<req, seen, answer, mem, disk, envVars, sent, objects, faults,
                 crashes>>

(* Mutant of MayReserve: the replay checks are not repeated after the read. *)
MayReserveUnchecked(c) == SnapshotFresh(c)

MayReserve(c) == SnapshotFresh(c) /\ Unused(req[c])

(* The continuation of the snapshot read, up to the mutation.              *)
RefuseAfterSnapshot(c) ==
  /\ up /\ pc[c] = "reserve"
  /\ ~MayReserve(c)
  /\ End(c, "denied")
  /\ UNCHANGED <<req, seen, answer, mem, disk, envVars, sent, objects, faults,
                 crashes>>

ReserveAndSend(c) ==
  /\ up /\ pc[c] = "reserve"
  /\ MayReserve(c)
  /\ PersistOk(Reserved(mem, req[c]))
  /\ Send(c)
  /\ UNCHANGED <<req, seen, answer, envVars, objects, crashes>>

(* The reservation stays in memory when its write throws.                  *)
ReserveThrows(c) ==
  /\ up /\ pc[c] = "reserve"
  /\ MayReserve(c)
  /\ PersistThrows(Reserved(mem, req[c]))
  /\ End(c, "denied")
  /\ UNCHANGED <<req, seen, answer, envVars, sent, objects, crashes>>

-----------------------------------------------------------------------------
(* The provider acts on a mutation at any time after it was sent, whether  *)
(* or not anyone still waits for the answer.                               *)
ProviderCommit(c) ==
  /\ c \in sent \ objects
  /\ objects' = objects \cup {c}
  /\ UNCHANGED <<callVars, mem, disk, envVars, sent, faults, crashes>>

MutateAnswered(c) ==
  /\ up /\ pc[c] = "mutating" /\ c \in objects
  /\ End(c, "readback")
  /\ UNCHANGED <<req, seen, answer, mem, disk, envVars, sent, objects, faults,
                 crashes>>

(* fetch rejects, the provider answers an error, or a readback is missing  *)
(* or differs from the action.                                             *)
ProviderFails(c) ==
  /\ up /\ pc[c] \in {"mutating", "readback"}
  /\ Catch(c, mem)
  /\ UNCHANGED <<req, seen, answer, envVars, sent, objects, crashes>>

(* The readback is verified: record the effect, persist, answer.           *)
Record(c) ==
  /\ up /\ pc[c] = "readback"
  /\ PersistOk(Recorded(mem, c, req[c]))
  /\ End(c, "done")
  /\ answer' = [answer EXCEPT ![c] = c]
  /\ UNCHANGED <<req, seen, envVars, sent, objects, crashes>>

(* The persist of Record throws inside the try block: the effect stays in  *)
(* memory and the catch block runs.  Its own persist may throw as well.    *)
RecordThrows(c) ==
  /\ up /\ pc[c] = "readback"
  /\ faults < MaxFaults
  /\ LET s == Doubted(Recorded(mem, c, req[c]), req[c])
     IN  /\ mem' = s
         /\ \/ Owner(c) /\ disk' = s /\ faults' = faults + 1
            \/ ~Owner(c) /\ UNCHANGED disk /\ faults' = faults + 1
            \/ /\ Owner(c) /\ faults + 1 < MaxFaults
               /\ UNCHANGED disk /\ faults' = faults + 2
  /\ End(c, "failed")
  /\ UNCHANGED <<req, seen, answer, envVars, sent, objects, crashes>>

-----------------------------------------------------------------------------
(* The process and what surrounds it.                                      *)
Crash ==
  /\ up /\ crashes < MaxCrashes
  /\ up' = FALSE /\ crashes' = crashes + 1
  /\ pc' = [c \in Calls |-> IF pc[c] \in Waiting THEN "crashed" ELSE pc[c]]
  /\ mem' = EmptyStore
  /\ UNCHANGED <<req, seen, answer, disk, profile, ctxGen, policy, now, sent,
                 objects, faults>>

(* Mutant of Restart: the process starts without reading its store.        *)
RestartEmpty ==
  /\ ~up /\ policy.status = "ACTIVE" /\ Loadable(disk)
  /\ up' = TRUE /\ mem' = EmptyStore
  /\ profile' = profile + 1
  /\ ctxGen' = policy.gen
  /\ UNCHANGED <<callVars, disk, policy, now, sent, objects, faults, crashes>>

(* server.mjs refuses to start on a frozen policy, the constructor on a    *)
(* store it cannot accept.  Leases of an earlier process are void: each    *)
(* start draws a fresh profile generation.                                *)
Restart ==
  /\ ~up /\ policy.status = "ACTIVE" /\ Loadable(disk)
  /\ up' = TRUE /\ mem' = disk
  /\ profile' = profile + 1
  /\ ctxGen' = policy.gen
  /\ UNCHANGED <<callVars, disk, policy, now, sent, objects, faults, crashes>>

(* The management plane writes the fence's record from another process.    *)
PolicyActivate ==
  /\ \E g \in Generations :
       g > policy.gen /\ policy' = [gen |-> g, status |-> "ACTIVE"]
  /\ UNCHANGED <<callVars, mem, disk, up, profile, ctxGen, now, sent, objects,
                 faults, crashes>>

PolicyFreeze ==
  /\ policy.status = "ACTIVE"
  /\ policy' = [policy EXCEPT !.status = "FROZEN"]
  /\ UNCHANGED <<callVars, mem, disk, up, profile, ctxGen, now, sent, objects,
                 faults, crashes>>

Tick ==
  /\ now < MaxTime /\ now' = now + 1
  /\ UNCHANGED <<callVars, mem, disk, up, profile, ctxGen, policy, sent,
                 objects, faults, crashes>>

Receive(c) ==
  \E r \in Requests :
    Deny(c, r) \/ AskSnapshot(c, r) \/ Replay(c, r) \/ SendDirectly(c, r)

(* What the event loop and the provider owe a call that waits.             *)
Continue(c) ==
  \/ SnapshotRead(c) \/ SnapshotFails(c)
  \/ RefuseAfterSnapshot(c) \/ ReserveAndSend(c) \/ ReserveThrows(c)
  \/ MutateAnswered(c) \/ ProviderFails(c)
  \/ Record(c) \/ RecordThrows(c)

Next ==
  \/ \E c \in Calls : Receive(c) \/ Continue(c) \/ ProviderCommit(c)
  \/ Crash \/ Restart \/ PolicyActivate \/ PolicyFreeze \/ Tick

Spec == Init /\ [][Next]_vars

(***************************************************************************)
(* Node's event loop runs every callback that is ready, and fetch rejects  *)
(* a request that gets no answer, so a waiting call of a live process is   *)
(* continued in the end.  Nothing is owed by callers, the provider, the    *)
(* clock, the operator or the disk.                                        *)
(***************************************************************************)
FairSpec == Spec /\ \A c \in Calls : WF_vars(Continue(c))

-----------------------------------------------------------------------------
(* Properties.                                                             *)

(***************************************************************************)
(* Two calls never both send a mutation under one owner lease, nor under   *)
(* one replay key with owner leases: not when both passed the first check  *)
(* before either reserved, not after a failed write, and not after a crash *)
(* (execute(), the repeated check after the snapshot read).                *)
(***************************************************************************)
OwnerAtMostOnce ==
  \A c, d \in sent :
    /\ Owner(c) /\ Owner(d)
    /\ req[c].lease = req[d].lease \/ req[c].key = req[d].key
    => c = d

(***************************************************************************)
(* A mutation sent under an owner lease is preceded by a durable           *)
(* reservation naming that lease, which outlives failures and restarts     *)
(* (execute(): persist() before provider.mutate()).                        *)
(***************************************************************************)
ReservedOnDisk(r) ==
  /\ disk.consumed[r.lease] = r.key
  /\ disk.reservations[r.key] # None
  /\ disk.reservations[r.key].lease = r.lease

ReservedBeforeSend == \A c \in sent : Owner(c) => ReservedOnDisk(req[c])

(***************************************************************************)
(* A successful answer, first or replayed, names an object the provider    *)
(* really made for the same replay key and the same action, whatever ran   *)
(* in between under that key (execute(): readback and replay checks).      *)
(***************************************************************************)
AnswerIsBacked ==
  \A c \in Calls : answer[c] # None =>
    /\ answer[c] \in objects
    /\ req[answer[c]].key = req[c].key
    /\ req[answer[c]].body = req[c].body

(***************************************************************************)
(* When a mutation leaves, its authority belongs to the process that sends *)
(* it: an owner lease was issued in this process lifetime, for this policy *)
(* generation and for the orders the last snapshot read saw; an agent      *)
(* authority agrees with the fence at that very step.                      *)
(***************************************************************************)
SendIsAuthorized(c) ==
  /\ req'[c].valid
  /\ req'[c].kind = "OWNER" =>
       /\ req'[c].profile = profile /\ req'[c].gen = ctxGen
       /\ seen[c] = req'[c].snapshot
  /\ req'[c].kind = "AGENT" =>
       policy = [gen |-> req'[c].gen, status |-> "ACTIVE"]

SendsAreAuthorized == [][\A c \in sent' \ sent : SendIsAuthorized(c)]_vars

(***************************************************************************)
(* The durable store and the provider, seen through owner leases, behave   *)
(* like AtMostOnceEffect.                                                  *)
(***************************************************************************)
SlotOf(k) == IF disk.reservations[k] = None THEN "FREE"
             ELSE disk.reservations[k].status

Abstract == INSTANCE AtMostOnceEffect WITH
  slot <- [k \in Keys |-> SlotOf(k)],
  made <- {req[c].key : c \in MatchingOrders}

ImplementsAtMostOnce == Abstract!AbstractSpec

(***************************************************************************)
(* A reservation whose call survives does not stay EXECUTING on disk: the  *)
(* call ends by marking it APPLIED or AMBIGUOUS, unless the process        *)
(* crashes or a write fails first (execute(): the try and catch blocks).   *)
(***************************************************************************)
ReservationSettles ==
  \A c \in Calls :
    (pc[c] \in {"mutating", "readback"} /\ Owner(c))
      ~> (\/ pc[c] = "crashed" \/ faults > 0
          \/ req[c] # None /\ SlotOf(req[c].key) \in {"APPLIED", "AMBIGUOUS"})

-----------------------------------------------------------------------------
(* The inductive invariant behind the theorems of EffectGateProofs.        *)

(* What the position of a call implies.                                    *)
CallInv ==
  /\ objects \subseteq sent
  /\ \A c \in sent : req[c] \in Requests /\ req[c].valid
  /\ \A c \in Calls :
       /\ pc[c] = "idle" => c \notin sent /\ answer[c] = None
       /\ pc[c] \in {"snapshot", "reserve"} =>
            /\ c \notin sent /\ req[c] \in Requests /\ Owner(c) /\ req[c].valid
            /\ req[c].profile = profile /\ req[c].gen = ctxGen
       /\ pc[c] \in {"mutating", "readback"} => c \in sent
       /\ pc[c] = "readback" => c \in objects
       /\ pc[c] \in Waiting => up

(* While the process runs, memory holds everything the file holds, and is  *)
(* ahead of it only by what a failed write left behind.                    *)
AheadOf(m, d) ==
  \/ m = d
  \/ d = None /\ m # None /\ m.status = "EXECUTING"
  \/ /\ d # None /\ d.status = "EXECUTING"
     /\ m = [d EXCEPT !.status = "AMBIGUOUS"]

MemoryAhead ==
  up => /\ \A l \in Leases :
             disk.consumed[l] # None => mem.consumed[l] = disk.consumed[l]
        /\ \A k \in Keys : AheadOf(mem.reservations[k], disk.reservations[k])

(* A call between reservation and outcome holds its reservation in memory, *)
(* and an APPLIED reservation belongs to a call whose object exists.       *)
HolderInv ==
  \A c \in sent : Owner(c) =>
    /\ pc[c] \in {"mutating", "readback"} =>
         mem.reservations[req[c].key] =
           [lease |-> req[c].lease, status |-> "EXECUTING"]
    /\ disk.reservations[req[c].key] # None
    /\ disk.reservations[req[c].key].status = "APPLIED" => c \in objects

(* Stored receipts name real objects of the same key and action.           *)
BackedEffects(s) ==
  \A k \in Keys : s.effects[k] # None =>
    /\ s.effects[k].object \in objects
    /\ req[s.effects[k].object].key = k
    /\ req[s.effects[k].object].body = s.effects[k].body

(***************************************************************************)
(* The store, in memory and on disk, stays consistent with every call that *)
(* ever reached the provider (execute(), persist(), constructor).          *)
(***************************************************************************)
GateInv ==
  /\ TypeOK
  /\ CallInv
  /\ MemoryAhead
  /\ HolderInv
  /\ BackedEffects(mem) /\ BackedEffects(disk)
  /\ ReservedBeforeSend
  /\ OwnerAtMostOnce
  /\ AnswerIsBacked

(***************************************************************************)
(* Repeating an action under its replay key makes no second object         *)
(* (docs/CANON.md, CM-CAN-12).                                             *)
(***************************************************************************)
ReplayMakesNoDuplicate ==
  \A c, d \in objects :
    req[c].key = req[d].key /\ req[c].body = req[d].body => c = d

(***************************************************************************)
(* An owner lease is unexpired and its policy generation is the active one *)
(* when its mutation is sent (docs/CANON.md, CM-CAN-07 and CM-CAN-08).     *)
(***************************************************************************)
OwnerAuthorityAtSend ==
  [][\A c \in sent' \ sent :
       req'[c].kind = "OWNER" => now < req'[c].expires /\ PolicyUse(req'[c])]_vars

(***************************************************************************)
(* The gate writes only stores its own constructor accepts                 *)
(* (normalizeEffectStore).                                                 *)
(***************************************************************************)
StoreStaysLoadable == Loadable(disk)
=============================================================================
