----------------------- MODULE PolicyLifecycleProofs -----------------------
(***************************************************************************)
(* Theorems about PolicyLifecycle, for every set of generations, sources,  *)
(* artifacts and approvals and for every bound.                            *)
(***************************************************************************)
EXTENDS PolicyLifecycle, TLAPS

(* Moved changes the state of one entry, and sets its receipt flag.        *)
LEMMA MovedFacts ==
  ASSUME NEW r \in Record, NEW g \in Generations, r.entries[g] \in Entry,
         NEW to \in EntryStates
  PROVE  /\ Moved(r, g, to) =
              [r EXCEPT !.entries[g] =
                 [r.entries[g] EXCEPT !.state = to,
                    !.activated = IF to = "ACTIVE" THEN TRUE
                                  ELSE r.entries[g].activated]]
         /\ Moved(r, g, to) \in Record
  BY ZenonT(60) DEF Moved, Record, Entry

(* The invariant holds in a state without files.                           *)
LEMMA InitInv == Init => LifecycleInv
<1> SUFFICES ASSUME Init PROVE LifecycleInv
  OBVIOUS
<1>1. TypeOK
  BY DEF Init, TypeOK, Record
<1>2. EntryInv /\ CallInv
  BY DEF Init, EntryInv, CallInv, EntryOf
<1>3. OneActive /\ RevokedNotServed /\ LastSafeRetained
  BY FenceAssumption DEF Init, OneActive, RevokedNotServed, LastSafeRetained, EntryOf
<1> QED
  BY <1>1, <1>2, <1>3 DEF Init, LifecycleInv

-----------------------------------------------------------------------------
(* A write that replaces one entry of the record, and what the new entry   *)
(* must satisfy.                                                           *)
LEMMA EntryWrite ==
  ASSUME LifecycleInv, doing = None,
         NEW g \in Generations, NEW e \in Entry,
         record' = [record EXCEPT !.entries[g] = e],
         UNCHANGED <<fence, doing, trust, clock, faults, crashes>>,
         e.artifact.generation = g,
         e.state \in {"STAGED", "ACTIVE"} => e.artifact.runtime,
         e.state \in {"ACTIVE", "SUPERSEDED", "RETIRED"} => e.activated,
         e.activated => e.state \in {"ACTIVE", "SUPERSEDED", "RETIRED", "REVOKED"},
         e.state \in {"SUPERSEDED", "RETIRED"} =>
           fence # None /\ fence.active.generation # g,
         e.state = "ACTIVE" <=> record.active = g,
         e.state = "REVOKED" /\ e.activated => ~FenceUse(fence, SnapshotOf(e)),
         record.lastSafe = g => e.activated /\ e.state # "RETIRED"
  PROVE  LifecycleInv'
<1>0. record \in Record /\ TypeOK
  BY DEF LifecycleInv, TypeOK
<1>1. /\ record' \in Record
      /\ record'.active = record.active /\ record'.lastSafe = record.lastSafe
      /\ record'.entries[g] = e
      /\ \A h \in Generations : h # g => record'.entries[h] = record.entries[h]
  BY <1>0 DEF Record
<1>2. e # None
  BY NoLifecycleRecord
<1>3. TypeOK'
  BY <1>0, <1>1 DEF TypeOK
<1>4. EntryInv'
  BY <1>1 DEF LifecycleInv, EntryInv, EntryOf
<1>5. CallInv'
  BY DEF CallInv
<1>6. OneActive'
  BY <1>1, <1>2 DEF LifecycleInv, OneActive, EntryOf
<1>7. RevokedNotServed'
  BY <1>1 DEF LifecycleInv, RevokedNotServed, EntryOf, SnapshotOf, FenceUse
<1>8. LastSafeRetained'
  BY <1>0, <1>1, <1>2 DEF LifecycleInv, LastSafeRetained, EntryOf, Record
<1> QED
  BY <1>1, <1>3, <1>4, <1>5, <1>6, <1>7, <1>8 DEF LifecycleInv

(* The reviews before activation: draft, validate, simulate, approve and   *)
(* stage.                                                                  *)
LEMMA DraftStep ==
  ASSUME LifecycleInv, NEW a \in Artifacts, Draft(a)
  PROVE  LifecycleInv'
<1> DEFINE g == a.generation
           e == [artifact |-> a, state |-> "DRAFT", trust |-> trust,
                 widening |-> FALSE, approval |-> None, activated |-> FALSE]
<1>1. g \in Generations /\ e \in Entry
  BY LifecycleAssumption DEF LifecycleInv, TypeOK, Artifact, Entry, EntryStates
<1>2. EntryOf(g) = None
  BY <1>1, FenceAssumption DEF Draft
<1>3. record.active # g /\ record.lastSafe # g
  BY <1>1, <1>2 DEF LifecycleInv, OneActive, LastSafeRetained
<1>4. doing = None /\ record' = [record EXCEPT !.entries[g] = e]
      /\ UNCHANGED <<fence, doing, trust, clock, faults, crashes>>
  BY DEF Draft, Write, Calm
<1> QED
  BY <1>1, <1>3, <1>4, EntryWrite

(* The entry an action starts from is an entry.                            *)
LEMMA InEntry ==
  ASSUME LifecycleInv, NEW g \in Generations, NEW S, In(g, S)
  PROVE  /\ record \in Record
         /\ record.entries[g] \in Entry /\ EntryOf(g) = record.entries[g]
         /\ EntryOf(g).state \in S /\ EntryOf(g) # None
  BY DEF LifecycleInv, TypeOK, Record, In, EntryOf

(* Only a policy the runtime accepts is staged.                            *)
RuntimeChecked(g, to) == to = "STAGED" => EntryOf(g).artifact.runtime

(* A transition of one entry that ends in a state other than ACTIVE.       *)
LEMMA MoveWrite ==
  ASSUME LifecycleInv, NEW g \in Generations, EntryOf(g) \in Entry,
         NEW to \in EntryStates \ {"ACTIVE"}, NEW w \in BOOLEAN,
         NEW p \in Approvals \cup {None},
         doing = None,
         record' = [record EXCEPT !.entries[g] =
                      [EntryOf(g) EXCEPT !.state = to, !.widening = w, !.approval = p]],
         UNCHANGED <<fence, doing, trust, clock, faults, crashes>>,
         EntryOf(g).state # "ACTIVE",
         RuntimeChecked(g, to),
         EntryOf(g).activated => to \in {"RETIRED", "REVOKED"},
         to \in {"SUPERSEDED", "RETIRED"} => EntryOf(g).state = "SUPERSEDED",
         to = "RETIRED" => record.lastSafe # g
  PROVE  LifecycleInv'
<1> DEFINE e == [EntryOf(g) EXCEPT !.state = to, !.widening = w, !.approval = p]
<1>1. record \in Record /\ EntryOf(g) # None
  BY NoLifecycleRecord DEF LifecycleInv, TypeOK
<1>2. /\ e \in Entry /\ e.state = to /\ e.artifact = EntryOf(g).artifact
      /\ e.activated = EntryOf(g).activated
  BY <1>1 DEF Entry
<1>3. /\ EntryOf(g).artifact.generation = g
      /\ EntryOf(g).state \in {"ACTIVE", "SUPERSEDED", "RETIRED"} => EntryOf(g).activated
      /\ EntryOf(g).activated =>
           EntryOf(g).state \in {"ACTIVE", "SUPERSEDED", "RETIRED", "REVOKED"}
      /\ EntryOf(g).state \in {"SUPERSEDED", "RETIRED"} =>
           fence # None /\ fence.active.generation # g
  BY <1>1 DEF LifecycleInv, EntryInv
<1>4. record.active # g
  BY <1>1 DEF LifecycleInv, OneActive
<1>5. record.lastSafe = g => EntryOf(g).activated
  BY FenceAssumption DEF LifecycleInv, LastSafeRetained
<1>6. record' = [record EXCEPT !.entries[g] = e]
  OBVIOUS
<1>7. e.state = "REVOKED" /\ e.activated => ~FenceUse(fence, SnapshotOf(e))
  <2> SUFFICES ASSUME e.state = "REVOKED", e.activated, FenceUse(fence, SnapshotOf(e))
               PROVE  FALSE
    OBVIOUS
  <2>1. fence.active.generation = g
    BY <1>2, <1>3 DEF FenceUse, SnapshotOf
  <2>2. EntryOf(g).state = "REVOKED"
    BY <1>2, <1>3, <2>1
  <2>3. SnapshotOf(e) = SnapshotOf(EntryOf(g))
    BY <1>2 DEF SnapshotOf
  <2> QED
    BY <1>1, <1>2, <2>2, <2>3 DEF LifecycleInv, RevokedNotServed
<1>8. e.artifact.generation = g
  BY <1>2, <1>3
<1>9. e.state \in {"STAGED", "ACTIVE"} => e.artifact.runtime
  BY <1>2 DEF RuntimeChecked
<1>10. e.state \in {"ACTIVE", "SUPERSEDED", "RETIRED"} => e.activated
  BY <1>2, <1>3
<1>11. e.activated => e.state \in {"ACTIVE", "SUPERSEDED", "RETIRED", "REVOKED"}
  BY <1>2
<1>12. e.state \in {"SUPERSEDED", "RETIRED"} =>
           fence # None /\ fence.active.generation # g
  BY <1>2, <1>3
<1>13. e.state = "ACTIVE" <=> record.active = g
  BY <1>2, <1>4
<1>14. record.lastSafe = g => e.activated /\ e.state # "RETIRED"
  BY <1>2, <1>5
<1> HIDE DEF e
<1> QED
  BY <1>2, <1>6, <1>7, <1>8, <1>9, <1>10, <1>11, <1>12, <1>13, <1>14, EntryWrite

(* validate, simulate, approve, stage, retire, and revoke of an entry that *)
(* is not active.                                                          *)
LEMMA SingleWriteStep ==
  ASSUME LifecycleInv, NEW g \in Generations,
         \/ Review(g) \/ Retire(g) \/ RevokeInactive(g)
  PROVE  LifecycleInv'
<1> DEFINE E == EntryOf(g)
           Changed(to, w, p) ==
             [record EXCEPT !.entries[g] =
                [E EXCEPT !.state = to, !.widening = w, !.approval = p]]
<1>0. ASSUME NEW S, In(g, S)
      PROVE  /\ E \in Entry /\ E # None /\ E.state \in S /\ record \in Record
             /\ E.widening \in BOOLEAN /\ E.approval \in Approvals \cup {None}
             /\ E.activated =>
                  E.state \in {"ACTIVE", "SUPERSEDED", "RETIRED", "REVOKED"}
  BY <1>0, InEntry DEF LifecycleInv, EntryInv, Entry
<1>1. ASSUME NEW S, In(g, S), NEW to \in EntryStates \ {"ACTIVE"}
      PROVE  Moved(record, g, to) = Changed(to, E.widening, E.approval)
  <2>1. /\ E \in Entry /\ record \in Record /\ E = record.entries[g]
    BY <1>1, InEntry
  <2>3. Moved(record, g, to) =
          [record EXCEPT !.entries[g] =
             [E EXCEPT !.state = to, !.activated = E.activated]]
    BY <2>1 DEF Moved, Record, Entry
  <2>4. [E EXCEPT !.state = to, !.activated = E.activated] =
          [E EXCEPT !.state = to, !.widening = E.widening, !.approval = E.approval]
    BY <2>1 DEF Entry
  <2> QED
    BY <2>3, <2>4
<1>2. CASE Validate(g)
  <2>1. In(g, {"DRAFT"}) /\ Widens(E) \in BOOLEAN
    BY <1>2 DEF Validate, Widens
  <2>2. E \in Entry /\ E.widening \in BOOLEAN /\ E.approval \in Approvals \cup {None}
        /\ E.state = "DRAFT" /\ ~E.activated /\ record \in Record
    BY <2>1, <1>0
  <2>3. Moved(record, g, "VALIDATED") = Changed("VALIDATED", E.widening, E.approval)
    BY <1>1, <2>1 DEF EntryStates
  <2>4. [Moved(record, g, "VALIDATED") EXCEPT !.entries[g].widening = Widens(E)]
          = Changed("VALIDATED", Widens(E), E.approval)
    <3>1. ASSUME NEW w
          PROVE  [Changed("VALIDATED", E.widening, E.approval)
                    EXCEPT !.entries[g].widening = w]
                   = Changed("VALIDATED", w, E.approval)
      BY <2>2, ZenonT(60) DEF Entry, Record
    <3> QED
      BY <2>3, <3>1
  <2>5. /\ doing = None /\ record' = Changed("VALIDATED", Widens(E), E.approval)
        /\ UNCHANGED <<fence, doing, trust, clock, faults, crashes>>
    BY <1>2, <2>4 DEF Validate, Write, Calm
  <2>9. "VALIDATED" \in EntryStates \ {"ACTIVE"} /\ RuntimeChecked(g, "VALIDATED")
    BY <2>1 DEF EntryStates, RuntimeChecked
  <2> QED
    BY <2>1, <2>2, <2>5, <2>9, MoveWrite
<1>3. CASE Simulate(g)
  <2>1. In(g, {"VALIDATED"})
    BY <1>3 DEF Simulate
  <2>2. E \in Entry /\ E.widening \in BOOLEAN /\ E.approval \in Approvals \cup {None}
        /\ E.state = "VALIDATED" /\ ~E.activated
    BY <2>1, <1>0
  <2>3. /\ doing = None /\ record' = Changed("SIMULATED", E.widening, E.approval)
        /\ UNCHANGED <<fence, doing, trust, clock, faults, crashes>>
    BY <1>1, <1>3, <2>1 DEF Simulate, EntryStates, Write, Calm
  <2>9. "SIMULATED" \in EntryStates \ {"ACTIVE"} /\ RuntimeChecked(g, "SIMULATED")
    BY <2>1 DEF EntryStates, RuntimeChecked
  <2> QED
    BY <2>1, <2>2, <2>3, <2>9, MoveWrite
<1>4. ASSUME NEW approval \in Approvals, Approve(g, approval)
      PROVE  LifecycleInv'
  <2>1. In(g, {"SIMULATED"})
    BY <1>4 DEF Approve
  <2>2. E \in Entry /\ E.widening \in BOOLEAN /\ E.approval \in Approvals \cup {None}
        /\ E.state = "SIMULATED" /\ ~E.activated
    BY <2>1, <1>0
  <2>3. [E EXCEPT !.approval = approval, !.state = "APPROVED"]
          = [E EXCEPT !.state = "APPROVED", !.widening = E.widening,
                      !.approval = approval]
    BY <2>2 DEF Entry
  <2>4. /\ doing = None /\ record' = Changed("APPROVED", E.widening, approval)
        /\ UNCHANGED <<fence, doing, trust, clock, faults, crashes>>
    BY <1>4, <2>3 DEF Approve, Write, Calm
  <2>9. "APPROVED" \in EntryStates \ {"ACTIVE"} /\ RuntimeChecked(g, "APPROVED")
    BY <2>1 DEF EntryStates, RuntimeChecked
  <2> QED
    BY <2>1, <2>2, <2>4, <2>9, MoveWrite
<1>5. CASE Stage(g)
  <2>1. In(g, {"APPROVED"}) /\ E.artifact.runtime
    BY <1>5 DEF Stage
  <2>2. E \in Entry /\ E.widening \in BOOLEAN /\ E.approval \in Approvals \cup {None}
        /\ E.state = "APPROVED" /\ ~E.activated
    BY <2>1, <1>0
  <2>3. /\ doing = None /\ record' = Changed("STAGED", E.widening, E.approval)
        /\ UNCHANGED <<fence, doing, trust, clock, faults, crashes>>
    BY <1>1, <1>5, <2>1 DEF Stage, EntryStates, Write, Calm
  <2>9. "STAGED" \in EntryStates \ {"ACTIVE"} /\ RuntimeChecked(g, "STAGED")
    BY <2>1 DEF EntryStates, RuntimeChecked
  <2> QED
    BY <2>2, <2>3, <2>9, MoveWrite
<1>6. CASE Retire(g)
  <2>1. In(g, {"SUPERSEDED"}) /\ record.lastSafe # g
    BY <1>6 DEF Retire
  <2>2. E \in Entry /\ E.widening \in BOOLEAN /\ E.approval \in Approvals \cup {None}
        /\ E.state = "SUPERSEDED"
    BY <2>1, <1>0
  <2>3. /\ doing = None /\ record' = Changed("RETIRED", E.widening, E.approval)
        /\ UNCHANGED <<fence, doing, trust, clock, faults, crashes>>
    BY <1>1, <1>6, <2>1 DEF Retire, EntryStates, Write, Calm
  <2>9. "RETIRED" \in EntryStates \ {"ACTIVE"} /\ RuntimeChecked(g, "RETIRED")
    BY <2>1 DEF EntryStates, RuntimeChecked
  <2> QED
    BY <2>1, <2>2, <2>3, <2>9, MoveWrite
<1>7. CASE RevokeInactive(g)
  <2>1. In(g, {"STAGED", "SUPERSEDED"})
    BY <1>7 DEF RevokeInactive
  <2>2. E \in Entry /\ E.widening \in BOOLEAN /\ E.approval \in Approvals \cup {None}
        /\ E.state \in {"STAGED", "SUPERSEDED"}
    BY <2>1, <1>0
  <2>3. /\ doing = None /\ record' = Changed("REVOKED", E.widening, E.approval)
        /\ UNCHANGED <<fence, doing, trust, clock, faults, crashes>>
    BY <1>1, <1>7, <2>1 DEF RevokeInactive, EntryStates, Write, Calm
  <2>9. "REVOKED" \in EntryStates \ {"ACTIVE"} /\ RuntimeChecked(g, "REVOKED")
    BY <2>1 DEF EntryStates, RuntimeChecked
  <2> QED
    BY <2>1, <2>2, <2>3, <2>9, MoveWrite
<1> QED
  BY <1>2, <1>3, <1>4, <1>5, <1>6, <1>7 DEF Review
-----------------------------------------------------------------------------
(* A complete rollout makes the active generation the last safe one.       *)
LEMMA ConfirmStep ==
  ASSUME LifecycleInv, NEW g \in Generations, RolloutConfirm(g)
  PROVE  LifecycleInv'
<1>1. /\ record \in Record /\ EntryOf(g) # None /\ EntryOf(g).state = "ACTIVE"
  BY InEntry DEF RolloutConfirm
<1>2. /\ record' \in Record /\ record'.active = record.active
      /\ record'.entries = record.entries /\ record'.lastSafe = g
      /\ doing = None /\ UNCHANGED <<fence, doing, trust, clock, faults, crashes>>
  BY <1>1 DEF RolloutConfirm, Write, Calm, Record
<1>3. EntryOf(g).activated
  BY <1>1 DEF LifecycleInv, EntryInv
<1>4. TypeOK' /\ CallInv'
  BY <1>2 DEF LifecycleInv, TypeOK, CallInv
<1>5. EntryInv'
  BY <1>2 DEF LifecycleInv, EntryInv, EntryOf
<1>6. OneActive'
  BY <1>2 DEF LifecycleInv, OneActive, EntryOf
<1>7. RevokedNotServed'
  BY <1>2 DEF LifecycleInv, RevokedNotServed, EntryOf, SnapshotOf, FenceUse
<1>8. LastSafeRetained'
  BY <1>1, <1>2, <1>3, FenceAssumption DEF LastSafeRetained, EntryOf
<1> QED
  BY <1>2, <1>4, <1>5, <1>6, <1>7, <1>8 DEF LifecycleInv

(* The fence is activated for a staged entry.                              *)
LEMMA ActivateFenceStep ==
  ASSUME LifecycleInv, NEW g \in Generations, ActivateFence(g)
  PROVE  LifecycleInv'
<1> DEFINE s == SnapshotOf(EntryOf(g))
<1>1. /\ record \in Record /\ EntryOf(g) \in Entry /\ EntryOf(g) # None
      /\ EntryOf(g).state = "STAGED"
  BY InEntry DEF ActivateFence
<1>2. /\ fence' = FenceActivated(fence, s) /\ doing = None
      /\ doing'.op = "activate" /\ doing'.generation = g
      /\ doing' \in Call
      /\ UNCHANGED <<record, trust, clock, faults, crashes>>
  BY DEF ActivateFence, Begin, Calm, Call, LifecycleInv, TypeOK
<1>3. EntryOf(g).artifact \in Artifact /\ EntryOf(g).artifact.generation = g
  BY <1>1, LifecycleAssumption DEF Entry, LifecycleInv, EntryInv
<1>4. s \in Snapshot /\ s.generation = g
  BY <1>3 DEF SnapshotOf, Snapshot, Artifact
<1>5. fence \in FenceRecord \cup {None}
  BY DEF LifecycleInv, TypeOK
<1>6. fence' \in FenceRecord /\ fence'.active = s /\ fence' # None
  BY <1>2, <1>4, <1>5, NoFenceRecord DEF FenceActivated, FenceRecord, Snapshot
<1>7. TypeOK'
  BY <1>2, <1>6 DEF LifecycleInv, TypeOK
<1>8. EntryInv'
  BY <1>1, <1>2, <1>4, <1>6 DEF LifecycleInv, EntryInv, EntryOf
<1>9. CallInv'
  BY <1>1, <1>2, <1>6 DEF CallInv, EntryOf, SnapshotOf
<1>10. OneActive' /\ LastSafeRetained'
  BY <1>2 DEF LifecycleInv, OneActive, LastSafeRetained, EntryOf
<1>11. RevokedNotServed'
  <2> SUFFICES ASSUME NEW h \in Generations, EntryOf(h) # None,
                      EntryOf(h).state = "REVOKED",
                      FenceUse(fence', SnapshotOf(EntryOf(h)))
               PROVE  FALSE
    BY <1>2 DEF RevokedNotServed, EntryOf, SnapshotOf
  <2>1. EntryOf(h).artifact.generation = h
    BY DEF LifecycleInv, EntryInv
  <2>2. SnapshotOf(EntryOf(h)) = s
    BY <1>6 DEF FenceUse
  <2> QED
    BY <1>1, <1>4, <2>1, <2>2 DEF SnapshotOf
<1> QED
  BY <1>2, <1>6, <1>7, <1>8, <1>9, <1>10, <1>11 DEF LifecycleInv

(* The fence is frozen before the record is.                               *)
LEMMA FreezeFenceStep ==
  ASSUME LifecycleInv, NEW g \in Generations, RevokeFence(g) \/ RolloutFreeze(g)
  PROVE  LifecycleInv'
<1>1. In(g, {"ACTIVE"}) /\ doing = None /\ fence' = FenceFrozen(fence)
      /\ UNCHANGED <<record, trust, clock, faults, crashes>>
      /\ doing'.op # "activate" /\ doing'.generation = g
      /\ doing' \in Call
  BY DEF RevokeFence, RolloutFreeze, Begin, Calm, Call, LifecycleInv, TypeOK
<1>2. record.active = g /\ fence # None /\ fence \in FenceRecord
      /\ EntryOf(g) # None
  BY <1>1, InEntry, FenceAssumption DEF LifecycleInv, OneActive, TypeOK
<1>3. /\ fence' \in FenceRecord /\ fence' # None /\ fence'.active = fence.active
      /\ fence'.status = "FROZEN"
  BY <1>1, <1>2, NoFenceRecord DEF FenceFrozen, FenceRecord
<1>4. TypeOK'
  BY <1>1, <1>3 DEF LifecycleInv, TypeOK
<1>5. EntryInv'
  BY <1>1, <1>3 DEF LifecycleInv, EntryInv, EntryOf
<1>6. CallInv'
  BY <1>1, <1>2, <1>3 DEF CallInv, EntryOf
<1>7. OneActive' /\ LastSafeRetained'
  BY <1>1 DEF LifecycleInv, OneActive, LastSafeRetained, EntryOf
<1>8. RevokedNotServed'
  BY <1>3 DEF RevokedNotServed, FenceUse
<1> QED
  BY <1>1, <1>3, <1>4, <1>5, <1>6, <1>7, <1>8 DEF LifecycleInv

(* A call that ends without writing the record: a replayed operation id, a *)
(* failed write, or a crash.  The fence stays, or is frozen.               *)
LEMMA AbandonStep ==
  ASSUME LifecycleInv, DenyReplayed \/ FinishThrows \/ Crash
  PROVE  LifecycleInv'
<1>1. /\ doing # None /\ doing' = None
      /\ UNCHANGED <<record, trust, clock>>
      /\ fence' = fence \/ fence' = FenceFrozen(fence)
      /\ faults' \in Nat /\ crashes' \in Nat
  BY DEF DenyReplayed, FinishThrows, Crash, LifecycleInv, TypeOK
<1>2. fence # None /\ fence \in FenceRecord
  BY <1>1 DEF LifecycleInv, CallInv, TypeOK
<1>3. /\ fence' \in FenceRecord /\ fence' # None /\ fence'.active = fence.active
      /\ fence'.status = "ACTIVE" => fence.status = "ACTIVE"
  BY <1>1, <1>2, NoFenceRecord DEF FenceFrozen, FenceRecord
<1>4. TypeOK' /\ CallInv'
  BY <1>1, <1>3 DEF LifecycleInv, TypeOK, CallInv
<1>5. EntryInv'
  BY <1>1, <1>3 DEF LifecycleInv, EntryInv, EntryOf
<1>6. OneActive' /\ LastSafeRetained'
  BY <1>1 DEF LifecycleInv, OneActive, LastSafeRetained, EntryOf
<1>7. RevokedNotServed'
  BY <1>1, <1>2, <1>3
     DEF LifecycleInv, RevokedNotServed, FenceUse, EntryOf, SnapshotOf
<1> QED
  BY <1>1, <1>3, <1>4, <1>5, <1>6, <1>7 DEF LifecycleInv

(* The trust store and the clock are not part of what the invariant says.  *)
LEMMA SurroundingStep ==
  ASSUME LifecycleInv, TrustDrift \/ Tick \/ UNCHANGED vars
  PROVE  LifecycleInv'
<1>1. /\ UNCHANGED <<record, fence, doing, faults, crashes>>
      /\ trust' \in Nat /\ clock' \in Nat
  BY DEF TrustDrift, Tick, vars, LifecycleInv, TypeOK
<1> QED
  BY <1>1 DEF LifecycleInv, TypeOK, EntryInv, CallInv, OneActive,
              RevokedNotServed, LastSafeRetained, EntryOf, SnapshotOf, FenceUse

-----------------------------------------------------------------------------
(* What the second half of an activation writes.                           *)
LEMMA ActivatedFacts ==
  ASSUME LifecycleInv, doing # None, doing.op = "activate",
         record' = Finished(record, doing)
  PROVE  /\ record' \in Record
         /\ record'.active = doing.generation /\ record'.dispatch = "ACTIVE"
         /\ record'.lastSafe =
              IF record.active = None THEN doing.generation ELSE record.active
         /\ EntryOf(doing.generation) \in Entry
         /\ record.active # doing.generation
         /\ record'.entries[doing.generation] =
              [EntryOf(doing.generation) EXCEPT !.state = "ACTIVE", !.activated = TRUE]
         /\ record.active # None =>
              /\ EntryOf(record.active) \in Entry
              /\ EntryOf(record.active) # None
              /\ EntryOf(record.active).state = "ACTIVE"
              /\ record'.entries[record.active] =
                   [EntryOf(record.active) EXCEPT !.state = "SUPERSEDED"]
         /\ \A h \in Generations : h \notin {doing.generation, record.active} =>
              record'.entries[h] = record.entries[h]
<1> DEFINE g == doing.generation
           h == record.active
           mid == Superseded(record)
<1>1. /\ record \in Record /\ g \in Generations /\ h \in Generations \cup {None}
      /\ doing \in Call
  BY DEF LifecycleInv, TypeOK, Record, Call
<1>2. /\ EntryOf(g) \in Entry /\ EntryOf(g).state = "STAGED"
      /\ EntryOf(g) = record.entries[g]
  BY <1>1 DEF LifecycleInv, CallInv, EntryOf, Record
<1>3. h # g
  BY <1>1, <1>2 DEF LifecycleInv, OneActive, CallInv
<1>4. h # None =>
        /\ EntryOf(h) # None /\ EntryOf(h).state = "ACTIVE" /\ EntryOf(h) \in Entry
        /\ EntryOf(h) = record.entries[h]
  BY <1>1 DEF LifecycleInv, OneActive, EntryOf, Record
<1>5. /\ mid \in Record /\ mid.entries[g] = record.entries[g]
      /\ mid.lastSafe = record.lastSafe
      /\ h # None => mid.entries[h] = [EntryOf(h) EXCEPT !.state = "SUPERSEDED"]
      /\ \A k \in Generations : k # h => mid.entries[k] = record.entries[k]
  <2>1. CASE h = None
    BY <1>1, <2>1 DEF Superseded
  <2>2. CASE h # None
    <3>1. mid = [record EXCEPT !.entries[h] = [EntryOf(h) EXCEPT !.state = "SUPERSEDED"]]
      BY <1>1, <1>4, <2>2 DEF Superseded, Record, Entry
    <3>2. [EntryOf(h) EXCEPT !.state = "SUPERSEDED"] \in Entry
      BY <1>4, <2>2 DEF Entry, EntryStates
    <3> QED
      BY <1>1, <1>3, <2>2, <3>1, <3>2 DEF Record
  <2> QED
    BY <2>1, <2>2
<1>6. record' = [Moved(mid, g, "ACTIVE") EXCEPT
                   !.active = g, !.dispatch = "ACTIVE",
                   !.lastSafe = IF h = None THEN g ELSE h]
  BY DEF Finished
<1>7. [EntryOf(g) EXCEPT !.state = "ACTIVE", !.activated = TRUE] \in Entry
  BY <1>2 DEF Entry, EntryStates
<1>8. Moved(mid, g, "ACTIVE") =
        [mid EXCEPT !.entries[g] =
           [EntryOf(g) EXCEPT !.state = "ACTIVE", !.activated = TRUE]]
  BY <1>1, <1>2, <1>5 DEF Moved, Record, Entry
<1> HIDE DEF mid
<1>9. Moved(mid, g, "ACTIVE") \in Record
  BY <1>1, <1>5, <1>7, <1>8 DEF Record
<1>10. /\ record' \in Record /\ record'.active = g /\ record'.dispatch = "ACTIVE"
       /\ record'.lastSafe = (IF h = None THEN g ELSE h)
       /\ record'.entries = Moved(mid, g, "ACTIVE").entries
  BY <1>1, <1>6, <1>9 DEF Record
<1>11. /\ record'.entries[g] =
            [EntryOf(g) EXCEPT !.state = "ACTIVE", !.activated = TRUE]
       /\ \A k \in Generations : k # g => record'.entries[k] = mid.entries[k]
  BY <1>1, <1>5, <1>8, <1>10 DEF Record
<1> QED
  BY <1>1, <1>2, <1>3, <1>4, <1>5, <1>10, <1>11

(* The record follows the fence: the entry becomes ACTIVE and the previous *)
(* one SUPERSEDED.                                                         *)
LEMMA FinishActivateStep ==
  ASSUME LifecycleInv, FinishCall, doing.op = "activate"
  PROVE  LifecycleInv'
<1> DEFINE g == doing.generation
           h == record.active
<1>1. /\ doing # None /\ record' = Finished(record, doing) /\ doing' = None
      /\ UNCHANGED <<fence, trust, clock, faults, crashes>>
  BY DEF FinishCall
<1>2. /\ record' \in Record /\ record'.active = g
      /\ record'.lastSafe = (IF h = None THEN g ELSE h)
      /\ EntryOf(g) \in Entry /\ h # g
      /\ record'.entries[g] =
           [EntryOf(g) EXCEPT !.state = "ACTIVE", !.activated = TRUE]
      /\ h # None =>
           /\ EntryOf(h) \in Entry /\ EntryOf(h) # None /\ EntryOf(h).state = "ACTIVE"
           /\ record'.entries[h] = [EntryOf(h) EXCEPT !.state = "SUPERSEDED"]
      /\ \A k \in Generations : k \notin {g, h} => record'.entries[k] = record.entries[k]
  BY <1>1, ActivatedFacts
<1>3. /\ g \in Generations /\ h \in Generations \cup {None}
      /\ EntryOf(g) # None /\ EntryOf(g).state = "STAGED" /\ fence # None
      /\ fence.active = SnapshotOf(EntryOf(g))
  BY <1>1 DEF LifecycleInv, TypeOK, Call, Record, CallInv
<1>4. /\ record'.entries[g] # None /\ record'.entries[g].state = "ACTIVE"
      /\ record'.entries[g].activated
      /\ record'.entries[g].artifact = EntryOf(g).artifact
  <2>1. [EntryOf(g) EXCEPT !.state = "ACTIVE", !.activated = TRUE] \in Entry
    BY <1>2 DEF Entry, EntryStates
  <2>2. record'.entries[g].activated = TRUE
    BY <1>2 DEF Entry
  <2>3. record'.entries[g].activated
    BY <2>2
  <2>4. /\ record'.entries[g].state = "ACTIVE"
        /\ record'.entries[g].artifact = EntryOf(g).artifact
    BY <1>2 DEF Entry
  <2> QED
    BY <1>2, <2>1, <2>3, <2>4, NoLifecycleRecord
<1>5. h # None =>
        /\ record'.entries[h] # None /\ record'.entries[h].state = "SUPERSEDED"
        /\ record'.entries[h].activated = EntryOf(h).activated
        /\ record'.entries[h].artifact = EntryOf(h).artifact
  BY <1>2, NoLifecycleRecord DEF Entry, EntryStates
<1>6. /\ EntryOf(g).artifact.generation = g /\ EntryOf(g).artifact.runtime
      /\ fence.active.generation = g
  BY <1>3 DEF LifecycleInv, EntryInv, SnapshotOf
<1>7. h # None => EntryOf(h).artifact.generation = h /\ EntryOf(h).activated
  BY <1>2, <1>3 DEF LifecycleInv, EntryInv
<1>8. TypeOK' /\ CallInv'
  BY <1>1, <1>2 DEF LifecycleInv, TypeOK, CallInv
<1>9. ASSUME NEW k \in Generations, record'.entries[k] # None
      PROVE  LET e == record'.entries[k]
             IN  /\ e.artifact.generation = k
                 /\ e.state \in {"STAGED", "ACTIVE"} => e.artifact.runtime
                 /\ e.state \in {"ACTIVE", "SUPERSEDED", "RETIRED"} => e.activated
                 /\ e.activated =>
                      e.state \in {"ACTIVE", "SUPERSEDED", "RETIRED", "REVOKED"}
                 /\ e.state \in {"SUPERSEDED", "RETIRED"} =>
                      fence # None /\ fence.active.generation # k
  <2>1. CASE k = g
    BY <1>4, <1>6, <2>1
  <2>2. CASE k = h /\ h # None
    BY <1>2, <1>3, <1>5, <1>6, <1>7, <2>2
  <2>3. CASE k \notin {g, h}
    BY <1>2, <1>9, <2>3 DEF LifecycleInv, EntryInv, EntryOf
  <2> QED
    BY <2>1, <2>2, <2>3, FenceAssumption
<1>10. EntryInv'
  BY <1>1, <1>9 DEF EntryInv, EntryOf
<1>11. OneActive'
  <2> SUFFICES ASSUME NEW k \in Generations
               PROVE  (record'.entries[k] # None /\ record'.entries[k].state = "ACTIVE")
                        <=> k = g
    BY <1>2 DEF OneActive, EntryOf
  <2>1. CASE k = g
    BY <1>4, <2>1
  <2>2. CASE k = h /\ h # None
    BY <1>2, <1>5, <2>2
  <2>3. CASE k \notin {g, h}
    BY <1>2, <2>3 DEF LifecycleInv, OneActive, EntryOf
  <2> QED
    BY <2>1, <2>2, <2>3, FenceAssumption
<1>12. RevokedNotServed'
  <2> SUFFICES ASSUME NEW k \in Generations, record'.entries[k] # None,
                      record'.entries[k].state = "REVOKED",
                      FenceUse(fence, SnapshotOf(record'.entries[k]))
               PROVE  FALSE
    BY <1>1 DEF RevokedNotServed, EntryOf, FenceUse, SnapshotOf
  <2>1. fence.active.generation = k
    BY <1>9 DEF FenceUse, SnapshotOf
  <2> QED
    BY <1>4, <1>6, <2>1
<1>13. LastSafeRetained'
  BY <1>2, <1>3, <1>4, <1>5, <1>7, ZenonT(60) DEF LastSafeRetained, EntryOf
<1> QED
  BY <1>1, <1>3, <1>8, <1>10, <1>11, <1>12, <1>13 DEF LifecycleInv

(* The second half of a revocation, or of a divergent rollout report.      *)
LEMMA FinishFreezeStep ==
  ASSUME LifecycleInv, FinishCall, doing.op # "activate"
  PROVE  LifecycleInv'
<1> DEFINE g == doing.generation
<1>1. /\ doing # None /\ record' = Finished(record, doing) /\ doing' = None
      /\ UNCHANGED <<fence, trust, clock, faults, crashes>>
  BY DEF FinishCall
<1>2. /\ record \in Record /\ g \in Generations /\ doing.op \in {"revoke", "freeze"}
  BY <1>1 DEF LifecycleInv, TypeOK, Call
<1>3. /\ EntryOf(g) # None /\ record.active = g /\ fence # None
      /\ fence.status = "FROZEN"
  BY <1>1 DEF LifecycleInv, CallInv
<1>4. /\ EntryOf(g) \in Entry /\ EntryOf(g) = record.entries[g]
      /\ EntryOf(g).state = "ACTIVE"
  BY <1>2, <1>3 DEF LifecycleInv, OneActive, EntryOf, Record
<1>5. CASE doing.op = "freeze"
  <2>1. record' = [record EXCEPT !.dispatch = "FROZEN"]
    BY <1>1, <1>5 DEF Finished
  <2>2. /\ record' \in Record /\ record'.active = record.active
        /\ record'.entries = record.entries /\ record'.lastSafe = record.lastSafe
    BY <1>2, <2>1 DEF Record
  <2> QED
    BY <1>1, <2>2 DEF LifecycleInv, TypeOK, EntryInv, CallInv, OneActive,
                      RevokedNotServed, LastSafeRetained, EntryOf, SnapshotOf, FenceUse
<1>6. CASE doing.op = "revoke"
  <2> DEFINE e == [EntryOf(g) EXCEPT !.state = "REVOKED"]
             safe == IF record.lastSafe = g THEN None ELSE record.lastSafe
  <2>1. e \in Entry /\ e.state = "REVOKED" /\ e.artifact = EntryOf(g).artifact
        /\ e.activated = EntryOf(g).activated /\ e # None
    BY <1>4, NoLifecycleRecord DEF Entry, EntryStates
  <2>2. Moved(record, g, "REVOKED") = [record EXCEPT !.entries[g] = e]
    BY <1>2, <1>4, ZenonT(90) DEF Moved, Record, Entry
  <2>3. Moved(record, g, "REVOKED") \in Record
    BY <1>2, <2>1, <2>2 DEF Record
  <2>4. record' = [Moved(record, g, "REVOKED") EXCEPT
                     !.active = None, !.dispatch = "FROZEN",
                     !.lastSafe = IF @ = g THEN None ELSE @]
    BY <1>1, <1>6 DEF Finished
  <2>5. /\ record' \in Record /\ record'.active = None /\ record'.lastSafe = safe
        /\ record'.entries[g] = e
        /\ \A k \in Generations : k # g => record'.entries[k] = record.entries[k]
    BY <1>2, <2>1, <2>2, <2>3, <2>4, ZenonT(60) DEF Record
  <2> HIDE DEF e
  <2>6. TypeOK' /\ CallInv'
    BY <1>1, <2>5 DEF LifecycleInv, TypeOK, CallInv
  <2>7. EntryInv'
    BY <1>1, <1>3, <1>4, <2>1, <2>5 DEF LifecycleInv, EntryInv, EntryOf
  <2>8. OneActive'
    BY <1>2, <1>3, <2>1, <2>5, FenceAssumption DEF LifecycleInv, OneActive, EntryOf
  <2>9. RevokedNotServed'
    BY <1>1, <1>3 DEF RevokedNotServed, FenceUse
  <2>10. LastSafeRetained'
    BY <1>2, <2>5, FenceAssumption DEF LifecycleInv, LastSafeRetained, EntryOf, Record
  <2> QED
    BY <2>5, <2>6, <2>7, <2>8, <2>9, <2>10 DEF LifecycleInv
<1> QED
  BY <1>2, <1>5, <1>6

(* Every step keeps the invariant.                                         *)
LEMMA NextInv == LifecycleInv /\ [Next]_vars => LifecycleInv'
<1> SUFFICES ASSUME LifecycleInv, [Next]_vars PROVE LifecycleInv'
  OBVIOUS
<1>1. ASSUME NEW a \in Artifacts, Draft(a) PROVE LifecycleInv'
  BY <1>1, DraftStep
<1>2. ASSUME NEW g \in Generations, Review(g) \/ Retire(g) \/ RevokeInactive(g)
      PROVE  LifecycleInv'
  BY <1>2, SingleWriteStep
<1>3. ASSUME NEW g \in Generations, ActivateFence(g) PROVE LifecycleInv'
  BY <1>3, ActivateFenceStep
<1>4. ASSUME NEW g \in Generations, RevokeFence(g) \/ RolloutFreeze(g)
      PROVE  LifecycleInv'
  BY <1>4, FreezeFenceStep
<1>5. ASSUME NEW g \in Generations, RolloutConfirm(g) PROVE LifecycleInv'
  BY <1>5, ConfirmStep
<1>6. CASE FinishCall
  BY <1>6, FinishActivateStep, FinishFreezeStep
<1>7. CASE DenyReplayed \/ FinishThrows \/ Crash
  BY <1>7, AbandonStep
<1>8. CASE TrustDrift \/ Tick \/ UNCHANGED vars
  BY <1>8, SurroundingStep
<1> QED
  BY <1>1, <1>2, <1>3, <1>4, <1>5, <1>6, <1>7, <1>8 DEF Next

-----------------------------------------------------------------------------
(***************************************************************************)
(* LifecycleInv holds in every state of every behaviour: the record, the   *)
(* fence and a call between its two writes stay consistent.                *)
(***************************************************************************)
THEOREM LifecycleInvariant == Spec => []LifecycleInv
  BY InitInv, NextInv, PTL DEF Spec

(***************************************************************************)
(* TypeOK holds in every state: the manager writes only records and fence  *)
(* records of the documented shape.                                        *)
(***************************************************************************)
THEOREM LifecycleTypeCorrect == Spec => []TypeOK
<1>1. LifecycleInv => TypeOK
  BY DEF LifecycleInv
<1> QED
  BY <1>1, LifecycleInvariant, PTL

(***************************************************************************)
(* Exactly the entry the record names as active is ACTIVE (activate(),     *)
(* revoke()).                                                              *)
(***************************************************************************)
THEOREM SingleActive == Spec => []OneActive
<1>1. LifecycleInv => OneActive
  BY DEF LifecycleInv
<1> QED
  BY <1>1, LifecycleInvariant, PTL

(***************************************************************************)
(* A generation that was active and is recorded as REVOKED is not served   *)
(* by the fence (revoke()).                                                *)
(***************************************************************************)
THEOREM RevocationHolds == Spec => []RevokedNotServed
<1>1. LifecycleInv => RevokedNotServed
  BY DEF LifecycleInv
<1> QED
  BY <1>1, LifecycleInvariant, PTL

(***************************************************************************)
(* The last safe generation exists while a policy is active, was active    *)
(* itself, and is not retired (activate(), retire(), revoke()).            *)
(***************************************************************************)
THEOREM LastSafeExists == Spec => []LastSafeRetained
<1>1. LifecycleInv => LastSafeRetained
  BY DEF LifecycleInv
<1> QED
  BY <1>1, LifecycleInvariant, PTL

(* Only FinishCall names another active generation.                        *)
LEMMA ActiveChange ==
  ASSUME LifecycleInv, [Next]_vars, record'.active # record.active
  PROVE  FinishCall
<1>1. record \in Record
  BY DEF LifecycleInv, TypeOK
<1>2. ASSUME NEW a \in Artifacts, Draft(a) PROVE FALSE
  BY <1>1, <1>2 DEF Draft, Write, Record
<1>3. ASSUME NEW g \in Generations, Review(g) \/ Retire(g) \/ RevokeInactive(g)
      PROVE  FALSE
  BY <1>1, <1>3 DEF Review, Validate, Simulate, Approve, Stage, Retire,
                    RevokeInactive, Write, Moved, Record
<1>4. ASSUME NEW g \in Generations,
             \/ ActivateFence(g) \/ RevokeFence(g) \/ RolloutFreeze(g)
      PROVE  FALSE
  BY <1>4 DEF ActivateFence, RevokeFence, RolloutFreeze, Begin
<1>5. ASSUME NEW g \in Generations, RolloutConfirm(g) PROVE FALSE
  BY <1>1, <1>5 DEF RolloutConfirm, Write, Record
<1>6. CASE DenyReplayed \/ FinishThrows \/ Crash \/ TrustDrift \/ Tick \/ UNCHANGED vars
  BY <1>6 DEF DenyReplayed, FinishThrows, Crash, TrustDrift, Tick, vars
<1> QED
  BY <1>2, <1>3, <1>4, <1>5, <1>6 DEF Next

(* The policies an activation replaces and installs give one authority.    *)
LEMMA WideningStep ==
  ASSUME LifecycleInv, [Next]_vars, record.active # None,
         record'.active \notin {None, record.active}
  PROVE  record'.entries[record'.active].artifact.rank
           <= EntryOf(record.active).artifact.rank
<1>1. FinishCall
  BY ActiveChange
<1>2. doing # None /\ record' = Finished(record, doing) /\ doing \in Call
  BY <1>1 DEF FinishCall, LifecycleInv, TypeOK
<1>3. CASE doing.op = "activate"
  <2> DEFINE g == doing.generation
             h == record.active
  <2>1. /\ record'.active = g /\ EntryOf(g) \in Entry
        /\ record'.entries[g] =
             [EntryOf(g) EXCEPT !.state = "ACTIVE", !.activated = TRUE]
        /\ EntryOf(h) \in Entry /\ EntryOf(h) # None /\ EntryOf(h).state = "ACTIVE"
    BY <1>2, <1>3, ActivatedFacts
  <2>2. record'.entries[g].artifact = EntryOf(g).artifact
    BY <2>1 DEF Entry
  <2>3. g \in Generations /\ h \in Generations
    BY <1>2 DEF Call, LifecycleInv, TypeOK, Record
  <2>4. EntryOf(g) # None /\ EntryOf(g).state = "STAGED"
    BY <1>2, <1>3 DEF LifecycleInv, CallInv
  <2>5. EntryOf(g).artifact.runtime /\ EntryOf(h).artifact.runtime
    BY <2>1, <2>3, <2>4 DEF LifecycleInv, EntryInv
  <2>6. EntryOf(g).artifact \in Artifacts /\ EntryOf(h).artifact \in Artifacts
    BY <2>1 DEF Entry
  <2>7. EntryOf(g).artifact.rank = EntryOf(h).artifact.rank
    BY <2>5, <2>6, LifecycleAssumption
  <2>8. EntryOf(g).artifact.rank \in Nat
    BY <2>6, LifecycleAssumption, SMTT(60) DEF Artifact
  <2> QED
    BY <2>1, <2>2, <2>7, <2>8
<1>4. CASE doing.op = "revoke"
  BY <1>2, <1>4 DEF Finished, Moved, LifecycleInv, TypeOK, Record
<1>5. CASE doing.op = "freeze"
  BY <1>2, <1>5 DEF Finished, LifecycleInv, TypeOK, Record
<1> QED
  BY <1>2, <1>3, <1>4, <1>5 DEF Call

(***************************************************************************)
(* Activation never widens authority without the owner's consent, although *)
(* the diff is not taken again after validate() (stage(), activate()).     *)
(***************************************************************************)
THEOREM WideningNeedsApproval == Spec => NoUnapprovedWidening
<1>1. LifecycleInv /\ [Next]_vars =>
        [record.active # None /\ record'.active \notin {None, record.active} =>
           LET new == record'.entries[record'.active]
           IN  \/ new.artifact.rank <= EntryOf(record.active).artifact.rank
               \/ new.approval.allowWidening]_vars
  BY WideningStep
<1> QED
  BY <1>1, LifecycleInvariant, PTL DEF Spec, NoUnapprovedWidening

-----------------------------------------------------------------------------
(* A step that leaves the fence, the call and the active entry's artifact  *)
(* alone is invisible to PolicyWindow.                                     *)
LEMMA KeepWindow ==
  ASSUME LifecycleInv, UNCHANGED <<fence, doing>>,
         record'.dispatch = record.dispatch, record'.active = record.active,
         record.active # None =>
           record'.entries[record.active].artifact
             = record.entries[record.active].artifact
  PROVE  High' = High /\ Phase' = Phase
<1>1. High' = High
  BY DEF High
<1>2. ASSUME NEW g \in Generations PROVE Usable(g)' <=> Usable(g)
  <2>1. CASE record.active = g
    <3>1. record.active # None
      BY <2>1, FenceAssumption
    <3>2. SnapshotOf(record'.entries[g]) = SnapshotOf(record.entries[g])
      BY <2>1, <3>1 DEF SnapshotOf
    <3> QED
      BY <3>2 DEF Usable, FenceUse, EntryOf
  <2>2. CASE record.active # g
    BY <2>2 DEF Usable
  <2> QED
    BY <2>1, <2>2
<1>3. (\E g \in Generations : Usable(g))' <=> (\E g \in Generations : Usable(g))
  BY <1>2
<1> QED
  BY <1>1, <1>3 DEF Phase

(* A transition keeps the artifact of its entry.                           *)
LEMMA MovedKeeps ==
  ASSUME NEW r \in Record, NEW g \in Generations, r.entries[g] \in Entry,
         NEW to \in EntryStates
  PROVE  /\ Moved(r, g, to).active = r.active
         /\ Moved(r, g, to).dispatch = r.dispatch
         /\ \A h \in Generations :
              r.entries[h] # None =>
                /\ Moved(r, g, to).entries[h] \in Entry
                /\ Moved(r, g, to).entries[h].artifact = r.entries[h].artifact
<1> DEFINE flag == IF to = "ACTIVE" THEN TRUE ELSE r.entries[g].activated
           e == [r.entries[g] EXCEPT !.state = to, !.activated = flag]
<1>1. Moved(r, g, to) = [r EXCEPT !.entries[g] = e]
  BY MovedFacts
<1>2. flag \in BOOLEAN
  BY DEF Entry
<1> HIDE DEF flag
<1>3. e \in Entry /\ e.artifact = r.entries[g].artifact
  BY <1>2 DEF Entry
<1> HIDE DEF e
<1> QED
  BY <1>1, <1>3 DEF Record

(* The writes of the record alone.                                         *)
LEMMA WriteKeepsWindow ==
  ASSUME LifecycleInv,
         \/ \E a \in Artifacts : Draft(a)
         \/ \E g \in Generations :
              Review(g) \/ Retire(g) \/ RevokeInactive(g) \/ RolloutConfirm(g)
  PROVE  High' = High /\ Phase' = Phase
<1>0. record \in Record
  BY DEF LifecycleInv, TypeOK
<1>1. UNCHANGED <<fence, doing>>
  BY DEF Draft, Review, Validate, Simulate, Approve, Stage, Retire,
         RevokeInactive, RolloutConfirm, Write
<1>a. record.active # None =>
        record.active \in Generations /\ record.entries[record.active] # None
  BY <1>0 DEF LifecycleInv, OneActive, EntryOf, Record
<1> SUFFICES /\ record'.dispatch = record.dispatch /\ record'.active = record.active
             /\ record.active # None =>
                  record'.entries[record.active].artifact
                    = record.entries[record.active].artifact
  BY <1>1, KeepWindow
<1>2. ASSUME NEW a \in Artifacts, Draft(a)
      PROVE  /\ record'.dispatch = record.dispatch /\ record'.active = record.active
             /\ record.active # None =>
                  record'.entries[record.active].artifact
                    = record.entries[record.active].artifact
  <2>1. a.generation \in Generations
    BY LifecycleAssumption DEF Artifact
  <2>2. record.entries[a.generation] = None
    BY <1>2, <2>1, FenceAssumption DEF Draft, EntryOf
  <2> QED
    BY <1>0, <1>a, <1>2, <2>1, <2>2 DEF Draft, Write, Record
<1>4. ASSUME NEW g \in Generations, NEW p \in Approvals, Approve(g, p)
      PROVE  /\ record'.dispatch = record.dispatch /\ record'.active = record.active
             /\ record.active # None =>
                  record'.entries[record.active].artifact
                    = record.entries[record.active].artifact
  <2>1. record.entries[g] \in Entry
    BY <1>0, <1>4 DEF Approve, In, EntryOf, Record
  <2> QED
    BY <1>0, <1>a, <1>4, <2>1 DEF Approve, Write, Record, EntryOf, Entry
<1>5. ASSUME NEW g \in Generations, RolloutConfirm(g)
      PROVE  /\ record'.dispatch = record.dispatch /\ record'.active = record.active
             /\ record'.entries = record.entries
  BY <1>0, <1>5 DEF RolloutConfirm, Write, Record
<1>6. ASSUME NEW g \in Generations, Validate(g)
      PROVE  /\ record'.dispatch = record.dispatch /\ record'.active = record.active
             /\ record.active # None =>
                  record'.entries[record.active].artifact
                    = record.entries[record.active].artifact
  <2>1. record.entries[g] \in Entry
    BY <1>0, <1>6 DEF Validate, In, EntryOf, Record
  <2>2. Moved(record, g, "VALIDATED") \in Record
    BY <1>0, <2>1, MovedFacts DEF EntryStates
  <2>3. PICK w : record' = [Moved(record, g, "VALIDATED") EXCEPT !.entries[g].widening = w]
    BY <1>6 DEF Validate, Write
  <2>4. /\ record'.dispatch = Moved(record, g, "VALIDATED").dispatch
        /\ record'.active = Moved(record, g, "VALIDATED").active
        /\ \A h \in Generations : Moved(record, g, "VALIDATED").entries[h] \in Entry =>
             record'.entries[h].artifact = Moved(record, g, "VALIDATED").entries[h].artifact
    BY <2>2, <2>3 DEF Record, Entry
  <2> QED
    BY <1>0, <1>a, <2>1, <2>4, MovedKeeps, SMTT(90) DEF EntryStates
<1>7. ASSUME NEW g \in Generations, NEW to \in EntryStates,
             EntryOf(g) # None, Write(Moved(record, g, to))
      PROVE  /\ record'.dispatch = record.dispatch /\ record'.active = record.active
             /\ record.active # None =>
                  record'.entries[record.active].artifact
                    = record.entries[record.active].artifact
  <2>1. record.entries[g] \in Entry
    BY <1>0, <1>7 DEF EntryOf, Record
  <2> QED
    BY <1>0, <1>a, <1>7, <2>1, MovedKeeps DEF Write
<1>8. ASSUME NEW g \in Generations,
             Simulate(g) \/ Stage(g) \/ Retire(g) \/ RevokeInactive(g)
      PROVE  EntryOf(g) # None /\ \E to \in EntryStates : Write(Moved(record, g, to))
  BY <1>8 DEF Simulate, Stage, Retire, RevokeInactive, In, EntryStates
<1> QED
  BY <1>2, <1>4, <1>5, <1>6, <1>7, <1>8 DEF Review

(* While the fence is on a STAGED generation nothing can be used.          *)
LEMMA StagedUnusable ==
  ASSUME LifecycleInv, NEW g \in Generations, In(g, {"STAGED"}), NEW f,
         f.active = SnapshotOf(EntryOf(g)), NEW h \in Generations
  PROVE  ~(record.active = h /\ FenceUse(f, SnapshotOf(EntryOf(h))))
<1> SUFFICES ASSUME record.active = h, FenceUse(f, SnapshotOf(EntryOf(h))) PROVE FALSE
  OBVIOUS
<1>1. EntryOf(h) # None /\ EntryOf(h).state = "ACTIVE"
  BY DEF LifecycleInv, OneActive
<1>2. EntryOf(g) # None /\ EntryOf(g).state = "STAGED"
  BY DEF In
<1>3. SnapshotOf(EntryOf(g)).generation = g /\ SnapshotOf(EntryOf(h)).generation = h
  BY <1>1, <1>2 DEF LifecycleInv, EntryInv, SnapshotOf
<1>4. SnapshotOf(EntryOf(h)) = SnapshotOf(EntryOf(g))
  BY DEF FenceUse
<1> QED
  BY <1>1, <1>2, <1>3, <1>4

(* Freezing keeps the fence's generation and admits no use.                *)
LEMMA FrozenFacts ==
  ASSUME NEW f \in FenceRecord, NEW s
  PROVE  /\ FenceFrozen(f) # None /\ FenceFrozen(f).active = f.active
         /\ ~FenceUse(FenceFrozen(f), s)
<1>1. FenceFrozen(f) \in FenceRecord
  BY DEF FenceFrozen, FenceRecord
<1> QED
  BY <1>1, NoFenceRecord DEF FenceFrozen, FenceUse, FenceRecord

(* Raising the fence.                                                      *)
LEMMA ActivateRefines ==
  ASSUME LifecycleInv, NEW g \in Generations, ActivateFence(g)
  PROVE  Window!Raise
<1> DEFINE new == SnapshotOf(EntryOf(g))
<1>1. In(g, {"STAGED"}) /\ fence' = FenceActivated(fence, new) /\ UNCHANGED record
  BY DEF ActivateFence, Begin
<1>2. new.generation = g
  BY <1>1 DEF In, LifecycleInv, EntryInv, SnapshotOf
<1>3. fence'.active = new /\ fence' # None
  <2>1. EntryOf(g) \in Entry
    BY <1>1 DEF In, EntryOf, LifecycleInv, TypeOK, Record
  <2>2. new \in Snapshot
    BY <2>1, LifecycleAssumption DEF SnapshotOf, Snapshot, Entry, Artifact
  <2>3. fence \in FenceRecord \cup {None}
    BY DEF LifecycleInv, TypeOK
  <2>4. fence' \in FenceRecord
    BY <1>1, <2>2, <2>3 DEF FenceActivated, FenceRecord, Snapshot
  <2> QED
    BY <1>1, <2>4, NoFenceRecord DEF FenceActivated
<1>4. High' = g /\ High' > High /\ High' \in Nat
  <2>1. fence # None => g > fence.active.generation
    BY <1>2 DEF ActivateFence, FenceAdmits
  <2> QED
    BY <1>2, <1>3, <2>1, FenceAssumption DEF High
<1>5. \A h \in Generations : ~Usable(h)'
  BY <1>1, <1>3, StagedUnusable DEF Usable, EntryOf
<1>6. doing' # None /\ doing'.op = "activate"
  <2>1. PICK fresh \in BOOLEAN :
          doing' = [op |-> "activate", generation |-> g, fresh |-> fresh, before |-> fence]
    BY DEF ActivateFence, Begin
  <2>2. doing' \in Call
    BY <2>1 DEF LifecycleInv, TypeOK, Call
  <2> QED
    BY <2>1, <2>2, NoLifecycleRecord
<1> QED
  BY <1>4, <1>5, <1>6 DEF Window!Raise, Phase

(* Freezing it.                                                            *)
LEMMA FreezeRefines ==
  ASSUME LifecycleInv, NEW g \in Generations, RevokeFence(g) \/ RolloutFreeze(g)
  PROVE  Window!Shut
<1>1. record.active = g /\ fence' = FenceFrozen(fence) /\ UNCHANGED record
  BY DEF RevokeFence, RolloutFreeze, Begin, In, LifecycleInv, OneActive
<1>2. fence \in FenceRecord
  BY <1>1, FenceAssumption DEF LifecycleInv, TypeOK
<1>3. High' = High
  BY <1>1, <1>2, FrozenFacts, NoFenceRecord DEF High
<1>4. \A h \in Generations : ~Usable(h)'
  BY <1>1, <1>2, FrozenFacts DEF Usable
<1>5. doing'.op # "activate"
  BY DEF RevokeFence, RolloutFreeze, Begin
<1> QED
  BY <1>3, <1>4, <1>5 DEF Window!Shut, Phase

(* Finishing a call opens the window only from "opening".                  *)
LEMMA FinishRefines ==
  ASSUME LifecycleInv, FinishCall
  PROVE  Window!Open \/ Window!Shut
<1>1. doing # None /\ doing' = None /\ fence' = fence /\ High' = High
  BY DEF FinishCall, High
<1>2. CASE doing.op = "activate"
  <2>1. doing.generation \in Generations
    BY <1>1 DEF LifecycleInv, TypeOK, Call
  <2>2. /\ In(doing.generation, {"STAGED"})
        /\ fence.active = SnapshotOf(EntryOf(doing.generation))
    BY <1>1, <1>2 DEF LifecycleInv, CallInv, In
  <2>3. \A h \in Generations : ~Usable(h)
    BY <2>1, <2>2, StagedUnusable DEF Usable
  <2>4. Phase = "opening"
    BY <1>1, <1>2, <2>3 DEF Phase
  <2>5. Phase' \in {"open", "shut"}
    BY <1>1 DEF Phase
  <2> QED
    BY <1>1, <2>4, <2>5 DEF Window!Open, Window!Shut
<1>3. CASE doing.op # "activate"
  <2>1. fence.status = "FROZEN"
    BY <1>1, <1>3 DEF LifecycleInv, CallInv
  <2>2. \A h \in Generations : ~Usable(h)'
    BY <1>1, <2>1 DEF Usable, FenceUse
  <2> QED
    BY <1>1, <2>2 DEF Phase, Window!Shut
<1> QED
  BY <1>2, <1>3

(* A call that is denied, fails or dies between its writes.                *)
LEMMA AbandonRefines ==
  ASSUME LifecycleInv, DenyReplayed \/ FinishThrows \/ Crash
  PROVE  Window!Shut \/ (High' = High /\ Phase' = Phase)
<1>1. doing # None /\ doing' = None /\ UNCHANGED record
  BY DEF DenyReplayed, FinishThrows, Crash
<1>2. fence \in FenceRecord
  BY <1>1 DEF LifecycleInv, CallInv, TypeOK
<1>3. fence' = fence \/ fence' = FenceFrozen(fence)
  BY DEF DenyReplayed, FinishThrows, Crash
<1>4. CASE fence' = FenceFrozen(fence)
  <2>1. High' = High
    BY <1>2, <1>4, FrozenFacts, NoFenceRecord DEF High
  <2>2. \A h \in Generations : ~Usable(h)'
    BY <1>2, <1>4, FrozenFacts DEF Usable
  <2> QED
    BY <1>1, <2>1, <2>2 DEF Phase, Window!Shut
<1>5. CASE fence' = fence
  <2>1. High' = High
    BY <1>5 DEF High
  <2>2. \A h \in Generations : Usable(h)' <=> Usable(h)
    BY <1>1, <1>5 DEF Usable, EntryOf
  <2> QED
    BY <1>1, <2>1, <2>2 DEF Phase, Window!Shut
<1> QED
  BY <1>3, <1>4, <1>5

(* Every step of the lifecycle is a step of PolicyWindow, or none.         *)
LEMMA WindowStep ==
  ASSUME LifecycleInv, [Next]_vars
  PROVE  [Window!WindowNext]_(Window!windowVars)
<1> SUFFICES Window!WindowNext \/ (High' = High /\ Phase' = Phase)
  BY DEF Window!windowVars
<1>1. CASE \/ \E a \in Artifacts : Draft(a)
           \/ \E g \in Generations :
                Review(g) \/ Retire(g) \/ RevokeInactive(g) \/ RolloutConfirm(g)
  BY <1>1, WriteKeepsWindow
<1>2. CASE \E g \in Generations : ActivateFence(g)
  BY <1>2, ActivateRefines DEF Window!WindowNext
<1>3. CASE \E g \in Generations : RevokeFence(g) \/ RolloutFreeze(g)
  BY <1>3, FreezeRefines DEF Window!WindowNext
<1>4. CASE FinishCall
  BY <1>4, FinishRefines DEF Window!WindowNext
<1>5. CASE DenyReplayed \/ FinishThrows \/ Crash
  BY <1>5, AbandonRefines DEF Window!WindowNext
<1>6. CASE TrustDrift \/ Tick \/ UNCHANGED vars
  <2>1. UNCHANGED <<record, fence, doing>>
    BY <1>6 DEF TrustDrift, Tick, vars
  <2> QED
    BY <2>1, KeepWindow
<1> QED
  BY <1>1, <1>2, <1>3, <1>4, <1>5, <1>6 DEF Next

(***************************************************************************)
(* The lifecycle manager and the fence implement PolicyWindow: generations *)
(* open in increasing order, each at most once, and what was shut by a     *)
(* revocation, a freeze, a crash or a failed write stays shut (activate(), *)
(* revoke(), reportRollout(), assertUseBinding()).                         *)
(***************************************************************************)
THEOREM LifecycleRefines == Spec => ImplementsPolicyWindow
<1>1. Init => Window!WindowInit
  BY DEF Init, Window!WindowInit, High, Phase, Usable
<1>2. LifecycleInv /\ [Next]_vars => [Window!WindowNext]_(Window!windowVars)
  BY WindowStep
<1> QED
  BY <1>1, <1>2, LifecycleInvariant, PTL
     DEF Spec, ImplementsPolicyWindow, Window!WindowSpec
=============================================================================
