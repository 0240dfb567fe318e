-------------------------- MODULE PolicyLifecycle --------------------------
(***************************************************************************)
(* PolicyLifecycleManager (demo/management/policy-lifecycle.mjs): a signed *)
(* policy artifact is drafted, validated, simulated, approved, staged and  *)
(* activated, and later superseded, retired or revoked.                    *)
(*                                                                         *)
(* The manager keeps its own record file and drives the fence's record     *)
(* file (PolicyFence).  Its methods are synchronous, and most write one    *)
(* file, so a call is one step; a denied call, or one whose write throws,  *)
(* changes nothing and is no step.  activate(), revoke() of the active     *)
(* generation and a divergent reportRollout() write the fence first and    *)
(* the record second: they are two steps, with a crash, a failed write or  *)
(* the replay check of _nextRecord() between them.  Every method rereads   *)
(* the record (_load), so memory is not modelled; the fence's memory and   *)
(* file agree, because persist() throws before memory is set.              *)
(***************************************************************************)
EXTENDS PolicyFence, FiniteSets

CONSTANTS
  Artifacts,     \* the signed artifacts an issuer may submit
  Approvals,     \* the approvals the owner may sign
  MaxTime, MaxTrust, MaxFaults, MaxCrashes   \* bounds of the model

(***************************************************************************)
(* An artifact: its generation and bytes, how much authority its rules     *)
(* give, whether the runtime accepts the policy (validateAdminAiPocPolicy),*)
(* and when it expires.                                                    *)
(***************************************************************************)
Artifact == [generation : Generations, source : Sources, rank : Nat,
             runtime : BOOLEAN, expires : Nat]

(* An approval binds the entry's digests; what varies is whether it allows *)
(* widening and when it expires.                                           *)
Approval == [allowWidening : BOOLEAN, expires : Nat]

(* validateAdminAiPocPolicy accepts one set of rules, so the policies the  *)
(* runtime accepts differ in their bytes and not in their authority.       *)
ASSUME LifecycleAssumption ==
  /\ Artifacts \subseteq Artifact /\ Approvals \subseteq Approval
  /\ \A a, b \in Artifacts : a.runtime /\ b.runtime => a.rank = b.rank
  /\ MaxTime \in Nat /\ MaxTrust \in Nat
  /\ MaxFaults \in Nat /\ MaxCrashes \in Nat

EntryStates == {"DRAFT", "VALIDATED", "SIMULATED", "APPROVED", "STAGED",
                "ACTIVE", "SUPERSEDED", "RETIRED", "REVOKED"}

(***************************************************************************)
(* An entry of the record.  "trust" is the trust snapshot at the draft,    *)
(* "widening" the verdict of the semantic diff, "approval" what the owner  *)
(* signed, and "activated" says that an ACTIVATED receipt exists.          *)
(***************************************************************************)
Entry == [artifact : Artifacts, state : EntryStates, trust : Nat,
          widening : BOOLEAN, approval : Approvals \cup {None},
          activated : BOOLEAN]

(* A record without entries stands for a file that does not exist yet.     *)
Record == [entries : [Generations -> Entry \cup {None}],
           active : Generations \cup {None},
           lastSafe : Generations \cup {None},
           dispatch : {"ACTIVE", "FROZEN"}]

(* The second half of a call that has written the fence.                   *)
Call == [op : {"activate", "revoke", "freeze"}, generation : Generations,
         fresh : BOOLEAN, before : FenceRecord \cup {None}]

ASSUME NoLifecycleRecord ==
  None \notin Entry /\ None \notin Call /\ None \notin Approvals

VARIABLES
  record,    \* the lifecycle record file
  fence,     \* the fence's activation record file
  doing,     \* the call that is between its two writes
  trust,     \* the version of the issuer's key in the trust store
  clock, faults, crashes

vars == <<record, fence, doing, trust, clock, faults, crashes>>

TypeOK ==
  /\ record \in Record
  /\ fence \in FenceRecord \cup {None}
  /\ doing \in Call \cup {None}
  /\ trust \in Nat /\ clock \in Nat /\ faults \in Nat /\ crashes \in Nat

Init ==
  /\ record = [entries |-> [g \in Generations |-> None], active |-> None,
               lastSafe |-> None, dispatch |-> "FROZEN"]
  /\ fence = None
  /\ doing = None
  /\ trust = 0 /\ clock = 0 /\ faults = 0 /\ crashes = 0

-----------------------------------------------------------------------------
EntryOf(g) == record.entries[g]

(* entryFor() and the state the transition starts from.                    *)
In(g, states) == EntryOf(g) # None /\ EntryOf(g).state \in states

(* _trustAndTime: same key as at the draft, inside the artifact's window.  *)
TrustAndTime(e) == e.trust = trust /\ clock < e.artifact.expires

(* validateApproval                                                        *)
ApprovalHolds(e) ==
  /\ e.approval # None /\ clock < e.approval.expires
  /\ e.widening => e.approval.allowWidening

SnapshotOf(e) == [generation |-> e.artifact.generation, source |-> e.artifact.source]

(* The record after a transition of g to a state (_nextRecord).            *)
Moved(r, g, to) ==
  [r EXCEPT !.entries[g].state = to,
            !.entries[g].activated = IF to = "ACTIVE" THEN TRUE ELSE @]

Calm == doing = None

(* A call that writes only the record.                                     *)
Write(r) ==
  /\ Calm
  /\ record' = r
  /\ UNCHANGED <<fence, doing, trust, clock, faults, crashes>>

Draft(a) ==
  LET g == a.generation
  IN  /\ clock < a.expires
      /\ \A h \in Generations : EntryOf(h) # None => g > h
      /\ Write([record EXCEPT !.entries[g] =
                  [artifact |-> a, state |-> "DRAFT", trust |-> trust,
                   widening |-> FALSE, approval |-> None, activated |-> FALSE]])

(* semanticDiff against the policy that is active now.                     *)
Widens(e) ==
  record.active # None /\ e.artifact.rank > EntryOf(record.active).artifact.rank

Validate(g) ==
  /\ In(g, {"DRAFT"}) /\ TrustAndTime(EntryOf(g))
  /\ Write([Moved(record, g, "VALIDATED") EXCEPT
              !.entries[g].widening = Widens(EntryOf(g))])

Simulate(g) ==
  /\ In(g, {"VALIDATED"}) /\ TrustAndTime(EntryOf(g))
  /\ Write(Moved(record, g, "SIMULATED"))

Approve(g, approval) ==
  /\ In(g, {"SIMULATED"}) /\ TrustAndTime(EntryOf(g))
  /\ LET e == [EntryOf(g) EXCEPT !.approval = approval, !.state = "APPROVED"]
     IN  ApprovalHolds(e) /\ Write([record EXCEPT !.entries[g] = e])

(* Mutant of Stage: the runtime's own validation of the policy is skipped. *)
StageUnvalidated(g) ==
  /\ In(g, {"APPROVED"}) /\ TrustAndTime(EntryOf(g))
  /\ ApprovalHolds(EntryOf(g))
  /\ Write(Moved(record, g, "STAGED"))

Stage(g) ==
  /\ In(g, {"APPROVED"}) /\ TrustAndTime(EntryOf(g))
  /\ ApprovalHolds(EntryOf(g))
  /\ EntryOf(g).artifact.runtime
  /\ Write(Moved(record, g, "STAGED"))

-----------------------------------------------------------------------------
(* Calls of two writes.                                                    *)

Begin(op, g, f) ==
  /\ Calm
  /\ fence' = f
  /\ \E fresh \in BOOLEAN :
       doing' = [op |-> op, generation |-> g, fresh |-> fresh, before |-> fence]
  /\ UNCHANGED <<record, trust, clock, faults, crashes>>

ActivateFence(g) ==
  /\ In(g, {"STAGED"}) /\ TrustAndTime(EntryOf(g)) /\ ApprovalHolds(EntryOf(g))
  /\ FenceAdmits(fence, SnapshotOf(EntryOf(g)))
  /\ FenceValid(FenceActivated(fence, SnapshotOf(EntryOf(g))))
  /\ Begin("activate", g, FenceActivated(fence, SnapshotOf(EntryOf(g))))

(* Mutant of RevokeFence: the dispatch is not frozen.                      *)
RevokeFenceOpen(g) ==
  /\ In(g, {"ACTIVE"}) /\ record.active = g
  /\ Begin("revoke", g, fence)

RevokeFence(g) ==
  /\ In(g, {"ACTIVE"}) /\ record.active = g
  /\ Begin("revoke", g, FenceFrozen(fence))

(* Workers report different generations.                                   *)
RolloutFreeze(g) ==
  /\ In(g, {"ACTIVE"})
  /\ Begin("freeze", g, FenceFrozen(fence))

(* Mutant of Superseded: the previous generation stays ACTIVE.             *)
SupersededNot(r) == r

(* The previously active entry, when another one is activated.             *)
Superseded(r) ==
  IF r.active = None THEN r ELSE [r EXCEPT !.entries[r.active].state = "SUPERSEDED"]

(* The record the second half writes.                                      *)
Finished(r, call) ==
  LET g == call.generation
  IN  CASE call.op = "activate" ->
             [Moved(Superseded(r), g, "ACTIVE") EXCEPT
                !.active = g, !.dispatch = "ACTIVE",
                !.lastSafe = IF r.active = None THEN g ELSE r.active]
        [] call.op = "revoke" ->
             [Moved(r, g, "REVOKED") EXCEPT
                !.active = None, !.dispatch = "FROZEN",
                !.lastSafe = IF @ = g THEN None ELSE @]
        [] call.op = "freeze" -> [r EXCEPT !.dispatch = "FROZEN"]

FinishCall ==
  /\ doing # None /\ doing.fresh
  /\ record' = Finished(record, doing)
  /\ doing' = None
  /\ UNCHANGED <<fence, trust, clock, faults, crashes>>

(* _nextRecord() denies an operation id that has a receipt already.        *)
DenyReplayed ==
  /\ doing # None /\ ~doing.fresh
  /\ doing' = None
  /\ UNCHANGED <<record, fence, trust, clock, faults, crashes>>

(* The write of the record throws.  activate() then freezes the fence,     *)
(* which may throw as well; revoke() and reportRollout() have frozen it.   *)
FinishThrows ==
  /\ doing # None /\ doing.fresh /\ faults < MaxFaults
  /\ \/ /\ faults' = faults + 1
        /\ fence' = IF doing.op = "activate" THEN FenceFrozen(fence) ELSE fence
     \/ /\ doing.op = "activate" /\ faults + 1 < MaxFaults
        /\ faults' = faults + 2 /\ UNCHANGED fence
  /\ doing' = None
  /\ UNCHANGED <<record, trust, clock, crashes>>

-----------------------------------------------------------------------------
(* Mutant of Retire: the last safe generation may be retired.              *)
RetireAny(g) ==
  /\ In(g, {"SUPERSEDED"})
  /\ Write(Moved(record, g, "RETIRED"))

Retire(g) ==
  /\ In(g, {"SUPERSEDED"}) /\ record.lastSafe # g
  /\ Write(Moved(record, g, "RETIRED"))

(* revoke() of a generation that is not the active one.                    *)
RevokeInactive(g) ==
  /\ In(g, {"STAGED", "SUPERSEDED"}) /\ record.active # g
  /\ Write(Moved(record, g, "REVOKED"))

RolloutConfirm(g) ==
  /\ In(g, {"ACTIVE"})
  /\ Write([record EXCEPT !.lastSafe = g])

(* The process dies between the two writes and starts again.               *)
Crash ==
  /\ doing # None /\ crashes < MaxCrashes
  /\ doing' = None /\ crashes' = crashes + 1
  /\ UNCHANGED <<record, fence, trust, clock, faults>>

TrustDrift ==
  /\ Calm /\ trust < MaxTrust /\ trust' = trust + 1
  /\ UNCHANGED <<record, fence, doing, clock, faults, crashes>>

Tick ==
  /\ Calm /\ clock < MaxTime /\ clock' = clock + 1
  /\ UNCHANGED <<record, fence, doing, trust, faults, crashes>>

Review(g) ==
  \/ Validate(g) \/ Simulate(g) \/ Stage(g)
  \/ \E approval \in Approvals : Approve(g, approval)

Next ==
  \/ \E a \in Artifacts : Draft(a)
  \/ \E g \in Generations :
       \/ Review(g) \/ ActivateFence(g) \/ Retire(g)
       \/ RevokeFence(g) \/ RevokeInactive(g)
       \/ RolloutConfirm(g) \/ RolloutFreeze(g)
  \/ FinishCall \/ DenyReplayed \/ FinishThrows
  \/ Crash \/ TrustDrift \/ Tick

Spec == Init /\ [][Next]_vars

(* A synchronous call that has begun goes on to its end.                   *)
FairSpec == Spec /\ WF_vars(FinishCall \/ DenyReplayed \/ FinishThrows)

-----------------------------------------------------------------------------
(* Properties.                                                             *)

(* Mutant of Usable: the manager leaves the decision to the fence.         *)
UsableByFence(g) ==
  EntryOf(g) # None /\ FenceUse(fence, SnapshotOf(EntryOf(g)))

(* What assertUseBinding() of the manager accepts: both files agree.       *)
Usable(g) ==
  /\ record.dispatch = "ACTIVE" /\ record.active = g
  /\ FenceUse(fence, SnapshotOf(EntryOf(g)))

(***************************************************************************)
(* Dispatch through the manager behaves like PolicyWindow: generations     *)
(* open for use in increasing order, each at most once, and one that a     *)
(* revocation, a freeze, a crash or a failed write has shut never opens    *)
(* again (activate(), revoke(), reportRollout(), assertUseBinding()).      *)
(***************************************************************************)
Phase ==
  IF \E g \in Generations : Usable(g) THEN "open"
  ELSE IF doing # None /\ doing.op = "activate" THEN "opening" ELSE "shut"

High == IF fence = None THEN 0 ELSE fence.active.generation

Window == INSTANCE PolicyWindow WITH high <- High, phase <- Phase

ImplementsPolicyWindow == Window!WindowSpec

(***************************************************************************)
(* Activation never replaces a policy by one with more authority unless    *)
(* the owner's approval allows it, although the diff the owner saw was     *)
(* taken when the entry was validated, perhaps before today's policy was   *)
(* active (validate(), stage(), activate()).                               *)
(***************************************************************************)
NoUnapprovedWidening ==
  [][record.active # None /\ record'.active \notin {None, record.active} =>
       LET new == record'.entries[record'.active]
       IN  \/ new.artifact.rank <= EntryOf(record.active).artifact.rank
           \/ new.approval.allowWidening]_vars

(***************************************************************************)
(* The record has an ACTIVE entry exactly when it names it as the active   *)
(* generation (activate(), revoke(); validateRecord checks one direction). *)
(***************************************************************************)
OneActive ==
  \A g \in Generations :
    (EntryOf(g) # None /\ EntryOf(g).state = "ACTIVE") <=> record.active = g

(***************************************************************************)
(* Once an activated generation is recorded as REVOKED the fence does not  *)
(* serve it, for any user of the fence (revoke(): freezeDispatch before    *)
(* the record is written).                                                 *)
(***************************************************************************)
RevokedNotServed ==
  \A g \in Generations :
    EntryOf(g) # None /\ EntryOf(g).state = "REVOKED" /\ EntryOf(g).activated =>
      ~FenceUse(fence, SnapshotOf(EntryOf(g)))

(***************************************************************************)
(* The last safe generation was activated once and is not retired, and an  *)
(* active policy always has one (activate(), retire(), revoke(),           *)
(* reportRollout()).                                                       *)
(***************************************************************************)
LastSafeRetained ==
  /\ record.active # None => record.lastSafe # None
  /\ record.lastSafe # None =>
       /\ EntryOf(record.lastSafe) # None
       /\ EntryOf(record.lastSafe).activated
       /\ EntryOf(record.lastSafe).state # "RETIRED"

-----------------------------------------------------------------------------
(* The inductive invariant behind the theorems of PolicyLifecycleProofs.   *)

(* What the state of an entry implies.                                     *)
EntryInv ==
  \A g \in Generations : EntryOf(g) # None =>
    LET e == EntryOf(g)
    IN  /\ e.artifact.generation = g
        /\ e.state \in {"STAGED", "ACTIVE"} => e.artifact.runtime
        /\ e.state \in {"ACTIVE", "SUPERSEDED", "RETIRED"} => e.activated
        /\ e.activated =>
             e.state \in {"ACTIVE", "SUPERSEDED", "RETIRED", "REVOKED"}
        /\ e.state \in {"SUPERSEDED", "RETIRED"} =>
             fence # None /\ fence.active.generation # g

(* What holds between the two writes of a call.                            *)
CallInv ==
  doing # None =>
    /\ EntryOf(doing.generation) # None /\ fence # None
    /\ doing.op = "activate" =>
         /\ EntryOf(doing.generation).state = "STAGED"
         /\ fence.active = SnapshotOf(EntryOf(doing.generation))
    /\ doing.op # "activate" =>
         record.active = doing.generation /\ fence.status = "FROZEN"

(***************************************************************************)
(* The two files stay consistent with one another and with the call in     *)
(* progress (all methods of PolicyLifecycleManager).                       *)
(***************************************************************************)
LifecycleInv ==
  /\ TypeOK
  /\ EntryInv
  /\ CallInv
  /\ record.active # None => fence # None
  /\ OneActive
  /\ RevokedNotServed
  /\ LastSafeRetained

(***************************************************************************)
(* A denied call preserves the prior durable state                         *)
(* (docs/development/admin-ai-aas-017-signed-policy-lifecycle-pdca.md).    *)
(***************************************************************************)
DenialPreservesState ==
  [][doing # None /\ doing' = None
       /\ UNCHANGED <<record, faults, crashes>> => fence' = doing.before]_vars
=============================================================================
