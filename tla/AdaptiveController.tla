------------------------- MODULE AdaptiveController -------------------------
(***************************************************************************)
(* runOnce() of scripts/adaptive-controller.mjs.  An operator starts it as *)
(* a process; it folds one verified result into state.json under a lease   *)
(* file made with the exclusive flag 'wx', and keeps the state before it   *)
(* in state.lkg.json.  Every file access is a step of its own, because     *)
(* invocations may overlap.  A write may throw, before or after its        *)
(* rename, and a process may be killed at any step, which leaves its lease *)
(* file behind.                                                            *)
(***************************************************************************)
EXTENDS Naturals, FiniteSets

CONSTANTS
  Runs,             \* invocations; each writes state.json at most once
  None,
  LeaseDuration, Deadman, MaxExternalRetries,   \* the configuration
  MaxOverlap,       \* how many invocations the operator lets overlap
  MaxTime, MaxFaults   \* bounds of the model

ASSUME ControllerAssumption ==
  /\ None \notin Runs /\ IsFiniteSet(Runs)
  /\ LeaseDuration \in Nat /\ Deadman \in Nat
  /\ MaxExternalRetries \in Nat \ {0}
  /\ MaxOverlap \in Nat \ {0} /\ MaxTime \in Nat /\ MaxFaults \in Nat

(***************************************************************************)
(* state.json.  Its digest is named by the invocation that wrote it, and   *)
(* "prior" is the digest of the state it was computed from.  A lease file  *)
(* that was opened and not written yet has no expiry.                      *)
(***************************************************************************)
State == [sequence : Nat \ {0}, status : {"COMPLETE", "WAITING_EXTERNAL", "ATTENTION"},
          attempts : 0..MaxExternalRetries, exhausted : BOOLEAN,
          by : Runs, prior : Runs \cup {None}]
Lock  == [by : Runs, expires : Nat \cup {None}]
Local == [nowMs : Nat, prior : State \cup {None}, next : State \cup {None}]

ASSUME NoControllerRecord == None \notin State /\ None \notin Lock

Blank == [nowMs |-> 0, prior |-> None, next |-> None]

VARIABLES
  pc,        \* pc[r]: the next file access of the invocation
  local,     \* local[r]: its local variables: nowMs (the clock at the call),
             \*   prior (the state it read), next (the state it will write)
  state, lkg, lock, disabled,   \* the files; disabled: the marker exists
  clock, overlap, faults

files == <<state, lkg, lock>>
world == <<disabled, clock, overlap>>
vars  == <<pc, local, state, lkg, lock, disabled, clock, overlap, faults>>

Holding  == {"write", "result", "backup", "state", "unlock"}
Alarming == {"alarmBackup", "alarmState"}
Active   == {"look", "lease", "open"} \cup Holding \cup Alarming
Ended    == {"done", "stopped", "failed", "killed"}

TypeOK ==
  /\ pc \in [Runs -> {"idle"} \cup Active \cup Ended]
  /\ local \in [Runs -> Local]
  /\ state \in State \cup {None}
  /\ lkg \in State \cup {None}
  /\ lock \in Lock \cup {None}
  /\ disabled \in BOOLEAN
  /\ clock \in Nat /\ overlap \in 1..MaxOverlap /\ faults \in Nat

Init ==
  /\ pc = [r \in Runs |-> "idle"]
  /\ local = [r \in Runs |-> Blank]
  /\ state = None /\ lkg = None /\ lock = None
  /\ disabled = FALSE
  /\ clock = 0 /\ overlap \in 1..MaxOverlap /\ faults = 0

-----------------------------------------------------------------------------
(* What runOnce() computes.                                                *)

Sequence(s) == IF s = None THEN 0 ELSE s.sequence
Attempts(s) == IF s = None THEN 0 ELSE s.attempts
Digest(s)   == IF s = None THEN None ELSE s.by

(* Mutant of Waits: the retry counter is not saturated.                    *)
WaitsUnbounded(s) == Attempts(s) + 1

(* Math.min(attempts + 1, maxExternalRetries)                              *)
Waits(s) ==
  IF Attempts(s) + 1 < MaxExternalRetries THEN Attempts(s) + 1
  ELSE MaxExternalRetries

(* The state after a verified result ...                                   *)
Outcome(r, outcome) ==
  LET waits == IF outcome = "WAITING_EXTERNAL" THEN Waits(local[r].prior) ELSE 0
  IN  [sequence |-> Sequence(local[r].prior) + 1, status |-> outcome,
       attempts |-> waits,
       exhausted |-> outcome = "WAITING_EXTERNAL" /\ waits >= MaxExternalRetries,
       by |-> r, prior |-> Digest(local[r].prior)]

(* Mutant of Alarm: the alarm reuses the sequence of the state it replaces. *)
AlarmInPlace(r) ==
  [sequence |-> IF local[r].prior = None THEN 1 ELSE local[r].prior.sequence,
   status |-> "ATTENTION", attempts |-> Attempts(local[r].prior), exhausted |-> FALSE,
   by |-> r, prior |-> Digest(local[r].prior)]

(* ... and after a lease was found to be stale.                            *)
Alarm(r) ==
  [sequence |-> Sequence(local[r].prior) + 1, status |-> "ATTENTION",
   attempts |-> Attempts(local[r].prior), exhausted |-> FALSE,
   by |-> r, prior |-> Digest(local[r].prior)]

(* Mutant of Stale: the deadman margin is not added to the expiry.         *)
StaleAtExpiry(l, t) == l # None /\ l.expires # None /\ t >= l.expires

(* The lease of a file that parses ran out more than Deadman ago.          *)
Stale(l, t) == l # None /\ l.expires # None /\ t > l.expires + Deadman

-----------------------------------------------------------------------------
(* An invocation goes on; its local variables end with it.                 *)
Move(r, from, to) ==
  /\ pc[r] = from
  /\ pc' = [pc EXCEPT ![r] = to]
  /\ local' = IF to \in Ended THEN [local EXCEPT ![r] = Blank] ELSE local

MoveWith(r, from, to, s) ==
  /\ pc[r] = from
  /\ pc' = [pc EXCEPT ![r] = to]
  /\ local' = [local EXCEPT ![r].next = s]

Fault == faults < MaxFaults /\ faults' = faults + 1

(* readOptionalState; nowMs is a default argument, read at the call.       *)
ReadPrior(r) ==
  /\ Cardinality({q \in Runs : pc[q] \in Active}) < overlap
  /\ pc[r] = "idle"
  /\ pc' = [pc EXCEPT ![r] = "look"]
  /\ local' = [local EXCEPT ![r] =
                 [nowMs |-> clock, prior |-> state, next |-> None]]
  /\ UNCHANGED <<files, world, faults>>

(* existsSync(disablePath), existsSync(lockPath)                           *)
Look(r) ==
  /\ \/ disabled /\ Move(r, "look", "stopped")
     \/ ~disabled /\ lock = None /\ Move(r, "look", "open")
     \/ ~disabled /\ lock # None /\ Move(r, "look", "lease")
  /\ UNCHANGED <<files, world, faults>>

(* The lease file is gone or cannot be parsed, or the lease is held.       *)
LeaseHeld(r) ==
  /\ ~Stale(lock, local[r].nowMs)
  /\ Move(r, "lease", "failed")
  /\ UNCHANGED <<files, world, faults>>

LeaseStale(r) ==
  /\ Stale(lock, local[r].nowMs)
  /\ MoveWith(r, "lease", "alarmBackup", Alarm(r))
  /\ UNCHANGED <<files, world, faults>>

(* Mutant of OpenLock: the file is opened without the exclusive flag.      *)
OpenLockShared(r) ==
  /\ Move(r, "open", "write")
  /\ lock' = [by |-> r, expires |-> None]
  /\ UNCHANGED <<state, lkg, world, faults>>

(* openSync(lockPath, 'wx')                                                *)
OpenLock(r) ==
  /\ \/ /\ lock = None
        /\ Move(r, "open", "write")
        /\ lock' = [by |-> r, expires |-> None]
     \/ /\ lock # None
        /\ Move(r, "open", "failed")
        /\ UNCHANGED lock
  /\ UNCHANGED <<state, lkg, world, faults>>

(* The lease is written and synced outside the try block: a throw leaves   *)
(* the file behind, empty or written.                                      *)
WriteLock(r) ==
  LET written == [lock EXCEPT !.expires = local[r].nowMs + LeaseDuration]
  IN  /\ \/ Move(r, "write", "result") /\ lock' = written /\ UNCHANGED faults
         \/ Move(r, "write", "failed") /\ Fault /\ lock' \in {lock, written}
      /\ UNCHANGED <<state, lkg, world>>

(* Mutant of ReadResult: a refused result leaves before the finally block. *)
ReadResultOutsideTry(r) ==
  /\ \/ \E outcome \in {"COMPLETE", "WAITING_EXTERNAL"} :
          MoveWith(r, "result", "backup", Outcome(r, outcome))
     \/ Move(r, "result", "failed")
  /\ UNCHANGED <<files, world, faults>>

(* validateResult: an accepted result, or a throw inside the try block.    *)
ReadResult(r) ==
  /\ \/ \E outcome \in {"COMPLETE", "WAITING_EXTERNAL"} :
          MoveWith(r, "result", "backup", Outcome(r, outcome))
     \/ Move(r, "result", "unlock")
  /\ UNCHANGED <<files, world, faults>>

(* Mutant of WriteBackup: an existing snapshot is not replaced.            *)
WriteBackupOnce(r, from, to, thrown) ==
  /\ \/ /\ Move(r, from, to) /\ UNCHANGED faults
        /\ lkg' = IF lkg = None THEN local[r].prior ELSE lkg
     \/ /\ local[r].prior # None /\ Fault /\ Move(r, from, thrown)
        /\ lkg' \in {lkg, local[r].prior}
  /\ UNCHANGED <<state, lock, world>>

(* if (prior) atomicWrite(lkgPath, prior)                                  *)
WriteBackup(r, from, to, thrown) ==
  /\ \/ /\ Move(r, from, to) /\ UNCHANGED faults
        /\ lkg' = IF local[r].prior = None THEN lkg ELSE local[r].prior
     \/ /\ local[r].prior # None /\ Fault /\ Move(r, from, thrown)
        /\ lkg' \in {lkg, local[r].prior}
  /\ UNCHANGED <<state, lock, world>>

(* atomicWrite(statePath, next)                                            *)
WriteState(r, from, to, thrown) ==
  /\ \/ Move(r, from, to) /\ UNCHANGED faults /\ state' = local[r].next
     \/ Fault /\ Move(r, from, thrown) /\ state' \in {state, local[r].next}
  /\ UNCHANGED <<lkg, lock, world>>

(* Mutant of Unlock: the comparison fails for the invocation's own lease.  *)
UnlockKeeps(r) ==
  /\ Move(r, "unlock", "done")
  /\ UNCHANGED <<state, lkg, lock, world, faults>>

(* The finally block removes the lease file that carries this lease.       *)
Unlock(r) ==
  /\ Move(r, "unlock", "done")
  /\ lock' = IF lock # None /\ lock.by = r THEN None ELSE lock
  /\ UNCHANGED <<state, lkg, world, faults>>

(* The process is killed.                                                  *)
Kill(r) ==
  /\ pc[r] \in Active
  /\ Fault
  /\ pc' = [pc EXCEPT ![r] = "killed"]
  /\ local' = [local EXCEPT ![r] = Blank]
  /\ UNCHANGED <<files, world>>

(* The operator creates the DISABLED marker.                               *)
Disable ==
  /\ ~disabled /\ disabled' = TRUE
  /\ UNCHANGED <<pc, local, files, clock, overlap, faults>>

Tick ==
  /\ clock < MaxTime /\ clock' = clock + 1
  /\ UNCHANGED <<pc, local, files, disabled, overlap, faults>>

Step(r) ==
  \/ Look(r) \/ LeaseHeld(r) \/ LeaseStale(r)
  \/ OpenLock(r) \/ WriteLock(r) \/ ReadResult(r)
  \/ WriteBackup(r, "backup", "state", "unlock")
  \/ WriteState(r, "state", "unlock", "unlock")
  \/ Unlock(r)
  \/ WriteBackup(r, "alarmBackup", "alarmState", "failed")
  \/ WriteState(r, "alarmState", "done", "failed")

Next ==
  \/ \E r \in Runs : ReadPrior(r) \/ Step(r) \/ Kill(r)
  \/ Disable \/ Tick

Spec == Init /\ [][Next]_vars

(* A process that runs reaches its end; nothing else is owed.              *)
FairSpec == Spec /\ \A r \in Runs : WF_vars(Step(r))

-----------------------------------------------------------------------------
(* Properties.                                                             *)

(***************************************************************************)
(* From opening the lease file to removing it, an invocation is the only   *)
(* one that does so, and the file on disk is its own: no other invocation  *)
(* removes or replaces it, not even after the deadman margin (runOnce():   *)
(* 'wx' and the digest comparison of the finally block).                   *)
(***************************************************************************)
LeaseIsExclusive ==
  \A r \in Runs : pc[r] \in Holding => lock # None /\ lock.by = r

(***************************************************************************)
(* While invocations do not overlap, state.json moves by one sequence      *)
(* number from the state it names as its prior, whatever was killed or     *)
(* thrown before (runOnce(): lease.sequence and the alarm's sequence).     *)
(***************************************************************************)
SequentialAdvance ==
  [][overlap = 1 /\ state' # state =>
       /\ Sequence(state') = Sequence(state) + 1
       /\ state'.prior = Digest(state)]_vars

(***************************************************************************)
(* While invocations do not overlap, the snapshot an operator would        *)
(* restore is the predecessor of state.json, or state.json itself when an  *)
(* invocation died between the two writes (runOnce(): the lkg write comes  *)
(* first).                                                                 *)
(***************************************************************************)
BackupIsPredecessor ==
  overlap = 1 /\ state # None => lkg = state \/ Digest(lkg) = state.prior

(***************************************************************************)
(* While invocations do not overlap, ATTENTION stands for an invocation    *)
(* that died holding a lease which ran out more than the deadman margin    *)
(* ago (runOnce(): the stale lease branch).                                *)
(***************************************************************************)
HolderIsDead ==
  /\ lock # None /\ lock.expires # None
  /\ pc[lock.by] \in {"killed", "failed"}
  /\ clock > lock.expires + Deadman

AttentionIsEarned ==
  overlap = 1 /\ state # None /\ state.status = "ATTENTION" => HolderIsDead

(***************************************************************************)
(* An invocation that entered its try block releases its lease in the end, *)
(* unless it is killed, also when the result is refused or a write throws  *)
(* (runOnce(): the finally block).                                         *)
(***************************************************************************)
LeaseIsReleased ==
  \A r \in Runs :
    pc[r] \in Holding \ {"write"} ~>
      (lock = None \/ lock.by # r \/ pc[r] = "killed")

-----------------------------------------------------------------------------
(* The inductive invariant behind the theorems of AdaptiveControllerProofs. *)

(* Invocations that do not overlap run one at a time.                      *)
Solo ==
  overlap = 1 => \A r, q \in Runs : pc[r] \in Active /\ pc[q] \in Active => r = q

(* A lease file belongs to an invocation that holds it or died with it.    *)
LockInv == lock # None => pc[lock.by] \in Holding \cup {"killed", "failed"}

(* What an invocation is about to write follows what it has read.          *)
Follows(new, old) ==
  new # None /\ new.sequence = Sequence(old) + 1 /\ new.prior = Digest(old)

LocalInv ==
  \A r \in Runs :
    /\ local[r].nowMs <= clock
    /\ pc[r] \in {"backup", "state"} =>
         Follows(local[r].next, local[r].prior) /\ local[r].next.status # "ATTENTION"
    /\ pc[r] \in Alarming => Follows(local[r].next, local[r].prior)

(* Alone, it has read what it replaces, and saved it before the write.     *)
SoloInv ==
  overlap = 1 =>
    /\ state = None => lkg = None
    /\ \A r \in Runs :
         /\ pc[r] \in Active \ {"unlock"} => local[r].prior = state
         /\ pc[r] \in {"state", "alarmState"} => lkg = local[r].prior
         /\ pc[r] \in Alarming => HolderIsDead

(***************************************************************************)
(* Files, leases and local variables stay consistent with one another at   *)
(* every step of every invocation (runOnce()).                             *)
(***************************************************************************)
ControllerInv ==
  /\ TypeOK
  /\ LeaseIsExclusive /\ LockInv
  /\ Solo /\ LocalInv /\ SoloInv
  /\ BackupIsPredecessor /\ AttentionIsEarned

(***************************************************************************)
(* State drift fails closed: a state is only written over the state it was *)
(* computed from (docs/ADAPTIVE-EVIDENCE-CONTROLLER.md).                   *)
(***************************************************************************)
DriftFailsClosed == [][state' # state => state'.prior = Digest(state)]_vars
=============================================================================
