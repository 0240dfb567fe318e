---------------------- MODULE AdaptiveControllerProofs ----------------------
(***************************************************************************)
(* Theorems about AdaptiveController.                                      *)
(***************************************************************************)
EXTENDS AdaptiveController, FiniteSetTheorems, TLAPS

(* The counter that is written stays within the configured bound.          *)
LEMMA WaitsBound ==
  ASSUME NEW s \in State \cup {None}
  PROVE  Waits(s) \in 0..MaxExternalRetries
BY ControllerAssumption DEF Waits, Attempts, State

(* The sequence number and the digest of a file that was read.             *)
LEMMA ReadType ==
  ASSUME NEW s \in State \cup {None}
  PROVE  /\ Sequence(s) \in Nat /\ Digest(s) \in Runs \cup {None}
         /\ Attempts(s) \in 0..MaxExternalRetries
BY ControllerAssumption DEF Sequence, Digest, Attempts, State

(* What a verified result leads to.                                        *)
LEMMA OutcomeFollows ==
  ASSUME TypeOK, NEW r \in Runs, NEW outcome \in {"COMPLETE", "WAITING_EXTERNAL"}
  PROVE  /\ Outcome(r, outcome) \in State
         /\ Follows(Outcome(r, outcome), local[r].prior)
         /\ Outcome(r, outcome).status # "ATTENTION"
<1> DEFINE waits == IF outcome = "WAITING_EXTERNAL" THEN Waits(local[r].prior) ELSE 0
           full  == outcome = "WAITING_EXTERNAL" /\ waits >= MaxExternalRetries
<1>1. local[r].prior \in State \cup {None}
  BY DEF TypeOK, Local
<1>2. waits \in 0..MaxExternalRetries
  BY <1>1, WaitsBound, ControllerAssumption
<1>3. full \in BOOLEAN
  OBVIOUS
<1>4. Outcome(r, outcome) =
        [sequence |-> Sequence(local[r].prior) + 1, status |-> outcome,
         attempts |-> waits, exhausted |-> full, by |-> r,
         prior |-> Digest(local[r].prior)]
  BY DEF Outcome
<1> HIDE DEF waits, full
<1>5. Sequence(local[r].prior) + 1 \in Nat \ {0}
  BY <1>1, ReadType
<1>6. Outcome(r, outcome) \in State
  BY <1>1, <1>2, <1>3, <1>4, <1>5, ReadType DEF State
<1> QED
  BY <1>4, <1>6, NoControllerRecord DEF Follows

(* What a stale lease leads to.                                            *)
LEMMA AlarmFollows ==
  ASSUME TypeOK, NEW r \in Runs
  PROVE  Alarm(r) \in State /\ Follows(Alarm(r), local[r].prior)
<1>1. local[r].prior \in State \cup {None}
  BY DEF TypeOK, Local
<1>2. Sequence(local[r].prior) + 1 \in Nat \ {0}
  BY <1>1, ReadType
<1>3. Alarm(r) \in State
  BY <1>1, <1>2, ReadType DEF Alarm, State
<1> QED
  BY <1>3, NoControllerRecord DEF Alarm, Follows

(* The holder completes its lease file.                                    *)
LEMMA WriteLockEffect ==
  ASSUME TypeOK, LeaseIsExclusive, NEW r \in Runs, WriteLock(r)
  PROVE  lock' \in Lock /\ lock' # None /\ lock'.by = r
<1>1. lock \in Lock /\ lock.by = r /\ local[r].nowMs + LeaseDuration \in Nat
  BY ControllerAssumption DEF WriteLock, Move, TypeOK, Local, LeaseIsExclusive,
       Holding
<1> DEFINE written == [lock EXCEPT !.expires = local[r].nowMs + LeaseDuration]
<1>2. written \in Lock /\ written.by = r
  BY <1>1 DEF Lock
<1>3. lock' \in {lock, written}
  BY DEF WriteLock
<1> QED
  BY <1>1, <1>2, <1>3, NoControllerRecord

(* Type correctness is preserved.                                          *)
LEMMA TypeStep ==
  ASSUME TypeOK, LeaseIsExclusive, [Next]_vars
  PROVE  TypeOK'
<1> USE ControllerAssumption, NoControllerRecord
<1>1. CASE UNCHANGED vars
  BY <1>1 DEF vars, TypeOK, Local, Lock, Blank, Holding, Alarming, Active,
       Ended
<1>2. ASSUME NEW r \in Runs, ReadPrior(r)
     PROVE  TypeOK'
  BY <1>2 DEF ReadPrior, files, world, TypeOK, Local, Lock, Blank, Holding,
       Alarming, Active, Ended
<1>3. ASSUME NEW r \in Runs, Look(r)
     PROVE  TypeOK'
  BY <1>3 DEF Look, Move, files, world, TypeOK, Local, Lock, Blank, Holding,
       Alarming, Active, Ended
<1>4. ASSUME NEW r \in Runs, LeaseHeld(r)
     PROVE  TypeOK'
  BY <1>4 DEF LeaseHeld, Move, files, world, TypeOK, Local, Lock, Blank,
       Holding, Alarming, Active, Ended
<1>5. ASSUME NEW r \in Runs, LeaseStale(r)
     PROVE  TypeOK'
  BY <1>5, AlarmFollows DEF LeaseStale, MoveWith, files, world, TypeOK, Local,
       Lock, Blank, Holding, Alarming, Active, Ended
<1>6. ASSUME NEW r \in Runs, OpenLock(r)
     PROVE  TypeOK'
  BY <1>6 DEF OpenLock, Move, world, TypeOK, Local, Lock, Blank, Holding,
       Alarming, Active, Ended
<1>7. ASSUME NEW r \in Runs, WriteLock(r)
     PROVE  TypeOK'
  BY <1>7, WriteLockEffect, SMTT(60) DEF WriteLock, Move, Fault, world, TypeOK, Local,
       Lock, Blank, Holding, Alarming, Active, Ended
<1>8. ASSUME NEW r \in Runs, ReadResult(r)
     PROVE  TypeOK'
  BY <1>8, OutcomeFollows DEF ReadResult, Move, MoveWith, files, world, TypeOK,
       Local, Lock, Blank, Holding, Alarming, Active, Ended
<1>9. ASSUME NEW r \in Runs, WriteBackup(r, "backup", "state", "unlock")
     PROVE  TypeOK'
  BY <1>9 DEF WriteBackup, Move, Fault, world, TypeOK, Local, Lock, Blank,
       Holding, Alarming, Active, Ended
<1>10. ASSUME NEW r \in Runs, WriteState(r, "state", "unlock", "unlock")
     PROVE  TypeOK'
  BY <1>10 DEF WriteState, Move, Fault, world, TypeOK, Local, Lock, Blank,
       Holding, Alarming, Active, Ended
<1>11. ASSUME NEW r \in Runs, Unlock(r)
     PROVE  TypeOK'
  BY <1>11 DEF Unlock, Move, world, TypeOK, Local, Lock, Blank, Holding,
       Alarming, Active, Ended
<1>12. ASSUME NEW r \in Runs, WriteBackup(r, "alarmBackup", "alarmState", "failed")
     PROVE  TypeOK'
  BY <1>12 DEF WriteBackup, Move, Fault, world, TypeOK, Local, Lock, Blank,
       Holding, Alarming, Active, Ended
<1>13. ASSUME NEW r \in Runs, WriteState(r, "alarmState", "done", "failed")
     PROVE  TypeOK'
  BY <1>13, SMTT(60) DEF WriteState, Move, Fault, world, TypeOK, Local, Lock, Blank,
       Holding, Alarming, Active, Ended
<1>14. ASSUME NEW r \in Runs, Kill(r)
     PROVE  TypeOK'
  BY <1>14 DEF Kill, Fault, files, world, TypeOK, Local, Lock, Blank, Holding,
       Alarming, Active, Ended
<1>15. CASE Disable
  BY <1>15 DEF Disable, files, TypeOK, Local, Lock, Blank, Holding, Alarming,
       Active, Ended
<1>16. CASE Tick
  BY <1>16 DEF Tick, files, TypeOK, Local, Lock, Blank, Holding, Alarming,
       Active, Ended
<1> QED
  BY <1>1, <1>2, <1>3, <1>4, <1>5, <1>6, <1>7, <1>8, <1>9,
     <1>10, <1>11, <1>12, <1>13, <1>14, <1>15, <1>16
     DEF Next, Step

(* One invocation at a time holds the lease file.                          *)
LEMMA LeaseStep ==
  ASSUME TypeOK, LeaseIsExclusive, [Next]_vars
  PROVE  LeaseIsExclusive'
<1> USE ControllerAssumption, NoControllerRecord
<1>1. CASE UNCHANGED vars
  BY <1>1 DEF vars, TypeOK, LeaseIsExclusive, Lock, Holding, Alarming, Active,
       Ended
<1>2. ASSUME NEW r \in Runs, ReadPrior(r)
     PROVE  LeaseIsExclusive'
  BY <1>2 DEF ReadPrior, files, world, TypeOK, LeaseIsExclusive, Lock, Holding,
       Alarming, Active, Ended
<1>3. ASSUME NEW r \in Runs, Look(r)
     PROVE  LeaseIsExclusive'
  BY <1>3 DEF Look, Move, files, world, TypeOK, LeaseIsExclusive, Lock,
       Holding, Alarming, Active, Ended
<1>4. ASSUME NEW r \in Runs, LeaseHeld(r)
     PROVE  LeaseIsExclusive'
  BY <1>4 DEF LeaseHeld, Move, files, world, TypeOK, LeaseIsExclusive, Lock,
       Holding, Alarming, Active, Ended
<1>5. ASSUME NEW r \in Runs, LeaseStale(r)
     PROVE  LeaseIsExclusive'
  BY <1>5 DEF LeaseStale, MoveWith, files, world, TypeOK, LeaseIsExclusive,
       Lock, Holding, Alarming, Active, Ended
<1>6. ASSUME NEW r \in Runs, OpenLock(r)
     PROVE  LeaseIsExclusive'
  BY <1>6 DEF OpenLock, Move, world, TypeOK, LeaseIsExclusive, Lock, Holding,
       Alarming, Active, Ended
<1>7. ASSUME NEW r \in Runs, WriteLock(r)
     PROVE  LeaseIsExclusive'
  BY <1>7, WriteLockEffect DEF WriteLock, Move, Fault, world, TypeOK,
       LeaseIsExclusive, Lock, Holding, Alarming, Active, Ended
<1>8. ASSUME NEW r \in Runs, ReadResult(r)
     PROVE  LeaseIsExclusive'
  BY <1>8 DEF ReadResult, Move, MoveWith, files, world, TypeOK,
       LeaseIsExclusive, Lock, Holding, Alarming, Active, Ended
<1>9. ASSUME NEW r \in Runs, WriteBackup(r, "backup", "state", "unlock")
     PROVE  LeaseIsExclusive'
  BY <1>9 DEF WriteBackup, Move, Fault, world, TypeOK, LeaseIsExclusive, Lock,
       Holding, Alarming, Active, Ended
<1>10. ASSUME NEW r \in Runs, WriteState(r, "state", "unlock", "unlock")
     PROVE  LeaseIsExclusive'
  BY <1>10 DEF WriteState, Move, Fault, world, TypeOK, LeaseIsExclusive, Lock,
       Holding, Alarming, Active, Ended
<1>11. ASSUME NEW r \in Runs, Unlock(r)
     PROVE  LeaseIsExclusive'
  BY <1>11 DEF Unlock, Move, world, TypeOK, LeaseIsExclusive, Lock, Holding,
       Alarming, Active, Ended
<1>12. ASSUME NEW r \in Runs, WriteBackup(r, "alarmBackup", "alarmState", "failed")
     PROVE  LeaseIsExclusive'
  BY <1>12 DEF WriteBackup, Move, Fault, world, TypeOK, LeaseIsExclusive, Lock,
       Holding, Alarming, Active, Ended
<1>13. ASSUME NEW r \in Runs, WriteState(r, "alarmState", "done", "failed")
     PROVE  LeaseIsExclusive'
  BY <1>13 DEF WriteState, Move, Fault, world, TypeOK, LeaseIsExclusive, Lock,
       Holding, Alarming, Active, Ended
<1>14. ASSUME NEW r \in Runs, Kill(r)
     PROVE  LeaseIsExclusive'
  BY <1>14 DEF Kill, Fault, files, world, TypeOK, LeaseIsExclusive, Lock,
       Holding, Alarming, Active, Ended
<1>15. CASE Disable
  BY <1>15 DEF Disable, files, TypeOK, LeaseIsExclusive, Lock, Holding,
       Alarming, Active, Ended
<1>16. CASE Tick
  BY <1>16 DEF Tick, files, TypeOK, LeaseIsExclusive, Lock, Holding, Alarming,
       Active, Ended
<1> QED
  BY <1>1, <1>2, <1>3, <1>4, <1>5, <1>6, <1>7, <1>8, <1>9,
     <1>10, <1>11, <1>12, <1>13, <1>14, <1>15, <1>16
     DEF Next, Step

(* A lease file is held or was left behind.                                *)
LEMMA LockStep ==
  ASSUME TypeOK, LeaseIsExclusive, LockInv, [Next]_vars
  PROVE  LockInv'
<1> USE ControllerAssumption, NoControllerRecord
<1>1. CASE UNCHANGED vars
  BY <1>1 DEF vars, TypeOK, LeaseIsExclusive, LockInv, Lock, Holding, Alarming,
       Active, Ended
<1>2. ASSUME NEW r \in Runs, ReadPrior(r)
     PROVE  LockInv'
  BY <1>2 DEF ReadPrior, files, world, TypeOK, LeaseIsExclusive, LockInv, Lock,
       Holding, Alarming, Active, Ended
<1>3. ASSUME NEW r \in Runs, Look(r)
     PROVE  LockInv'
  BY <1>3 DEF Look, Move, files, world, TypeOK, LeaseIsExclusive, LockInv,
       Lock, Holding, Alarming, Active, Ended
<1>4. ASSUME NEW r \in Runs, LeaseHeld(r)
     PROVE  LockInv'
  BY <1>4 DEF LeaseHeld, Move, files, world, TypeOK, LeaseIsExclusive, LockInv,
       Lock, Holding, Alarming, Active, Ended
<1>5. ASSUME NEW r \in Runs, LeaseStale(r)
     PROVE  LockInv'
  BY <1>5 DEF LeaseStale, MoveWith, files, world, TypeOK, LeaseIsExclusive,
       LockInv, Lock, Holding, Alarming, Active, Ended
<1>6. ASSUME NEW r \in Runs, OpenLock(r)
     PROVE  LockInv'
  BY <1>6 DEF OpenLock, Move, world, TypeOK, LeaseIsExclusive, LockInv, Lock,
       Holding, Alarming, Active, Ended
<1>7. ASSUME NEW r \in Runs, WriteLock(r)
     PROVE  LockInv'
  BY <1>7, WriteLockEffect DEF WriteLock, Move, Fault, world, TypeOK,
       LeaseIsExclusive, LockInv, Lock, Holding, Alarming, Active, Ended
<1>8. ASSUME NEW r \in Runs, ReadResult(r)
     PROVE  LockInv'
  BY <1>8 DEF ReadResult, Move, MoveWith, files, world, TypeOK,
       LeaseIsExclusive, LockInv, Lock, Holding, Alarming, Active, Ended
<1>9. ASSUME NEW r \in Runs, WriteBackup(r, "backup", "state", "unlock")
     PROVE  LockInv'
  BY <1>9 DEF WriteBackup, Move, Fault, world, TypeOK, LeaseIsExclusive,
       LockInv, Lock, Holding, Alarming, Active, Ended
<1>10. ASSUME NEW r \in Runs, WriteState(r, "state", "unlock", "unlock")
     PROVE  LockInv'
  BY <1>10 DEF WriteState, Move, Fault, world, TypeOK, LeaseIsExclusive,
       LockInv, Lock, Holding, Alarming, Active, Ended
<1>11. ASSUME NEW r \in Runs, Unlock(r)
     PROVE  LockInv'
  BY <1>11 DEF Unlock, Move, world, TypeOK, LeaseIsExclusive, LockInv, Lock,
       Holding, Alarming, Active, Ended
<1>12. ASSUME NEW r \in Runs, WriteBackup(r, "alarmBackup", "alarmState", "failed")
     PROVE  LockInv'
  BY <1>12 DEF WriteBackup, Move, Fault, world, TypeOK, LeaseIsExclusive,
       LockInv, Lock, Holding, Alarming, Active, Ended
<1>13. ASSUME NEW r \in Runs, WriteState(r, "alarmState", "done", "failed")
     PROVE  LockInv'
  BY <1>13 DEF WriteState, Move, Fault, world, TypeOK, LeaseIsExclusive,
       LockInv, Lock, Holding, Alarming, Active, Ended
<1>14. ASSUME NEW r \in Runs, Kill(r)
     PROVE  LockInv'
  BY <1>14 DEF Kill, Fault, files, world, TypeOK, LeaseIsExclusive, LockInv,
       Lock, Holding, Alarming, Active, Ended
<1>15. CASE Disable
  BY <1>15 DEF Disable, files, TypeOK, LeaseIsExclusive, LockInv, Lock,
       Holding, Alarming, Active, Ended
<1>16. CASE Tick
  BY <1>16 DEF Tick, files, TypeOK, LeaseIsExclusive, LockInv, Lock, Holding,
       Alarming, Active, Ended
<1> QED
  BY <1>1, <1>2, <1>3, <1>4, <1>5, <1>6, <1>7, <1>8, <1>9,
     <1>10, <1>11, <1>12, <1>13, <1>14, <1>15, <1>16
     DEF Next, Step

(* Without overlap, one invocation is active.                              *)
LEMMA SoloStep ==
  ASSUME TypeOK, Solo, [Next]_vars
  PROVE  Solo'
<1> USE ControllerAssumption, NoControllerRecord
<1>1. CASE UNCHANGED vars
  BY <1>1 DEF vars, TypeOK, Solo, Holding, Alarming, Active, Ended
<1>2. ASSUME NEW r \in Runs, ReadPrior(r)
     PROVE  Solo'
  <2> DEFINE active == {q \in Runs : pc[q] \in Active}
  <2>1. IsFiniteSet(active) /\ Cardinality(active) \in Nat
    BY FS_Subset, FS_CardinalityType
  <2>2. ASSUME overlap = 1 PROVE active = {}
    BY <1>2, <2>1, <2>2, FS_EmptySet DEF ReadPrior
  <2> QED
    BY <1>2, <2>2 DEF ReadPrior, files, world, TypeOK, Solo, Holding, Alarming,
         Active, Ended
<1>3. ASSUME NEW r \in Runs, Look(r)
     PROVE  Solo'
  BY <1>3 DEF Look, Move, files, world, TypeOK, Solo, Holding, Alarming,
       Active, Ended
<1>4. ASSUME NEW r \in Runs, LeaseHeld(r)
     PROVE  Solo'
  BY <1>4 DEF LeaseHeld, Move, files, world, TypeOK, Solo, Holding, Alarming,
       Active, Ended
<1>5. ASSUME NEW r \in Runs, LeaseStale(r)
     PROVE  Solo'
  BY <1>5 DEF LeaseStale, MoveWith, files, world, TypeOK, Solo, Holding,
       Alarming, Active, Ended
<1>6. ASSUME NEW r \in Runs, OpenLock(r)
     PROVE  Solo'
  BY <1>6 DEF OpenLock, Move, world, TypeOK, Solo, Holding, Alarming, Active,
       Ended
<1>7. ASSUME NEW r \in Runs, WriteLock(r)
     PROVE  Solo'
  BY <1>7 DEF WriteLock, Move, Fault, world, TypeOK, Solo, Holding, Alarming,
       Active, Ended
<1>8. ASSUME NEW r \in Runs, ReadResult(r)
     PROVE  Solo'
  BY <1>8 DEF ReadResult, Move, MoveWith, files, world, Local, TypeOK, Solo,
       Holding, Alarming, Active, Ended
<1>9. ASSUME NEW r \in Runs, WriteBackup(r, "backup", "state", "unlock")
     PROVE  Solo'
  BY <1>9 DEF WriteBackup, Move, Fault, world, TypeOK, Solo, Holding, Alarming,
       Active, Ended
<1>10. ASSUME NEW r \in Runs, WriteState(r, "state", "unlock", "unlock")
     PROVE  Solo'
  BY <1>10 DEF WriteState, Move, Fault, world, TypeOK, Solo, Holding, Alarming,
       Active, Ended
<1>11. ASSUME NEW r \in Runs, Unlock(r)
     PROVE  Solo'
  BY <1>11 DEF Unlock, Move, world, TypeOK, Solo, Holding, Alarming, Active,
       Ended
<1>12. ASSUME NEW r \in Runs, WriteBackup(r, "alarmBackup", "alarmState", "failed")
     PROVE  Solo'
  BY <1>12 DEF WriteBackup, Move, Fault, world, TypeOK, Solo, Holding,
       Alarming, Active, Ended
<1>13. ASSUME NEW r \in Runs, WriteState(r, "alarmState", "done", "failed")
     PROVE  Solo'
  BY <1>13 DEF WriteState, Move, Fault, world, TypeOK, Solo, Holding, Alarming,
       Active, Ended
<1>14. ASSUME NEW r \in Runs, Kill(r)
     PROVE  Solo'
  BY <1>14 DEF Kill, Fault, files, world, TypeOK, Solo, Holding, Alarming,
       Active, Ended
<1>15. CASE Disable
  BY <1>15 DEF Disable, files, TypeOK, Solo, Holding, Alarming, Active, Ended
<1>16. CASE Tick
  BY <1>16 DEF Tick, files, TypeOK, Solo, Holding, Alarming, Active, Ended
<1> QED
  BY <1>1, <1>2, <1>3, <1>4, <1>5, <1>6, <1>7, <1>8, <1>9,
     <1>10, <1>11, <1>12, <1>13, <1>14, <1>15, <1>16
     DEF Next, Step

(* What will be written follows what was read.                             *)
LEMMA LocalStep ==
  ASSUME TypeOK, LocalInv, [Next]_vars
  PROVE  LocalInv'
<1> USE ControllerAssumption, NoControllerRecord
<1>1. CASE UNCHANGED vars
  BY <1>1 DEF vars, TypeOK, LocalInv, Local, Blank, Holding, Alarming, Active,
       Ended
<1>2. ASSUME NEW r \in Runs, ReadPrior(r)
     PROVE  LocalInv'
  BY <1>2 DEF ReadPrior, files, world, TypeOK, LocalInv, Local, Blank, Holding,
       Alarming, Active, Ended
<1>3. ASSUME NEW r \in Runs, Look(r)
     PROVE  LocalInv'
  BY <1>3 DEF Look, Move, files, world, TypeOK, LocalInv, Local, Blank,
       Holding, Alarming, Active, Ended
<1>4. ASSUME NEW r \in Runs, LeaseHeld(r)
     PROVE  LocalInv'
  BY <1>4 DEF LeaseHeld, Move, files, world, TypeOK, LocalInv, Local, Blank,
       Holding, Alarming, Active, Ended
<1>5. ASSUME NEW r \in Runs, LeaseStale(r)
     PROVE  LocalInv'
  BY <1>5, AlarmFollows DEF LeaseStale, MoveWith, files, world, TypeOK,
       LocalInv, Local, Blank, Holding, Alarming, Active, Ended
<1>6. ASSUME NEW r \in Runs, OpenLock(r)
     PROVE  LocalInv'
  BY <1>6 DEF OpenLock, Move, world, TypeOK, LocalInv, Local, Blank, Holding,
       Alarming, Active, Ended
<1>7. ASSUME NEW r \in Runs, WriteLock(r)
     PROVE  LocalInv'
  BY <1>7 DEF WriteLock, Move, Fault, world, TypeOK, LocalInv, Local, Blank,
       Holding, Alarming, Active, Ended
<1>8. ASSUME NEW r \in Runs, ReadResult(r)
     PROVE  LocalInv'
  BY <1>8, OutcomeFollows DEF ReadResult, Move, MoveWith, files, world, TypeOK,
       LocalInv, Local, Blank, Holding, Alarming, Active, Ended
<1>9. ASSUME NEW r \in Runs, WriteBackup(r, "backup", "state", "unlock")
     PROVE  LocalInv'
  BY <1>9 DEF WriteBackup, Move, Fault, world, TypeOK, LocalInv, Local, Blank,
       Holding, Alarming, Active, Ended
<1>10. ASSUME NEW r \in Runs, WriteState(r, "state", "unlock", "unlock")
     PROVE  LocalInv'
  BY <1>10 DEF WriteState, Move, Fault, world, TypeOK, LocalInv, Local, Blank,
       Holding, Alarming, Active, Ended
<1>11. ASSUME NEW r \in Runs, Unlock(r)
     PROVE  LocalInv'
  BY <1>11 DEF Unlock, Move, world, TypeOK, LocalInv, Local, Blank, Holding,
       Alarming, Active, Ended
<1>12. ASSUME NEW r \in Runs, WriteBackup(r, "alarmBackup", "alarmState", "failed")
     PROVE  LocalInv'
  BY <1>12 DEF WriteBackup, Move, Fault, world, TypeOK, LocalInv, Local, Blank,
       Holding, Alarming, Active, Ended
<1>13. ASSUME NEW r \in Runs, WriteState(r, "alarmState", "done", "failed")
     PROVE  LocalInv'
  BY <1>13 DEF WriteState, Move, Fault, world, TypeOK, LocalInv, Local, Blank,
       Holding, Alarming, Active, Ended
<1>14. ASSUME NEW r \in Runs, Kill(r)
     PROVE  LocalInv'
  BY <1>14 DEF Kill, Fault, files, world, TypeOK, LocalInv, Local, Blank,
       Holding, Alarming, Active, Ended
<1>15. CASE Disable
  BY <1>15 DEF Disable, files, TypeOK, LocalInv, Local, Blank, Holding,
       Alarming, Active, Ended
<1>16. CASE Tick
  BY <1>16 DEF Tick, files, TypeOK, LocalInv, Local, Blank, Holding, Alarming,
       Active, Ended
<1> QED
  BY <1>1, <1>2, <1>3, <1>4, <1>5, <1>6, <1>7, <1>8, <1>9,
     <1>10, <1>11, <1>12, <1>13, <1>14, <1>15, <1>16
     DEF Next, Step

(* A dead holder's lease file is never removed or replaced.                *)
LEMMA DeadStep ==
  ASSUME TypeOK, LeaseIsExclusive, HolderIsDead, [Next]_vars
  PROVE  HolderIsDead'
<1> USE ControllerAssumption, NoControllerRecord
<1>1. CASE UNCHANGED vars
  BY <1>1 DEF vars, TypeOK, LeaseIsExclusive, HolderIsDead, Lock, Holding,
       Alarming, Active, Ended
<1>2. ASSUME NEW r \in Runs, ReadPrior(r)
     PROVE  HolderIsDead'
  BY <1>2 DEF ReadPrior, files, world, TypeOK, LeaseIsExclusive, HolderIsDead,
       Lock, Holding, Alarming, Active, Ended
<1>3. ASSUME NEW r \in Runs, Look(r)
     PROVE  HolderIsDead'
  BY <1>3 DEF Look, Move, files, world, TypeOK, LeaseIsExclusive, HolderIsDead,
       Lock, Holding, Alarming, Active, Ended
<1>4. ASSUME NEW r \in Runs, LeaseHeld(r)
     PROVE  HolderIsDead'
  BY <1>4 DEF LeaseHeld, Move, files, world, TypeOK, LeaseIsExclusive,
       HolderIsDead, Lock, Holding, Alarming, Active, Ended
<1>5. ASSUME NEW r \in Runs, LeaseStale(r)
     PROVE  HolderIsDead'
  BY <1>5 DEF LeaseStale, MoveWith, files, world, TypeOK, LeaseIsExclusive,
       HolderIsDead, Lock, Holding, Alarming, Active, Ended
<1>6. ASSUME NEW r \in Runs, OpenLock(r)
     PROVE  HolderIsDead'
  BY <1>6 DEF OpenLock, Move, world, TypeOK, LeaseIsExclusive, HolderIsDead,
       Lock, Holding, Alarming, Active, Ended
<1>7. ASSUME NEW r \in Runs, WriteLock(r)
     PROVE  HolderIsDead'
  BY <1>7 DEF WriteLock, Move, Fault, world, TypeOK, LeaseIsExclusive,
       HolderIsDead, Lock, Holding, Alarming, Active, Ended
<1>8. ASSUME NEW r \in Runs, ReadResult(r)
     PROVE  HolderIsDead'
  BY <1>8 DEF ReadResult, Move, MoveWith, files, world, TypeOK,
       LeaseIsExclusive, HolderIsDead, Lock, Holding, Alarming, Active, Ended
<1>9. ASSUME NEW r \in Runs, WriteBackup(r, "backup", "state", "unlock")
     PROVE  HolderIsDead'
  BY <1>9 DEF WriteBackup, Move, Fault, world, TypeOK, LeaseIsExclusive,
       HolderIsDead, Lock, Holding, Alarming, Active, Ended
<1>10. ASSUME NEW r \in Runs, WriteState(r, "state", "unlock", "unlock")
     PROVE  HolderIsDead'
  BY <1>10 DEF WriteState, Move, Fault, world, TypeOK, LeaseIsExclusive,
       HolderIsDead, Lock, Holding, Alarming, Active, Ended
<1>11. ASSUME NEW r \in Runs, Unlock(r)
     PROVE  HolderIsDead'
  BY <1>11 DEF Unlock, Move, world, TypeOK, LeaseIsExclusive, HolderIsDead,
       Lock, Holding, Alarming, Active, Ended
<1>12. ASSUME NEW r \in Runs, WriteBackup(r, "alarmBackup", "alarmState", "failed")
     PROVE  HolderIsDead'
  BY <1>12 DEF WriteBackup, Move, Fault, world, TypeOK, LeaseIsExclusive,
       HolderIsDead, Lock, Holding, Alarming, Active, Ended
<1>13. ASSUME NEW r \in Runs, WriteState(r, "alarmState", "done", "failed")
     PROVE  HolderIsDead'
  BY <1>13 DEF WriteState, Move, Fault, world, TypeOK, LeaseIsExclusive,
       HolderIsDead, Lock, Holding, Alarming, Active, Ended
<1>14. ASSUME NEW r \in Runs, Kill(r)
     PROVE  HolderIsDead'
  BY <1>14 DEF Kill, Fault, files, world, TypeOK, LeaseIsExclusive,
       HolderIsDead, Lock, Holding, Alarming, Active, Ended
<1>15. CASE Disable
  BY <1>15 DEF Disable, files, TypeOK, LeaseIsExclusive, HolderIsDead, Lock,
       Holding, Alarming, Active, Ended
<1>16. CASE Tick
  BY <1>16 DEF Tick, files, TypeOK, LeaseIsExclusive, HolderIsDead, Lock,
       Holding, Alarming, Active, Ended
<1> QED
  BY <1>1, <1>2, <1>3, <1>4, <1>5, <1>6, <1>7, <1>8, <1>9,
     <1>10, <1>11, <1>12, <1>13, <1>14, <1>15, <1>16
     DEF Next, Step

(* Alone, an invocation has read and saved what it replaces.               *)
LEMMA SoloInvStep ==
  ASSUME TypeOK, LeaseIsExclusive, LockInv, Solo, LocalInv, SoloInv, [Next]_vars
  PROVE  SoloInv'
<1> USE ControllerAssumption, NoControllerRecord
<1> USE DeadStep
<1>1. CASE UNCHANGED vars
  BY <1>1 DEF vars, TypeOK, Solo, LocalInv, SoloInv, Follows, Holding,
       Alarming, Active, Ended
<1>2. ASSUME NEW r \in Runs, ReadPrior(r)
     PROVE  SoloInv'
  BY <1>2 DEF ReadPrior, files, world, TypeOK, Solo, LocalInv, SoloInv,
       Follows, Holding, Alarming, Active, Ended
<1>3. ASSUME NEW r \in Runs, Look(r)
     PROVE  SoloInv'
  BY <1>3 DEF Look, Move, files, world, TypeOK, Solo, LocalInv, SoloInv,
       Follows, Holding, Alarming, Active, Ended
<1>4. ASSUME NEW r \in Runs, LeaseHeld(r)
     PROVE  SoloInv'
  BY <1>4 DEF LeaseHeld, Move, files, world, TypeOK, Solo, LocalInv, SoloInv,
       Follows, Holding, Alarming, Active, Ended
<1>5. ASSUME NEW r \in Runs, LeaseStale(r)
     PROVE  SoloInv'
  <2>1. overlap = 1 => HolderIsDead
    BY <1>5 DEF LeaseStale, MoveWith, Stale, HolderIsDead, TypeOK, LockInv,
         Solo, LocalInv, Local, Lock, Holding, Alarming, Active, Ended
  <2>2. overlap = 1 => HolderIsDead'
    BY <2>1, DeadStep
  <2> QED
    BY <1>5, <2>2 DEF LeaseStale, MoveWith, files, world, Local, TypeOK, Solo,
         LocalInv, SoloInv, Follows, Holding, Alarming, Active, Ended
<1>6. ASSUME NEW r \in Runs, OpenLock(r)
     PROVE  SoloInv'
  BY <1>6 DEF OpenLock, Move, world, TypeOK, Solo, LocalInv, SoloInv, Follows,
       Holding, Alarming, Active, Ended
<1>7. ASSUME NEW r \in Runs, WriteLock(r)
     PROVE  SoloInv'
  BY <1>7 DEF WriteLock, Move, Fault, world, TypeOK, Solo, LocalInv, SoloInv,
       Follows, Holding, Alarming, Active, Ended
<1>8. ASSUME NEW r \in Runs, ReadResult(r)
     PROVE  SoloInv'
  BY <1>8 DEF ReadResult, Move, MoveWith, files, world, Local, TypeOK, Solo,
       LocalInv, SoloInv, Follows, Holding, Alarming, Active, Ended
<1>9. ASSUME NEW r \in Runs, WriteBackup(r, "backup", "state", "unlock")
     PROVE  SoloInv'
  BY <1>9 DEF WriteBackup, Move, Fault, world, TypeOK, Solo, LocalInv, SoloInv,
       Follows, Holding, Alarming, Active, Ended
<1>10. ASSUME NEW r \in Runs, WriteState(r, "state", "unlock", "unlock")
     PROVE  SoloInv'
  BY <1>10 DEF WriteState, Move, Fault, world, TypeOK, Solo, LocalInv, SoloInv,
       Follows, Holding, Alarming, Active, Ended
<1>11. ASSUME NEW r \in Runs, Unlock(r)
     PROVE  SoloInv'
  BY <1>11 DEF Unlock, Move, world, TypeOK, Solo, LocalInv, SoloInv, Follows,
       Holding, Alarming, Active, Ended
<1>12. ASSUME NEW r \in Runs, WriteBackup(r, "alarmBackup", "alarmState", "failed")
     PROVE  SoloInv'
  BY <1>12 DEF WriteBackup, Move, Fault, world, TypeOK, Solo, LocalInv,
       SoloInv, Follows, Holding, Alarming, Active, Ended
<1>13. ASSUME NEW r \in Runs, WriteState(r, "alarmState", "done", "failed")
     PROVE  SoloInv'
  BY <1>13 DEF WriteState, Move, Fault, world, TypeOK, Solo, LocalInv, SoloInv,
       Follows, Holding, Alarming, Active, Ended
<1>14. ASSUME NEW r \in Runs, Kill(r)
     PROVE  SoloInv'
  BY <1>14 DEF Kill, Fault, files, world, TypeOK, Solo, LocalInv, SoloInv,
       Follows, Holding, Alarming, Active, Ended
<1>15. CASE Disable
  BY <1>15 DEF Disable, files, TypeOK, Solo, LocalInv, SoloInv, Follows,
       Holding, Alarming, Active, Ended
<1>16. CASE Tick
  BY <1>16 DEF Tick, files, TypeOK, Solo, LocalInv, SoloInv, Follows, Holding,
       Alarming, Active, Ended
<1> QED
  BY <1>1, <1>2, <1>3, <1>4, <1>5, <1>6, <1>7, <1>8, <1>9,
     <1>10, <1>11, <1>12, <1>13, <1>14, <1>15, <1>16
     DEF Next, Step

(* The snapshot stays the predecessor of the state.                        *)
LEMMA BackupStep ==
  ASSUME TypeOK, LocalInv, SoloInv, BackupIsPredecessor, [Next]_vars
  PROVE  BackupIsPredecessor'
<1> USE ControllerAssumption, NoControllerRecord
<1>1. CASE UNCHANGED vars
  BY <1>1 DEF vars, TypeOK, LocalInv, SoloInv, Follows, BackupIsPredecessor,
       Holding, Alarming, Active, Ended
<1>2. ASSUME NEW r \in Runs, ReadPrior(r)
     PROVE  BackupIsPredecessor'
  BY <1>2 DEF ReadPrior, files, world, TypeOK, LocalInv, SoloInv, Follows,
       BackupIsPredecessor, Holding, Alarming, Active, Ended
<1>3. ASSUME NEW r \in Runs, Look(r)
     PROVE  BackupIsPredecessor'
  BY <1>3 DEF Look, Move, files, world, TypeOK, LocalInv, SoloInv, Follows,
       BackupIsPredecessor, Holding, Alarming, Active, Ended
<1>4. ASSUME NEW r \in Runs, LeaseHeld(r)
     PROVE  BackupIsPredecessor'
  BY <1>4 DEF LeaseHeld, Move, files, world, TypeOK, LocalInv, SoloInv,
       Follows, BackupIsPredecessor, Holding, Alarming, Active, Ended
<1>5. ASSUME NEW r \in Runs, LeaseStale(r)
     PROVE  BackupIsPredecessor'
  BY <1>5 DEF LeaseStale, MoveWith, files, world, TypeOK, LocalInv, SoloInv,
       Follows, BackupIsPredecessor, Holding, Alarming, Active, Ended
<1>6. ASSUME NEW r \in Runs, OpenLock(r)
     PROVE  BackupIsPredecessor'
  BY <1>6 DEF OpenLock, Move, world, TypeOK, LocalInv, SoloInv, Follows,
       BackupIsPredecessor, Holding, Alarming, Active, Ended
<1>7. ASSUME NEW r \in Runs, WriteLock(r)
     PROVE  BackupIsPredecessor'
  BY <1>7 DEF WriteLock, Move, Fault, world, TypeOK, LocalInv, SoloInv,
       Follows, BackupIsPredecessor, Holding, Alarming, Active, Ended
<1>8. ASSUME NEW r \in Runs, ReadResult(r)
     PROVE  BackupIsPredecessor'
  BY <1>8 DEF ReadResult, Move, MoveWith, files, world, TypeOK, LocalInv,
       SoloInv, Follows, BackupIsPredecessor, Holding, Alarming, Active, Ended
<1>9. ASSUME NEW r \in Runs, WriteBackup(r, "backup", "state", "unlock")
     PROVE  BackupIsPredecessor'
  BY <1>9 DEF WriteBackup, Move, Fault, world, TypeOK, LocalInv, SoloInv,
       Follows, BackupIsPredecessor, Holding, Alarming, Active, Ended
<1>10. ASSUME NEW r \in Runs, WriteState(r, "state", "unlock", "unlock")
     PROVE  BackupIsPredecessor'
  BY <1>10 DEF WriteState, Move, Fault, world, TypeOK, LocalInv, SoloInv,
       Follows, BackupIsPredecessor, Holding, Alarming, Active, Ended
<1>11. ASSUME NEW r \in Runs, Unlock(r)
     PROVE  BackupIsPredecessor'
  BY <1>11 DEF Unlock, Move, world, TypeOK, LocalInv, SoloInv, Follows,
       BackupIsPredecessor, Holding, Alarming, Active, Ended
<1>12. ASSUME NEW r \in Runs, WriteBackup(r, "alarmBackup", "alarmState", "failed")
     PROVE  BackupIsPredecessor'
  BY <1>12 DEF WriteBackup, Move, Fault, world, TypeOK, LocalInv, SoloInv,
       Follows, BackupIsPredecessor, Holding, Alarming, Active, Ended
<1>13. ASSUME NEW r \in Runs, WriteState(r, "alarmState", "done", "failed")
     PROVE  BackupIsPredecessor'
  BY <1>13 DEF WriteState, Move, Fault, world, TypeOK, LocalInv, SoloInv,
       Follows, BackupIsPredecessor, Holding, Alarming, Active, Ended
<1>14. ASSUME NEW r \in Runs, Kill(r)
     PROVE  BackupIsPredecessor'
  BY <1>14 DEF Kill, Fault, files, world, TypeOK, LocalInv, SoloInv, Follows,
       BackupIsPredecessor, Holding, Alarming, Active, Ended
<1>15. CASE Disable
  BY <1>15 DEF Disable, files, TypeOK, LocalInv, SoloInv, Follows,
       BackupIsPredecessor, Holding, Alarming, Active, Ended
<1>16. CASE Tick
  BY <1>16 DEF Tick, files, TypeOK, LocalInv, SoloInv, Follows,
       BackupIsPredecessor, Holding, Alarming, Active, Ended
<1> QED
  BY <1>1, <1>2, <1>3, <1>4, <1>5, <1>6, <1>7, <1>8, <1>9,
     <1>10, <1>11, <1>12, <1>13, <1>14, <1>15, <1>16
     DEF Next, Step

(* ATTENTION stays earned.                                                 *)
LEMMA AttentionStep ==
  ASSUME TypeOK, LeaseIsExclusive, LockInv, Solo, LocalInv, SoloInv,
         AttentionIsEarned, [Next]_vars
  PROVE  AttentionIsEarned'
<1> USE ControllerAssumption, NoControllerRecord
<1> USE DeadStep
<1>1. CASE UNCHANGED vars
  BY <1>1 DEF vars, TypeOK, LocalInv, SoloInv, AttentionIsEarned, Holding,
       Alarming, Active, Ended
<1>2. ASSUME NEW r \in Runs, ReadPrior(r)
     PROVE  AttentionIsEarned'
  BY <1>2 DEF ReadPrior, files, world, TypeOK, LocalInv, SoloInv,
       AttentionIsEarned, Holding, Alarming, Active, Ended
<1>3. ASSUME NEW r \in Runs, Look(r)
     PROVE  AttentionIsEarned'
  BY <1>3 DEF Look, Move, files, world, TypeOK, LocalInv, SoloInv,
       AttentionIsEarned, Holding, Alarming, Active, Ended
<1>4. ASSUME NEW r \in Runs, LeaseHeld(r)
     PROVE  AttentionIsEarned'
  BY <1>4 DEF LeaseHeld, Move, files, world, TypeOK, LocalInv, SoloInv,
       AttentionIsEarned, Holding, Alarming, Active, Ended
<1>5. ASSUME NEW r \in Runs, LeaseStale(r)
     PROVE  AttentionIsEarned'
  BY <1>5 DEF LeaseStale, MoveWith, files, world, TypeOK, LocalInv, SoloInv,
       AttentionIsEarned, Holding, Alarming, Active, Ended
<1>6. ASSUME NEW r \in Runs, OpenLock(r)
     PROVE  AttentionIsEarned'
  BY <1>6 DEF OpenLock, Move, world, TypeOK, LocalInv, SoloInv,
       AttentionIsEarned, Holding, Alarming, Active, Ended
<1>7. ASSUME NEW r \in Runs, WriteLock(r)
     PROVE  AttentionIsEarned'
  BY <1>7 DEF WriteLock, Move, Fault, world, TypeOK, LocalInv, SoloInv,
       AttentionIsEarned, Holding, Alarming, Active, Ended
<1>8. ASSUME NEW r \in Runs, ReadResult(r)
     PROVE  AttentionIsEarned'
  BY <1>8 DEF ReadResult, Move, MoveWith, files, world, TypeOK, LocalInv,
       SoloInv, AttentionIsEarned, Holding, Alarming, Active, Ended
<1>9. ASSUME NEW r \in Runs, WriteBackup(r, "backup", "state", "unlock")
     PROVE  AttentionIsEarned'
  BY <1>9 DEF WriteBackup, Move, Fault, world, TypeOK, LocalInv, SoloInv,
       AttentionIsEarned, Holding, Alarming, Active, Ended
<1>10. ASSUME NEW r \in Runs, WriteState(r, "state", "unlock", "unlock")
     PROVE  AttentionIsEarned'
  BY <1>10 DEF WriteState, Move, Fault, world, TypeOK, LocalInv, SoloInv,
       AttentionIsEarned, Holding, Alarming, Active, Ended
<1>11. ASSUME NEW r \in Runs, Unlock(r)
     PROVE  AttentionIsEarned'
  BY <1>11 DEF Unlock, Move, world, TypeOK, LocalInv, SoloInv,
       AttentionIsEarned, Holding, Alarming, Active, Ended
<1>12. ASSUME NEW r \in Runs, WriteBackup(r, "alarmBackup", "alarmState", "failed")
     PROVE  AttentionIsEarned'
  BY <1>12 DEF WriteBackup, Move, Fault, world, TypeOK, LocalInv, SoloInv,
       AttentionIsEarned, Holding, Alarming, Active, Ended
<1>13. ASSUME NEW r \in Runs, WriteState(r, "alarmState", "done", "failed")
     PROVE  AttentionIsEarned'
  BY <1>13 DEF WriteState, Move, Fault, world, TypeOK, LocalInv, SoloInv,
       AttentionIsEarned, Holding, Alarming, Active, Ended
<1>14. ASSUME NEW r \in Runs, Kill(r)
     PROVE  AttentionIsEarned'
  BY <1>14 DEF Kill, Fault, files, world, TypeOK, LocalInv, SoloInv,
       AttentionIsEarned, Holding, Alarming, Active, Ended
<1>15. CASE Disable
  BY <1>15 DEF Disable, files, TypeOK, LocalInv, SoloInv, AttentionIsEarned,
       Holding, Alarming, Active, Ended
<1>16. CASE Tick
  BY <1>16 DEF Tick, files, TypeOK, LocalInv, SoloInv, AttentionIsEarned,
       Holding, Alarming, Active, Ended
<1> QED
  BY <1>1, <1>2, <1>3, <1>4, <1>5, <1>6, <1>7, <1>8, <1>9,
     <1>10, <1>11, <1>12, <1>13, <1>14, <1>15, <1>16
     DEF Next, Step

(* The invariant holds initially.                                          *)
LEMMA ControllerInit ==
  ASSUME Init
  PROVE  ControllerInv
<1> USE ControllerAssumption DEF Init
<1>1. TypeOK
  BY DEF TypeOK, Local, Blank
<1>2. LeaseIsExclusive /\ LockInv /\ Solo
  BY DEF LeaseIsExclusive, LockInv, Solo, Holding, Alarming, Active
<1>3. LocalInv /\ SoloInv
  BY DEF LocalInv, SoloInv, Blank, Holding, Alarming, Active
<1> QED
  BY <1>1, <1>2, <1>3 DEF ControllerInv, BackupIsPredecessor, AttentionIsEarned

(***************************************************************************)
(* Files, leases and local variables stay consistent at every step of      *)
(* every invocation of runOnce(), for any number of invocations and faults. *)
(***************************************************************************)
THEOREM ControllerInvariant == Spec => []ControllerInv
<1>1. Init => ControllerInv
  BY ControllerInit
<1>2. ControllerInv /\ [Next]_vars => ControllerInv'
  BY TypeStep, LeaseStep, LockStep, SoloStep, LocalStep, SoloInvStep, BackupStep,
     AttentionStep DEF ControllerInv
<1> QED
  BY <1>1, <1>2, PTL DEF Spec

(***************************************************************************)
(* Type correctness; in particular the retry counter of runOnce() stays    *)
(* within maxExternalRetries.                                              *)
(***************************************************************************)
THEOREM ControllerTypeCorrect == Spec => []TypeOK
<1>1. ControllerInv => TypeOK
  BY DEF ControllerInv
<1> QED
  BY <1>1, ControllerInvariant, PTL

(***************************************************************************)
(* The lease file belongs to one invocation from its opening to its        *)
(* removal, however many invocations overlap (runOnce(): 'wx').            *)
(***************************************************************************)
THEOREM LeaseExclusive == Spec => []LeaseIsExclusive
<1>1. ControllerInv => LeaseIsExclusive
  BY DEF ControllerInv
<1> QED
  BY <1>1, ControllerInvariant, PTL

(***************************************************************************)
(* Without overlap the snapshot is the predecessor of the state, or the    *)
(* state itself (runOnce(): the order of its two writes).                  *)
(***************************************************************************)
THEOREM BackupPrecedes == Spec => []BackupIsPredecessor
<1>1. ControllerInv => BackupIsPredecessor
  BY DEF ControllerInv
<1> QED
  BY <1>1, ControllerInvariant, PTL

(***************************************************************************)
(* Without overlap ATTENTION means a dead holder past the deadman margin   *)
(* (runOnce(): the stale lease branch).                                    *)
(***************************************************************************)
THEOREM AttentionEarned == Spec => []AttentionIsEarned
<1>1. ControllerInv => AttentionIsEarned
  BY DEF ControllerInv
<1> QED
  BY <1>1, ControllerInvariant, PTL

(* A write of the state file replaces the state it follows.                *)
LEMMA AdvanceStep ==
  ASSUME ControllerInv, [Next]_vars, overlap = 1, state' # state
  PROVE  Sequence(state') = Sequence(state) + 1 /\ state'.prior = Digest(state)
<1>1. PICK r \in Runs : \/ WriteState(r, "state", "unlock", "unlock")
                       \/ WriteState(r, "alarmState", "done", "failed")
  BY DEF Next, Step, vars, files, world, ReadPrior, Look, LeaseHeld,
       LeaseStale,
         OpenLock, WriteLock, ReadResult, WriteBackup, Unlock, Kill, Disable, Tick
<1>2. state' = local[r].next
  BY <1>1 DEF WriteState
<1>3. pc[r] \in {"state", "alarmState"}
  BY <1>1 DEF WriteState, Move
<1>4. local[r].prior = state /\ Follows(local[r].next, local[r].prior)
  BY <1>3 DEF ControllerInv, SoloInv, LocalInv, Holding, Alarming, Active
<1> QED
  BY <1>2, <1>4 DEF Follows, Sequence

(***************************************************************************)
(* Without overlap state.json advances by one sequence number from the     *)
(* state it names as its prior, through kills and failed writes            *)
(* (runOnce(): lease.sequence, priorStateDigest).                          *)
(***************************************************************************)
THEOREM AdvancesInSequence == Spec => SequentialAdvance
<1>1. ControllerInv /\ [Next]_vars =>
        [overlap = 1 /\ state' # state =>
           /\ Sequence(state') = Sequence(state) + 1
           /\ state'.prior = Digest(state)]_vars
  BY AdvanceStep
<1> QED
  BY <1>1, ControllerInvariant, PTL DEF Spec, SequentialAdvance
=============================================================================
