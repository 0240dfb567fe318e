----------------------------- MODULE StoreProofs -----------------------------
(***************************************************************************)
(* Theorems about the services that keep a store of their own across kills *)
(* and restarts, as parts of Services: the setup coordinator's directory   *)
(* and the usage insights of an installation with their receivers.         *)
(***************************************************************************)
EXTENDS AuthorityProofs, SequenceTheorems, WellFoundedInduction

-----------------------------------------------------------------------------
(* Composition: what a step of the services is to each of these two.       *)
LEMMA StoreSteps ==
  ASSUME [ServicesNext]_serviceVars
  PROVE  [SetupNext]_scVars /\ [UsageNext]_uiVars
  <1>1. CASE UNCHANGED serviceVars
    BY <1>1 DEF serviceVars
  <1>2. CASE ServicesNext
    BY <1>2 DEF ServicesNext, Others
  <1> QED BY <1>1, <1>2

-----------------------------------------------------------------------------
(* The setup coordinator                                                   *)

(* A status of the type, with some of its fields changed.                  *)
LEMMA StatusesMade ==
  /\ NewStatus \in SetupStatus /\ NewStatus.health = "PENDING"
  /\ \A s \in SetupStatus :
       /\ \A p \in AuthorityProfiles :
            WithProfile(s, p) \in SetupStatus /\ WithProfile(s, p).health = s.health
       /\ ResetToSafe(s) \in SetupStatus /\ ResetToSafe(s).health = s.health
       /\ HealthySetup(s) \in SetupStatus
       /\ Promoted(s) \in SetupStatus /\ Promoted(s).health = s.health
       /\ \A i \in Issues :
            FailedSetup(s, i) \in SetupStatus /\ FailedSetup(s, i).health = "DEGRADED"
       /\ \A i : Repaired(s, i) \in SetupStatus /\ Repaired(s, i).health = s.health
  <1>0. \A s \in SetupStatus :
          /\ s.decisions \in Nat
          /\ s.warnings \in SUBSET (Issues \cup {RiskWarning})
    BY DEF SetupStatus
  <1>1. NewStatus \in SetupStatus /\ NewStatus.health = "PENDING"
    BY SetupAssumption DEF NewStatus, SetupStatus, AuthorityProfiles
  <1>2. ASSUME NEW s \in SetupStatus, NEW p \in AuthorityProfiles
        PROVE  WithProfile(s, p) \in SetupStatus /\ WithProfile(s, p).health = s.health
    <2> DEFINE w == IF p = "FULL_CONTROL_LAB" THEN s.warnings \cup {RiskWarning}
                    ELSE s.warnings \ {RiskWarning}
    <2>1. w \in SUBSET (Issues \cup {RiskWarning}) /\ s.decisions + 1 \in Nat
      BY <1>0
    <2>2. WithProfile(s, p) = [s EXCEPT !.profile = p, !.decisions = s.decisions + 1, !.warnings = w]
      BY <1>0 DEF WithProfile
    <2> HIDE DEF w
    <2> QED BY <2>1, <2>2 DEF SetupStatus
  <1>3. ASSUME NEW s \in SetupStatus
        PROVE  ResetToSafe(s) \in SetupStatus /\ ResetToSafe(s).health = s.health
    BY <1>2 DEF ResetToSafe, AuthorityProfiles
  <1>4. ASSUME NEW s \in SetupStatus
        PROVE  /\ HealthySetup(s) \in SetupStatus
               /\ Promoted(s) \in SetupStatus /\ Promoted(s).health = s.health
    <2> DEFINE w == s.warnings \ Issues
    <2>1. w \in SUBSET (Issues \cup {RiskWarning}) /\ s.decisions + 1 \in Nat
      BY <1>0
    <2>2. /\ HealthySetup(s) = [s EXCEPT !.health = "PASS", !.healthGate = TRUE, !.identityGate = TRUE,
                                         !.warnings = w, !.resume = TRUE]
          /\ Promoted(s) = [s EXCEPT !.stage = "B", !.decisions = s.decisions + 1]
      BY DEF HealthySetup, Promoted, SetupStatus
    <2> HIDE DEF w
    <2> QED BY <2>1, <2>2 DEF SetupStatus
  <1>5. ASSUME NEW s \in SetupStatus, NEW i \in Issues
        PROVE  FailedSetup(s, i) \in SetupStatus /\ FailedSetup(s, i).health = "DEGRADED"
    BY DEF FailedSetup, SetupStatus
  <1>6. ASSUME NEW s \in SetupStatus, NEW i
        PROVE  Repaired(s, i) \in SetupStatus /\ Repaired(s, i).health = s.health
    <2> DEFINE w == s.warnings \ {i}
    <2>1. w \in SUBSET (Issues \cup {RiskWarning}) /\ s.decisions + 1 \in Nat
      BY <1>0
    <2>2. Repaired(s, i) = [s EXCEPT !.warnings = w, !.decisions = s.decisions + 1, !.resume = TRUE]
      BY DEF Repaired, SetupStatus
    <2> HIDE DEF w
    <2> QED BY <2>1, <2>2 DEF SetupStatus
  <1> QED BY <1>1, <1>2, <1>3, <1>4, <1>5, <1>6

LEMMA SetupInitial == SetupInit => SetupInv
  <1> SUFFICES ASSUME SetupInit PROVE SetupInv
    OBVIOUS
  <1>1. /\ scStatus = NoStatus /\ scTodo = <<>> /\ DOMAIN scTodo = {} /\ scExcused = FALSE
        /\ scFiles = [status |-> NoStatus, config |-> "NONE", evidence |-> "NONE"]
        /\ Len(scTodo) = 0 /\ scTodo = [i \in 1..0 |-> scTodo[i]]
    BY DEF SetupInit, EmptyDirectory
  <1>2. SetupTypeOk
    BY <1>1 DEF SetupTypeOk
  <1> QED BY <1>1, <1>2 DEF SetupInv, HealthyMeansMaterialized, StatusesBacked, NothingSpoilt, Up

(* Nothing is to be done: a status that says PASS has its files.           *)
LEMMA RestBacked ==
  ASSUME SetupInv, scTodo = <<>>, Up, ~scExcused, scStatus.health = "PASS"
  PROVE  scFiles.config = "GOOD" /\ scFiles.evidence = "GOOD"
  <1>1. DOMAIN scTodo = {}
    OBVIOUS
  <1> QED BY <1>1 DEF SetupInv, StatusesBacked, BothGoodAt, GoodAt

(* A handler begins: what it writes is of the types and backed.            *)
LEMMA HandlerKeeps ==
  ASSUME SetupInv, UNCHANGED <<scStatus, scFiles>>, scExcused' \in BOOLEAN, scExcused => scExcused',
         Len(scTodo') \in Nat, scTodo' = [i \in 1..Len(scTodo') |-> scTodo'[i]],
         \A i \in DOMAIN scTodo' :
           /\ scTodo'[i].file \in {"memory", "pending", "directory", "status", "config", "evidence"}
           /\ OfStatus(scTodo'[i]) => scTodo'[i].value \in SetupStatus
           /\ scTodo'[i].file \in {"config", "evidence"} => scTodo'[i].value \in {"GOOD", "BAD"},
         StatusesBacked', NothingSpoilt'
  PROVE  SetupInv'
  <1>1. SetupTypeOk'
    BY DEF SetupInv, SetupTypeOk, OfStatus
  <1>2. HealthyMeansMaterialized'
    BY DEF SetupInv, HealthyMeansMaterialized
  <1> QED BY <1>1, <1>2 DEF SetupInv

(* The files are good now, so they are at every write.                     *)
LEMMA GoodNow ==
  ASSUME scFiles'.config = "GOOD", scFiles'.evidence = "GOOD", NEW i
  PROVE  BothGoodAt(i)'
  BY DEF BothGoodAt, GoodAt

(* persist() of a status that says PASS only if the one in memory does.    *)
LEMMA PersistKeeps ==
  ASSUME SetupInv, Ready, NEW s \in SetupStatus,
         s.health = "PASS" => scStatus.health = "PASS",
         scTodo' = Persist(s), UNCHANGED <<scStatus, scFiles, scExcused>>
  PROVE  SetupInv'
  <1>1. scTodo = <<>> /\ Up
    BY DEF Ready
  <1>2. /\ Len(scTodo') = 2 /\ DOMAIN scTodo' = {1, 2} /\ scTodo' = [i \in 1..2 |-> scTodo'[i]]
        /\ scTodo'[1].file = "memory" /\ scTodo'[1].value = s
        /\ scTodo'[2].file = "status" /\ scTodo'[2].value = s
    BY DEF Persist, Put
  <1>3. ~scExcused /\ scStatus.health = "PASS" => scFiles'.config = "GOOD" /\ scFiles'.evidence = "GOOD"
    BY <1>1, RestBacked
  <1>4. StatusesBacked'
    BY <1>2, <1>3, GoodNow DEF StatusesBacked
  <1>5. NothingSpoilt'
    BY <1>2 DEF NothingSpoilt, Spoils
  <1>6. scExcused' \in BOOLEAN /\ scExcused => scExcused'
    BY DEF SetupInv, SetupTypeOk
  <1> QED BY <1>2, <1>4, <1>5, <1>6, HandlerKeeps DEF SetupInv, SetupTypeOk, OfStatus

(* materializeHealthySetup(): the files come before the status.            *)
LEMMA MaterializeKeeps ==
  ASSUME SetupInv, Ready, NEW s \in SetupStatus,
         scTodo' = Materialize(s), UNCHANGED <<scStatus, scFiles, scExcused>>
  PROVE  SetupInv'
  <1>1. scTodo = <<>> /\ Up
    BY DEF Ready
  <1>2. /\ Len(scTodo') = 4 /\ DOMAIN scTodo' = {1, 2, 3, 4} /\ scTodo' = [i \in 1..4 |-> scTodo'[i]]
        /\ scTodo'[1].file = "memory" /\ scTodo'[1].value = s
        /\ scTodo'[2].file = "config" /\ scTodo'[2].value = "GOOD"
        /\ scTodo'[3].file = "evidence" /\ scTodo'[3].value = "GOOD"
        /\ scTodo'[4].file = "status" /\ scTodo'[4].value = s
    BY DEF Materialize, Put
  <1>3. \A i \in {4, 5} : BothGoodAt(i)'
    BY <1>2 DEF BothGoodAt, GoodAt
  <1>4. StatusesBacked'
    BY <1>2, <1>3 DEF StatusesBacked, OfStatus
  <1>5. NothingSpoilt'
    BY <1>2 DEF NothingSpoilt, Spoils
  <1>6. scExcused' \in BOOLEAN /\ (scExcused => scExcused')
    BY DEF SetupInv, SetupTypeOk
  <1> QED BY <1>2, <1>4, <1>5, <1>6, HandlerKeeps DEF OfStatus

(* One write before two or three others.                                   *)
LEMMA OneMoreWrite ==
  ASSUME NEW a, NEW b, NEW c, NEW d
  PROVE  <<a>> \o <<b, c>> = <<a, b, c>> /\ <<a>> \o <<b, c, d>> = <<a, b, c, d>>
  <1> DEFINE S == {a, b, c, d}
  <1>1. /\ <<a>> \in Seq(S) /\ <<b, c>> \in Seq(S) /\ <<b, c, d>> \in Seq(S)
        /\ <<a, b, c>> \in Seq(S) /\ <<a, b, c, d>> \in Seq(S)
    OBVIOUS
  <1> HIDE DEF S
  <1>2. <<a>> \o <<b, c>> = <<a, b, c>>
    <2>1. PICK x, y, z : x = <<a>> /\ y = <<b, c>> /\ z = <<a, b, c>>
      OBVIOUS
    <2>2. x \in Seq(S) /\ y \in Seq(S) /\ z \in Seq(S) /\ x \o y \in Seq(S)
      BY <1>1, <2>1
    <2>3. Len(x \o y) = 3 /\ Len(z) = 3
      BY <2>1, <2>2
    <2>4. \A i \in 1..3 : (x \o y)[i] = z[i]
      BY <2>1, <2>2
    <2> QED BY <2>1, <2>2, <2>3, <2>4, SeqEqual
  <1>3. <<a>> \o <<b, c, d>> = <<a, b, c, d>>
    <2>1. PICK x, y, z : x = <<a>> /\ y = <<b, c, d>> /\ z = <<a, b, c, d>>
      OBVIOUS
    <2>2. x \in Seq(S) /\ y \in Seq(S) /\ z \in Seq(S) /\ x \o y \in Seq(S)
      BY <1>1, <2>1
    <2>3. Len(x \o y) = 4 /\ Len(z) = 4
      BY <2>1, <2>2
    <2>4. \A i \in 1..4 : (x \o y)[i] = z[i]
      BY <2>1, <2>2
    <2> QED BY <2>1, <2>2, <2>3, <2>4, SeqEqual
  <1> QED BY <1>2, <1>3

(* A failure was injected: the config is spoilt, or left alone, and the    *)
(* status that is stored does not say PASS.                                *)
LEMMA InjectFailureKeeps ==
  ASSUME SetupInv, NEW issue \in Issues, InjectFailure(issue)
  PROVE  SetupInv'
  <1>0. PICK s \in SetupStatus : s = FailedSetup(scStatus, issue) /\ s.health = "DEGRADED"
    <2>1. scStatus \in SetupStatus
      BY DEF InjectFailure, Ready, Up, SetupInv, SetupTypeOk
    <2> QED BY <2>1, StatusesMade
  <1>1. /\ scTodo = <<>> /\ Up /\ UNCHANGED <<scStatus, scFiles>>
        /\ scExcused' = (scExcused \/ issue = "CONFIG_DIGEST_MISMATCH")
    BY DEF InjectFailure, Ready
  <1>2. scExcused' \in BOOLEAN /\ (scExcused => scExcused')
    BY <1>1 DEF SetupInv, SetupTypeOk
  <1>3. ~scExcused /\ scStatus.health = "PASS" => scFiles'.config = "GOOD" /\ scFiles'.evidence = "GOOD"
    BY <1>1, RestBacked
  <1>4. CASE issue = "CONFIG_DIGEST_MISMATCH"
    <2>1. /\ Len(scTodo') = 3 /\ DOMAIN scTodo' = {1, 2, 3} /\ scTodo' = [i \in 1..3 |-> scTodo'[i]]
          /\ scTodo'[1].file = "config" /\ scTodo'[1].value = "BAD"
          /\ scTodo'[2].file = "memory" /\ scTodo'[2].value = s
          /\ scTodo'[3].file = "status" /\ scTodo'[3].value = s
      <3>1. scTodo' = <<Put("config", "BAD"), Put("memory", s), Put("status", s)>>
        <4>1. scTodo' = <<Put("config", "BAD")>> \o <<Put("memory", s), Put("status", s)>>
          BY <1>0, <1>4 DEF InjectFailure, Persist
        <4> QED BY <4>1, OneMoreWrite
      <3> QED BY <3>1 DEF Put
    <2>2. NothingSpoilt' /\ StatusesBacked'
      BY <1>0, <1>1, <1>4, <2>1 DEF NothingSpoilt, OfStatus, StatusesBacked
    <2> QED BY <1>1, <1>2, <2>1, <2>2, HandlerKeeps DEF OfStatus
  <1>5. CASE issue # "CONFIG_DIGEST_MISMATCH"
    <2>1. /\ Len(scTodo') = 2 /\ DOMAIN scTodo' = {1, 2} /\ scTodo' = [i \in 1..2 |-> scTodo'[i]]
          /\ scTodo'[1].file = "memory" /\ scTodo'[1].value = s
          /\ scTodo'[2].file = "status" /\ scTodo'[2].value = s
      <3>1. scTodo' = <<Put("memory", s), Put("status", s)>>
        BY <1>0, <1>5 DEF InjectFailure, Persist
      <3> QED BY <3>1 DEF Put
    <2>2. NothingSpoilt'
      BY <2>1 DEF NothingSpoilt, Spoils
    <2>3. StatusesBacked'
      BY <1>0, <1>1, <1>3, <1>5, <2>1, GoodNow DEF StatusesBacked
    <2> QED BY <1>1, <1>2, <2>1, <2>2, <2>3, HandlerKeeps DEF OfStatus
  <1> QED BY <1>4, <1>5

(* applyRepair(): the config first, if it is what is repaired.             *)
LEMMA ApplyRepairKeeps ==
  ASSUME SetupInv, NEW confirmed, ApplyRepair(confirmed)
  PROVE  SetupInv'
  <1>0. PICK s \in SetupStatus : s = Repaired(scStatus, scPending.issue) /\ s.health = scStatus.health
    <2>1. scStatus \in SetupStatus
      BY DEF ApplyRepair, Ready, Up, SetupInv, SetupTypeOk
    <2> QED BY <2>1, StatusesMade
  <1>1. /\ scTodo = <<>> /\ Up /\ UNCHANGED <<scStatus, scFiles, scExcused>>
    BY DEF ApplyRepair, Ready, Begin
  <1>2. scExcused' \in BOOLEAN /\ (scExcused => scExcused')
    BY <1>1 DEF SetupInv, SetupTypeOk
  <1>3. ~scExcused /\ scStatus.health = "PASS" => scFiles'.config = "GOOD" /\ scFiles'.evidence = "GOOD"
    BY <1>1, RestBacked
  <1>4. CASE scPending.issue = "CONFIG_DIGEST_MISMATCH"
    <2>1. /\ Len(scTodo') = 4 /\ DOMAIN scTodo' = {1, 2, 3, 4} /\ scTodo' = [i \in 1..4 |-> scTodo'[i]]
          /\ scTodo'[1].file = "config" /\ scTodo'[1].value = "GOOD"
          /\ scTodo'[2].file = "status" /\ scTodo'[2].value = s
          /\ scTodo'[3].file = "memory" /\ scTodo'[3].value = s /\ scTodo'[4].file = "pending"
      <3>1. scTodo' = <<Put("config", "GOOD"), Put("status", s), Put("memory", s), Put("pending", NoRepair)>>
        <4>1. scTodo' = <<Put("config", "GOOD")>>
                          \o <<Put("status", s), Put("memory", s), Put("pending", NoRepair)>>
          BY <1>0, <1>4 DEF ApplyRepair, Begin
        <4> QED BY <4>1, OneMoreWrite, ZenonT(60)
      <3> QED BY <3>1 DEF Put
    <2>2. NothingSpoilt'
      BY <2>1 DEF NothingSpoilt, Spoils
    <2>3. StatusesBacked'
      BY <1>0, <1>1, <1>3, <2>1, GoodNow DEF StatusesBacked, OfStatus
    <2> QED BY <1>1, <1>2, <2>1, <2>2, <2>3, HandlerKeeps DEF OfStatus
  <1>5. CASE scPending.issue # "CONFIG_DIGEST_MISMATCH"
    <2>1. /\ Len(scTodo') = 3 /\ DOMAIN scTodo' = {1, 2, 3} /\ scTodo' = [i \in 1..3 |-> scTodo'[i]]
          /\ scTodo'[1].file = "status" /\ scTodo'[1].value = s
          /\ scTodo'[2].file = "memory" /\ scTodo'[2].value = s /\ scTodo'[3].file = "pending"
      <3>1. scTodo' = <<Put("status", s), Put("memory", s), Put("pending", NoRepair)>>
        BY <1>0, <1>5 DEF ApplyRepair, Begin
      <3> QED BY <3>1 DEF Put
    <2>2. NothingSpoilt'
      BY <2>1 DEF NothingSpoilt, Spoils
    <2>3. StatusesBacked'
      BY <1>0, <1>1, <1>3, <2>1, GoodNow DEF StatusesBacked, OfStatus
    <2> QED BY <1>1, <1>2, <2>1, <2>2, <2>3, HandlerKeeps DEF OfStatus
  <1> QED BY <1>4, <1>5

LEMMA CleanupKeeps ==
  ASSUME SetupInv, Cleanup
  PROVE  SetupInv'
  <1>1. /\ scTodo' = <<Put("directory", "NONE")>> /\ scExcused' = TRUE
        /\ UNCHANGED <<scStatus, scFiles>>
    BY DEF Cleanup
  <1>2. /\ Len(scTodo') = 1 /\ DOMAIN scTodo' = {1} /\ scTodo' = [i \in 1..1 |-> scTodo'[i]]
        /\ scTodo'[1].file = "directory"
    BY <1>1 DEF Put
  <1>3. NothingSpoilt' /\ StatusesBacked'
    BY <1>1, <1>2 DEF NothingSpoilt, OfStatus, StatusesBacked
  <1> QED BY <1>1, <1>2, <1>3, HandlerKeeps DEF OfStatus

(* The first write is done.                                                *)
LEMMA Popped ==
  ASSUME SetupInv, scTodo # <<>>, scTodo' = Tail(scTodo)
  PROVE  /\ 1 \in DOMAIN scTodo /\ Len(scTodo) \in Nat /\ Len(scTodo') \in Nat
         /\ Len(scTodo) = Len(scTodo') + 1 /\ scTodo' = [i \in 1..Len(scTodo') |-> scTodo'[i]]
         /\ \A i \in DOMAIN scTodo' : i \in Nat /\ i + 1 \in DOMAIN scTodo /\ scTodo'[i] = scTodo[i + 1]
         /\ \A j \in DOMAIN scTodo : j \in Nat /\ (j = 1 \/ j - 1 \in DOMAIN scTodo')
  <1> DEFINE S == {scTodo[i] : i \in DOMAIN scTodo}
  <1>1. Len(scTodo) \in Nat /\ scTodo = [i \in 1..Len(scTodo) |-> scTodo[i]]
    BY DEF SetupInv, SetupTypeOk
  <1>2. scTodo \in Seq(S)
    <2>1. DOMAIN scTodo = 1..Len(scTodo)
      BY <1>1
    <2>2. \A i \in 1..Len(scTodo) : scTodo[i] \in S
      BY <2>1
    <2> HIDE DEF S
    <2>3. scTodo \in [1..Len(scTodo) -> S]
      BY <1>1, <2>2
    <2> QED BY <1>1, <2>3, SeqDef
  <1> HIDE DEF S
  <1>3. /\ scTodo' \in Seq(S) /\ Len(scTodo') = Len(scTodo) - 1 /\ Len(scTodo) >= 1
        /\ \A i \in 1..Len(scTodo') : scTodo'[i] = scTodo[i + 1]
    BY <1>2
  <1>4. \A t \in Seq(S) : /\ Len(t) \in Nat /\ DOMAIN t = 1..Len(t)
                          /\ t = [i \in 1..Len(t) |-> t[i]]
    <2> TAKE t \in Seq(S)
    <2>1. Len(t) \in Nat /\ DOMAIN t = 1..Len(t) /\ t \in [1..Len(t) -> S]
      BY LenProperties
    <2> QED BY <2>1
  <1>5. /\ DOMAIN scTodo = 1..Len(scTodo) /\ DOMAIN scTodo' = 1..Len(scTodo')
        /\ scTodo' = [i \in 1..Len(scTodo') |-> scTodo'[i]] /\ Len(scTodo') \in Nat
    BY ONLY <1>2, <1>3, <1>4
  <1> QED BY <1>1, <1>3, <1>5

(* What was to be good at a write is good, or to be, when the first that   *)
(* does not spoil it is done.                                              *)
LEMMA GoodLater ==
  ASSUME SetupInv, scTodo # <<>>, scTodo' = Tail(scTodo), ~Spoils(scTodo[1]),
         \A f \in {"config", "evidence"} :
           scFiles'[f] = IF scTodo[1].file = f THEN scTodo[1].value ELSE scFiles[f],
         NEW i \in Nat, BothGoodAt(i + 1)
  PROVE  BothGoodAt(i)'
  <1>1. \A j \in DOMAIN scTodo :
          j \in Nat /\ (j = 1 \/ (j - 1 \in DOMAIN scTodo' /\ scTodo'[j - 1] = scTodo[j]))
    BY Popped
  <1>2. ASSUME NEW f \in {"config", "evidence"}
        PROVE  GoodAt(i, f)'
    <2>1. GoodAt(i + 1, f)
      BY DEF BothGoodAt
    <2>2. scTodo[1].file = f => scFiles'[f] = "GOOD"
      BY DEF Spoils
    <2>3. CASE scFiles[f] = "GOOD"
      BY <2>2, <2>3 DEF GoodAt
    <2>4. ASSUME NEW j \in DOMAIN scTodo, j < i + 1, scTodo[j].file = f, scTodo[j].value = "GOOD"
          PROVE  GoodAt(i, f)'
      <3>1. CASE j = 1
        BY <2>2, <2>4, <3>1 DEF GoodAt
      <3>2. CASE j # 1
        <4>1. /\ j - 1 \in DOMAIN scTodo' /\ j - 1 < i
              /\ scTodo'[j - 1].file = f /\ scTodo'[j - 1].value = "GOOD"
          BY <1>1, <2>4, <3>2
        <4> QED BY <4>1 DEF GoodAt
      <3> QED BY <3>1, <3>2
    <2> QED BY <2>1, <2>3, <2>4 DEF GoodAt
  <1> QED BY <1>2 DEF BothGoodAt

(* A write that is done leaves the rest backed.                            *)
LEMMA WriteKeeps ==
  ASSUME SetupInv, scTodo # <<>>, scTodo' = Tail(scTodo),
         LET w == scTodo[1]
         IN  /\ w.file # "directory"
             /\ scStatus' = IF w.file = "memory" THEN w.value ELSE scStatus
             /\ scFiles' = IF w.file \in {"memory", "pending"} THEN scFiles
                           ELSE [scFiles EXCEPT ![w.file] = w.value],
         scExcused' = (scExcused /\ ~Finishes)
  PROVE  SetupInv'
  <1> DEFINE w == scTodo[1]
  <1>1. /\ 1 \in DOMAIN scTodo /\ Len(scTodo) \in Nat /\ Len(scTodo') \in Nat
        /\ Len(scTodo) = Len(scTodo') + 1 /\ scTodo' = [i \in 1..Len(scTodo') |-> scTodo'[i]]
        /\ \A i \in DOMAIN scTodo' : i \in Nat /\ i + 1 \in DOMAIN scTodo /\ scTodo'[i] = scTodo[i + 1]
    BY Popped
  <1>2. /\ w.file \in {"memory", "pending", "status", "config", "evidence"}
        /\ OfStatus(w) => w.value \in SetupStatus
        /\ w.file \in {"config", "evidence"} => w.value \in {"GOOD", "BAD"}
    BY <1>1 DEF SetupInv, SetupTypeOk
  <1>3. scFiles = [status |-> scFiles.status, config |-> scFiles.config, evidence |-> scFiles.evidence]
        /\ scExcused \in BOOLEAN
    BY DEF SetupInv, SetupTypeOk
  <1>4. /\ scFiles' = [status |-> scFiles'.status, config |-> scFiles'.config, evidence |-> scFiles'.evidence]
        /\ scFiles'.status = IF w.file = "status" THEN w.value ELSE scFiles.status
        /\ scFiles'.config = IF w.file = "config" THEN w.value ELSE scFiles.config
        /\ scFiles'.evidence = IF w.file = "evidence" THEN w.value ELSE scFiles.evidence
    BY <1>2, <1>3
  <1>5. SetupTypeOk'
    <2>1. scFiles' \in [status : SetupStatus \cup {NoStatus}, config : {"NONE", "GOOD", "BAD"},
                        evidence : {"NONE", "GOOD", "BAD"}]
      BY <1>2, <1>4 DEF SetupInv, SetupTypeOk, OfStatus
    <2>2. scStatus' \in SetupStatus \cup {NoStatus}
      BY <1>2 DEF SetupInv, SetupTypeOk, OfStatus
    <2>3. \A i \in DOMAIN scTodo' :
            /\ scTodo'[i].file \in {"memory", "pending", "directory", "status", "config", "evidence"}
            /\ OfStatus(scTodo'[i]) => scTodo'[i].value \in SetupStatus
            /\ scTodo'[i].file \in {"config", "evidence"} => scTodo'[i].value \in {"GOOD", "BAD"}
      BY <1>1 DEF SetupInv, SetupTypeOk
    <2> QED BY <1>1, <1>3, <2>1, <2>2, <2>3 DEF SetupTypeOk, OfStatus
  <1> HIDE DEF w
  (* A spoiling write is excused, and not by a setup that has finished.     *)
  <1>6. CASE Finishes
    <2>1. /\ w.file = "status" /\ w.value.health = "PASS"
          /\ scFiles'.config = "GOOD" /\ scFiles'.evidence = "GOOD"
      BY <1>4, <1>6 DEF Finishes, w
    <2>2. HealthyMeansMaterialized' /\ StatusesBacked'
      BY <2>1, GoodNow DEF HealthyMeansMaterialized, StatusesBacked
    <2>3. \A i \in DOMAIN scTodo' : ~Spoils(scTodo'[i])
      BY <1>1, <2>1 DEF SetupInv, NothingSpoilt, OfStatus, w
    <2> QED BY <1>5, <2>2, <2>3 DEF SetupInv, NothingSpoilt, Spoils
  <1>7. CASE ~Finishes /\ scExcused
    <2>1. scExcused' = TRUE
      BY <1>7
    <2>2. NothingSpoilt'
      <3>1. \A i \in DOMAIN scTodo' : Spoils(scTodo'[i]) =>
              \A j \in DOMAIN scTodo' : OfStatus(scTodo'[j]) => scTodo'[j].value.health # "PASS"
        BY <1>1 DEF SetupInv, NothingSpoilt
      <3> QED BY <2>1, <3>1 DEF NothingSpoilt, Spoils, OfStatus
    <2> QED BY <1>5, <2>1, <2>2 DEF SetupInv, HealthyMeansMaterialized, StatusesBacked
  <1>8. CASE ~Finishes /\ ~scExcused
    <2>1. scExcused' = FALSE /\ ~Spoils(w) /\ \A i \in DOMAIN scTodo' : ~Spoils(scTodo'[i])
      BY <1>1, <1>3, <1>8 DEF SetupInv, NothingSpoilt, w
    <2>2. NothingSpoilt'
      BY <2>1 DEF NothingSpoilt, Spoils
    <2>3. \A f \in {"config", "evidence"} : scFiles'[f] = IF w.file = f THEN w.value ELSE scFiles[f]
      BY <1>4
    <2>4. \A i \in Nat : BothGoodAt(i + 1) => BothGoodAt(i)'
      BY <2>1, <2>3, GoodLater DEF w
    <2>5. PICK n : n = Len(scTodo') + 1
      OBVIOUS
    <2>6. n \in Nat /\ (BothGoodAt(n + 1) => BothGoodAt(n)') /\ Len(scTodo) + 1 = n + 1
      BY <1>1, <2>4, <2>5
    <2>7. Up' /\ scStatus'.health = "PASS" => BothGoodAt(n)'
      <3>1. CASE w.file = "memory"
        BY <1>1, <1>8, <2>6, <3>1 DEF SetupInv, StatusesBacked, OfStatus, w
      <3>2. CASE w.file # "memory"
        BY <1>8, <2>6, <3>2 DEF SetupInv, StatusesBacked, Up, w
      <3> QED BY <3>1, <3>2
    <2>8. ASSUME NEW i \in DOMAIN scTodo', OfStatus(scTodo'[i]), scTodo'[i].value.health = "PASS",
                 NEW k, k = IF scTodo'[i].file = "status" THEN i ELSE n
          PROVE  BothGoodAt(k)'
      <3>1. BothGoodAt(k + 1)
        BY <1>1, <1>8, <2>6, <2>8 DEF SetupInv, StatusesBacked
      <3> QED BY <1>1, <2>4, <2>6, <2>8, <3>1
    <2>9. StatusesBacked'
      BY <2>5, <2>7, <2>8 DEF StatusesBacked, OfStatus
    <2>10. HealthyMeansMaterialized'
      <3>1. CASE w.file = "status"
        <4>1. w.value.health = "PASS" => BothGoodAt(1)
          BY <1>1, <1>8, <3>1 DEF SetupInv, StatusesBacked, OfStatus, w
        <4>2. BothGoodAt(1) => scFiles.config = "GOOD" /\ scFiles.evidence = "GOOD"
          BY Popped DEF BothGoodAt, GoodAt
        <4> QED BY <1>4, <3>1, <4>1, <4>2 DEF HealthyMeansMaterialized
      <3>2. CASE w.file # "status"
        BY <1>4, <1>8, <2>1, <3>2 DEF SetupInv, HealthyMeansMaterialized, Spoils
      <3> QED BY <3>1, <3>2
    <2> QED BY <1>5, <2>2, <2>9, <2>10 DEF SetupInv
  <1> QED BY <1>3, <1>6, <1>7, <1>8
(* The constructor: memory says PASS only if the status file does.         *)
LEMMA StartKeeps ==
  ASSUME SetupInv, NEW resume \in BOOLEAN, Start(resume)
  PROVE  SetupInv'
  <1>1. UNCHANGED <<scFiles, scExcused>> /\ scExcused' \in BOOLEAN
    BY DEF Start, SetupInv, SetupTypeOk
  <1>2. PICK s : /\ s = scStatus' /\ s \in SetupStatus
                 /\ s.health = "PASS" => scFiles.status # NoStatus /\ scFiles.status.health = "PASS"
    <2>1. CASE resume /\ scFiles.status # NoStatus
      <3>1. scFiles.status \in SetupStatus
        BY <2>1 DEF SetupInv, SetupTypeOk
      <3> QED BY <2>1, <3>1, StatusesMade DEF Start
    <2>2. CASE ~(resume /\ scFiles.status # NoStatus)
      BY <2>2, StatusesMade DEF Start
    <2> QED BY <2>1, <2>2
  <1>3. ~scExcused' /\ s.health = "PASS" => scFiles'.config = "GOOD" /\ scFiles'.evidence = "GOOD"
    BY <1>1, <1>2 DEF SetupInv, HealthyMeansMaterialized
  <1>4. CASE scTodo' = <<>>
    <2>1. Len(scTodo') = 0 /\ DOMAIN scTodo' = {} /\ scTodo' = [i \in 1..0 |-> scTodo'[i]]
      BY <1>4
    <2>2. SetupTypeOk'
      BY <1>1, <1>2, <2>1 DEF SetupInv, SetupTypeOk
    <2>3. StatusesBacked' /\ NothingSpoilt'
      BY <1>2, <1>3, <2>1, GoodNow DEF StatusesBacked, NothingSpoilt
    <2> QED BY <1>1, <2>2, <2>3 DEF SetupInv, HealthyMeansMaterialized
  <1>5. CASE scTodo' = <<Put("status", scStatus')>>
    <2>1. /\ Len(scTodo') = 1 /\ DOMAIN scTodo' = {1} /\ scTodo' = [i \in 1..1 |-> scTodo'[i]]
          /\ scTodo'[1].file = "status" /\ scTodo'[1].value = s
      BY <1>2, <1>5 DEF Put
    <2>2. SetupTypeOk'
      BY <1>1, <1>2, <2>1 DEF SetupInv, SetupTypeOk, OfStatus
    <2>3. StatusesBacked'
      BY <1>2, <1>3, <2>1, GoodNow DEF StatusesBacked
    <2>4. NothingSpoilt'
      BY <2>1 DEF NothingSpoilt, Spoils
    <2> QED BY <1>1, <2>2, <2>3, <2>4 DEF SetupInv, HealthyMeansMaterialized
  <1> QED BY <1>4, <1>5 DEF Start

(* Nothing is left to do, after a write that failed or in a killed process.*)
LEMMA StoppedKeeps ==
  ASSUME SetupInv, WriteFails \/ SetupKilled
  PROVE  SetupInv'
  <1>1. /\ scTodo' = <<>> /\ scFiles' = scFiles /\ scStatus' \in SetupStatus \cup {NoStatus}
        /\ scExcused' \in BOOLEAN /\ (scExcused => scExcused') /\ (scExcused' \/ ~Up')
    BY DEF WriteFails, SetupKilled, SetupInv, SetupTypeOk, Up
  <1>2. Len(scTodo') = 0 /\ DOMAIN scTodo' = {} /\ scTodo' = [i \in 1..0 |-> scTodo'[i]]
    BY <1>1
  <1>3. SetupTypeOk'
    BY <1>1, <1>2 DEF SetupInv, SetupTypeOk
  <1>4. StatusesBacked' /\ NothingSpoilt' /\ HealthyMeansMaterialized'
    BY <1>1, <1>2 DEF SetupInv, StatusesBacked, NothingSpoilt, HealthyMeansMaterialized
  <1> QED BY <1>3, <1>4 DEF SetupInv

(* The directory goes, file by file.                                       *)
LEMMA RemovalKeeps ==
  ASSUME SetupInv, DoWrite, scTodo[1].file = "directory"
  PROVE  SetupInv'
  <1>0. scTodo # <<>> /\ scStatus' = scStatus /\ 1 \in DOMAIN scTodo
    <2>1. scTodo # <<>> /\ scStatus' = scStatus
      BY DEF DoWrite
    <2>2. Len(scTodo) \in Nat /\ scTodo = [i \in 1..Len(scTodo) |-> scTodo[i]]
      BY DEF SetupInv, SetupTypeOk
    <2>3. Len(scTodo) # 0
      <3>1. ASSUME Len(scTodo) = 0 PROVE FALSE
        <4>1. scTodo = [i \in 1..0 |-> scTodo[i]]
          BY <2>2, <3>1
        <4>2. scTodo = <<>>
          BY <4>1
        <4> QED BY <2>1, <4>2
      <3> QED BY <3>1
    <2> QED BY <2>1, <2>2, <2>3
  <1>1. scExcused /\ scExcused'
    <2>1. scExcused
      BY <1>0 DEF SetupInv, NothingSpoilt, Spoils
    <2>2. ~Finishes
      BY DEF Finishes
    <2> QED BY <2>1, <2>2 DEF DoWrite
  <1>2. scFiles' \in [status : SetupStatus \cup {NoStatus}, config : {"NONE", "GOOD", "BAD"},
                      evidence : {"NONE", "GOOD", "BAD"}]
    BY DEF DoWrite, EmptyDirectory, SetupInv, SetupTypeOk
  <1>3. CASE UNCHANGED scTodo
    <2>1. SetupTypeOk'
      BY <1>0, <1>1, <1>2, <1>3 DEF SetupInv, SetupTypeOk, OfStatus
    <2>2. NothingSpoilt'
      BY <1>1, <1>3 DEF SetupInv, NothingSpoilt, Spoils, OfStatus
    <2> QED BY <1>1, <2>1, <2>2 DEF SetupInv, StatusesBacked, HealthyMeansMaterialized
  <1>4. CASE scTodo' = Tail(scTodo)
    <2>1. /\ Len(scTodo') \in Nat /\ scTodo' = [i \in 1..Len(scTodo') |-> scTodo'[i]]
          /\ \A i \in DOMAIN scTodo' : i + 1 \in DOMAIN scTodo /\ scTodo'[i] = scTodo[i + 1]
      BY <1>0, <1>4, Popped
    <2>2. SetupTypeOk'
      BY <1>0, <1>1, <1>2, <2>1 DEF SetupInv, SetupTypeOk, OfStatus
    <2>3. NothingSpoilt'
      BY <1>1, <2>1 DEF SetupInv, NothingSpoilt, Spoils, OfStatus
    <2> QED BY <1>1, <2>2, <2>3 DEF SetupInv, StatusesBacked, HealthyMeansMaterialized
  <1> QED BY <1>3, <1>4 DEF DoWrite

LEMMA DoWriteKeeps ==
  ASSUME SetupInv, DoWrite
  PROVE  SetupInv'
  <1>1. CASE scTodo[1].file = "directory"
    BY <1>1, RemovalKeeps
  <1>2. CASE scTodo[1].file # "directory"
    <2>1. /\ scTodo # <<>> /\ scTodo' = Tail(scTodo) /\ scExcused' = (scExcused /\ ~Finishes)
          /\ scStatus' = IF scTodo[1].file = "memory" THEN scTodo[1].value ELSE scStatus
          /\ scFiles' = IF scTodo[1].file \in {"memory", "pending"} THEN scFiles
                        ELSE [scFiles EXCEPT ![scTodo[1].file] = scTodo[1].value]
      BY <1>2 DEF DoWrite
    <2> QED BY <1>2, <2>1, WriteKeeps
  <1> QED BY <1>1, <1>2

LEMMA SetupKeeps ==
  ASSUME SetupInv, [SetupNext]_scVars
  PROVE  SetupInv'
  <1>1. CASE UNCHANGED scVars
    BY <1>1 DEF scVars, SetupInv, HealthyMeansMaterialized, SetupTypeOk, StatusesBacked,
                NothingSpoilt, OfStatus, Spoils, BothGoodAt, GoodAt, Up
  <1>2. ASSUME NEW resume \in BOOLEAN, Start(resume) PROVE SetupInv'
    BY <1>2, StartKeeps
  <1>3. ASSUME NEW p \in AuthorityProfiles, NEW confirmed \in BOOLEAN, ActivateAuthority(p, confirmed)
        PROVE  SetupInv'
    <2>1. scStatus \in SetupStatus
      BY <1>3 DEF ActivateAuthority, Ready, Up, SetupInv, SetupTypeOk
    <2>2. WithProfile(scStatus, p) \in SetupStatus /\ WithProfile(scStatus, p).health = scStatus.health
      BY <2>1, StatusesMade
    <2> QED BY <1>3, <2>2, PersistKeeps DEF ActivateAuthority, Begin
  <1>4. CASE RunSetup \/ ResumeSetup
    <2>1. scStatus \in SetupStatus
      BY <1>4 DEF RunSetup, ResumeSetup, Ready, Up, SetupInv, SetupTypeOk
    <2>2. HealthySetup(scStatus) \in SetupStatus
      BY <2>1, StatusesMade
    <2> QED BY <1>4, <2>2, MaterializeKeeps DEF RunSetup, ResumeSetup, Begin
  <1>5. ASSUME NEW i \in Issues, InjectFailure(i) PROVE SetupInv'
    BY <1>5, InjectFailureKeeps
  <1>6. ASSUME NEW i \in Issues, Diagnose(i) PROVE SetupInv'
    BY <1>6 DEF Diagnose, SetupInv, HealthyMeansMaterialized, SetupTypeOk, StatusesBacked,
                NothingSpoilt, OfStatus, Spoils, BothGoodAt, GoodAt, Up
  <1>7. ASSUME NEW confirmed \in BOOLEAN, ApplyRepair(confirmed) PROVE SetupInv'
    BY <1>7, ApplyRepairKeeps
  <1>8. CASE Promote
    <2>1. scStatus \in SetupStatus
      BY <1>8 DEF Promote, Ready, Up, SetupInv, SetupTypeOk
    <2>2. Promoted(scStatus) \in SetupStatus /\ Promoted(scStatus).health = scStatus.health
      BY <2>1, StatusesMade
    <2> QED BY <1>8, <2>2, PersistKeeps DEF Promote, Begin
  <1>9. CASE Cleanup
    BY <1>9, CleanupKeeps
  <1>10. CASE DoWrite
    BY <1>10, DoWriteKeeps
  <1>11. CASE WriteFails \/ SetupKilled
    BY <1>11, StoppedKeeps
  <1> QED BY <1>1, <1>2, <1>3, <1>4, <1>5, <1>6, <1>7, <1>8, <1>9, <1>10, <1>11 DEF SetupNext

(* In every behaviour of the services, wherever the coordinator is killed  *)
(* and whichever write fails, a status file that says PASS has the config  *)
(* and the evidence of its plan beside it, unless a removal, an injection  *)
(* or a failed write came after the last complete setup.                   *)
THEOREM HealthyIsMaterialized == ServicesSpec => []HealthyMeansMaterialized
  <1>1. ServicesInit => SetupInv
    BY SetupInitial DEF ServicesInit
  <1>2. SetupInv /\ [ServicesNext]_serviceVars => SetupInv'
    BY StoreSteps, SetupKeeps
  <1>3. SetupInv => HealthyMeansMaterialized
    BY DEF SetupInv
  <1> QED BY <1>1, <1>2, <1>3, PTL DEF ServicesSpec
-----------------------------------------------------------------------------
(* The usage insights                                                      *)

(* There is a least natural number in a set of them.                       *)
LEMMA LeastNatural ==
  ASSUME NEW T \in SUBSET Nat, T # {}
  PROVE  \E n \in T : \A m \in T : n <= m
  <1> DEFINE R == OpToRel(<, Nat)
  <1>1. IsWellFoundedOn(R, Nat)
    BY NatLessThanWellFounded DEF OpToRel
  <1>2. \A x, y \in Nat : x < y => <<x, y>> \in R
    BY DEF OpToRel
  <1> HIDE DEF R
  <1>3. PICK n \in T : \A m \in T : ~(<<m, n>> \in R)
    BY <1>1, WFMin
  <1>4. ASSUME NEW m \in T PROVE n <= m
    <2>1. m \in Nat /\ n \in Nat /\ ~(m < n)
      BY <1>2, <1>3
    <2> QED BY <2>1
  <1> QED BY <1>4

LEMMA ImageFinite ==
  ASSUME NEW S, IsFiniteSet(S), NEW f, f = [x \in S |-> f[x]]
  PROVE  IsFiniteSet({f[x] : x \in S})
  <1>1. f \in Surjection(S, {f[x] : x \in S})
    BY DEF Surjection
  <1> QED BY <1>1, FS_Surjection

(* The k-th natural number that is not in a finite set.                    *)
LEMMA KthFree ==
  ASSUME NEW U, IsFiniteSet(U), NEW k \in Nat \ {0},
         NEW i, i = CHOOSE j \in 1..Cardinality(U) + k : j \notin U /\ Cardinality((1..j) \ U) = k
  PROVE  i \in Nat \ {0} /\ i \notin U
  <1> DEFINE F(j) == Cardinality((1..j) \ U)
             N == Cardinality(U) + k
             T == {j \in 1..N : F(j) >= k}
  <1>1. Cardinality(U) \in Nat /\ N \in Nat /\ N >= 1
    BY FS_CardinalityType
  <1>2. \A j \in Nat : IsFiniteSet(1..j) /\ Cardinality(1..j) = j
    <2> TAKE j \in Nat
    <2>1. IsFiniteSet(1..j) /\ Cardinality(1..j) = IF 1 > j THEN 0 ELSE j - 1 + 1
      BY FS_Interval
    <2> QED BY <2>1
  <1>3. \A j \in Nat : IsFiniteSet((1..j) \ U) /\ F(j) \in Nat
    BY <1>2, FS_Difference, FS_CardinalityType
  <1>4. F(N) >= k
    <2>1. F(N) = Cardinality(1..N) - Cardinality((1..N) \cap U)
      BY <1>1, <1>2, FS_Difference
    <2>2. IsFiniteSet((1..N) \cap U) /\ Cardinality((1..N) \cap U) <= Cardinality(U)
      BY FS_Intersection
    <2>3. Cardinality((1..N) \cap U) \in Nat
      BY <2>2, FS_CardinalityType
    <2>4. PICK c \in Nat : c = Cardinality((1..N) \cap U)
      BY <2>3
    <2>5. PICK u \in Nat : u = Cardinality(U)
      BY <1>1
    <2>6. Cardinality(1..N) = N
      BY <1>1, <1>2
    <2> QED BY <2>1, <2>2, <2>4, <2>5, <2>6
  <1> HIDE DEF N
  <1>5. PICK n \in T : \A m \in T : n <= m
    <2>1. N \in T
      BY <1>1, <1>4
    <2>2. T \in SUBSET Nat
      BY <1>1
    <2> HIDE DEF T
    <2> QED BY <2>1, <2>2, LeastNatural
  <1>6. /\ n \in 1..N /\ n \in Nat /\ F(n) >= k /\ n - 1 \in Nat
        /\ F(n - 1) < k
    <2>1. n \in 1..N /\ n \in Nat /\ n - 1 \in Nat /\ F(n) >= k
      BY <1>1, <1>5
    <2>2. F(n - 1) \in Nat
      BY <1>3, <2>1
    <2>3. CASE n = 1
      <3>1. (1..0) \ U = {} /\ n - 1 = 0
        BY <2>3
      <3>2. F(0) = 0
        BY <3>1, FS_EmptySet
      <3>3. F(n - 1) = 0
        BY <3>1, <3>2
      <3> QED BY <2>1, <3>3
    <2>4. CASE n # 1
      <3>1. n - 1 \in 1..N /\ ~(n <= n - 1)
        BY <1>1, <2>1, <2>4
      <3>2. ~(F(n - 1) >= k)
        BY <1>5, <3>1
      <3> HIDE DEF F
      <3> QED BY <2>1, <2>2, <3>2
    <2> QED BY <2>3, <2>4
  <1>7. n \notin U /\ F(n) = k
    <2>1. CASE n \in U
      <3>1. (1..n) \ U = (1..n - 1) \ U
        BY <1>6, <2>1
      <3>2. F(n) = F(n - 1)
        BY <3>1
      <3>3. F(n) \in Nat
        BY <1>3, <1>6
      <3> HIDE DEF F
      <3> QED BY <1>6, <3>2, <3>3
    <2>2. CASE n \notin U
      <3>1. (1..n) \ U = ((1..n - 1) \ U) \cup {n} /\ n \notin (1..n - 1) \ U
        BY <1>6, <2>2
      <3>2. F(n) = F(n - 1) + 1
        BY <1>3, <1>6, <3>1, FS_AddElement
      <3>3. F(n - 1) \in Nat
        BY <1>3, <1>6
      <3> HIDE DEF F
      <3> QED BY <1>6, <2>2, <3>2, <3>3
    <2> QED BY <2>1, <2>2
  <1>8. \E j \in 1..Cardinality(U) + k : j \notin U /\ Cardinality((1..j) \ U) = k
    BY <1>6, <1>7 DEF N
  <1>9. i \in 1..Cardinality(U) + k /\ i \notin U
    BY <1>8
  <1>10. \A j \in 1..Cardinality(U) + k : j \in Nat \ {0}
    BY <1>1
  <1> QED BY <1>9, <1>10
(* A new id is one that occurs nowhere.                                    *)
LEMMA FreshIds ==
  ASSUME UsageInv
  PROVE  /\ \A k \in {1, 2} : FreshId(k) \in Nat \ {0} /\ FreshId(k) \notin UsedIds
         /\ \A b \in Held : b.del \in UsedIds /\ b.inst \in UsedIds
         /\ uiDisk # NoStore => uiDisk.rt.id \in UsedIds
  <1> DEFINE H == Held \cup (IF uiCall = NoCall THEN {} ELSE uiCall.batches)
             D == {b.del : b \in Held}
             I == {b.inst : b \in Held}
             R == IF uiDisk = NoStore THEN {} ELSE {uiDisk.rt.id}
  <1>1. H = Held
    <2>1. uiCall # NoCall => uiCall.batches \subseteq StoredBatches(uiDisk)
      BY DEF UsageInv, CallHandles, StoredBatches
    <2> QED BY <2>1 DEF Held
  <1>2. UsedIds = R \cup D \cup I
    BY <1>1 DEF UsedIds
  <1>3. IsFiniteSet(D) /\ IsFiniteSet(I) /\ IsFiniteSet(R)
    <2>1. IsFiniteSet(Held)
      BY DEF UsageInv, UsageTypeOk
    <2>2. IsFiniteSet(D)
      <3> DEFINE f == [b \in Held |-> b.del]
      <3>1. f = [x \in Held |-> f[x]] /\ {f[x] : x \in Held} = D
        OBVIOUS
      <3> HIDE DEF f
      <3>2. IsFiniteSet({f[x] : x \in Held})
        BY <2>1, <3>1, ImageFinite
      <3> QED BY <3>1, <3>2
    <2>3. IsFiniteSet(I)
      <3> DEFINE f == [b \in Held |-> b.inst]
      <3>1. f = [x \in Held |-> f[x]] /\ {f[x] : x \in Held} = I
        OBVIOUS
      <3> HIDE DEF f
      <3>2. IsFiniteSet({f[x] : x \in Held})
        BY <2>1, <3>1, ImageFinite
      <3> QED BY <3>1, <3>2
    <2> QED BY <2>2, <2>3, FS_EmptySet, FS_Singleton
  <1>4. \A b \in Held : b.del \in D /\ b.inst \in I
    OBVIOUS
  <1> HIDE DEF D, I
  <1>5. IsFiniteSet(UsedIds)
    BY <1>2, <1>3, FS_Union
  <1>6. ASSUME NEW k \in {1, 2} PROVE FreshId(k) \in Nat \ {0} /\ FreshId(k) \notin UsedIds
    <2>1. PICK i : i = FreshId(k)
      OBVIOUS
    <2>2. i = CHOOSE j \in 1..Cardinality(UsedIds) + k : j \notin UsedIds /\ Cardinality((1..j) \ UsedIds) = k
      BY <2>1 DEF FreshId
    <2>3. i \in Nat \ {0} /\ i \notin UsedIds
      <3>1. PICK U : U = UsedIds
        OBVIOUS
      <3>2. IsFiniteSet(U) /\ i = CHOOSE j \in 1..Cardinality(U) + k : j \notin U /\ Cardinality((1..j) \ U) = k
        BY <1>5, <2>2, <3>1
      <3>3. k \in Nat \ {0}
        OBVIOUS
      <3> QED BY ONLY <3>1, <3>2, <3>3, KthFree
    <2> QED BY <2>1, <2>3
  <1> QED BY <1>2, <1>4, <1>6

LEMMA UsageInitial == UsageInit => UsageInv
  <1> SUFFICES ASSUME UsageInit PROVE UsageInv
    OBVIOUS
  <1>1. Held = {} /\ IsFiniteSet(Held)
    BY FS_EmptySet DEF UsageInit, Held, StoredBatches
  <1> QED BY <1>1 DEF UsageInit, UsageInv, UsageTypeOk, IdsPair, CallHandles, Held

LEMMA UsageSafety == UsageInv => SharedDataIsManaged
  <1> SUFFICES ASSUME UsageInv PROVE SharedDataIsManaged
    OBVIOUS
  <1>1. uiRemote \subseteq Held /\ uiLate \subseteq Held
    BY DEF Held
  <1>2. \A b, c \in uiRemote : ~SameBatch(b, c) => b.inst # c.inst
    BY <1>1 DEF UsageInv, IdsPair, SameBatch
  <1> QED BY <1>1, <1>2 DEF UsageInv, IdsPair, SharedDataIsManaged

(* #refresh() of the runtime, when a command begins.                       *)
LEMMA RefreshedRuntime ==
  ASSUME UsageInv, NEW rt \in RuntimeState, NEW r, r = RtRefreshed(rt, uiClock)
  PROVE  /\ r \in RuntimeState
         /\ r.id = rt.id \/ r.id = 0 \/ r.id = FreshId(1)
         /\ r.state = "ENABLED" <=> rt.state = "ENABLED"
         /\ r.state = "ENABLED" /\ rt.id # 0 => r.id # 0
         /\ r.events = {} \/ (r.events = rt.events /\ r.id = rt.id)
  <1>1. FreshId(1) \in Nat \ {0} /\ uiClock \in Nat
    BY FreshIds DEF UsageInv, UsageTypeOk
  <1>2. CASE r = Erased /\ rt.state = "REVOKED"
    BY <1>2 DEF Erased, RuntimeState
  <1>3. CASE r = Rotated(rt, uiClock, FreshId(1)) /\ rt.state = "ENABLED"
    BY <1>1, <1>3 DEF Rotated, RuntimeState
  <1>4. CASE r = rt
    BY <1>4
  <1> QED BY <1>2, <1>3, <1>4 DEF RtRefreshed

LEMMA RevokedConsent ==
  ASSUME NEW c \in Consent
  PROVE  ConsentRevoked(c) \in Consent /\ ConsentRevoked(c).state = "REVOKED"
  <1>1. PICK a : a = [c EXCEPT !.state = "REVOKED"]
    OBVIOUS
  <1>2. a \in Consent /\ a.state = "REVOKED"
    BY <1>1 DEF Consent
  <1>3. PICK r : r = [a EXCEPT !.endpoint = NoEndpoint]
    OBVIOUS
  <1>4. r \in Consent /\ r.state = "REVOKED"
    BY <1>2, <1>3 DEF Consent
  <1> QED BY <1>1, <1>3, <1>4 DEF ConsentRevoked

(* A store that may replace the one on disk: it has the same batches, and  *)
(* its pseudonym is not of one of them unless that is pending.             *)
Replaces(d) ==
  /\ d \in StoredState /\ ConsentCovers(d)
  /\ StoredBatches(d) = StoredBatches(uiDisk)
  /\ d.pending = NoBatch => d.rt.id \notin {b.inst : b \in Held}

LEMMA FoundReplaces ==
  ASSUME UsageInv, uiDisk # NoStore
  PROVE  /\ Replaces(Found)
         /\ Found.pending = uiDisk.pending /\ Found.batches = uiDisk.batches
  <1> DEFINE c == uiDisk.consent
  <1>0. /\ uiDisk \in StoredState /\ uiClock \in Nat
        /\ c \in Consent /\ uiDisk.rt \in RuntimeState
    BY DEF UsageInv, UsageTypeOk, StoredState
  <1>1. PICK r : r = RtRefreshed(uiDisk.rt, uiClock)
    OBVIOUS
  <1>2. PICK q : q = RtRefreshed(r, uiClock)
    OBVIOUS
  <1>3. r \in RuntimeState /\ q \in RuntimeState
    BY <1>0, <1>1, <1>2, RefreshedRuntime
  <1>4. PICK id \in Nat : id = FreshId(1) /\ id # 0 /\ id \notin {b.inst : b \in Held}
    BY FreshIds
  <1>5. /\ q.id = uiDisk.rt.id \/ q.id = 0 \/ q.id = id
        /\ q.state = "ENABLED" <=> uiDisk.rt.state = "ENABLED"
        /\ q.state = "ENABLED" /\ uiDisk.rt.id # 0 => q.id # 0
        /\ q.events = {} \/ (q.events = uiDisk.rt.events /\ q.id = uiDisk.rt.id)
    BY <1>0, <1>1, <1>2, <1>3, <1>4, RefreshedRuntime
  <1>6. Opened = [uiDisk EXCEPT !.rt = r]
    BY <1>1 DEF Opened
  <1>7. PICK o : o = Opened
    OBVIOUS
  <1>8. /\ o \in StoredState /\ o.rt = r /\ o.consent = c
        /\ o.pending = uiDisk.pending /\ o.batches = uiDisk.batches
    BY <1>0, <1>3, <1>6, <1>7 DEF StoredState
  <1>9. ASSUME NEW f \in StoredState, f.rt.id = q.id, ConsentCovers(f),
                f.pending = uiDisk.pending, f.batches = uiDisk.batches
         PROVE  Replaces(f)
    <2>1. StoredBatches(f) = StoredBatches(uiDisk)
      BY <1>9, UsageAssumption DEF StoredBatches
    <2>2. uiDisk.pending = NoBatch => uiDisk.rt.id \notin {b.inst : b \in Held}
      BY DEF UsageInv, IdsPair
    <2>3. 0 \notin {b.inst : b \in Held}
      BY DEF UsageInv, UsageTypeOk, Batch
    <2> QED BY <1>4, <1>5, <1>9, <2>1, <2>2, <2>3 DEF Replaces
  <1>10. CASE c.state = "GRANTED" /\ c.profile = "diagnostics" /\ uiClock >= c.expires
    <2>1. PICK p : p = IF q.state = "ENABLED" THEN RtRevoked(q, uiClock) ELSE q
      OBVIOUS
    <2>2. p \in RuntimeState /\ p.id = q.id /\ p.events = q.events /\ p.state # "ENABLED"
      <3>1. uiClock + LazyExpiry \in Nat
        BY <1>0, UsageAssumption
      <3>2. CASE q.state = "ENABLED"
        <4>1. p = [q EXCEPT !.state = "REVOKED", !.until = uiClock + LazyExpiry]
          BY <2>1, <3>2 DEF RtRevoked
        <4> QED BY <1>3, <3>1, <4>1 DEF RuntimeState
      <3> QED BY <1>3, <2>1, <3>2
    <2>3. PICK k \in Consent : k = ConsentRevoked(c) /\ k.state = "REVOKED"
      BY <1>0, RevokedConsent
    <2>4. PICK f : f = Found
      OBVIOUS
    <2>5. f = [o EXCEPT !.rt = p, !.consent = k]
      BY <1>2, <1>7, <1>8, <1>10, <2>1, <2>3, <2>4 DEF Found, Refreshed
    <2>6. /\ f \in StoredState /\ f.rt = p /\ f.consent = k
          /\ f.pending = uiDisk.pending /\ f.batches = uiDisk.batches
      BY <1>8, <2>2, <2>5 DEF StoredState
    <2>7. ConsentCovers(f)
      <3>1. \A x \in q.events : x.id = q.id
        BY <1>5 DEF UsageInv, ConsentCovers
      <3> QED BY <2>2, <2>3, <2>6, <3>1 DEF ConsentCovers
    <2> QED BY <1>9, <2>2, <2>4, <2>6, <2>7
  <1>11. CASE ~(c.state = "GRANTED" /\ c.profile = "diagnostics" /\ uiClock >= c.expires)
    <2>1. PICK f : f = Found
      OBVIOUS
    <2>2. f = [o EXCEPT !.rt = q]
      BY <1>2, <1>7, <1>8, <1>11, <2>1 DEF Found, Refreshed
    <2>3. /\ f \in StoredState /\ f.rt = q /\ f.consent = c
          /\ f.pending = uiDisk.pending /\ f.batches = uiDisk.batches
      BY <1>3, <1>8, <2>2 DEF StoredState
    <2>4. ConsentCovers(f)
      <3>1. ConsentCovers(uiDisk)
        BY DEF UsageInv
      <3> QED BY <1>5, <2>3, <3>1 DEF ConsentCovers
    <2> QED BY <1>9, <2>1, <2>3, <2>4
  <1> QED BY <1>10, <1>11
(* A command that replaces the store and ends.                             *)
LEMMA StoreKeeps ==
  ASSUME UsageInv, Idle, NEW d, Replaces(d), Store(d)
  PROVE  UsageInv'
  <1>1. /\ uiDisk' = d /\ d \in StoredState /\ ConsentCovers(d)
        /\ uiClock' = uiClock /\ uiCall' = NoCall /\ uiRemote' = uiRemote /\ uiLate' = uiLate
    BY DEF Store, Replaces, Idle
  <1>2. StoredBatches(uiDisk') = StoredBatches(uiDisk) /\ Held' = Held
    BY <1>1 DEF Replaces, Held
  <1>3. UsageTypeOk' /\ CallHandles'
    BY <1>1, <1>2 DEF UsageInv, UsageTypeOk, CallHandles
  <1>4. IdsPair'
    BY <1>1, <1>2 DEF UsageInv, IdsPair, Replaces
  <1> QED BY <1>1, <1>2, <1>3, <1>4 DEF UsageInv, Tracked

(* A store is found where a consent is granted.                            *)
LEMMA GrantedIsStored ==
  ASSUME Found.consent.state = "GRANTED"
  PROVE  uiDisk # NoStore
  <1> SUFFICES ASSUME uiDisk = NoStore PROVE FALSE
    OBVIOUS
  <1>1. PICK o : o = Opened
    OBVIOUS
  <1>2. o = [consent |-> DefaultConsent, rt |-> NewRuntime, pending |-> NoBatch, batches |-> {}]
    BY <1>1 DEF Opened
  <1>3. o.consent.state = "DISABLED"
    BY <1>2 DEF DefaultConsent
  <1>4. PICK rt : rt = RtRefreshed(o.rt, uiClock)
    OBVIOUS
  <1>5. Found = [o EXCEPT !.rt = rt]
    BY <1>1, <1>3, <1>4 DEF Found, Refreshed
  <1>6. [o EXCEPT !.rt = rt].consent = o.consent
    BY <1>2
  <1> QED BY <1>3, <1>5, <1>6

(* What was found, with another runtime or another consent.                *)
LEMMA FoundChanged ==
  ASSUME UsageInv, uiDisk # NoStore, NEW d \in StoredState,
         d.pending = Found.pending, d.batches = Found.batches, ConsentCovers(d),
         d.pending = NoBatch => d.rt.id \notin {b.inst : b \in Held}
  PROVE  Replaces(d)
  <1>1. StoredBatches(d) = StoredBatches(uiDisk)
    BY FoundReplaces, UsageAssumption DEF StoredBatches
  <1> QED BY <1>1 DEF Replaces

LEMMA GrantKeeps ==
  ASSUME UsageInv, NEW profile \in DOMAIN Profiles, Grant(profile)
  PROVE  UsageInv'
  <1>1. PICK o : o = Opened
    OBVIOUS
  <1>2. PICK id \in Nat : id = FreshId(1) /\ id # 0 /\ id \notin {b.inst : b \in Held}
    BY FreshIds
  <1>3. uiClock \in Nat /\ uiClock + Ttl \in Nat
    BY UsageAssumption DEF UsageInv, UsageTypeOk
  <1>4. PICK rt : rt = OptedIn(uiClock, id)
    OBVIOUS
  <1>5. rt \in RuntimeState /\ rt.id = id /\ rt.state = "ENABLED" /\ rt.events = {}
    BY <1>2, <1>3, <1>4 DEF OptedIn, RuntimeState
  <1>6. PICK c : c = [state |-> "GRANTED", profile |-> profile, endpoint |-> NoEndpoint,
                      expires |-> IF profile = "diagnostics" THEN uiClock + Ttl ELSE 0]
    OBVIOUS
  <1>7. c \in Consent /\ c.state = "GRANTED" /\ c.profile = profile
    BY <1>3, <1>6 DEF Consent
  <1>8. PICK d : d = [o EXCEPT !.rt = rt, !.consent = c] /\ Store(d)
    BY <1>1, <1>2, <1>4, <1>6 DEF Grant
  <1>9. o.pending = NoBatch /\ o.batches = {} /\ Idle
    BY <1>1 DEF Grant
  <1>10. d = [consent |-> c, rt |-> rt, pending |-> NoBatch, batches |-> {}] /\ StoredBatches(uiDisk) = {}
    <2>1. CASE uiDisk = NoStore
      <3>1. o = [consent |-> DefaultConsent, rt |-> NewRuntime, pending |-> NoBatch, batches |-> {}]
        BY <1>1, <2>1 DEF Opened
      <3> QED BY <1>8, <2>1, <3>1 DEF StoredBatches
    <2>2. CASE uiDisk # NoStore
      <3>1. uiDisk \in StoredState
        BY <2>2 DEF UsageInv, UsageTypeOk
      <3>2. PICK r : o = [uiDisk EXCEPT !.rt = r]
        BY <1>1, <2>2 DEF Opened
      <3>3. /\ o = [consent |-> uiDisk.consent, rt |-> r, pending |-> uiDisk.pending, batches |-> uiDisk.batches]
        BY <3>1, <3>2 DEF StoredState
      <3> QED BY <1>8, <1>9, <2>2, <3>3 DEF StoredBatches
    <2> QED BY <2>1, <2>2
  <1>11. d \in StoredState /\ StoredBatches(d) = {} /\ d.rt = rt /\ d.consent = c
    <2>1. d \in StoredState /\ d.rt = rt /\ d.consent = c /\ d.pending = NoBatch /\ d.batches = {}
      BY <1>5, <1>7, <1>10 DEF StoredState
    <2> QED BY <2>1 DEF StoredBatches
  <1>12. ConsentCovers(d)
    BY <1>2, <1>5, <1>7, <1>11 DEF ConsentCovers
  <1>13. Replaces(d)
    BY <1>2, <1>5, <1>10, <1>11, <1>12 DEF Replaces
  <1> QED BY <1>8, <1>9, <1>13, StoreKeeps

LEMMA CommandKeeps ==
  ASSUME UsageInv,
         \/ Look \/ Revoke \/ Rotate
         \/ \E e \in Endpoints \cup {NoEndpoint} : SetSharing(e)
         \/ \E o \in Outcomes : RecordEvent(o)
  PROVE  UsageInv'
  <1>1. Idle /\ uiDisk # NoStore
    BY GrantedIsStored DEF Look, Revoke, Rotate, SetSharing, RecordEvent
  <1>2. PICK f : f = Found
    OBVIOUS
  <1>3. PICK rt \in RuntimeState : rt = f.rt
    BY <1>1, <1>2, FoundReplaces DEF Replaces, StoredState
  <1>4. PICK c \in Consent : c = f.consent
    BY <1>1, <1>2, FoundReplaces DEF Replaces, StoredState
  <1>5. /\ Replaces(f) /\ f \in StoredState /\ ConsentCovers(f)
        /\ f.pending = NoBatch => rt.id \notin {b.inst : b \in Held}
    BY <1>1, <1>2, <1>3, FoundReplaces DEF Replaces
  <1>6. uiClock \in Nat /\ uiClock + LazyExpiry \in Nat
    BY UsageAssumption DEF UsageInv, UsageTypeOk
  <1>7. CASE Look
    BY <1>1, <1>2, <1>5, <1>7, StoreKeeps DEF Look
  <1>8. CASE Revoke
    <2>1. PICK r : r = RtRevoked(rt, uiClock)
      OBVIOUS
    <2>2. r \in RuntimeState /\ r.id = rt.id /\ r.events = rt.events /\ r.state = "REVOKED"
      <3>1. r = [rt EXCEPT !.state = "REVOKED", !.until = uiClock + LazyExpiry]
        BY <2>1 DEF RtRevoked
      <3> QED BY <1>6, <3>1 DEF RuntimeState
    <2>3. PICK k \in Consent : k = ConsentRevoked(c) /\ k.state = "REVOKED"
      BY RevokedConsent
    <2>4. PICK d : d = [f EXCEPT !.rt = r, !.consent = k] /\ Store(d)
      BY <1>2, <1>3, <1>4, <1>8, <2>1, <2>3 DEF Revoke
    <2>5. /\ d.rt = r /\ d.consent = k
          /\ d \in StoredState /\ d.pending = f.pending /\ d.batches = f.batches
      BY <1>5, <2>2, <2>3, <2>4 DEF StoredState
    <2>6. ConsentCovers(d)
      BY <1>3, <1>5, <2>2, <2>3, <2>5 DEF ConsentCovers
    <2>7. Replaces(d)
      BY <1>1, <1>2, <1>5, <2>2, <2>5, <2>6, FoundChanged
    <2> QED BY <1>1, <2>4, <2>7, StoreKeeps
  <1>9. CASE Rotate
    <2>1. PICK id \in Nat : id = FreshId(2) /\ id # 0 /\ id \notin {b.inst : b \in Held}
      BY FreshIds
    <2>2. PICK r : r = Rotated(rt, uiClock, id)
      OBVIOUS
    <2>3. r \in RuntimeState /\ r.id = id /\ r.events = {} /\ r.state = rt.state
      <3>1. r = [rt EXCEPT !.id = id, !.events = {}, !.rotated = uiClock]
        BY <2>2 DEF Rotated
      <3> QED BY <1>6, <3>1 DEF RuntimeState
    <2>4. PICK d : d = [f EXCEPT !.rt = r] /\ Store(d)
      BY <1>2, <1>3, <1>9, <2>1, <2>2 DEF Rotate
    <2>5. /\ d.rt = r /\ d.consent = c
          /\ d \in StoredState /\ d.pending = f.pending /\ d.batches = f.batches
      BY <1>4, <1>5, <2>3, <2>4 DEF StoredState
    <2>6. ConsentCovers(d)
      BY <1>3, <1>4, <1>5, <2>1, <2>3, <2>5 DEF ConsentCovers
    <2>7. Replaces(d)
      BY <1>1, <1>2, <1>5, <2>1, <2>3, <2>5, <2>6, FoundChanged
    <2> QED BY <1>1, <2>4, <2>7, StoreKeeps
  <1>10. ASSUME NEW e \in Endpoints \cup {NoEndpoint}, SetSharing(e)
         PROVE  UsageInv'
    <2>1. PICK k : k = [c EXCEPT !.endpoint = e]
      OBVIOUS
    <2>2. k \in Consent /\ k.state = c.state /\ k.profile = c.profile
      BY <2>1 DEF Consent
    <2>3. PICK d : d = [f EXCEPT !.consent = k] /\ Store(d)
      BY <1>2, <1>4, <1>10, <2>1 DEF SetSharing
    <2>4. /\ d.rt = rt /\ d.consent = k
          /\ d \in StoredState /\ d.pending = f.pending /\ d.batches = f.batches
      BY <1>3, <1>5, <2>2, <2>3 DEF StoredState
    <2>5. ConsentCovers(d)
      BY <1>3, <1>4, <1>5, <2>2, <2>4 DEF ConsentCovers
    <2>6. Replaces(d)
      BY <1>1, <1>2, <1>5, <2>2, <2>4, <2>5, FoundChanged
    <2> QED BY <1>1, <2>3, <2>6, StoreKeeps
  <1>11. ASSUME NEW o \in Outcomes, RecordEvent(o)
         PROVE  UsageInv'
    <2>0. PICK x \in Event : x = [outcome |-> o, at |-> uiClock, id |-> rt.id]
      BY <1>6 DEF Event, RuntimeState
    <2>1. PICK r : r = [rt EXCEPT !.events = rt.events \cup {x}]
      OBVIOUS
    <2>2. /\ r \in RuntimeState /\ r.id = rt.id /\ r.state = rt.state
          /\ r.events = rt.events \cup {x} /\ x.id = rt.id /\ x.outcome = o
      BY <2>0, <2>1 DEF RuntimeState
    <2>3. PICK d : d = [f EXCEPT !.rt = r] /\ Store(d)
      BY <1>2, <1>3, <1>11, <2>0, <2>1 DEF RecordEvent
    <2>4. /\ d.rt = r /\ d.consent = c
          /\ d \in StoredState /\ d.pending = f.pending /\ d.batches = f.batches
      BY <1>4, <1>5, <2>2, <2>3 DEF StoredState
    <2>5. ConsentCovers(d)
      <3>1. o \in Profiles[c.profile]
        BY <1>2, <1>4, <1>11 DEF RecordEvent
      <3> QED BY <1>3, <1>4, <1>5, <2>2, <2>4, <3>1 DEF ConsentCovers
    <2>6. Replaces(d)
      BY <1>1, <1>2, <1>5, <2>2, <2>4, <2>5, FoundChanged
    <2> QED BY <1>1, <2>3, <2>6, StoreKeeps
  <1> QED BY <1>7, <1>8, <1>9, <1>10, <1>11
(* A new batch: no other has its deletion id or its pseudonym.             *)
LEMMA NewEnvelope ==
  ASSUME UsageInv, Found.consent.state = "GRANTED", Found.pending = NoBatch,
         NEW e, e = Envelope(Found)
  PROVE  /\ e \in Batch /\ OfItsEpoch(e)
         /\ \A b \in Held : b.del # e.del /\ b.inst # e.inst
  <1>1. uiDisk # NoStore
    BY GrantedIsStored
  <1>2. PICK f \in StoredState : f = Found /\ Replaces(f)
    BY <1>1, FoundReplaces DEF Replaces
  <1>3. PICK del \in Nat \ {0} : del = FreshId(2) /\ del \notin {b.del : b \in Held}
    BY FreshIds
  <1>4. /\ f.rt.id \in Nat \ {0} /\ f.rt.id \notin {b.inst : b \in Held}
        /\ f.consent.endpoint \in Endpoints \cup {NoEndpoint}
        /\ \A x \in f.rt.events : x.outcome \in Profiles[f.consent.profile] /\ x.id = f.rt.id /\ x.id \in Nat
    <2>1. ConsentCovers(f) /\ f.rt \in RuntimeState /\ f.consent \in Consent
      BY <1>2 DEF Replaces, StoredState
    <2>2. f.rt.id \in Nat /\ f.rt.events \subseteq Event
      BY <2>1 DEF RuntimeState
    <2>3. \A x \in f.rt.events : x.outcome \in Profiles[f.consent.profile] /\ x.id = f.rt.id
      BY <1>2, <2>1 DEF ConsentCovers
    <2>4. f.rt.id # 0 /\ f.rt.id \notin {b.inst : b \in Held}
      BY <1>2, <2>1 DEF Replaces, ConsentCovers
    <2>5. f.consent.endpoint \in Endpoints \cup {NoEndpoint}
      BY <2>1 DEF Consent
    <2> QED BY <2>2, <2>3, <2>4, <2>5
  <1>5. PICK ev : ev = {[allowed |-> x.outcome \in Profiles[f.consent.profile], id |-> x.id] : x \in f.rt.events}
    OBVIOUS
  <1>6. \A x \in ev : x \in SentEvent /\ x.allowed /\ x.id = f.rt.id
    <2> TAKE x \in ev
    <2>1. PICK y \in f.rt.events : x = [allowed |-> y.outcome \in Profiles[f.consent.profile], id |-> y.id]
      BY <1>5
    <2>2. (y.outcome \in Profiles[f.consent.profile]) = TRUE
      BY <1>4
    <2>3. x = [allowed |-> TRUE, id |-> y.id]
      BY <2>1, <2>2, Zenon
    <2>4. y.id \in Nat /\ y.id = f.rt.id
      BY <1>4
    <2> QED BY <2>3, <2>4 DEF SentEvent
  <1>7. e = [endpoint |-> f.consent.endpoint, del |-> del, inst |-> f.rt.id, events |-> ev, overtaken |-> FALSE]
    BY <1>2, <1>3, <1>5 DEF Envelope
  <1>8. e \in Batch /\ e.events = ev /\ e.inst = f.rt.id /\ e.del = del
    BY <1>3, <1>4, <1>6, <1>7 DEF Batch
  <1> QED BY <1>3, <1>4, <1>6, <1>8 DEF OfItsEpoch

LEMMA ShareKeeps ==
  ASSUME UsageInv, Share
  PROVE  UsageInv'
  <1>1. uiDisk # NoStore /\ uiCall = NoCall /\ Found.consent.state = "GRANTED"
    BY GrantedIsStored DEF Share, Idle
  <1>2. PICK f \in StoredState : f = Found /\ Replaces(f)
    BY <1>1, FoundReplaces DEF Replaces
  <1>3. f.pending = uiDisk.pending /\ f.batches = uiDisk.batches
    BY <1>1, <1>2, FoundReplaces
  <1>4. UNCHANGED <<uiClock, uiRemote, uiLate>>
    BY DEF Share
  <1>5. CASE f.pending # NoBatch
    <2>1. uiDisk' = uiDisk /\ uiCall' = [kind |-> "share", batches |-> {f.pending}]
      BY <1>2, <1>5 DEF Share, PreparedShare, Awaiting
    <2>2. Held' = Held
      BY <1>4, <2>1 DEF Held
    <2>3. UsageTypeOk' /\ CallHandles'
      BY <1>1, <1>3, <1>4, <1>5, <2>1, <2>2 DEF UsageInv, UsageTypeOk, CallHandles
    <2> QED BY <1>1, <1>4, <2>1, <2>2, <2>3 DEF UsageInv, IdsPair, Tracked
  <1>6. CASE f.pending = NoBatch
    <2>1. PICK e : e = Envelope(f)
      OBVIOUS
    <2>2. /\ e \in Batch /\ OfItsEpoch(e) /\ e # NoBatch
          /\ \A b \in Held : b.del # e.del /\ b.inst # e.inst
      BY <1>1, <1>2, <1>6, <2>1, NewEnvelope, UsageAssumption
    <2>3. PICK d : d = [f EXCEPT !.pending = e]
      OBVIOUS
    <2>4. uiDisk' = d /\ uiCall' = [kind |-> "share", batches |-> {e}]
      BY <1>2, <1>6, <2>1, <2>3 DEF Share, PreparedShare, Awaiting
    <2>5. /\ d \in StoredState /\ d # NoStore /\ d.pending = e /\ d.batches = f.batches
          /\ d.rt = f.rt /\ d.consent = f.consent
      BY <2>2, <2>3, UsageAssumption DEF StoredState
    <2>6. StoredBatches(d) = StoredBatches(uiDisk) \cup {e}
      BY <1>1, <1>3, <1>6, <2>2, <2>5 DEF StoredBatches
    <2>7. Held' = Held \cup {e}
      BY <1>4, <2>4, <2>6 DEF Held
    <2>8. UsageTypeOk'
      BY <1>4, <2>2, <2>4, <2>5, <2>7, FS_AddElement DEF UsageInv, UsageTypeOk
    <2>9. CallHandles'
      BY <2>2, <2>4, <2>5 DEF CallHandles
    <2>10. IdsPair'
      <3>1. \A b, c \in Held \cup {e} : b.del = c.del <=> b.inst = c.inst
        BY <2>2 DEF UsageInv, IdsPair
      <3>2. \A b, c \in Held \cup {e} : b.del = c.del => b.endpoint = c.endpoint
        BY <2>2 DEF UsageInv, IdsPair
      <3> QED BY <2>2, <2>4, <2>5, <2>7, <3>1, <3>2 DEF IdsPair
    <2>11. ConsentCovers(d)
      BY <1>2, <2>5 DEF Replaces, ConsentCovers
    <2>12. \A b \in uiRemote \cup uiLate : b.overtaken \/ \E t \in StoredBatches(d) : SameBatch(t, b)
      BY <2>6 DEF UsageInv, Tracked
    <2>13. \A b \in Held \cup {e} : OfItsEpoch(b)
      BY <2>2 DEF UsageInv
    <2> QED BY <1>4, <2>4, <2>7, <2>8, <2>9, <2>10, <2>11, <2>12, <2>13 DEF UsageInv, Tracked
  <1> QED BY <1>5, <1>6

(* The store stays, and no batch a receiver has is new.                    *)
LEMMA ReceiversKeep ==
  ASSUME UsageInv, uiDisk' = uiDisk, uiClock' \in Nat,
         Held' \subseteq Batch, IsFiniteSet(Held'),
         \A b \in Held' : \E c \in Held : b.del = c.del /\ b.inst = c.inst /\ b.endpoint = c.endpoint /\ b.events \subseteq c.events,
         \A b \in uiRemote' \cup uiLate' : b.overtaken \/ Tracked(b),
         uiCall' # NoCall => uiCall' = [kind |-> uiCall'.kind, batches |-> uiCall'.batches],
         CallHandles'
  PROVE  UsageInv'
  <1>1. UsageTypeOk'
    BY DEF UsageInv, UsageTypeOk
  <1>2. IdsPair'
    <2>1. ASSUME NEW b \in Held', NEW c \in Held'
          PROVE  (b.del = c.del <=> b.inst = c.inst) /\ (b.del = c.del => b.endpoint = c.endpoint)
      <3>1. PICK x \in Held : b.del = x.del /\ b.inst = x.inst /\ b.endpoint = x.endpoint
        OBVIOUS
      <3>2. PICK y \in Held : c.del = y.del /\ c.inst = y.inst /\ c.endpoint = y.endpoint
        OBVIOUS
      <3> QED BY <3>1, <3>2 DEF UsageInv, IdsPair
    <2> QED BY <2>1 DEF UsageInv, IdsPair
  <1>3. \A b \in Held' : OfItsEpoch(b)
    <2> TAKE b \in Held'
    <2>1. PICK c \in Held : b.inst = c.inst /\ b.events \subseteq c.events
      OBVIOUS
    <2>2. OfItsEpoch(c)
      BY DEF UsageInv
    <2> QED BY <2>1, <2>2 DEF OfItsEpoch
  <1> QED BY <1>1, <1>2, <1>3 DEF UsageInv, Tracked

LEMMA ReceivedOnce ==
  ASSUME NEW b
  PROVE  Received(b) \subseteq uiRemote \cup {b}
  BY DEF Received

LEMMA HeldFinite ==
  ASSUME UsageInv
  PROVE  IsFiniteSet(uiRemote) /\ IsFiniteSet(uiLate) /\ IsFiniteSet(StoredBatches(uiDisk))
  BY FS_Subset DEF UsageInv, UsageTypeOk, Held

(* What a failed or late request leaves at the receivers was held before.  *)
LEMMA SubsetKeeps ==
  ASSUME UsageInv, uiDisk' = uiDisk, uiClock' \in Nat, Held' \subseteq Held,
         \A b \in uiRemote' \cup uiLate' : b.overtaken \/ Tracked(b),
         uiCall' # NoCall => uiCall' = [kind |-> uiCall'.kind, batches |-> uiCall'.batches],
         CallHandles'
  PROVE  UsageInv'
  <1>1. Held' \subseteq Batch /\ IsFiniteSet(Held')
    <2>1. PICK H : H = Held'
      OBVIOUS
    <2>2. IsFiniteSet(H) /\ H \subseteq Batch
      BY <2>1, FS_Subset DEF UsageInv, UsageTypeOk
    <2> QED BY <2>1, <2>2
  <1>2. \A b \in Held' : \E c \in Held :
          b.del = c.del /\ b.inst = c.inst /\ b.endpoint = c.endpoint /\ b.events \subseteq c.events
    OBVIOUS
  <1> QED BY <1>1, <1>2, ReceiversKeep

LEMMA ShareFailsKeeps ==
  ASSUME UsageInv, ShareFails
  PROVE  UsageInv'
  <1>1. /\ uiCall # NoCall /\ uiCall.kind = "share"
        /\ uiCall' = NoCall /\ uiDisk' = uiDisk /\ uiClock' = uiClock
    BY DEF ShareFails, Calling
  <1>2. uiDisk # NoStore /\ uiDisk.pending # NoBatch /\ uiCall.batches = {uiDisk.pending}
    BY <1>1 DEF UsageInv, CallHandles
  <1>3. PICK b : b = uiDisk.pending
    OBVIOUS
  <1>4. b \in StoredBatches(uiDisk)
    BY <1>2, <1>3 DEF StoredBatches
  <1>5. uiRemote' \subseteq uiRemote \cup {b} /\ uiLate' \subseteq uiLate \cup {b}
    BY <1>2, <1>3, ReceivedOnce DEF ShareFails
  <1>6. Held' \subseteq Held
    BY <1>1, <1>4, <1>5 DEF Held
  <1>7. \A c \in uiRemote' \cup uiLate' : c.overtaken \/ Tracked(c)
    BY <1>4, <1>5 DEF UsageInv, Tracked, SameBatch
  <1>8. CallHandles' /\ uiClock' \in Nat
    BY <1>1 DEF CallHandles, UsageInv, UsageTypeOk
  <1> QED BY <1>1, <1>6, <1>7, <1>8, SubsetKeeps

(* The answer of a share: its batch is a receipt, and a new epoch begins.  *)
LEMMA AcknowledgedKeeps ==
  ASSUME UsageInv, ShareAcknowledged
  PROVE  UsageInv'
  <1>1. /\ uiCall # NoCall /\ uiCall.kind = "share"
        /\ uiCall' = NoCall /\ uiLate' = uiLate /\ uiClock' = uiClock
    BY DEF ShareAcknowledged, Calling
  <1>2. uiDisk # NoStore /\ uiDisk.pending # NoBatch /\ uiCall.batches = {uiDisk.pending}
    BY <1>1 DEF UsageInv, CallHandles
  <1>3. PICK f \in StoredState : f = Found /\ Replaces(f)
    BY <1>2, FoundReplaces DEF Replaces
  <1>4. f.pending = uiDisk.pending /\ f.batches = uiDisk.batches
    BY <1>2, <1>3, FoundReplaces
  <1>5. PICK b \in Batch : b = uiDisk.pending
    BY <1>2, <1>3, <1>4 DEF StoredState
  <1>6. PICK id \in Nat : id = FreshId(2) /\ id # 0 /\ id \notin {c.inst : c \in Held}
    BY FreshIds
  <1>7. PICK r : r = Rotated(f.rt, uiClock, id)
    OBVIOUS
  <1>8. r \in RuntimeState /\ r.id = id /\ r.events = {} /\ r.state = f.rt.state
    <2>1. r = [f.rt EXCEPT !.id = id, !.events = {}, !.rotated = uiClock]
      BY <1>7 DEF Rotated
    <2>2. f.rt \in RuntimeState /\ uiClock \in Nat
      BY DEF StoredState, UsageInv, UsageTypeOk
    <2> QED BY <1>6, <2>1, <2>2 DEF RuntimeState
  <1>9. PICK a : a = ReceiptOf(b)
    OBVIOUS
  <1>10. a \in Batch /\ a.endpoint = b.endpoint /\ a.del = b.del /\ a.inst = b.inst /\ a.events = {}
    BY <1>9 DEF ReceiptOf, Batch
  <1>11. PICK d : d = [f EXCEPT !.batches = f.batches \cup {a}, !.pending = NoBatch, !.rt = r]
    OBVIOUS
  <1>12. uiDisk' = d /\ uiRemote' = Received(b)
    BY <1>2, <1>3, <1>5, <1>6, <1>7, <1>9, <1>11 DEF ShareAcknowledged
  <1>13. /\ d \in StoredState /\ d # NoStore /\ d.batches = f.batches \cup {a} /\ d.pending = NoBatch
         /\ d.rt = r /\ d.consent = f.consent
    <2>1. f.batches \cup {a} \in SUBSET Batch /\ f.consent \in Consent
      BY <1>10 DEF StoredState
    <2>2. d = [consent |-> f.consent, rt |-> r, pending |-> NoBatch, batches |-> f.batches \cup {a}]
      BY <1>11 DEF StoredState
    <2>3. d \in StoredState
      BY <1>8, <2>1, <2>2 DEF StoredState
    <2> QED BY <2>2, <2>3, UsageAssumption
  <1>14. /\ StoredBatches(uiDisk) = f.batches \cup {b} /\ StoredBatches(d) = f.batches \cup {a}
         /\ b \in Held
    BY <1>2, <1>4, <1>5, <1>13 DEF StoredBatches, Held
  <1>15. uiRemote' \subseteq uiRemote \cup {b}
    BY <1>12, ReceivedOnce
  <1>16. Held' \subseteq Held \cup {a}
    <2>1. Held' = uiRemote' \cup uiLate \cup StoredBatches(d)
      BY <1>1, <1>12 DEF Held
    <2>2. f.batches \subseteq Held
      BY <1>14 DEF Held
    <2> QED BY <1>14, <1>15, <2>1, <2>2 DEF Held
  <1>17. UsageTypeOk'
    <2>1. PICK H : H = Held'
      OBVIOUS
    <2>2. IsFiniteSet(Held \cup {a}) /\ Held \cup {a} \subseteq Batch
      BY <1>10, FS_AddElement DEF UsageInv, UsageTypeOk
    <2>3. IsFiniteSet(H) /\ H \subseteq Batch
      BY <1>16, <2>1, <2>2, FS_Subset
    <2> QED BY <1>1, <1>12, <1>13, <2>1, <2>3 DEF UsageInv, UsageTypeOk
  <1>18. \A x \in Held' : \E c \in Held : x.del = c.del /\ x.inst = c.inst /\ x.endpoint = c.endpoint
    BY <1>10, <1>14, <1>16
  <1>19. IdsPair'
    <2>1. ASSUME NEW x \in Held', NEW y \in Held'
          PROVE  (x.del = y.del <=> x.inst = y.inst) /\ (x.del = y.del => x.endpoint = y.endpoint)
      <3>1. PICK u \in Held : x.del = u.del /\ x.inst = u.inst /\ x.endpoint = u.endpoint
        BY <1>18
      <3>2. PICK v \in Held : y.del = v.del /\ y.inst = v.inst /\ y.endpoint = v.endpoint
        BY <1>18
      <3> QED BY <3>1, <3>2 DEF UsageInv, IdsPair
    <2>2. ASSUME NEW x \in Held' PROVE x.inst # id
      <3>1. PICK u \in Held : x.inst = u.inst
        BY <1>18
      <3> QED BY <1>6, <3>1
    <2> QED BY <1>8, <1>12, <1>13, <2>1, <2>2 DEF IdsPair
  <1>20. ConsentCovers(d)
    BY <1>3, <1>6, <1>8, <1>13 DEF Replaces, ConsentCovers
  <1>21. \A c \in uiRemote' \cup uiLate' : c.overtaken \/ \E t \in StoredBatches(d) : SameBatch(t, c)
    <2> TAKE c \in uiRemote' \cup uiLate'
    <2>1. CASE c = b
      BY <1>10, <1>14, <2>1 DEF SameBatch
    <2>2. CASE c # b
      <3>1. c.overtaken \/ \E t \in StoredBatches(uiDisk) : SameBatch(t, c)
        BY <1>1, <1>15, <2>2 DEF UsageInv, Tracked
      <3>2. ASSUME NEW t \in StoredBatches(uiDisk), SameBatch(t, c)
            PROVE  \E u \in StoredBatches(d) : SameBatch(u, c)
        <4>1. CASE t = b
          BY <1>10, <1>14, <3>2, <4>1 DEF SameBatch
        <4>2. CASE t # b
          BY <1>14, <3>2, <4>2
        <4> QED BY <4>1, <4>2
      <3> QED BY <3>1, <3>2
    <2> QED BY <2>1, <2>2
  <1>22. \A c \in Held' : OfItsEpoch(c)
    <2>1. OfItsEpoch(a)
      BY <1>10 DEF OfItsEpoch
    <2> QED BY <1>16, <2>1 DEF UsageInv
  <1>23. CallHandles'
    BY <1>1 DEF CallHandles
  <1> QED BY <1>12, <1>13, <1>17, <1>19, <1>20, <1>21, <1>22, <1>23 DEF UsageInv, Tracked

LEMMA DeleteKeeps ==
  ASSUME UsageInv, Delete
  PROVE  UsageInv'
  <1>1. /\ uiCall' = [kind |-> "delete", batches |-> StoredBatches(Found)]
        /\ UNCHANGED <<uiClock, uiDisk, uiRemote, uiLate>>
    BY DEF Delete, Awaiting
  <1>2. Held' = Held
    BY <1>1 DEF Held
  <1>3. CallHandles'
    <2>1. CASE uiDisk = NoStore
      <3>1. \A b \in uiRemote \cup uiLate : b.overtaken
        BY <2>1 DEF UsageInv, Tracked, StoredBatches
      <3>2. StoredBatches(Found) = {}
        <4>1. PICK o : o = Opened
          OBVIOUS
        <4>2. o = [consent |-> DefaultConsent, rt |-> NewRuntime, pending |-> NoBatch, batches |-> {}]
          BY <2>1, <4>1 DEF Opened
        <4>3. PICK rt : rt = RtRefreshed(o.rt, uiClock)
          OBVIOUS
        <4>4. Found = [o EXCEPT !.rt = rt]
          BY <4>1, <4>2, <4>3 DEF Found, Refreshed, DefaultConsent
        <4>5. Found.pending = NoBatch /\ Found.batches = {}
          BY <4>2, <4>4
        <4> QED BY <4>5 DEF StoredBatches
      <3> QED BY <1>1, <3>1, <3>2 DEF CallHandles
    <2>2. CASE uiDisk # NoStore
      <3>1. StoredBatches(Found) = StoredBatches(uiDisk)
        BY <2>2, FoundReplaces DEF Replaces
      <3> QED BY <1>1, <3>1 DEF CallHandles, UsageInv, Tracked
    <2> QED BY <2>1, <2>2
  <1>4. /\ uiClock' \in Nat /\ \A b \in uiRemote' \cup uiLate' : b.overtaken \/ Tracked(b)
        /\ uiCall' = [kind |-> uiCall'.kind, batches |-> uiCall'.batches]
    BY <1>1 DEF UsageInv, UsageTypeOk
  <1> QED BY <1>1, <1>2, <1>3, <1>4, SubsetKeeps

(* A batch is deleted at its receiver, which may be at a request of it.    *)
LEMMA DeleteRemoteKeeps ==
  ASSUME UsageInv, DeleteRemote
  PROVE  UsageInv'
  <1>1. /\ uiCall # NoCall /\ uiCall.kind = "delete" /\ uiDisk' = uiDisk /\ uiClock' = uiClock
        /\ uiCall = [kind |-> uiCall.kind, batches |-> uiCall.batches]
    BY DEF DeleteRemote, Calling, UsageInv, UsageTypeOk
  <1>2. PICK b \in uiCall.batches :
          /\ uiRemote' = {r \in uiRemote : ~SameBatch(r, b)}
          /\ uiLate' = {[r EXCEPT !.overtaken = @ \/ SameBatch(r, b)] : r \in uiLate}
          /\ uiCall' = [uiCall EXCEPT !.batches = @ \ {b}] \/ uiCall' = NoCall
    BY DEF DeleteRemote
  <1> DEFINE g(r) == [r EXCEPT !.overtaken = @ \/ SameBatch(r, b)]
  <1>3. \A r \in uiLate : /\ g(r) \in Batch /\ g(r).endpoint = r.endpoint /\ g(r).del = r.del
                          /\ g(r).inst = r.inst /\ g(r).events = r.events
                          /\ g(r).overtaken = (r.overtaken \/ SameBatch(r, b))
    <2> TAKE r \in uiLate
    <2>1. r \in Batch
      BY DEF UsageInv, UsageTypeOk, Held
    <2>2. PICK o \in BOOLEAN : o = (r.overtaken \/ SameBatch(r, b))
      OBVIOUS
    <2> QED BY <2>1, <2>2 DEF Batch
  <1>4. \A x \in uiLate' : \E r \in uiLate :
          /\ x \in Batch /\ x.endpoint = r.endpoint /\ x.del = r.del /\ x.inst = r.inst
          /\ x.events = r.events /\ x.overtaken = (r.overtaken \/ SameBatch(r, b))
    <2> TAKE x \in uiLate'
    <2>1. PICK r \in uiLate : x = g(r)
      BY <1>2
    <2> HIDE DEF g
    <2> QED BY <1>3, <2>1
  <1>5. Held' = uiRemote' \cup uiLate' \cup StoredBatches(uiDisk)
    BY <1>1 DEF Held
  <1>6. IsFiniteSet(Held')
    <2> DEFINE h == [r \in uiLate |-> g(r)]
    <2>1. h = [r \in uiLate |-> h[r]] /\ uiLate' = {h[r] : r \in uiLate}
      BY <1>2
    <2> HIDE DEF h
    <2>2. IsFiniteSet(uiLate')
      BY <2>1, HeldFinite, ImageFinite
    <2>3. IsFiniteSet(uiRemote')
      BY <1>2, HeldFinite, FS_Subset
    <2> QED BY <1>5, <2>2, <2>3, HeldFinite, FS_Union
  <1>7. /\ Held' \subseteq Batch
        /\ \A x \in Held' : \E c \in Held :
             x.del = c.del /\ x.inst = c.inst /\ x.endpoint = c.endpoint /\ x.events \subseteq c.events
    <2>1. uiRemote' \subseteq Held /\ StoredBatches(uiDisk) \subseteq Held /\ uiLate \subseteq Held /\ Held \subseteq Batch
      BY <1>2 DEF UsageInv, UsageTypeOk, Held
    <2> QED BY <1>4, <1>5, <2>1
  <1>8. \A x \in uiRemote' \cup uiLate' : x.overtaken \/ Tracked(x)
    <2>1. \A x \in uiRemote \cup uiLate : x.overtaken \/ Tracked(x)
      BY DEF UsageInv
    <2>2. ASSUME NEW x \in uiRemote' PROVE x.overtaken \/ Tracked(x)
      BY <1>2, <2>1
    <2>3. ASSUME NEW x \in uiLate' PROVE x.overtaken \/ Tracked(x)
      <3>1. PICK r \in uiLate : /\ x.endpoint = r.endpoint /\ x.del = r.del
                               /\ x.overtaken = (r.overtaken \/ SameBatch(r, b))
        BY <1>4
      <3>2. CASE r.overtaken
        BY <3>1, <3>2
      <3>3. CASE Tracked(r)
        BY <3>1, <3>3 DEF Tracked, SameBatch
      <3> QED BY <2>1, <3>2, <3>3
    <2> QED BY <2>2, <2>3
  <1>9. CASE uiCall' = NoCall
    <2>1. CallHandles'
      BY <1>9 DEF CallHandles
    <2> QED BY <1>1, <1>6, <1>7, <1>8, <1>9, <2>1, ReceiversKeep DEF UsageInv, UsageTypeOk
  <1>10. CASE uiCall' = [uiCall EXCEPT !.batches = @ \ {b}]
    <2>1. uiCall' = [kind |-> "delete", batches |-> uiCall.batches \ {b}]
      BY <1>1, <1>10
    <2>2. \A x \in uiRemote \cup uiLate : x.overtaken \/ \E c \in uiCall.batches : SameBatch(c, x)
      BY <1>1 DEF UsageInv, CallHandles
    <2>3. \A x \in uiRemote' \cup uiLate' :
            x.overtaken \/ \E c \in uiCall.batches \ {b} : SameBatch(c, x)
      <3>1. ASSUME NEW x \in uiRemote'
            PROVE  x.overtaken \/ \E c \in uiCall.batches \ {b} : SameBatch(c, x)
        <4>1. x \in uiRemote /\ ~SameBatch(b, x)
          BY <1>2 DEF SameBatch
        <4> QED BY <2>2, <4>1
      <3>2. ASSUME NEW x \in uiLate'
            PROVE  x.overtaken \/ \E c \in uiCall.batches \ {b} : SameBatch(c, x)
        <4>1. PICK r \in uiLate : /\ x.endpoint = r.endpoint /\ x.del = r.del
                                 /\ x.overtaken = (r.overtaken \/ SameBatch(r, b))
          BY <1>4
        <4>2. CASE r.overtaken \/ SameBatch(r, b)
          BY <4>1, <4>2
        <4>3. CASE ~r.overtaken /\ ~SameBatch(r, b)
          <5>1. PICK c \in uiCall.batches : SameBatch(c, r)
            BY <2>2, <4>3
          <5>2. c # b
            BY <4>3, <5>1 DEF SameBatch
          <5> QED BY <4>1, <5>1, <5>2 DEF SameBatch
        <4> QED BY <4>2, <4>3
      <3> QED BY <3>1, <3>2
    <2>4. CallHandles'
      BY <1>1, <2>1, <2>3 DEF UsageInv, CallHandles
    <2> QED BY <1>1, <1>6, <1>7, <1>8, <2>1, <2>4, ReceiversKeep DEF UsageInv, UsageTypeOk
  <1> QED BY <1>2, <1>9, <1>10

(* The store is removed when every batch was deleted.                      *)
LEMMA DeleteLocalKeeps ==
  ASSUME UsageInv, DeleteLocal
  PROVE  UsageInv'
  <1>1. /\ uiCall # NoCall /\ uiCall.kind = "delete" /\ uiCall.batches = {}
        /\ uiDisk' = NoStore /\ uiCall' = NoCall /\ UNCHANGED <<uiClock, uiRemote, uiLate>>
    BY DEF DeleteLocal, Calling
  <1>2. \A b \in uiRemote \cup uiLate : b.overtaken
    BY <1>1 DEF UsageInv, CallHandles
  <1>3. Held' \subseteq Held
    BY <1>1 DEF Held, StoredBatches
  <1>4. UsageTypeOk'
    <2>1. PICK H : H = Held'
      OBVIOUS
    <2>2. IsFiniteSet(H) /\ H \subseteq Batch
      BY <1>3, <2>1, FS_Subset DEF UsageInv, UsageTypeOk
    <2> QED BY <1>1, <2>1, <2>2 DEF UsageInv, UsageTypeOk
  <1> QED BY <1>1, <1>2, <1>3, <1>4 DEF UsageInv, IdsPair, CallHandles

LEMMA LateArrivalKeeps ==
  ASSUME UsageInv, LateArrival
  PROVE  UsageInv'
  <1>1. PICK b \in uiLate : uiRemote' = Received(b) /\ uiLate' = uiLate \ {b}
    BY DEF LateArrival
  <1>2. UNCHANGED <<uiClock, uiDisk, uiCall>>
    BY DEF LateArrival
  <1>3. uiRemote' \cup uiLate' \subseteq uiRemote \cup uiLate
    BY <1>1, ReceivedOnce
  <1>4. Held' \subseteq Held
    BY <1>2, <1>3 DEF Held
  <1>5. CallHandles'
    BY <1>2, <1>3 DEF UsageInv, CallHandles
  <1> QED BY <1>2, <1>3, <1>4, <1>5, SubsetKeeps DEF UsageInv, UsageTypeOk

LEMMA UsageKeeps ==
  ASSUME UsageInv, [UsageNext]_uiVars
  PROVE  UsageInv'
  <1>1. CASE UNCHANGED uiVars
    BY <1>1 DEF uiVars, UsageInv, UsageTypeOk, IdsPair, CallHandles, Held, Tracked
  <1>2. ASSUME NEW p \in DOMAIN Profiles, Grant(p) PROVE UsageInv'
    BY <1>2, GrantKeeps
  <1>3. CASE \/ Look \/ Revoke \/ Rotate
             \/ \E e \in Endpoints \cup {NoEndpoint} : SetSharing(e)
             \/ \E o \in Outcomes : RecordEvent(o)
    BY <1>3, CommandKeeps
  <1>4. CASE Killed \/ UsageTick
    <2>1. uiCall' = NoCall /\ UNCHANGED <<uiDisk, uiRemote, uiLate>> /\ uiClock' \in Nat
      BY <1>4 DEF Killed, UsageTick, Idle, UsageInv, UsageTypeOk
    <2>2. Held' = Held /\ CallHandles'
      BY <2>1 DEF Held, CallHandles
    <2> QED BY <2>1, <2>2, SubsetKeeps DEF UsageInv
  <1> QED BY <1>1, <1>2, <1>3, <1>4, ShareKeeps, AcknowledgedKeeps, ShareFailsKeeps, DeleteKeeps,
             DeleteRemoteKeeps, DeleteLocalKeeps, LateArrivalKeeps DEF UsageNext

(* In every behaviour of the services, whatever answer is lost, comes late *)
(* or is overtaken by a deletion, and wherever a command is killed: what a *)
(* receiver holds can be deleted, was recorded under its profile, and is   *)
(* not linked to another epoch (share(), deleteManagedData()).             *)
THEOREM SharedIsManaged == ServicesSpec => []SharedDataIsManaged
  <1>1. ServicesInit => UsageInv
    BY UsageInitial DEF ServicesInit
  <1>2. UsageInv /\ [ServicesNext]_serviceVars => UsageInv'
    BY StoreSteps, UsageKeeps
  <1>3. UsageInv => SharedDataIsManaged
    BY UsageSafety
  <1> QED BY <1>1, <1>2, <1>3, PTL DEF ServicesSpec

=============================================================================
