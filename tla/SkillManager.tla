---------------------------- MODULE SkillManager ----------------------------
(***************************************************************************)
(* The managed skill broker (demo/managed-skill-lifecycle/manager.mjs):    *)
(* one fixed skill is installed, activated by a directory, and rolled      *)
(* back.  install() may be held between its checks and its commit, and the *)
(* other handlers run meanwhile.  A persist that throws answers a denial,  *)
(* persists once more and, unlike a kill, leaves the change in memory.     *)
(*                                                                         *)
(* A receipt is its action; its generation is its place in the list.       *)
(***************************************************************************)
EXTENDS Naturals, Sequences, FiniteSets, SequencesExt

CONSTANTS Stopped, MaxManagerReceipts

ManagerState == [installed : BOOLEAN, active : BOOLEAN, receipts : Seq({"INSTALL", "ACTIVATE", "ROLLBACK"})]

ASSUME ManagerAssumption == Stopped \notin ManagerState

VARIABLES
  smMem, smFile,  \* the state in memory and in state.json
  smDirectory,    \* the active directory holds the skill
  smHeld,         \* installs held before their commit
  smAnswered      \* receipts answered by the call that made them, since a
                  \* reset: [action, generation]

smVars == <<smMem, smFile, smDirectory, smHeld, smAnswered>>

InitialState == [installed |-> FALSE, active |-> FALSE, receipts |-> <<>>]

ManagerUp == smMem # Stopped

ManagerInit ==
  /\ smMem = InitialState /\ smFile = InitialState
  /\ smDirectory = FALSE /\ smHeld = 0 /\ smAnswered = {}

WithReceipt(s, action) == [s EXCEPT !.receipts = Append(@, action)]

(* A change of the state, its persist and the answer: answered; denied,    *)
(* with the persist of the handler's catch in the file or not; killed.     *)
Stored(s, answer) ==
  /\ Len(s.receipts) <= MaxManagerReceipts
  /\ \/ smMem' = s /\ smFile' = s /\ smAnswered' = smAnswered \cup answer
     \/ smMem' = s /\ smFile' \in {smFile, s} /\ UNCHANGED smAnswered
     \/ smMem' = Stopped /\ smFile' \in {smFile, s} /\ UNCHANGED smAnswered

Made(s) == {[action |-> Last(s.receipts), generation |-> Len(s.receipts)]}

ManagerKilled ==
  /\ ManagerUp /\ smMem' = Stopped /\ smHeld' = 0
  /\ UNCHANGED <<smFile, smDirectory, smAnswered>>

(* loadState() *)
ManagerStarts ==
  /\ ~ManagerUp /\ smMem' = smFile /\ smHeld' = 0
  /\ UNCHANGED <<smFile, smDirectory, smAnswered>>

(* Mutant of InstallAsked: an install that is held throttles no other.     *)
InstallAskedAgain ==
  /\ ManagerUp /\ smHeld < 2 /\ ~smMem.installed
  /\ smHeld' = smHeld + 1
  /\ UNCHANGED <<smMem, smFile, smDirectory, smAnswered>>

(* install() up to its hold; one that is under way throttles the next, and *)
(* a repeated one is answered from memory.                                 *)
InstallAsked ==
  /\ ManagerUp /\ smHeld = 0 /\ ~smMem.installed
  /\ smHeld' = 1
  /\ UNCHANGED <<smMem, smFile, smDirectory, smAnswered>>

(* install() after its hold, whatever has become of the state.             *)
InstallCommits ==
  /\ ManagerUp /\ smHeld > 0
  /\ LET s == WithReceipt([smMem EXCEPT !.installed = TRUE], "INSTALL") IN Stored(s, Made(s))
  /\ smHeld' = IF smMem' = Stopped THEN 0 ELSE smHeld - 1
  /\ UNCHANGED smDirectory

(* activate(): the directory is replaced first; a failure before it leaves *)
(* the old one or none.                                                    *)
Activate ==
  /\ ManagerUp /\ smMem.installed
  /\ \/ /\ LET s == WithReceipt([smMem EXCEPT !.active = TRUE], "ACTIVATE") IN Stored(s, Made(s))
        /\ smDirectory' = TRUE
     \/ /\ smDirectory' \in {FALSE, smDirectory}
        /\ smMem' \in {smMem, Stopped} /\ UNCHANGED <<smFile, smAnswered>>
     \/ /\ LET s == WithReceipt([smMem EXCEPT !.active = FALSE], "ROLLBACK") IN Stored(s, {})
        /\ UNCHANGED smDirectory        \* the injected activation failure
  /\ smHeld' = IF smMem' = Stopped THEN 0 ELSE smHeld

Rollback ==
  /\ ManagerUp
  /\ LET s == WithReceipt([smMem EXCEPT !.active = FALSE], "ROLLBACK") IN Stored(s, Made(s))
  /\ smDirectory' = FALSE
  /\ smHeld' = IF smMem' = Stopped THEN 0 ELSE smHeld

(* POST /v1/reset: an install that is held stays so.                       *)
ResetManager ==
  /\ ManagerUp
  /\ smDirectory' = FALSE /\ smAnswered' = {}
  /\ \/ smMem' = InitialState /\ smFile' \in {smFile, InitialState}
     \/ smMem' = Stopped /\ smFile' \in {smFile, InitialState}
  /\ smHeld' = IF smMem' = Stopped THEN 0 ELSE smHeld

(* A probe, a model call, a throttled install or any denial persists the   *)
(* memory as it is, with what an earlier persist that threw left there.    *)
ManagerPersisted ==
  /\ ManagerUp /\ smFile' = smMem
  /\ UNCHANGED <<smMem, smDirectory, smHeld, smAnswered>>

ManagerNext ==
  \/ ManagerKilled \/ ManagerStarts \/ InstallAsked \/ InstallCommits
  \/ Activate \/ Rollback \/ ResetManager \/ ManagerPersisted

(***************************************************************************)
(* Properties                                                              *)
(***************************************************************************)
(* Whatever is held, reset, refused by the disk or killed: memory and file *)
(* hold at most one INSTALL, exactly when they say installed, and only an  *)
(* installed skill is active; and a receipt answered by the call that made *)
(* it is in the file, at its generation, until a reset.  A repeated        *)
(* install is answered from memory and promises no more than that.         *)
ManagerReceiptsLast ==
  /\ \A s \in {smMem, smFile} \ {Stopped} :
       /\ Cardinality({i \in DOMAIN s.receipts : s.receipts[i] = "INSTALL"}) = (IF s.installed THEN 1 ELSE 0)
       /\ s.active => s.installed
  /\ \A r \in smAnswered :
       r.generation \in DOMAIN smFile.receipts /\ smFile.receipts[r.generation] = r.action

InstalledOnce(s) ==
  IF s.installed
  THEN \E i \in DOMAIN s.receipts :
         s.receipts[i] = "INSTALL" /\ \A j \in DOMAIN s.receipts : s.receipts[j] = "INSTALL" => i = j
  ELSE \A i \in DOMAIN s.receipts : s.receipts[i] # "INSTALL"

StillHas(s, r) == r.generation \in DOMAIN s.receipts /\ s.receipts[r.generation] = r.action

(* The inductive invariant: memory has what the file has of the answers,   *)
(* and while an install is held nothing is installed.                      *)
ManagerInv ==
  /\ smMem \in ManagerState \cup {Stopped} /\ smFile \in ManagerState
  /\ smHeld \in {0, 1} /\ (smHeld = 1 => ManagerUp /\ ~smMem.installed)
  /\ \A s \in {smMem, smFile} \ {Stopped} : InstalledOnce(s) /\ (s.active => s.installed)
  /\ \A r \in smAnswered : StillHas(smFile, r) /\ (ManagerUp => StillHas(smMem, r))
=============================================================================
