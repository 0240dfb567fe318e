---------------------------- MODULE ManagedSkills ----------------------------
(***************************************************************************)
(* SkillLifecycleBrokerV1 over ManagedSkillStoreV1                         *)
(* (packages/contracts/src/skill-admission.ts): a package is validated,    *)
(* analysed and decided, installed as a new generation of its tenant's     *)
(* store, activated separately, and rolled back to an earlier generation.  *)
(* install() awaits a hook before it commits and activate() its probe, so  *)
(* calls overlap.                                                          *)
(*                                                                         *)
(* A request names what the checks and the analysis find of it: "flaws"    *)
(* are the checks it fails, "marks" what draws a finding, and "caps" the   *)
(* capabilities it asks for.  Its digest and package are symbols, for      *)
(* SHA-256 over canonical JSON.  The broker's policy is of one tenant, and *)
(* a request of another is quarantined: one store is modelled.             *)
(***************************************************************************)
EXTENDS Naturals, Sequences, FiniteSets, SequencesExt

CONSTANTS
  SkillRequests,      \* what callers may send
  OwnerApprovals,     \* [request, package]: the digests the owner approved
  Escalating,         \* capabilities with an authority or tenant-wide right
  CustomPool, RampagePool, CustomAuto, RampageAuto,
  MaxSkillGenerations \* bound of the store's generations

VARIABLES
  slGenerations,      \* the recorded generations, the last one current: each
                      \* [skills, by], "by" the call that made it
  slReceipts,         \* operation -> [request, profile], the committed installs
  slInstalls,         \* installs awaiting their hook
  slProbes            \* activations awaiting their probe

slVars == <<slGenerations, slReceipts, slInstalls, slProbes>>

(* The checks of validateSkillAdmissionRequestV1(): any flaw denies.       *)
SkillFlaws ==
  {"REQUEST_SCHEMA", "REQUEST_BINDING", "SOURCE_IMMUTABILITY", "MANIFEST_SCHEMA",
   "MANIFEST_VALUE", "PROVENANCE", "ACCESS_DECLARATION", "DEPENDENCY_LOCK",
   "CAPABILITY_DECLARATION", "TOOL_DECLARATION", "FILE_INTEGRITY", "FILE_SET",
   "PACKAGE_DIGEST"}

HighMarks == {"PUBLISHER_UNTRUSTED", "FILESYSTEM_ACCESS"}
CriticalMarks ==
  {"TENANT_OR_REQUESTER", "INSTALL_SCRIPT", "NETWORK_ACCESS", "SECRETS_ACCESS",
   "PROCESS_ACCESS", "PERSISTENCE_ACCESS", "DEPENDENCY_CONFUSION", "SYMLINK",
   "HIDDEN_NETWORK", "HIDDEN_CREDENTIAL", "HIDDEN_PROCESS", "PATH_ESCAPE", "INSTALL_HOOK",
   "UNKNOWN_CAPABILITY"}

Critical(r) == r.marks \cap CriticalMarks # {} \/ r.caps \cap Escalating # {}

(* analyseSkillAdmissionV1() *)
SkillVerdict(r) ==
  CASE Critical(r) -> "QUARANTINE"
    [] ~Critical(r) /\ (r.marks \cap HighMarks # {} \/ r.caps # {}) -> "OWNER_REVIEW"
    [] OTHER -> "ACCEPTABLE"

(* The owner's matrix of a profile.                                        *)
AutoAdmits(r, profile) ==
  CASE profile = "RAMPAGE" -> RampageAuto /\ r.marks \cap HighMarks = {}
    [] profile = "CUSTOM" -> CustomAuto /\ SkillVerdict(r) = "ACCEPTABLE"
    [] profile = "SAFE_GUIDED" -> SkillVerdict(r) = "ACCEPTABLE"

(* decideSkillAdmissionV1() *)
SkillRoute(r, profile) ==
  CASE SkillVerdict(r) = "QUARANTINE" -> "QUARANTINE"
    [] SkillVerdict(r) # "QUARANTINE"
       /\ ~(r.caps \subseteq (IF profile = "RAMPAGE" THEN RampagePool ELSE CustomPool)) -> "DENY"
    [] OTHER -> IF AutoAdmits(r, profile) THEN "AUTO_ALLOW" ELSE "OWNER_CONFIRM"

(* Mutant of OwnerAdmits: an approval is bound to the package alone.       *)
OwnerAdmitsPackage(r, approval) == approval.package = r.package

(* The digest-bound owner decision of install().                           *)
OwnerAdmits(r, approval) == approval = [request |-> r.digest, package |-> r.package]

(* What makes a generation, apart from an install's operation.             *)
NoInstall == {"START", "ACTIVATE", "RESTORE", "ROLLBACK"}

ASSUME SkillsAssumption ==
  \A r \in SkillRequests : r.flaws \subseteq SkillFlaws /\ r.op \notin NoInstall

(* InstalledSkillV1 *)
Skill == [id : {r.id : r \in SkillRequests}, package : {r.package : r \in SkillRequests},
          active : BOOLEAN]

Current == Last(slGenerations).skills

(* commitInstall(), setActive(), restore(): a new generation.              *)
Commit(skills, by) ==
  /\ Len(slGenerations) < MaxSkillGenerations
  /\ slGenerations' = Append(slGenerations, [skills |-> skills, by |-> by])

SkillsInit ==
  /\ slGenerations = <<[skills |-> {}, by |-> "START"]>>
  /\ slReceipts = <<>> /\ slInstalls = {} /\ slProbes = {}

(* install() up to its hook.  Denials, the answer to a repeated request    *)
(* and the throttle change nothing.                                        *)
InstallBegins(r, profile) ==
  /\ r.op \notin DOMAIN slReceipts
  /\ r.flaws \cap SkillFlaws = {}
  /\ slInstalls = {}                            \* #busy of the tenant
  /\ \/ SkillRoute(r, profile) = "AUTO_ALLOW"
     \/ /\ SkillRoute(r, profile) = "OWNER_CONFIRM"
        /\ \E a \in OwnerApprovals : OwnerAdmits(r, a)
  /\ slInstalls' = {[request |-> r, profile |-> profile]}
  /\ UNCHANGED <<slGenerations, slReceipts, slProbes>>

(* install() after its hook; the skill replaces one of its id.             *)
InstallEnds(c) ==
  /\ Commit({s \in Current : s.id # c.request.id}
              \cup {[id |-> c.request.id, package |-> c.request.package, active |-> FALSE]},
            c.request.op)
  /\ slReceipts' = [o \in DOMAIN slReceipts \cup {c.request.op} |->
                      IF o = c.request.op THEN c ELSE slReceipts[o]]
  /\ slInstalls' = {}
  /\ UNCHANGED slProbes

(* The hook throws: "finally" frees the tenant.                            *)
InstallFails(c) == slInstalls' = slInstalls \ {c} /\ UNCHANGED <<slGenerations, slReceipts, slProbes>>

(* activate() up to its probe.                                             *)
ActivateBegins(s) ==
  /\ Commit((Current \ {s}) \cup {[s EXCEPT !.active = TRUE]}, "ACTIVATE")
  /\ slProbes' = slProbes \cup {[skill |-> s.id, before |-> Current]}
  /\ UNCHANGED <<slReceipts, slInstalls>>

(* activate() after its probe: on a failure the generation it began from   *)
(* is restored, whatever has been committed since.                         *)
ProbeEnds(p) ==
  /\ \/ UNCHANGED slGenerations
     \/ Commit(p.before, "RESTORE")
  /\ slProbes' = slProbes \ {p}
  /\ UNCHANGED <<slReceipts, slInstalls>>

(* rollback() of a skill restores the generation before the current one.   *)
SkillRollback ==
  /\ Current # {} /\ Len(slGenerations) > 1
  /\ Commit(slGenerations[Len(slGenerations) - 1].skills, "ROLLBACK")
  /\ UNCHANGED <<slReceipts, slInstalls, slProbes>>

SkillsNext ==
  \/ \E r \in SkillRequests, p \in {"SAFE_GUIDED", "CUSTOM", "RAMPAGE"} : InstallBegins(r, p)
  \/ \E c \in slInstalls : InstallEnds(c) \/ InstallFails(c)
  \/ \E s \in Current : ActivateBegins(s)
  \/ \E p \in slProbes : ProbeEnds(p)
  \/ SkillRollback

(***************************************************************************)
(* Properties                                                              *)
(***************************************************************************)
(* An install whose request had no flaw or critical finding, asked for     *)
(* nothing outside the profile's pool, and was admitted by the owner.      *)
InstallAdmitted(c) ==
  /\ c.request.flaws = {} /\ ~Critical(c.request)
  /\ c.request.caps \subseteq IF c.profile = "RAMPAGE" THEN RampagePool ELSE CustomPool
  /\ AutoAdmits(c.request, c.profile)
     \/ [request |-> c.request.digest, package |-> c.request.package] \in OwnerApprovals

SkillWasAdmitted(s) ==
  \E o \in DOMAIN slReceipts :
    LET c == slReceipts[o]
    IN  c.request.id = s.id /\ c.request.package = s.package /\ InstallAdmitted(c)

ActiveIds(skills) == {s.id : s \in {t \in skills : t.active}}

ActiveIn(i) == ActiveIds(slGenerations[i].skills)

(* The generation of an install has its skill inactive, and no other skill *)
(* more or less active than before.                                        *)
InstallsStartInactive ==
  \A i \in DOMAIN slGenerations :
    slGenerations[i].by \in DOMAIN slReceipts =>
      i > 1 /\ ActiveIn(i) = ActiveIn(i - 1) \ {slReceipts[slGenerations[i].by].request.id}

(* Whatever installs, probes and rollbacks overlap: every package of every *)
(* generation was committed by an operation of its own, once, whose        *)
(* request had no flaw or critical finding, asked for nothing outside the  *)
(* profile's pool, and was admitted by the owner's matrix or an approval   *)
(* of exactly this request and package; and no install activates a skill,  *)
(* whatever was activated, restored or rolled back while it awaited.       *)
StoredSkillsWereAdmitted ==
  /\ InstallsStartInactive
  /\ \A i \in DOMAIN slGenerations : \A s \in slGenerations[i].skills : SkillWasAdmitted(s)
  /\ \A i, j \in DOMAIN slGenerations :
       slGenerations[i].by = slGenerations[j].by /\ slGenerations[i].by \in DOMAIN slReceipts => i = j

(* The inductive invariant: a generation is of admitted skills and made by *)
(* a committed install or by none; an install that awaits its hook will be *)
(* the first of its operation; what a probe may restore was admitted too.  *)
GenerationsOk ==
  /\ slGenerations # <<>>
  /\ slGenerations \in
       Seq([skills : SUBSET Skill, by : {r.op : r \in SkillRequests} \cup NoInstall])
  /\ DOMAIN slReceipts \subseteq {r.op : r \in SkillRequests}
  /\ \A i \in DOMAIN slGenerations :
       /\ slGenerations[i].by \in DOMAIN slReceipts \cup NoInstall
       /\ \A s \in slGenerations[i].skills : SkillWasAdmitted(s)
       /\ \A j \in DOMAIN slGenerations :
            slGenerations[i].by = slGenerations[j].by /\ slGenerations[i].by \in DOMAIN slReceipts => i = j

InstallsOk ==
  \A c \in slInstalls :
    /\ c.request \in SkillRequests /\ c.profile \in {"SAFE_GUIDED", "CUSTOM", "RAMPAGE"}
    /\ c.request.op \notin DOMAIN slReceipts /\ InstallAdmitted(c)

ProbesOk ==
  \A p \in slProbes : p.before \subseteq Skill /\ \A s \in p.before : SkillWasAdmitted(s)

SkillsInv == GenerationsOk /\ InstallsOk /\ ProbesOk /\ InstallsStartInactive

(* docs/SKILL-BUNDLE-CONTRACTS.md:70: a rollback activates no skill.       *)
RollbackNeverActivates ==
  \A i \in DOMAIN slGenerations :
    i > 1 /\ slGenerations[i].by = "ROLLBACK" => ActiveIn(i) \subseteq ActiveIn(i - 1)
=============================================================================
