--------------------------- MODULE AuthorityProofs ---------------------------
(***************************************************************************)
(* Theorems about the services that hand out authority, as parts of        *)
(* Services: the owner's approvals, the admitted skills, the capability    *)
(* effects and the model calls, for any requests, policies and bounds.     *)
(***************************************************************************)
EXTENDS Services, FiniteSetTheorems, TLAPS

-----------------------------------------------------------------------------
(* Composition: what a step of the services is to each of these four.      *)
LEMMA AuthoritySteps ==
  ASSUME [ServicesNext]_serviceVars
  PROVE  /\ [WorkbenchNext]_wbVars /\ [SkillsNext]_slVars
         /\ [CapabilityNext]_cbVars /\ [ModelNext]_maVars
  <1>1. CASE UNCHANGED serviceVars
    BY <1>1 DEF serviceVars
  <1>2. CASE ServicesNext
    <2>1. /\ service # "workbench" => UNCHANGED wbVars
          /\ service # "skills" => UNCHANGED slVars
          /\ service # "capabilities" => UNCHANGED cbVars
          /\ service # "model" => UNCHANGED maVars
      BY <1>2 DEF ServicesNext, Others
    <2>2. /\ service = "workbench" => WorkbenchNext
          /\ service = "skills" => SkillsNext
          /\ service = "capabilities" => CapabilityNext
          /\ service = "model" => ModelNext
      BY <1>2 DEF ServicesNext
    <2> QED BY <2>1, <2>2
  <1> QED BY <1>1, <1>2

-----------------------------------------------------------------------------
(* The approval workbench                                                  *)

LEMMA WorkbenchInitial == WorkbenchInit => WorkbenchInv
  <1> SUFFICES ASSUME WorkbenchInit PROVE WorkbenchInv
    OBVIOUS
  <1>1. /\ wbGeneration = 1 /\ wbTarget \in BOOLEAN /\ wbCalls = {} /\ wbIssued = {}
        /\ wbMem = NoRecords /\ wbDisk = NoRecords
    BY DEF WorkbenchInit
  <1>2. NoRecords \in WorkbenchStore /\ NoRecords.proposals = {} /\ NoRecords.decisions = {}
    BY DEF NoRecords, WorkbenchStore
  <1>3. /\ IssuedOk(wbIssued, wbGeneration, wbMem)
        /\ StoreOk(wbMem, wbIssued) /\ StoreOk(wbDisk, wbIssued) /\ CallsOk(wbCalls, wbMem)
    BY <1>1, <1>2 DEF IssuedOk, StoreOk, CallsOk
  <1> QED BY <1>1, <1>3 DEF WorkbenchInv

LEMMA WorkbenchSafety == WorkbenchInv => AuthorityNeedsOneVerdict
  <1> SUFFICES ASSUME WorkbenchInv PROVE AuthorityNeedsOneVerdict
    OBVIOUS
  <1>1. IssuedOk(wbIssued, wbGeneration, wbMem) /\ StoreOk(wbDisk, wbIssued)
    BY DEF WorkbenchInv
  <1> QED BY <1>1 DEF AuthorityNeedsOneVerdict, IssuedOk, StoreOk

LEMMA StoreMore ==
  ASSUME NEW store, NEW I, NEW J, I \subseteq J, StoreOk(store, I)
  PROVE  StoreOk(store, J)
  BY DEF StoreOk

(* The changes of calls, memory and authorities, one by one.               *)
LEMMA AskKeeps ==
  ASSUME WorkbenchInv, NEW d \in DOMAIN Requests, NEW o \in PolicyOutcomes, AskAdminAi(d, o)
  PROVE  WorkbenchInv'
  <1>0. /\ wbGeneration \in Nat /\ wbTarget \in BOOLEAN
        /\ IssuedOk(wbIssued, wbGeneration, wbMem)
        /\ StoreOk(wbMem, wbIssued) /\ StoreOk(wbDisk, wbIssued) /\ CallsOk(wbCalls, wbMem)
    BY DEF WorkbenchInv
  <1>1. UNCHANGED <<wbGeneration, wbTarget, wbMem, wbDisk>>
    BY DEF AskAdminAi
  <1>2. CASE o = "AUTO_GRANT"
    <2> DEFINE n == [request |-> d, verdict |-> "AUTO", generation |-> wbGeneration]
    <2>1. wbIssued' = wbIssued \cup {n} /\ wbCalls' = wbCalls
      BY <1>2 DEF AskAdminAi
    <2>2. Requests[d] = "CONTACT"
      BY <1>2, WorkbenchAssumption DEF AskAdminAi, WithinCeiling, Kinds
    <2>3. n \in [request : DOMAIN Requests, verdict : {"AUTO", "APPROVE", "REJECT"}, generation : Nat]
          /\ n.request = d /\ n.verdict = "AUTO" /\ n.generation = wbGeneration
      BY <1>0
    <2>4. \A a \in wbIssued : a.request = d /\ a.generation = wbGeneration => a = n
      BY <1>0, <2>2, <2>3 DEF IssuedOk
    <2> HIDE DEF n
    <2>5. IssuedOk(wbIssued \cup {n}, wbGeneration, wbMem)
      BY <1>0, <2>2, <2>3, <2>4 DEF IssuedOk
    <2>6. StoreOk(wbMem, wbIssued \cup {n}) /\ StoreOk(wbDisk, wbIssued \cup {n})
      BY <1>0, StoreMore
    <2> QED BY <1>0, <1>1, <2>1, <2>5, <2>6 DEF WorkbenchInv
  <1>3. CASE o # "AUTO_GRANT"
    <2> DEFINE c == Call("register", d, "NONE")
    <2>1. wbIssued' = wbIssued /\ wbCalls' = wbCalls \cup {c}
      BY <1>3 DEF AskAdminAi
    <2>2. CallOk(c) /\ c.kind = "register" /\ Requests[c.request] = "ORDER"
      BY <1>3 DEF CallOk, Call, AskAdminAi
    <2> HIDE DEF c
    <2>3. CallsOk(wbCalls \cup {c}, wbMem)
      BY <1>0, <2>2 DEF CallsOk, DecidesOk
    <2> QED BY <1>0, <1>1, <2>1, <2>3 DEF WorkbenchInv
  <1> QED BY <1>2, <1>3

LEMMA SnapshotKeeps ==
  ASSUME WorkbenchInv, NEW c \in wbCalls, SnapshotRead(c)
  PROVE  WorkbenchInv'
  <1>0. /\ wbGeneration \in Nat /\ wbTarget \in BOOLEAN
        /\ IssuedOk(wbIssued, wbGeneration, wbMem)
        /\ StoreOk(wbMem, wbIssued) /\ StoreOk(wbDisk, wbIssued) /\ CallsOk(wbCalls, wbMem)
    BY DEF WorkbenchInv
  <1> DEFINE n == [c EXCEPT !.seen = wbTarget]
  <1>1. UNCHANGED <<wbGeneration, wbTarget, wbMem, wbDisk, wbIssued>>
        /\ wbCalls' = (wbCalls \ {c}) \cup {n}
    BY DEF SnapshotRead
  <1>2. CallOk(c) /\ Requests[c.request] = "ORDER" /\ DecidesOk(c, wbMem)
    BY <1>0 DEF CallsOk
  <1>3. CallOk(n) /\ n.kind = c.kind /\ n.request = c.request /\ n.verdict = c.verdict
    BY <1>0, <1>2 DEF CallOk
  <1> HIDE DEF n
  <1>4. DecidesOk(n, wbMem)
    BY <1>2, <1>3 DEF DecidesOk
  <1>5. CallsOk((wbCalls \ {c}) \cup {n}, wbMem)
    BY <1>0, <1>2, <1>3, <1>4 DEF CallsOk
  <1> QED BY <1>0, <1>1, <1>5 DEF WorkbenchInv

LEMMA RegisterKeeps ==
  ASSUME WorkbenchInv, NEW c \in wbCalls, Register(c)
  PROVE  WorkbenchInv'
  <1>0. /\ wbGeneration \in Nat /\ wbTarget \in BOOLEAN
        /\ IssuedOk(wbIssued, wbGeneration, wbMem)
        /\ StoreOk(wbMem, wbIssued) /\ StoreOk(wbDisk, wbIssued) /\ CallsOk(wbCalls, wbMem)
    BY DEF WorkbenchInv
  <1>1. UNCHANGED <<wbGeneration, wbTarget, wbIssued>> /\ wbCalls' = wbCalls \ {c}
    BY DEF Register
  <1> DEFINE p == [request |-> c.request, generation |-> wbGeneration]
             m == [wbMem EXCEPT !.proposals = @ \cup {p}]
  <1>2. CASE wbMem' = wbMem /\ wbDisk' = wbDisk
    <2>1. CallsOk(wbCalls \ {c}, wbMem)
      BY <1>0 DEF CallsOk
    <2> QED BY <1>0, <1>1, <1>2, <2>1 DEF WorkbenchInv
  <1>3. CASE wbMem' = m /\ wbDisk' \in {m, wbDisk}
    <2>1. CallOk(c)
      BY <1>0 DEF CallsOk
    <2>2. p \in [request : DOMAIN Requests, generation : Nat] /\ p.request = c.request
      BY <1>0, <2>1 DEF CallOk
    <2>3. Requests[c.request] = "ORDER"
      BY <1>0 DEF CallsOk
    <2>4. m \in WorkbenchStore /\ m.decisions = wbMem.decisions
          /\ m.proposals = wbMem.proposals \cup {p}
      BY <1>0, <2>2 DEF StoreOk, WorkbenchStore
    <2> HIDE DEF m, p
    <2>5. StoreOk(m, wbIssued)
      BY <1>0, <2>2, <2>3, <2>4 DEF StoreOk, ProposalOf
    <2>6. \A d : DecisionOf(m, d) = DecisionOf(wbMem, d) /\ ProposalOf(wbMem, d) \subseteq ProposalOf(m, d)
      BY <2>4 DEF DecisionOf, ProposalOf
    <2>7. IssuedOk(wbIssued, wbGeneration, m)
      BY <1>0, <2>6 DEF IssuedOk
    <2>8. CallsOk(wbCalls \ {c}, m)
      BY <1>0, <2>6 DEF CallsOk, DecidesOk
    <2> QED BY <1>0, <1>1, <1>3, <2>5, <2>7, <2>8 DEF WorkbenchInv
  <1> QED BY <1>2, <1>3 DEF Register, PersistMem

LEMMA DecideBeginsKeeps ==
  ASSUME WorkbenchInv, NEW d \in DOMAIN Requests, NEW v \in {"APPROVE", "REJECT"},
         DecideBegins(d, v)
  PROVE  WorkbenchInv'
  <1>0. /\ wbGeneration \in Nat /\ wbTarget \in BOOLEAN
        /\ IssuedOk(wbIssued, wbGeneration, wbMem)
        /\ StoreOk(wbMem, wbIssued) /\ StoreOk(wbDisk, wbIssued) /\ CallsOk(wbCalls, wbMem)
    BY DEF WorkbenchInv
  <1> DEFINE c == Call("decide", d, v)
  <1>1. UNCHANGED <<wbGeneration, wbTarget, wbMem, wbDisk, wbIssued>>
        /\ wbCalls' = wbCalls \cup {c}
    BY DEF DecideBegins
  <1>2. CallOk(c) /\ c.kind = "decide" /\ c.request = d /\ c.verdict = v
    BY DEF CallOk, Call
  <1>3. ProposalOf(wbMem, d) # {} /\ DecisionOf(wbMem, d) = {}
        /\ \A b \in wbCalls : b.kind = "decide" => b.request # d
    BY DEF DecideBegins, InProgress
  <1>4. Requests[d] = "ORDER"
    BY <1>0, <1>3 DEF StoreOk, ProposalOf
  <1> HIDE DEF c
  <1>5. DecidesOk(c, wbMem)
    BY <1>2, <1>3 DEF DecidesOk
  <1>6. CallsOk(wbCalls \cup {c}, wbMem)
    BY <1>0, <1>2, <1>3, <1>4, <1>5 DEF CallsOk
  <1> QED BY <1>0, <1>1, <1>6 DEF WorkbenchInv

LEMMA DecideEndsKeeps ==
  ASSUME WorkbenchInv, NEW c \in wbCalls, DecideEnds(c)
  PROVE  WorkbenchInv'
  <1>0. /\ wbGeneration \in Nat /\ wbTarget \in BOOLEAN
        /\ IssuedOk(wbIssued, wbGeneration, wbMem)
        /\ StoreOk(wbMem, wbIssued) /\ StoreOk(wbDisk, wbIssued) /\ CallsOk(wbCalls, wbMem)
    BY DEF WorkbenchInv
  <1>1. UNCHANGED <<wbGeneration, wbTarget>> /\ wbCalls' = wbCalls \ {c} /\ c.kind = "decide"
    BY DEF DecideEnds
  <1> DEFINE n == [request |-> c.request, verdict |-> c.verdict, generation |-> wbGeneration]
             r == [request |-> c.request, verdict |-> c.verdict]
             m == [wbMem EXCEPT !.decisions = (@ \ DecisionOf(wbMem, c.request)) \cup {r}]
             issued == wbIssued \cup {n}
  <1>2. CASE wbMem' = wbMem /\ wbDisk' = wbDisk /\ wbIssued' = wbIssued
    <2>1. CallsOk(wbCalls \ {c}, wbMem)
      BY <1>0 DEF CallsOk
    <2> QED BY <1>0, <1>1, <1>2, <2>1 DEF WorkbenchInv
  <1>3. CASE wbMem' = m /\ wbDisk' \in {m, wbDisk} /\ wbIssued' = issued
    <2>1. CallOk(c) /\ Requests[c.request] = "ORDER" /\ c.verdict # "NONE"
          /\ ProposalOf(wbMem, c.request) # {} /\ DecisionOf(wbMem, c.request) = {}
          /\ \A b \in wbCalls \ {c} : b.kind = "decide" => b.request # c.request
      BY <1>0, <1>1 DEF CallsOk, DecidesOk
    <2>2. /\ r \in [request : DOMAIN Requests, verdict : {"APPROVE", "REJECT"}]
          /\ r.request = c.request /\ r.verdict = c.verdict
      BY <2>1 DEF CallOk
    <2>3. /\ n \in [request : DOMAIN Requests, verdict : {"AUTO", "APPROVE", "REJECT"}, generation : Nat]
          /\ n.request = c.request /\ n.verdict = c.verdict /\ n.generation = wbGeneration
          /\ n.verdict # "AUTO"
      BY <1>0, <2>1 DEF CallOk
    <2>4. m \in WorkbenchStore /\ m.proposals = wbMem.proposals
          /\ m.decisions = wbMem.decisions \cup {r}
      BY <1>0, <2>1, <2>2 DEF StoreOk, WorkbenchStore
    <2> HIDE DEF m, n, r
    <2>5. \A d : ProposalOf(m, d) = ProposalOf(wbMem, d)
      BY <2>4 DEF ProposalOf
    <2>6. DecisionOf(m, c.request) # {}
      BY <2>2, <2>4 DEF DecisionOf
    <2>7. \A d : d # c.request => DecisionOf(m, d) = DecisionOf(wbMem, d)
      BY <2>2, <2>4 DEF DecisionOf
    <2>8. StoreOk(wbMem, issued) /\ StoreOk(wbDisk, issued)
      BY <1>0, StoreMore
    <2>9. StoreOk(m, issued)
      BY <2>1, <2>2, <2>3, <2>4, <2>5, <2>8 DEF StoreOk
    <2>10. \A a \in wbIssued : a.request = c.request => a.generation # wbGeneration
      BY <1>0, <2>1 DEF IssuedOk
    <2>11. IssuedOk(issued, wbGeneration, m)
      <3>1. ASSUME NEW a \in wbIssued
            PROVE  a.generation = wbGeneration /\ a.verdict # "AUTO" => DecisionOf(m, a.request) # {}
        BY <1>0, <2>6, <2>7 DEF IssuedOk
      <3> QED BY <1>0, <2>1, <2>3, <2>6, <2>10, <3>1 DEF IssuedOk
    <2>12. CallsOk(wbCalls \ {c}, m)
      <3>1. ASSUME NEW b \in wbCalls \ {c} PROVE DecidesOk(b, m)
        BY <1>0, <2>1, <2>5, <2>7 DEF CallsOk, DecidesOk
      <3> QED BY <1>0, <3>1 DEF CallsOk
    <2> QED BY <1>0, <1>1, <1>3, <2>8, <2>9, <2>11, <2>12 DEF WorkbenchInv
  <1> QED BY <1>2, <1>3 DEF DecideEnds, PersistMem

LEMMA WorkbenchKeeps == WorkbenchInv /\ [WorkbenchNext]_wbVars => WorkbenchInv'
  <1> SUFFICES ASSUME WorkbenchInv, [WorkbenchNext]_wbVars PROVE WorkbenchInv'
    OBVIOUS
  <1>0. /\ wbGeneration \in Nat /\ wbTarget \in BOOLEAN
        /\ IssuedOk(wbIssued, wbGeneration, wbMem)
        /\ StoreOk(wbMem, wbIssued) /\ StoreOk(wbDisk, wbIssued) /\ CallsOk(wbCalls, wbMem)
    BY DEF WorkbenchInv
  <1>1. CASE UNCHANGED wbVars
    BY <1>0, <1>1 DEF WorkbenchInv, wbVars
  <1>2. CASE WorkbenchRestart
    <2>1. wbGeneration' = wbGeneration + 1 /\ wbMem' = wbDisk /\ wbCalls' = {}
          /\ UNCHANGED <<wbTarget, wbDisk, wbIssued>>
      BY <1>2 DEF WorkbenchRestart
    <2>2. IssuedOk(wbIssued, wbGeneration + 1, wbDisk)
      <3>1. ASSUME NEW a \in wbIssued
            PROVE  a.generation <= wbGeneration + 1 /\ a.generation # wbGeneration + 1
        BY <1>0 DEF IssuedOk
      <3> QED BY <1>0, <3>1 DEF IssuedOk
    <2>3. CallsOk({}, wbDisk)
      BY DEF CallsOk
    <2> QED BY <1>0, <2>1, <2>2, <2>3 DEF WorkbenchInv
  <1>3. CASE TargetChanges
    BY <1>0, <1>3 DEF TargetChanges, WorkbenchInv
  <1> QED BY <1>1, <1>2, <1>3, AskKeeps, SnapshotKeeps, RegisterKeeps, DecideBeginsKeeps,
             DecideEndsKeeps DEF WorkbenchNext

(* Whatever the evaluator answers and however calls, restarts and failing  *)
(* writes overlap: an order gets only its owner's authority, one in a      *)
(* generation, and the store holds only verdicts that were given.          *)
THEOREM OneVerdict == ServicesSpec => []AuthorityNeedsOneVerdict
  <1>1. ServicesInit => WorkbenchInv
    BY WorkbenchInitial DEF ServicesInit
  <1>2. WorkbenchInv /\ [ServicesNext]_serviceVars => WorkbenchInv'
    BY AuthoritySteps, WorkbenchKeeps
  <1> QED BY <1>1, <1>2, WorkbenchSafety, PTL DEF ServicesSpec

-----------------------------------------------------------------------------
(* The managed skills                                                      *)

(* A route that installs has no critical finding and stays in the pool.    *)
LEMMA RouteAdmits ==
  ASSUME NEW r, NEW p, SkillRoute(r, p) \in {"AUTO_ALLOW", "OWNER_CONFIRM"}
  PROVE  /\ ~Critical(r)
         /\ r.caps \subseteq IF p = "RAMPAGE" THEN RampagePool ELSE CustomPool
         /\ SkillRoute(r, p) = "AUTO_ALLOW" => AutoAdmits(r, p)
  <1>1. SkillVerdict(r) # "QUARANTINE"
    BY DEF SkillRoute
  <1>2. ~Critical(r)
    BY <1>1 DEF SkillVerdict
  <1>3. r.caps \subseteq IF p = "RAMPAGE" THEN RampagePool ELSE CustomPool
    BY <1>1 DEF SkillRoute
  <1>4. SkillRoute(r, p) = "AUTO_ALLOW" => AutoAdmits(r, p)
    BY <1>1, <1>3 DEF SkillRoute
  <1> QED BY <1>2, <1>3, <1>4

(* Receipts are only added: what was admitted stays admitted.              *)
AnswersStay == \A o \in DOMAIN slReceipts : o \in DOMAIN slReceipts' /\ slReceipts'[o] = slReceipts[o]

LEMMA AdmittedStays ==
  ASSUME NEW s, SkillWasAdmitted(s), AnswersStay
  PROVE  SkillWasAdmitted(s)'
  BY DEF SkillWasAdmitted, AnswersStay

LEMMA GenerationSkills ==
  ASSUME GenerationsOk, NEW i \in DOMAIN slGenerations
  PROVE  slGenerations[i].skills \in SUBSET Skill
  <1> DEFINE G == [skills : SUBSET Skill, by : {r.op : r \in SkillRequests} \cup NoInstall]
  <1>1. slGenerations \in Seq(G)
    BY DEF GenerationsOk
  <1> HIDE DEF G
  <1>2. slGenerations[i] \in G
    BY <1>1
  <1> QED BY <1>2 DEF G

LEMMA CurrentAdmitted ==
  ASSUME GenerationsOk
  PROVE  /\ Current \subseteq Skill /\ \A s \in Current : SkillWasAdmitted(s)
         /\ Len(slGenerations) \in Nat /\ Len(slGenerations) \in DOMAIN slGenerations
  <1>1. Len(slGenerations) \in Nat /\ Len(slGenerations) \in DOMAIN slGenerations
    BY DEF GenerationsOk
  <1>2. Current = slGenerations[Len(slGenerations)].skills
    BY DEF Current, Last
  <1>3. Current \subseteq Skill
    BY <1>1, <1>2, GenerationSkills
  <1>4. \A s \in Current : SkillWasAdmitted(s)
    <2> HIDE DEF Current
    <2> QED BY <1>1, <1>2 DEF GenerationsOk
  <1> QED BY <1>1, <1>3, <1>4

(* A commit of admitted skills, by an install of its own or by none.       *)
LEMMA CommitKeeps ==
  ASSUME GenerationsOk, AnswersStay, NEW skills \in SUBSET Skill, NEW by, Commit(skills, by),
         \A s \in skills : SkillWasAdmitted(s)',
         \/ by \in NoInstall /\ DOMAIN slReceipts' = DOMAIN slReceipts
         \/ /\ by \in {r.op : r \in SkillRequests} \ DOMAIN slReceipts
            /\ DOMAIN slReceipts' = DOMAIN slReceipts \cup {by}
  PROVE  GenerationsOk'
  <1> DEFINE G == [skills : SUBSET Skill, by : {r.op : r \in SkillRequests} \cup NoInstall]
             g == [skills |-> skills, by |-> by]
             n == Len(slGenerations) + 1
  <1>1. g \in G /\ g.skills = skills /\ g.by = by
    OBVIOUS
  <1>2. slGenerations \in Seq(G) /\ slGenerations' = Append(slGenerations, g)
    BY DEF GenerationsOk, Commit
  <1> HIDE DEF G, g
  <1>3. /\ slGenerations' \in Seq(G) /\ slGenerations' # <<>>
        /\ DOMAIN slGenerations' = DOMAIN slGenerations \cup {n} /\ n \notin DOMAIN slGenerations
        /\ slGenerations'[n] = g
        /\ \A i \in DOMAIN slGenerations : slGenerations'[i] = slGenerations[i]
    BY <1>1, <1>2
  <1>4. NoInstall \cap {r.op : r \in SkillRequests} = {}
    BY SkillsAssumption
  <1>5. DOMAIN slReceipts' \subseteq {r.op : r \in SkillRequests}
    BY DEF GenerationsOk
  <1> HIDE DEF n
  <1>6. \A i \in DOMAIN slGenerations :
          /\ slGenerations[i].by \in DOMAIN slReceipts \cup NoInstall
          /\ \A s \in slGenerations[i].skills : SkillWasAdmitted(s)'
          /\ \A j \in DOMAIN slGenerations :
               slGenerations[i].by = slGenerations[j].by /\ slGenerations[i].by \in DOMAIN slReceipts => i = j
    BY AdmittedStays DEF GenerationsOk
  <1>7. ASSUME NEW i \in DOMAIN slGenerations'
        PROVE  /\ slGenerations'[i].by \in DOMAIN slReceipts' \cup NoInstall
               /\ \A s \in slGenerations'[i].skills : SkillWasAdmitted(s)'
    BY <1>1, <1>3, <1>6
  <1>8. \A i \in DOMAIN slGenerations : by \in DOMAIN slReceipts' => slGenerations[i].by # by
    BY <1>4, <1>5, <1>6
  <1>9. ASSUME NEW i \in DOMAIN slGenerations', NEW j \in DOMAIN slGenerations',
               slGenerations'[i].by = slGenerations'[j].by, slGenerations'[i].by \in DOMAIN slReceipts'
        PROVE  i = j
    <2>1. CASE i = n \/ j = n
      BY <1>1, <1>3, <1>8, <1>9, <2>1
    <2>2. CASE i # n /\ j # n
      <3>1. i \in DOMAIN slGenerations /\ j \in DOMAIN slGenerations
        BY <1>3, <2>2
      <3>2. slGenerations[i].by \in DOMAIN slReceipts
        BY <1>3, <1>4, <1>5, <1>6, <1>8, <1>9, <3>1
      <3> QED BY <1>3, <1>6, <1>9, <3>1, <3>2
    <2> QED BY <2>1, <2>2
  <1> QED BY <1>3, <1>5, <1>7, <1>9 DEF GenerationsOk, G

(* An install's commit deactivates the skill it replaces, and no other.    *)
LEMMA CommitInactive ==
  ASSUME GenerationsOk, InstallsStartInactive, AnswersStay, NEW skills \in SUBSET Skill, NEW by, Commit(skills, by),
         \/ by \in NoInstall /\ DOMAIN slReceipts' = DOMAIN slReceipts
         \/ /\ by \in {r.op : r \in SkillRequests} \ DOMAIN slReceipts
            /\ DOMAIN slReceipts' = DOMAIN slReceipts \cup {by}
            /\ ActiveIds(skills) = ActiveIds(Current) \ {slReceipts'[by].request.id}
  PROVE  InstallsStartInactive'
  <1> DEFINE G == [skills : SUBSET Skill, by : {r.op : r \in SkillRequests} \cup NoInstall]
             g == [skills |-> skills, by |-> by]
             k == Len(slGenerations)
  <1>1. g \in G /\ g.skills = skills /\ g.by = by
    OBVIOUS
  <1>2. slGenerations \in Seq(G) /\ slGenerations # <<>> /\ slGenerations' = Append(slGenerations, g)
    BY DEF GenerationsOk, Commit
  <1> HIDE DEF G, g
  <1>3. /\ DOMAIN slGenerations' = DOMAIN slGenerations \cup {k + 1} /\ k + 1 \notin DOMAIN slGenerations
        /\ slGenerations'[k + 1] = g /\ k \in DOMAIN slGenerations /\ k \in Nat /\ k > 0
        /\ DOMAIN slGenerations = 1..k
        /\ \A i \in DOMAIN slGenerations : slGenerations'[i] = slGenerations[i]
    BY <1>1, <1>2
  <1>4. Current = slGenerations[k].skills
    BY DEF Current, Last
  <1> HIDE DEF k
  <1>5. NoInstall \cap {r.op : r \in SkillRequests} = {}
    BY SkillsAssumption
  <1>6. DOMAIN slReceipts' \subseteq {r.op : r \in SkillRequests}
    BY DEF GenerationsOk
  <1>7. ASSUME NEW i \in DOMAIN slGenerations', slGenerations'[i].by \in DOMAIN slReceipts'
        PROVE  /\ i > 1
               /\ ActiveIds(slGenerations'[i].skills)
                    = ActiveIds(slGenerations'[i - 1].skills) \ {slReceipts'[slGenerations'[i].by].request.id}
    <2>1. CASE i = k + 1
      <3>1. slGenerations'[i].by = by /\ slGenerations'[i].skills = skills
        BY <1>1, <1>3, <2>1
      <3>2. i > 1 /\ slGenerations'[i - 1].skills = Current
        <4>1. i - 1 = k
          BY <1>3, <2>1
        <4> QED BY <1>3, <1>4, <2>1, <4>1
      <3>3. by \in DOMAIN slReceipts'
        BY <1>7, <3>1
      <3>4. by \notin NoInstall
        BY <1>5, <1>6, <3>3
      <3> QED BY <3>1, <3>2, <3>4
    <2>2. CASE i # k + 1
      <3>1. i \in DOMAIN slGenerations /\ slGenerations'[i] = slGenerations[i]
        BY <1>3, <2>2
      <3>2. slGenerations[i].by \in DOMAIN slReceipts
        <4>1. slGenerations[i].by \in DOMAIN slReceipts \cup NoInstall
          BY <3>1 DEF GenerationsOk
        <4>2. slGenerations[i].by \notin NoInstall
          BY <1>5, <1>6, <1>7, <3>1
        <4> QED BY <4>1, <4>2
      <3>3. i > 1 /\ ActiveIn(i) = ActiveIn(i - 1) \ {slReceipts[slGenerations[i].by].request.id}
        BY <3>1, <3>2 DEF InstallsStartInactive
      <3>4. i - 1 \in DOMAIN slGenerations /\ slGenerations'[i - 1] = slGenerations[i - 1]
        BY <1>3, <3>1, <3>3
      <3>5. slReceipts'[slGenerations[i].by] = slReceipts[slGenerations[i].by]
        BY <3>2 DEF AnswersStay
      <3> QED BY <3>1, <3>3, <3>4, <3>5 DEF ActiveIn
    <2> QED BY <2>1, <2>2
  <1> QED BY <1>7 DEF InstallsStartInactive, ActiveIn

LEMMA SkillsInitial == SkillsInit => SkillsInv
  <1> SUFFICES ASSUME SkillsInit PROVE SkillsInv
    OBVIOUS
  <1> DEFINE g == [skills |-> {}, by |-> "START"]
             G == [skills : SUBSET Skill, by : {r.op : r \in SkillRequests} \cup NoInstall]
  <1>1. slGenerations = <<g>> /\ slReceipts = <<>> /\ slInstalls = {} /\ slProbes = {}
    BY DEF SkillsInit
  <1>2. g \in G /\ g.skills = {} /\ g.by = "START"
    BY DEF NoInstall
  <1> HIDE DEF g, G
  <1>3. /\ slGenerations # <<>> /\ slGenerations \in Seq(G) /\ DOMAIN slGenerations = {1}
        /\ slGenerations[1] = g /\ DOMAIN slReceipts = {}
    BY <1>1, <1>2
  <1>4. GenerationsOk
    BY <1>2, <1>3 DEF GenerationsOk, G, NoInstall
  <1>5. InstallsStartInactive
    BY <1>3 DEF InstallsStartInactive
  <1> QED BY <1>1, <1>4, <1>5 DEF SkillsInv, InstallsOk, ProbesOk

LEMMA SkillsSafety == SkillsInv => StoredSkillsWereAdmitted
  BY DEF SkillsInv, GenerationsOk, StoredSkillsWereAdmitted

LEMMA InstallBeginsKeeps ==
  ASSUME SkillsInv, NEW r \in SkillRequests, NEW p \in {"SAFE_GUIDED", "CUSTOM", "RAMPAGE"},
         InstallBegins(r, p)
  PROVE  SkillsInv'
  <1> DEFINE c == [request |-> r, profile |-> p]
  <1>1. slInstalls' = {c} /\ UNCHANGED <<slGenerations, slReceipts, slProbes>>
    BY DEF InstallBegins
  <1>2. c.request = r /\ c.profile = p
    OBVIOUS
  <1>3. r.op \notin DOMAIN slReceipts /\ r.flaws = {}
    BY SkillsAssumption DEF InstallBegins
  <1>4. /\ SkillRoute(r, p) \in {"AUTO_ALLOW", "OWNER_CONFIRM"}
        /\ \/ SkillRoute(r, p) = "AUTO_ALLOW"
           \/ [request |-> r.digest, package |-> r.package] \in OwnerApprovals
    BY DEF InstallBegins, OwnerAdmits
  <1>5. ~Critical(r) /\ (r.caps \subseteq IF p = "RAMPAGE" THEN RampagePool ELSE CustomPool)
        /\ (SkillRoute(r, p) = "AUTO_ALLOW" => AutoAdmits(r, p))
    BY <1>4, RouteAdmits
  <1> HIDE DEF c
  <1>6. InstallAdmitted(c)
    BY <1>2, <1>3, <1>4, <1>5 DEF InstallAdmitted
  <1>7. InstallsOk'
    BY <1>1, <1>2, <1>3, <1>6 DEF InstallsOk
  <1>8. GenerationsOk' /\ ProbesOk' /\ InstallsStartInactive'
    BY <1>1 DEF SkillsInv, GenerationsOk, ProbesOk, SkillWasAdmitted, InstallsStartInactive, ActiveIn
  <1> QED BY <1>7, <1>8 DEF SkillsInv

LEMMA InstallEndsKeeps ==
  ASSUME SkillsInv, NEW c \in slInstalls, InstallEnds(c)
  PROVE  SkillsInv'
  <1> DEFINE op == c.request.op
             new == [id |-> c.request.id, package |-> c.request.package, active |-> FALSE]
             skills == {s \in Current : s.id # c.request.id} \cup {new}
  <1>1. /\ c.request \in SkillRequests /\ op \notin DOMAIN slReceipts /\ InstallAdmitted(c)
    BY DEF SkillsInv, InstallsOk
  <1>2. /\ Commit(skills, op) /\ slInstalls' = {} /\ slProbes' = slProbes
        /\ slReceipts' = [o \in DOMAIN slReceipts \cup {op} |-> IF o = op THEN c ELSE slReceipts[o]]
    BY DEF InstallEnds
  <1>3. /\ AnswersStay /\ DOMAIN slReceipts' = DOMAIN slReceipts \cup {op} /\ slReceipts'[op] = c
    BY <1>1, <1>2 DEF AnswersStay
  <1>4. /\ Current \subseteq Skill /\ \A s \in Current : SkillWasAdmitted(s)
    BY CurrentAdmitted DEF SkillsInv
  <1>5. /\ new \in Skill /\ new.id = c.request.id /\ new.package = c.request.package
        /\ ~new.active
    BY <1>1 DEF Skill
  <1> HIDE DEF new
  <1>6. SkillWasAdmitted(new)'
    <2>1. InstallAdmitted(slReceipts[op])'
      BY <1>1, <1>3 DEF InstallAdmitted
    <2> QED BY <1>3, <1>5, <2>1 DEF SkillWasAdmitted
  <1>7. skills \in SUBSET Skill /\ \A s \in skills : SkillWasAdmitted(s)'
    <2>1. \A s \in Current : SkillWasAdmitted(s)'
      BY <1>3, <1>4, AdmittedStays
    <2> QED BY <1>4, <1>5, <1>6, <2>1
  <1>10. ActiveIds(skills) = ActiveIds(Current) \ {slReceipts'[op].request.id}
    BY <1>3, <1>5, Zenon DEF ActiveIds
  <1> HIDE DEF skills
  <1>8. GenerationsOk'
    BY <1>1, <1>2, <1>3, <1>7, CommitKeeps DEF SkillsInv
  <1>11. InstallsStartInactive'
    BY <1>1, <1>2, <1>3, <1>7, <1>10, CommitInactive DEF SkillsInv
  <1>9. ProbesOk'
    BY <1>2, <1>3, AdmittedStays DEF SkillsInv, ProbesOk
  <1> QED BY <1>2, <1>8, <1>9, <1>11 DEF SkillsInv, InstallsOk

(* A commit that is not an install.                                        *)
LEMMA OtherCommitKeeps ==
  ASSUME SkillsInv, NEW skills \in SUBSET Skill, \A s \in skills : SkillWasAdmitted(s),
         NEW by \in NoInstall, Commit(skills, by), UNCHANGED <<slReceipts, slInstalls>>
  PROVE  GenerationsOk' /\ InstallsOk' /\ InstallsStartInactive'
  <1>1. AnswersStay /\ DOMAIN slReceipts' = DOMAIN slReceipts
    BY DEF AnswersStay
  <1>2. \A s \in skills : SkillWasAdmitted(s)'
    BY <1>1, AdmittedStays
  <1>3. GenerationsOk'
    BY <1>1, <1>2, CommitKeeps DEF SkillsInv
  <1>4. InstallsOk'
    BY DEF SkillsInv, InstallsOk
  <1>5. InstallsStartInactive'
    BY <1>1, CommitInactive DEF SkillsInv
  <1> QED BY <1>3, <1>4, <1>5

LEMMA SkillsKeeps == SkillsInv /\ [SkillsNext]_slVars => SkillsInv'
  <1> SUFFICES ASSUME SkillsInv, [SkillsNext]_slVars PROVE SkillsInv'
    OBVIOUS
  <1>0. GenerationsOk /\ InstallsOk /\ ProbesOk /\ InstallsStartInactive
    BY DEF SkillsInv
  <1>1. CASE UNCHANGED slVars
    <2>1. UNCHANGED <<slGenerations, slReceipts, slInstalls, slProbes>>
      BY <1>1 DEF slVars
    <2> QED BY <2>1 DEF SkillsInv, GenerationsOk, InstallsOk, ProbesOk, SkillWasAdmitted,
                         InstallsStartInactive, ActiveIn
  <1>2. ASSUME NEW c \in slInstalls, InstallFails(c) PROVE SkillsInv'
    <2>1. slInstalls' \subseteq slInstalls /\ UNCHANGED <<slGenerations, slReceipts, slProbes>>
      BY <1>2 DEF InstallFails
    <2>2. InstallsOk'
      BY <1>0, <2>1 DEF InstallsOk
    <2>3. GenerationsOk' /\ ProbesOk' /\ InstallsStartInactive'
      BY <1>0, <2>1 DEF GenerationsOk, ProbesOk, SkillWasAdmitted, InstallsStartInactive, ActiveIn
    <2> QED BY <2>2, <2>3 DEF SkillsInv
  <1>3. Current \subseteq Skill /\ \A s \in Current : SkillWasAdmitted(s)
    BY <1>0, CurrentAdmitted
  <1>4. ASSUME NEW s \in Current, ActivateBegins(s) PROVE SkillsInv'
    <2> DEFINE t == [s EXCEPT !.active = TRUE]
               skills == (Current \ {s}) \cup {t}
               probe == [skill |-> s.id, before |-> Current]
    <2>1. /\ Commit(skills, "ACTIVATE") /\ slProbes' = slProbes \cup {probe}
          /\ UNCHANGED <<slReceipts, slInstalls>>
      BY <1>4 DEF ActivateBegins
    <2>2. s \in Skill /\ SkillWasAdmitted(s)
      BY <1>3
    <2>3. t \in Skill /\ t.id = s.id /\ t.package = s.package
      BY <2>2 DEF Skill
    <2>4. probe.before = Current
      OBVIOUS
    <2> HIDE DEF t, probe
    <2>5. SkillWasAdmitted(t)
      BY <2>2, <2>3 DEF SkillWasAdmitted
    <2>6. skills \in SUBSET Skill /\ \A x \in skills : SkillWasAdmitted(x)
      BY <1>3, <2>3, <2>5
    <2> HIDE DEF skills
    <2>7. "ACTIVATE" \in NoInstall
      BY DEF NoInstall
    <2>8. GenerationsOk' /\ InstallsOk' /\ InstallsStartInactive'
      BY <2>1, <2>6, <2>7, OtherCommitKeeps
    <2>9. AnswersStay
      BY <2>1 DEF AnswersStay
    <2>10. \A x : SkillWasAdmitted(x) => SkillWasAdmitted(x)'
      BY <2>9, AdmittedStays
    <2>11. ProbesOk'
      BY <1>0, <1>3, <2>1, <2>4, <2>10 DEF ProbesOk
    <2> QED BY <2>8, <2>11 DEF SkillsInv
  <1>5. ASSUME NEW p \in slProbes, ProbeEnds(p) PROVE SkillsInv'
    <2>1. /\ slGenerations' = slGenerations \/ Commit(p.before, "RESTORE")
          /\ slProbes' \subseteq slProbes /\ UNCHANGED <<slReceipts, slInstalls>>
      BY <1>5 DEF ProbeEnds
    <2>2. p.before \in SUBSET Skill /\ \A x \in p.before : SkillWasAdmitted(x)
      BY <1>0 DEF ProbesOk
    <2>3. "RESTORE" \in NoInstall
      BY DEF NoInstall
    <2>4. CASE slGenerations' = slGenerations
      BY <1>0, <2>1, <2>4 DEF SkillsInv, GenerationsOk, InstallsOk, ProbesOk, SkillWasAdmitted,
                             InstallsStartInactive, ActiveIn
    <2>5. CASE Commit(p.before, "RESTORE")
      <3>1. GenerationsOk' /\ InstallsOk' /\ InstallsStartInactive'
        BY <2>1, <2>2, <2>3, <2>5, OtherCommitKeeps
      <3>2. ProbesOk'
        BY <1>0, <2>1 DEF ProbesOk, SkillWasAdmitted
      <3> QED BY <3>1, <3>2 DEF SkillsInv
    <2> QED BY <2>1, <2>4, <2>5
  <1>6. CASE SkillRollback
    <2> DEFINE i == Len(slGenerations) - 1
               skills == slGenerations[i].skills
    <2>1. Len(slGenerations) > 1 /\ Commit(skills, "ROLLBACK")
          /\ UNCHANGED <<slReceipts, slInstalls, slProbes>>
      BY <1>6 DEF SkillRollback
    <2>2. i \in DOMAIN slGenerations
      BY <1>0, <2>1 DEF GenerationsOk
    <2> HIDE DEF i
    <2>3. skills \in SUBSET Skill
      BY <1>0, <2>2, GenerationSkills
    <2>4. \A x \in skills : SkillWasAdmitted(x)
      BY <1>0, <2>2 DEF GenerationsOk
    <2>5. "ROLLBACK" \in NoInstall
      BY DEF NoInstall
    <2> HIDE DEF skills
    <2>6. GenerationsOk' /\ InstallsOk' /\ InstallsStartInactive'
      BY <2>1, <2>3, <2>4, <2>5, OtherCommitKeeps
    <2>7. ProbesOk'
      BY <1>0, <2>1 DEF ProbesOk, SkillWasAdmitted
    <2> QED BY <2>6, <2>7 DEF SkillsInv
  <1> QED BY <1>1, <1>2, <1>4, <1>5, <1>6, InstallBeginsKeeps, InstallEndsKeeps DEF SkillsNext

(* Every package of every generation was admitted, and committed once by   *)
(* an operation of its own that activated nothing: install(), activate()   *)
(* and rollback().                                                         *)
THEOREM SkillsWereAdmitted == ServicesSpec => []StoredSkillsWereAdmitted
  <1>1. ServicesInit => SkillsInv
    BY SkillsInitial DEF ServicesInit
  <1>2. SkillsInv /\ [ServicesNext]_serviceVars => SkillsInv'
    BY AuthoritySteps, SkillsKeeps
  <1> QED BY <1>1, <1>2, SkillsSafety, PTL DEF ServicesSpec

-----------------------------------------------------------------------------
(* The capability broker                                                   *)

LEMMA CapabilityInitial == CapabilityInit => CapabilityInv
  <1> SUFFICES ASSUME CapabilityInit PROVE CapabilityInv
    OBVIOUS
  <1>1. /\ cbNow = 0 /\ cbTickets = {} /\ cbStack = <<>> /\ cbEffects = <<>> /\ cbReceipts = {}
        /\ DOMAIN cbStack = {} /\ DOMAIN cbEffects = {}
    BY DEF CapabilityInit
  <1>2. cbDeployed \in Deployments
    BY CapabilityAssumption DEF CapabilityInit, Deployments
  <1> QED BY <1>1, <1>2 DEF CapabilityInv, CapabilityTypeOk, TicketsOk, StackOk, EffectsOk,
                            EffectsAreAuthorized

(* The replay store after a mark or a clearance of one id.                 *)
ReplayKept(id) == \A x : x # id => ReplayOf(x)' = ReplayOf(x)

LEMMA MarkedReplay ==
  ASSUME NEW id, NEW state, cbReplay' = Marked(id, state)
  PROVE  ReplayOf(id)' = state /\ ReplayKept(id)
  BY DEF Marked, ReplayOf, ReplayKept

LEMMA ClearedReplay ==
  ASSUME NEW id, cbReplay' = Cleared(id)
  PROVE  ReplayKept(id)
  <1>1. CASE ReplayOf(id) = "IN_FLIGHT"
    BY <1>1 DEF Cleared, Restrict, ReplayOf, ReplayKept
  <1>2. CASE ReplayOf(id) # "IN_FLIGHT"
    BY <1>2 DEF Cleared, ReplayOf, ReplayKept
  <1> QED BY <1>1, <1>2

(* The innermost call.                                                     *)
LEMMA Innermost ==
  ASSUME CapabilityInv, cbStack # <<>>
  PROVE  LET n == Len(cbStack)
         IN  /\ n \in DOMAIN cbStack /\ Last(cbStack) = cbStack[n] /\ Last(cbStack) \in BrokerCall
             /\ CallAuthorized(Last(cbStack)) /\ ReplayOf(Last(cbStack).ticket.id) = "IN_FLIGHT"
             /\ \A i \in DOMAIN cbStack \ {n} : cbStack[i].ticket.id # Last(cbStack).ticket.id
  <1>1. cbStack \in Seq(BrokerCall)
    BY DEF CapabilityInv, CapabilityTypeOk
  <1>2. /\ Len(cbStack) \in DOMAIN cbStack /\ Last(cbStack) = cbStack[Len(cbStack)]
        /\ Last(cbStack) \in BrokerCall
    BY <1>1 DEF Last
  <1> QED BY <1>2 DEF CapabilityInv, StackOk

(* A call that has not committed has no effect yet.                        *)
LEMMA NoEffectYet ==
  ASSUME CapabilityInv, NEW i \in DOMAIN cbStack, cbStack[i].at # "DONE",
         NEW k \in DOMAIN cbEffects
  PROVE  cbEffects[k].ticket.id # cbStack[i].ticket.id
  BY DEF CapabilityInv, StackOk, EffectsOk

(* The innermost call ends, its id consumed or without an effect.          *)
LEMMA PopKeeps ==
  ASSUME CapabilityInv, cbStack # <<>>, cbStack' = Front(cbStack), NEW c, c = Last(cbStack),
         ReplayKept(c.ticket.id),
         ReplayOf(c.ticket.id)' = "CONSUMED" \/ c.at = "PREPARE",
         UNCHANGED <<cbNow, cbDeployed, cbTickets, cbEffects>>,
         \A r \in cbReceipts' :
           r \in cbReceipts \/ (r.outcome = "EXECUTED" => r.ticket = c.ticket /\ c.at = "DONE")
  PROVE  CapabilityInv'
  <1> DEFINE n == Len(cbStack)
  <1>1. /\ n \in DOMAIN cbStack /\ c = cbStack[n] /\ CallAuthorized(c)
        /\ \A i \in DOMAIN cbStack \ {n} : cbStack[i].ticket.id # c.ticket.id
    BY Innermost
  <1>2. /\ cbStack' \in Seq(BrokerCall) /\ DOMAIN cbStack' = DOMAIN cbStack \ {n}
        /\ \A i \in DOMAIN cbStack' : cbStack'[i] = cbStack[i]
    BY DEF CapabilityInv, CapabilityTypeOk, Front
  <1> HIDE DEF n
  <1>3. CapabilityTypeOk' /\ TicketsOk'
    BY <1>2 DEF CapabilityInv, CapabilityTypeOk, TicketsOk
  <1>4. StackOk'
    <2>1. ASSUME NEW i \in DOMAIN cbStack'
          PROVE  /\ i \in DOMAIN cbStack /\ cbStack'[i] = cbStack[i]
                 /\ ReplayOf(cbStack[i].ticket.id)' = ReplayOf(cbStack[i].ticket.id)
      BY <1>1, <1>2 DEF ReplayKept
    <2> QED BY <1>2, <2>1 DEF CapabilityInv, StackOk, ReplayOf
  <1>5. EffectsOk'
    <2> SUFFICES ASSUME NEW k \in DOMAIN cbEffects
                 PROVE  \/ ReplayOf(cbEffects[k].ticket.id)' = "CONSUMED"
                        \/ \E i \in DOMAIN cbStack' :
                             cbStack'[i].ticket = cbEffects[k].ticket /\ cbStack'[i].at = "DONE"
      BY DEF EffectsOk, ReplayOf
    <2>1. CASE cbEffects[k].ticket.id = c.ticket.id
      <3>1. c.at = "DONE"
        BY <1>1, <2>1, NoEffectYet
      <3> QED BY <2>1, <3>1
    <2>2. CASE cbEffects[k].ticket.id # c.ticket.id
      <3>1. ReplayOf(cbEffects[k].ticket.id)' = ReplayOf(cbEffects[k].ticket.id)
        BY <2>2 DEF ReplayKept
      <3>2. CASE ReplayOf(cbEffects[k].ticket.id) = "CONSUMED"
        BY <3>1, <3>2
      <3>3. CASE \E i \in DOMAIN cbStack :
                   cbStack[i].ticket = cbEffects[k].ticket /\ cbStack[i].at = "DONE"
        BY <1>1, <1>2, <2>2, <3>3
      <3> QED BY <3>2, <3>3 DEF CapabilityInv, EffectsOk
    <2> QED BY <2>1, <2>2
  <1>6. EffectsAreAuthorized'
    <2>1. ASSUME NEW r \in cbReceipts', r.outcome = "EXECUTED"
          PROVE  \E k \in DOMAIN cbEffects : cbEffects[k].ticket = r.ticket
      <3>1. CASE r \in cbReceipts
        BY <2>1, <3>1 DEF CapabilityInv, EffectsAreAuthorized
      <3>2. CASE r.ticket = c.ticket /\ c.at = "DONE"
        BY <1>1, <3>2 DEF CapabilityInv, StackOk
      <3> QED BY <2>1, <3>1, <3>2
    <2> QED BY <2>1 DEF CapabilityInv, EffectsAreAuthorized
  <1> QED BY <1>3, <1>4, <1>5, <1>6 DEF CapabilityInv

(* The innermost call goes on to its next step.                            *)
LEMMA AdvancedStack ==
  ASSUME CapabilityInv, cbStack # <<>>, NEW at \in {"PREPARE", "COMMIT", "DONE"},
         cbStack' = [cbStack EXCEPT ![Len(cbStack)].at = at]
  PROVE  /\ cbStack' \in Seq(BrokerCall) /\ DOMAIN cbStack' = DOMAIN cbStack
         /\ \A i \in DOMAIN cbStack :
              /\ cbStack'[i].ticket = cbStack[i].ticket /\ cbStack'[i].from = cbStack[i].from
              /\ cbStack'[i].under = cbStack[i].under
              /\ cbStack'[i].at = IF i = Len(cbStack) THEN at ELSE cbStack[i].at
  <1> DEFINE n == Len(cbStack)
             c == [cbStack[n] EXCEPT !.at = at]
  <1>1. n \in DOMAIN cbStack /\ cbStack[n] \in BrokerCall /\ cbStack \in Seq(BrokerCall)
    BY Innermost DEF CapabilityInv, CapabilityTypeOk
  <1>2. /\ c \in BrokerCall /\ c.ticket = cbStack[n].ticket /\ c.from = cbStack[n].from
        /\ c.under = cbStack[n].under /\ c.at = at
    BY <1>1 DEF BrokerCall
  <1>3. cbStack' = [cbStack EXCEPT ![n] = c]
    BY <1>1
  <1> HIDE DEF n, c
  <1>4. /\ cbStack' \in Seq(BrokerCall) /\ DOMAIN cbStack' = DOMAIN cbStack
        /\ \A i \in DOMAIN cbStack : cbStack'[i] = IF i = n THEN c ELSE cbStack[i]
    BY <1>1, <1>2, <1>3
  <1> QED BY <1>2, <1>4 DEF n

LEMMA SameAuthority ==
  ASSUME NEW b, NEW c, b.ticket = c.ticket, b.from = c.from, b.under = c.under, CallAuthorized(b)
  PROVE  CallAuthorized(c)
  BY DEF CallAuthorized

(* The calls under way in the next state, one conjunct of StackOk each.    *)
LEMMA StackIs ==
  ASSUME \A i \in DOMAIN cbStack' :
           /\ CallAuthorized(cbStack'[i]) /\ ReplayOf(cbStack[i].ticket.id)' = "IN_FLIGHT"
           /\ cbStack'[i].at = "DONE" =>
                \E k \in DOMAIN cbEffects' : cbEffects'[k].ticket = cbStack'[i].ticket,
         \A i, j \in DOMAIN cbStack' : cbStack'[i].ticket.id = cbStack'[j].ticket.id => i = j
  PROVE  StackOk'
  <1>1. ASSUME NEW i \in DOMAIN cbStack'
        PROVE  CallAuthorized(cbStack[i])'
    <2>1. CallAuthorized(cbStack'[i])
      OBVIOUS
    <2> QED BY ONLY <2>1, Zenon DEF CallAuthorized, TicketOf
  <1>2. \A i \in DOMAIN cbStack' :
          /\ ReplayOf(cbStack[i].ticket.id)' = "IN_FLIGHT"
          /\ \A j \in DOMAIN cbStack' : cbStack'[i].ticket.id = cbStack'[j].ticket.id => i = j
          /\ cbStack'[i].at = "DONE" =>
               \E k \in DOMAIN cbEffects' : cbEffects'[k].ticket = cbStack'[i].ticket
    OBVIOUS
  <1> QED BY <1>1, <1>2 DEF StackOk

LEMMA AdmitKeeps ==
  ASSUME CapabilityInv, NEW q \in CapabilityRequests, Admit(q)
  PROVE  CapabilityInv'
  <1>1. cbTickets' = cbTickets \cup {TicketOf(q, cbDeployed)}
        /\ UNCHANGED <<cbNow, cbDeployed, cbReplay, cbStack, cbEffects, cbReceipts>>
    BY DEF Admit
  <1>2. q.flaws = {} /\ q.policy = cbDeployed.policy /\ cbDeployed \in Deployments
    BY CapabilityAssumption DEF Admit, CapabilityInv, CapabilityTypeOk
  <1>3. TicketsOk'
    BY <1>1, <1>2 DEF CapabilityInv, TicketsOk
  <1> QED BY <1>1, <1>3 DEF CapabilityInv, CapabilityTypeOk, StackOk, EffectsOk,
                            EffectsAreAuthorized, ReplayOf

LEMMA BrokerBeginsKeeps ==
  ASSUME CapabilityInv, NEW t \in cbTickets, BrokerBegins(t)
  PROVE  CapabilityInv'
  <1> DEFINE c == [ticket |-> t, at |-> "PREPARE", from |-> cbNow, under |-> cbDeployed]
  <1>0. PICK n : n = Len(cbStack) + 1
    OBVIOUS
  <1>1. /\ TicketHolds(t) /\ ReplayOf(t.id) = "NONE" /\ cbReplay' = Reserved(t.id)
        /\ cbStack' = Append(cbStack, c)
        /\ UNCHANGED <<cbNow, cbDeployed, cbTickets, cbEffects, cbReceipts>>
    BY DEF BrokerBegins
  <1>2. PICK q \in CapabilityRequests, d \in Deployments :
          q.flaws = {} /\ q.policy = d.policy /\ t = TicketOf(q, d)
    BY DEF CapabilityInv, TicketsOk
  <1>3. /\ c.ticket = t /\ c.at = "PREPARE" /\ c.from = cbNow /\ c.under = cbDeployed
        /\ c \in BrokerCall
    <2>1. t \in Tickets
      BY <1>2 DEF Tickets
    <2> QED BY <2>1 DEF BrokerCall, CapabilityInv, CapabilityTypeOk
  <1>4. /\ cbDeployed = [policy |-> t.policy, activation |-> t.activation]
        /\ t.tenant = t.policy.tenant /\ t.activation.tenant = t.policy.tenant
        /\ PolicyHolds(t.policy) /\ t.activation.sound /\ InForce(t.activation)
    <2>1. /\ t.policy = cbDeployed.policy /\ t.activation = cbDeployed.activation
          /\ t.tenant = t.policy.tenant /\ t.activation.tenant = t.policy.tenant
          /\ PolicyHolds(t.policy) /\ t.activation.sound /\ InForce(t.activation)
      BY <1>1 DEF TicketHolds, ActivationHolds
    <2>2. cbDeployed = [policy |-> cbDeployed.policy, activation |-> cbDeployed.activation]
      BY DEF CapabilityInv, CapabilityTypeOk, Deployments
    <2> QED BY <2>1, <2>2
  <1>5. d = cbDeployed
    <2>1. d = [policy |-> d.policy, activation |-> d.activation]
      BY DEF Deployments
    <2>2. t.policy = d.policy /\ t.activation = d.activation
      BY <1>2 DEF TicketOf
    <2> QED BY <1>4, <2>1, <2>2
  <1> HIDE DEF c
  <1>6. CallAuthorized(c)
    <2>1. \A w \in {cbDeployed.policy, cbDeployed.activation} :
            w.sound /\ w.tenant = t.tenant /\ w.from <= cbNow /\ cbNow < w.until
      BY <1>4 DEF PolicyHolds, InForce
    <2>2. q.policy = t.policy
      BY <1>2, <1>4, <1>5
    <2> QED BY <1>2, <1>3, <1>4, <1>5, <2>1, <2>2 DEF CallAuthorized
  <1>7. ReplayOf(t.id)' = "IN_FLIGHT" /\ ReplayKept(t.id)
    BY <1>1, MarkedReplay DEF Reserved
  <1>8. /\ cbStack' \in Seq(BrokerCall) /\ DOMAIN cbStack' = DOMAIN cbStack \cup {n}
        /\ n \notin DOMAIN cbStack /\ cbStack'[n] = c
        /\ \A i \in DOMAIN cbStack : cbStack'[i] = cbStack[i]
    BY <1>0, <1>1, <1>3 DEF CapabilityInv, CapabilityTypeOk
  <1>9. \A i \in DOMAIN cbStack : cbStack[i].ticket.id # t.id
    BY <1>1 DEF CapabilityInv, StackOk
  <1>10. CapabilityTypeOk' /\ TicketsOk'
    BY <1>1, <1>8 DEF CapabilityInv, CapabilityTypeOk, TicketsOk
  <1>11. StackOk'
    <2>1. ASSUME NEW i \in DOMAIN cbStack
          PROVE  /\ CallAuthorized(cbStack[i])
                 /\ ReplayOf(cbStack[i].ticket.id)' = "IN_FLIGHT"
                 /\ cbStack[i].at = "DONE" => \E k \in DOMAIN cbEffects : cbEffects[k].ticket = cbStack[i].ticket
      <3>1. ReplayOf(cbStack[i].ticket.id) = "IN_FLIGHT"
        BY DEF CapabilityInv, StackOk
      <3>2. \A x : x # t.id => ReplayOf(x)' = ReplayOf(x)
        BY <1>7 DEF ReplayKept
      <3>3. \A x : x = cbStack[i].ticket.id => ReplayOf(x)' = "IN_FLIGHT"
        BY <1>9, <3>1, <3>2
      <3>4. ReplayOf(cbStack[i].ticket.id)' = "IN_FLIGHT"
        BY <1>8, <3>3 DEF ReplayOf
      <3> QED BY <3>4 DEF CapabilityInv, StackOk
    <2>2. ASSUME NEW i \in DOMAIN cbStack', NEW j \in DOMAIN cbStack',
                 cbStack'[i].ticket.id = cbStack'[j].ticket.id
          PROVE  i = j
      <3>1. CASE i = n \/ j = n
        BY <1>3, <1>8, <1>9, <2>2, <3>1
      <3>2. CASE i # n /\ j # n
        BY <1>8, <2>2, <3>2 DEF CapabilityInv, StackOk
      <3> QED BY <3>1, <3>2
    <2>3. ReplayOf(cbStack[n].ticket.id)' = "IN_FLIGHT"
      BY <1>3, <1>7, <1>8 DEF ReplayOf
    <2>4. ASSUME NEW i \in DOMAIN cbStack'
          PROVE  /\ CallAuthorized(cbStack'[i]) /\ ReplayOf(cbStack[i].ticket.id)' = "IN_FLIGHT"
                 /\ cbStack'[i].at = "DONE" =>
                      \E k \in DOMAIN cbEffects' : cbEffects'[k].ticket = cbStack'[i].ticket
      <3>1. CASE i = n
        BY <1>3, <1>6, <1>8, <2>3, <3>1 DEF ReplayOf
      <3>2. CASE i # n
        BY <1>1, <1>8, <2>1, <3>2 DEF ReplayOf
      <3> QED BY <3>1, <3>2
    <2> QED BY <2>2, <2>4, StackIs
  <1>12. EffectsOk'
    <2> SUFFICES ASSUME NEW k \in DOMAIN cbEffects
                 PROVE  \/ ReplayOf(cbEffects[k].ticket.id)' = "CONSUMED"
                        \/ \E i \in DOMAIN cbStack' :
                             cbStack'[i].ticket = cbEffects[k].ticket /\ cbStack'[i].at = "DONE"
      BY <1>1 DEF EffectsOk, ReplayOf
    <2>1. CASE ReplayOf(cbEffects[k].ticket.id) = "CONSUMED"
      <3>1. cbEffects[k].ticket.id # t.id
        BY <1>1, <2>1
      <3>2. \A x : x # t.id => ReplayOf(x)' = ReplayOf(x)
        BY <1>7 DEF ReplayKept
      <3>3. \A x : x = cbEffects[k].ticket.id => ReplayOf(x)' = "CONSUMED"
        BY <2>1, <3>1, <3>2
      <3> QED BY <1>1, <3>3 DEF ReplayOf
    <2>2. CASE \E i \in DOMAIN cbStack :
                 cbStack[i].ticket = cbEffects[k].ticket /\ cbStack[i].at = "DONE"
      BY <1>8, <2>2
    <2> QED BY <2>1, <2>2 DEF CapabilityInv, EffectsOk
  <1>13. EffectsAreAuthorized'
    BY <1>1 DEF CapabilityInv, EffectsAreAuthorized
  <1> QED BY <1>10, <1>11, <1>12, <1>13 DEF CapabilityInv

LEMMA PrepareReturnsKeeps ==
  ASSUME CapabilityInv, PrepareReturns
  PROVE  CapabilityInv'
  <1>1. /\ cbStack # <<>> /\ Last(cbStack).at = "PREPARE"
        /\ cbStack' = [cbStack EXCEPT ![Len(cbStack)].at = "COMMIT"]
        /\ UNCHANGED <<cbNow, cbDeployed, cbTickets, cbReplay, cbEffects, cbReceipts>>
    BY DEF PrepareReturns
  <1>2. /\ cbStack' \in Seq(BrokerCall) /\ DOMAIN cbStack' = DOMAIN cbStack
        /\ \A i \in DOMAIN cbStack :
             /\ cbStack'[i].ticket = cbStack[i].ticket /\ cbStack'[i].from = cbStack[i].from
             /\ cbStack'[i].under = cbStack[i].under
             /\ cbStack'[i].at = IF i = Len(cbStack) THEN "COMMIT" ELSE cbStack[i].at
    BY <1>1, AdvancedStack
  <1>3. Len(cbStack) \in DOMAIN cbStack /\ cbStack[Len(cbStack)].at = "PREPARE"
    BY <1>1, Innermost
  <1>4. CapabilityTypeOk' /\ TicketsOk' /\ EffectsAreAuthorized'
    BY <1>1, <1>2 DEF CapabilityInv, CapabilityTypeOk, TicketsOk, EffectsAreAuthorized
  <1>5. StackOk'
    <2>1. \A i \in DOMAIN cbStack : CallAuthorized(cbStack'[i])
      BY <1>2, SameAuthority DEF CapabilityInv, StackOk
    <2>2. \A i \in DOMAIN cbStack : cbStack'[i].at = "DONE" => cbStack[i].at = "DONE"
      BY <1>2
    <2> QED BY <1>1, <1>2, <2>1, <2>2 DEF CapabilityInv, StackOk, ReplayOf, CallAuthorized
  <1>6. EffectsOk'
    <2>1. \A i \in DOMAIN cbStack : cbStack[i].at = "DONE" => cbStack'[i].at = "DONE"
      BY <1>2, <1>3
    <2> QED BY <1>1, <1>2, <2>1 DEF CapabilityInv, EffectsOk, ReplayOf
  <1> QED BY <1>4, <1>5, <1>6 DEF CapabilityInv

LEMMA CommitEffectKeeps ==
  ASSUME CapabilityInv, CommitEffect
  PROVE  CapabilityInv'
  <1>0. PICK c, k : c = Last(cbStack) /\ k = Len(cbEffects) + 1
    OBVIOUS
  <1>1. /\ cbStack # <<>> /\ c.at = "COMMIT" /\ cbEffects' = Append(cbEffects, c)
        /\ cbStack' = [cbStack EXCEPT ![Len(cbStack)].at = "DONE"]
        /\ UNCHANGED <<cbNow, cbDeployed, cbTickets, cbReplay, cbReceipts>>
    BY <1>0 DEF CommitEffect
  <1>2. /\ cbStack' \in Seq(BrokerCall) /\ DOMAIN cbStack' = DOMAIN cbStack
        /\ \A i \in DOMAIN cbStack :
             /\ cbStack'[i].ticket = cbStack[i].ticket /\ cbStack'[i].from = cbStack[i].from
             /\ cbStack'[i].under = cbStack[i].under
             /\ cbStack'[i].at = IF i = Len(cbStack) THEN "DONE" ELSE cbStack[i].at
    BY <1>1, AdvancedStack
  <1>3. PICK n \in DOMAIN cbStack : n = Len(cbStack) /\ c = cbStack[n]
    BY <1>0, <1>1, Innermost
  <1>4. c \in BrokerCall /\ CallAuthorized(c)
    BY <1>0, <1>1, Innermost
  <1>5. /\ cbEffects' \in Seq(BrokerCall) /\ DOMAIN cbEffects' = DOMAIN cbEffects \cup {k}
        /\ cbEffects'[k] = c /\ k \notin DOMAIN cbEffects
        /\ \A j \in DOMAIN cbEffects : cbEffects'[j] = cbEffects[j]
    BY <1>0, <1>1, <1>4 DEF CapabilityInv, CapabilityTypeOk
  <1>6. CapabilityTypeOk' /\ TicketsOk'
    BY <1>1, <1>2, <1>5 DEF CapabilityInv, CapabilityTypeOk, TicketsOk
  <1>7. StackOk'
    <2>1. \A i \in DOMAIN cbStack : CallAuthorized(cbStack'[i])
      BY <1>2, SameAuthority DEF CapabilityInv, StackOk
    <2>2. ASSUME NEW i \in DOMAIN cbStack, cbStack'[i].at = "DONE"
          PROVE  \E j \in DOMAIN cbEffects' : cbEffects'[j].ticket = cbStack'[i].ticket
      <3>1. CASE i = n
        BY <1>2, <1>3, <1>5, <3>1
      <3>2. CASE i # n
        <4>1. cbStack[i].at = "DONE"
          BY <1>2, <1>3, <2>2, <3>2
        <4> QED BY <1>2, <1>5, <4>1 DEF CapabilityInv, StackOk
      <3> QED BY <3>1, <3>2
    <2>3. ASSUME NEW i \in DOMAIN cbStack'
          PROVE  /\ CallAuthorized(cbStack'[i]) /\ ReplayOf(cbStack[i].ticket.id) = "IN_FLIGHT"
                 /\ cbStack'[i].ticket = cbStack[i].ticket
                 /\ \A j \in DOMAIN cbStack' :
                      cbStack'[i].ticket.id = cbStack'[j].ticket.id => i = j
      BY <1>2, <2>1 DEF CapabilityInv, StackOk
    <2>4. ASSUME NEW i \in DOMAIN cbStack'
          PROVE  /\ CallAuthorized(cbStack'[i]) /\ ReplayOf(cbStack[i].ticket.id)' = "IN_FLIGHT"
                 /\ cbStack'[i].at = "DONE" =>
                      \E j \in DOMAIN cbEffects' : cbEffects'[j].ticket = cbStack'[i].ticket
      BY <1>1, <1>2, <2>2, <2>3, ZenonT(60) DEF ReplayOf
    <2> QED BY <2>3, <2>4, StackIs
  <1>8. EffectsOk'
    <2>1. \A i \in DOMAIN cbStack : cbStack[i].at = "DONE" => cbStack'[i].at = "DONE"
      BY <1>2
    <2>2. cbStack'[n].ticket = c.ticket /\ cbStack'[n].at = "DONE"
      BY <1>2, <1>3
    <2>3. ASSUME NEW j \in DOMAIN cbEffects
          PROVE  \/ ReplayOf(cbEffects[j].ticket.id) = "CONSUMED"
                 \/ \E i \in DOMAIN cbStack' :
                      cbStack'[i].ticket = cbEffects[j].ticket /\ cbStack'[i].at = "DONE"
      BY <1>2, <2>1 DEF CapabilityInv, EffectsOk
    <2> QED BY <1>1, <1>2, <1>5, <2>2, <2>3 DEF EffectsOk, ReplayOf
  <1>9. EffectsAreAuthorized'
    <2>1. \A j \in DOMAIN cbEffects : cbEffects[j].ticket.id # c.ticket.id
      BY <1>1, <1>3, NoEffectYet
    <2>2. ASSUME NEW i \in DOMAIN cbEffects', NEW j \in DOMAIN cbEffects',
                 cbEffects'[i].ticket.id = cbEffects'[j].ticket.id
          PROVE  i = j
      <3>1. CASE i = k \/ j = k
        BY <1>5, <2>1, <2>2, <3>1
      <3>2. CASE i # k /\ j # k
        BY <1>5, <2>2, <3>2 DEF CapabilityInv, EffectsAreAuthorized
      <3> QED BY <3>1, <3>2
    <2>3. \A i \in DOMAIN cbEffects' : CallAuthorized(cbEffects'[i])
      BY <1>4, <1>5 DEF CapabilityInv, EffectsAreAuthorized
    <2>4. \A r \in cbReceipts :
            r.outcome = "EXECUTED" => \E i \in DOMAIN cbEffects' : cbEffects'[i].ticket = r.ticket
      BY <1>5 DEF CapabilityInv, EffectsAreAuthorized
    <2> QED BY <1>1, <2>2, <2>3, <2>4 DEF EffectsAreAuthorized, CallAuthorized
  <1> QED BY <1>6, <1>7, <1>8, <1>9 DEF CapabilityInv

LEMMA PrepareFailsKeeps ==
  ASSUME CapabilityInv, PrepareFails
  PROVE  CapabilityInv'
  <1>0. PICK c : c = Last(cbStack)
    OBVIOUS
  <1>1. /\ cbStack # <<>> /\ c.at = "PREPARE" /\ cbReplay' = Cleared(c.ticket.id)
        /\ cbStack' = Front(cbStack)
        /\ UNCHANGED <<cbNow, cbDeployed, cbTickets, cbEffects, cbReceipts>>
    BY <1>0 DEF PrepareFails
  <1>2. ReplayKept(c.ticket.id)
    BY <1>1, ClearedReplay
  <1>3. \A r \in cbReceipts' :
          r \in cbReceipts \/ (r.outcome = "EXECUTED" => r.ticket = c.ticket /\ c.at = "DONE")
    BY <1>1
  <1>4. UNCHANGED <<cbNow, cbDeployed, cbTickets, cbEffects>>
    BY <1>1
  <1> QED BY <1>0, <1>1, <1>2, <1>3, <1>4, PopKeeps

LEMMA CommitEndsKeeps ==
  ASSUME CapabilityInv, CommitEnds
  PROVE  CapabilityInv'
  <1>0. PICK c : c = Last(cbStack)
    OBVIOUS
  <1>1. /\ cbStack # <<>> /\ cbReplay' = Marked(c.ticket.id, "CONSUMED")
        /\ cbStack' = Front(cbStack) /\ UNCHANGED <<cbNow, cbDeployed, cbTickets, cbEffects>>
        /\ \/ c.at = "DONE" /\ cbReceipts' = cbReceipts \cup {[ticket |-> c.ticket, outcome |-> "EXECUTED"]}
           \/ cbReceipts' = cbReceipts \cup {[ticket |-> c.ticket, outcome |-> "AMBIGUOUS"]}
    BY <1>0 DEF CommitEnds
  <1>2. ReplayOf(c.ticket.id)' = "CONSUMED" /\ ReplayKept(c.ticket.id)
    BY <1>1, MarkedReplay
  <1>3. \A r \in cbReceipts' :
          r \in cbReceipts \/ (r.outcome = "EXECUTED" => r.ticket = c.ticket /\ c.at = "DONE")
    BY <1>1
  <1> QED BY <1>0, <1>1, <1>2, <1>3, PopKeeps

LEMMA CapabilityKeeps == CapabilityInv /\ [CapabilityNext]_cbVars => CapabilityInv'
  <1> SUFFICES ASSUME CapabilityInv, [CapabilityNext]_cbVars PROVE CapabilityInv'
    OBVIOUS
  <1>1. ASSUME cbNow' \in Nat, cbDeployed' \in Deployments,
               UNCHANGED <<cbTickets, cbReplay, cbStack, cbEffects, cbReceipts>>
        PROVE  CapabilityInv'
    <2>1. CapabilityTypeOk' /\ TicketsOk'
      BY <1>1 DEF CapabilityInv, CapabilityTypeOk, TicketsOk
    <2>2. StackOk'
      BY <1>1 DEF CapabilityInv, StackOk, CallAuthorized, ReplayOf
    <2>3. EffectsOk'
      BY <1>1 DEF CapabilityInv, EffectsOk, ReplayOf
    <2>4. EffectsAreAuthorized'
      BY <1>1 DEF CapabilityInv, EffectsAreAuthorized, CallAuthorized
    <2> QED BY <2>1, <2>2, <2>3, <2>4 DEF CapabilityInv
  <1>2. cbNow \in Nat /\ cbDeployed \in Deployments
    BY DEF CapabilityInv, CapabilityTypeOk
  <1>3. CASE UNCHANGED cbVars
    BY <1>1, <1>2, <1>3 DEF cbVars
  <1>4. CASE CapabilityTime
    BY <1>1, <1>2, <1>4 DEF CapabilityTime
  <1>5. CASE Redeploy
    BY <1>1, <1>2, <1>5 DEF Redeploy
  <1> QED BY <1>3, <1>4, <1>5, AdmitKeeps, BrokerBeginsKeeps, PrepareFailsKeeps,
             PrepareReturnsKeeps, CommitEffectKeeps, CommitEndsKeeps DEF CapabilityNext

(* However the callbacks nest and the deployment changes: an id is         *)
(* committed at most once, under a policy and an activation in force when  *)
(* the broker was called (executeCapabilityAtBrokerV1()).                  *)
THEOREM EffectsAuthorized == ServicesSpec => []EffectsAreAuthorized
  <1>1. ServicesInit => CapabilityInv
    BY CapabilityInitial DEF ServicesInit
  <1>2. CapabilityInv /\ [ServicesNext]_serviceVars => CapabilityInv'
    BY AuthoritySteps, CapabilityKeeps
  <1>3. CapabilityInv => EffectsAreAuthorized
    BY DEF CapabilityInv
  <1> QED BY <1>1, <1>2, <1>3, PTL DEF ServicesSpec

-----------------------------------------------------------------------------
(* The model access brokers                                                *)

(* One more copy in a bag, and one less.                                   *)
LEMMA OneMore ==
  ASSUME NEW b, b \in [DOMAIN b -> Nat], NEW x, NEW more,
         more = [y \in DOMAIN b \cup {x} |->
                   (IF y \in DOMAIN b THEN b[y] ELSE 0) + (IF y \in {x} THEN 1 ELSE 0)]
  PROVE  /\ more \in [DOMAIN more -> Nat] /\ DOMAIN more = DOMAIN b \cup {x}
         /\ more[x] = (IF x \in DOMAIN b THEN b[x] ELSE 0) + 1
         /\ \A y \in DOMAIN b : y # x => more[y] = b[y]
  <1>1. \A y \in DOMAIN b \cup {x} : (IF y \in DOMAIN b THEN b[y] ELSE 0) \in Nat
    OBVIOUS
  <1>2. DOMAIN more = DOMAIN b \cup {x}
    OBVIOUS
  <1>3. \A y \in DOMAIN more : more[y] \in Nat
    BY <1>1
  <1>4. more \in [DOMAIN more -> Nat]
    <2>1. more = [y \in DOMAIN more |-> more[y]]
      BY <1>2
    <2> QED BY <1>3, <2>1
  <1>5. more[x] = (IF x \in DOMAIN b THEN b[x] ELSE 0) + 1
    OBVIOUS
  <1>6. \A y \in DOMAIN b : y # x => more[y] = b[y]
    <2> SUFFICES ASSUME NEW y \in DOMAIN b, y # x PROVE more[y] = b[y]
      OBVIOUS
    <2>1. b[y] \in Nat /\ more[y] = b[y] + 0
      OBVIOUS
    <2> QED BY <2>1
  <1> QED BY <1>2, <1>4, <1>5, <1>6

LEMMA OneLess ==
  ASSUME NEW b, NEW x
  PROVE  DOMAIN (b (-) SetToBag({x})) \subseteq DOMAIN b
  BY DEF (-), SetToBag

(* What the library's broker carries out was guarded (guardModelRequestV1).*)
LEMMA AdmissibleGuarded ==
  ASSUME maLibrary, NEW r \in Admissible
  PROVE  r.budget.requests \in Nat /\ r.budget.requests <= ModelCeiling.requests
  <1>1. PICK x \in ModelRequests : GuardedRequest(x) = "ALLOW" /\ r = Redacted(x)
    BY DEF Admissible
  <1>2. BudgetFits(x.budget)
    <2>1. PICK route : route \in RouteOf(x)
      BY <1>1 DEF GuardedRequest
    <2> QED BY <1>1, <2>1 DEF GuardedRequest
  <1>3. r.budget = x.budget
    BY <1>1, ModelAssumption DEF Redacted
  <1> QED BY <1>2, <1>3, ModelAssumption DEF BudgetFits

LEMMA ModelInitial == ModelInit => ModelInv
  <1> SUFFICES ASSUME ModelInit PROVE ModelInv
    OBVIOUS
  <1>1. /\ DOMAIN maCalls = {} /\ DOMAIN maSent = {} /\ DOMAIN maReceipts = {}
        /\ maSent = maReserved /\ maSent \in [{} -> Nat] /\ maStream = NoStream
    BY DEF ModelInit, EmptyBag, SetToBag
  <1> QED BY <1>1 DEF ModelInv, ModelCallsAreGuarded, CallsWithinCeiling, ReceiptsAreAnswers,
                      AllowedStreamIsWhole, SentIsReserved, CallsAreAdmissible,
                      StreamIsInOrder, BagToSet

(* The parts of the invariant that look at the stream, at the receipts, at *)
(* the calls, and at the budget.                                           *)
LEMMA StreamStays ==
  ASSUME ModelInv, UNCHANGED maStream
  PROVE  AllowedStreamIsWhole' /\ StreamIsInOrder'
  BY DEF ModelInv, ModelCallsAreGuarded, AllowedStreamIsWhole, StreamIsInOrder

LEMMA ReceiptsStay ==
  ASSUME ModelInv, UNCHANGED <<maReceipts, maAnswers>>
  PROVE  ReceiptsAreAnswers'
  <1>1. ReceiptsAreAnswers
    BY DEF ModelInv, ModelCallsAreGuarded
  <1>2. maReceipts' = maReceipts /\ maAnswers' = maAnswers
    OBVIOUS
  <1> QED BY <1>1, <1>2 DEF ReceiptsAreAnswers

LEMMA BudgetStays ==
  ASSUME ModelInv, UNCHANGED <<maSent, maReserved>>
  PROVE  CallsWithinCeiling' /\ SentIsReserved'
  BY DEF ModelInv, ModelCallsAreGuarded, CallsWithinCeiling, SentIsReserved, BagToSet

LEMMA CallsAdmitted ==
  ASSUME ModelInv, UNCHANGED maLibrary, DOMAIN maCalls' \subseteq Admissible
  PROVE  CallsAreAdmissible'
  <1>1. Admissible' = Admissible
    BY DEF Admissible
  <1> QED BY <1>1 DEF CallsAreAdmissible

LEMMA InvokeBeginsKeeps ==
  ASSUME ModelInv, NEW r \in Admissible, InvokeBegins(r)
  PROVE  ModelInv'
  <1>1. /\ maCalls' = maCalls (+) SetToBag({r})
        /\ UNCHANGED <<maLibrary, maReceipts, maAnswers, maStream>>
    BY DEF InvokeBegins
  <1>2. DOMAIN maCalls' \subseteq Admissible
    BY <1>1 DEF ModelInv, CallsAreAdmissible, (+), SetToBag
  <1>3. CallsWithinCeiling' /\ SentIsReserved'
    <2>1. CASE ~maLibrary
      BY <2>1, BudgetStays DEF InvokeBegins
    <2>2. CASE maLibrary
      <3>0. PICK key : key = BudgetKey(r)
        OBVIOUS
      <3>1. /\ maReserved' = maReserved (+) SetToBag({key}) /\ maSent' = maSent (+) SetToBag({key})
            /\ CopiesHeld(r) < r.budget.requests
        BY <2>2, <3>0 DEF InvokeBegins, Reserve
      <3>2. maSent = maReserved /\ maSent \in [DOMAIN maSent -> Nat]
        BY DEF ModelInv, SentIsReserved
      <3>3. /\ maSent' \in [DOMAIN maSent' -> Nat] /\ DOMAIN maSent' = DOMAIN maSent \cup {key}
            /\ maSent'[key] = (IF key \in DOMAIN maSent THEN maSent[key] ELSE 0) + 1
            /\ \A y \in DOMAIN maSent : y # key => maSent'[y] = maSent[y]
        <4>1. PICK more : more = [y \in DOMAIN maSent \cup {key} |->
                                    (IF y \in DOMAIN maSent THEN maSent[y] ELSE 0)
                                      + (IF y \in {key} THEN 1 ELSE 0)]
          OBVIOUS
        <4>2. /\ more \in [DOMAIN more -> Nat] /\ DOMAIN more = DOMAIN maSent \cup {key}
              /\ more[key] = (IF key \in DOMAIN maSent THEN maSent[key] ELSE 0) + 1
              /\ \A y \in DOMAIN maSent : y # key => more[y] = maSent[y]
          BY <3>2, <4>1, OneMore
        <4>3. maSent' = more
          BY <3>1, <4>1 DEF (+), SetToBag
        <4> QED BY <4>2, <4>3
      <3>4. CopiesHeld(r) = IF key \in DOMAIN maSent THEN maSent[key] ELSE 0
        BY <3>0, <3>2 DEF CopiesHeld, BagIn, BagToSet
      <3>5. maSent'[key] <= ModelCeiling.requests
        <4>1. CopiesHeld(r) \in Nat
          BY <3>2, <3>4
        <4>2. /\ r.budget.requests \in Nat /\ r.budget.requests <= ModelCeiling.requests
              /\ ModelCeiling.requests \in Nat
          BY <2>2, AdmissibleGuarded, ModelAssumption
        <4> QED BY <3>1, <3>3, <3>4, <4>1, <4>2
      <3>6. \A y \in DOMAIN maSent : maSent[y] <= ModelCeiling.requests
        BY DEF ModelInv, ModelCallsAreGuarded, CallsWithinCeiling, BagToSet
      <3>7. maSent' = maReserved'
        BY <3>1, <3>2
      <3> QED BY <3>3, <3>5, <3>6, <3>7 DEF CallsWithinCeiling, SentIsReserved, BagToSet
    <2> QED BY <2>1, <2>2
  <1> QED BY <1>1, <1>2, <1>3, StreamStays, ReceiptsStay, CallsAdmitted
          DEF ModelInv, ModelCallsAreGuarded

LEMMA InvokeEndsKeeps ==
  ASSUME ModelInv, NEW r, NEW v, InvokeEnds(r, v)
  PROVE  ModelInv'
  <1> DEFINE receipt == [request |-> r, response |-> GuardedResponse(r, v)]
  <1>1. /\ maCalls' = maCalls (-) SetToBag({r})
        /\ maReceipts' = SetAt(maReceipts, r.op, receipt) /\ maAnswers' = maAnswers \cup {receipt}
        /\ UNCHANGED <<maLibrary, maReserved, maSent, maStream>>
    BY DEF InvokeEnds
  <1>2. DOMAIN maCalls' \subseteq Admissible
    BY <1>1, OneLess DEF ModelInv, CallsAreAdmissible
  <1>3. /\ receipt.request = r /\ receipt.response.candidates \subseteq r.tools
        /\ receipt.response.sent = Adapted(r)
    <2>1. \A t \in v.tools : t.name \in r.tools
      BY DEF InvokeEnds, ResponseAllowed, ToolsGuarded
    <2> QED BY <2>1 DEF GuardedResponse
  <1> HIDE DEF receipt
  <1>4. ReceiptsAreAnswers'
    <2>1. /\ DOMAIN maReceipts' = DOMAIN maReceipts \cup {r.op}
          /\ \A op \in DOMAIN maReceipts' :
               maReceipts'[op] = IF op = r.op THEN receipt ELSE maReceipts[op]
      BY <1>1 DEF SetAt
    <2>2. ASSUME NEW op \in DOMAIN maReceipts'
          PROVE  /\ maReceipts'[op] \in maAnswers' /\ maReceipts'[op].request.op = op
                 /\ maReceipts'[op].response.candidates \subseteq maReceipts'[op].request.tools
                 /\ maReceipts'[op].response.sent = Adapted(maReceipts'[op].request)
      <3>1. CASE op = r.op
        BY <1>1, <1>3, <2>1, <3>1
      <3>2. CASE op # r.op
        BY <1>1, <2>1, <3>2 DEF ModelInv, ModelCallsAreGuarded, ReceiptsAreAnswers
      <3> QED BY <3>1, <3>2
    <2> QED BY <2>2 DEF ReceiptsAreAnswers
  <1> QED BY <1>1, <1>2, <1>4, StreamStays, BudgetStays, CallsAdmitted
          DEF ModelInv, ModelCallsAreGuarded

LEMMA InvokeQuarantinedKeeps ==
  ASSUME ModelInv, NEW r, InvokeQuarantined(r)
  PROVE  ModelInv'
  <1>1. /\ maCalls' = maCalls (-) SetToBag({r})
        /\ UNCHANGED <<maLibrary, maReceipts, maReserved, maSent, maAnswers, maStream>>
    BY DEF InvokeQuarantined
  <1>2. DOMAIN maCalls' \subseteq Admissible
    BY <1>1, OneLess DEF ModelInv, CallsAreAdmissible
  <1> QED BY <1>1, <1>2, StreamStays, ReceiptsStay, BudgetStays, CallsAdmitted
          DEF ModelInv, ModelCallsAreGuarded

LEMMA BrokerRestartsKeeps ==
  ASSUME ModelInv, BrokerRestarts
  PROVE  ModelInv'
  <1>1. /\ DOMAIN maCalls' = {} /\ DOMAIN maReceipts' = {}
        /\ UNCHANGED <<maLibrary, maReserved, maSent, maStream>>
    BY DEF BrokerRestarts, EmptyBag, SetToBag
  <1>2. ReceiptsAreAnswers'
    BY <1>1 DEF ReceiptsAreAnswers
  <1> QED BY <1>1, <1>2, StreamStays, BudgetStays, CallsAdmitted
          DEF ModelInv, ModelCallsAreGuarded

(* A step of the stream changes nothing else.                              *)
LEMMA StreamStepKeeps ==
  ASSUME ModelInv, UNCHANGED <<maLibrary, maCalls, maReceipts, maReserved, maSent, maAnswers>>,
         AllowedStreamIsWhole', StreamIsInOrder'
  PROVE  ModelInv'
  <1>1. DOMAIN maCalls' \subseteq Admissible
    BY DEF ModelInv, CallsAreAdmissible
  <1> QED BY <1>1, ReceiptsStay, BudgetStays, CallsAdmitted DEF ModelInv, ModelCallsAreGuarded

LEMMA StreamOpensKeeps ==
  ASSUME ModelInv, StreamOpens
  PROVE  ModelInv'
  <1>1. /\ maStream' = EmptyStream
        /\ UNCHANGED <<maLibrary, maCalls, maReceipts, maReserved, maSent, maAnswers>>
    BY DEF StreamOpens
  <1>2. /\ maStream'.events = <<>> /\ maStream'.outcome = "READING"
        /\ maStream' = [events |-> maStream'.events, tools |-> maStream'.tools, done |-> maStream'.done,
                        lines |-> maStream'.lines, outcome |-> maStream'.outcome]
    BY <1>1 DEF EmptyStream
  <1>3. StreamIsInOrder'
    BY <1>2 DEF StreamIsInOrder
  <1>4. AllowedStreamIsWhole'
    BY <1>2 DEF AllowedStreamIsWhole
  <1> QED BY <1>1, <1>3, <1>4, StreamStepKeeps

(* A line that fits goes to the end of the events, its tool's body kept.   *)
LEMMA EventKeepsOrder ==
  ASSUME ModelInv, maStream # NoStream, NEW line \in ProviderLines, Fits(maStream, line),
         line.kind = "EVENT", line.kind # "MARK", maStream' = WithLine(maStream, line),
         maStream.outcome = "READING"
  PROVE  StreamIsInOrder' /\ AllowedStreamIsWhole'
  <1>0. PICK e, tools, done, lines :
          /\ maStream = [events |-> e, tools |-> tools, done |-> done, lines |-> lines, outcome |-> "READING"]
          /\ e \in Seq(ProviderLines)
          /\ \A i \in DOMAIN e :
               /\ e[i].sequence = i - 1
               /\ e[i].event = "TOOL_CANDIDATE" => e[i].tool \in DOMAIN tools /\ tools[e[i].tool] = e[i].body
    BY DEF ModelInv, StreamIsInOrder
  <1>1. PICK n : n = Len(e) + 1
    OBVIOUS
  <1>2. PICK more : more = Append(e, line)
    OBVIOUS
  <1>3. PICK kept : kept = IF line.event = "TOOL_CANDIDATE" THEN SetAt(tools, line.tool, line.body) ELSE tools
    OBVIOUS
  <1>4. maStream' = [events |-> more, tools |-> kept, done |-> done, lines |-> lines + 1, outcome |-> "READING"]
    BY <1>0, <1>2, <1>3 DEF WithLine
  <1>5. /\ more \in Seq(ProviderLines) /\ DOMAIN more = DOMAIN e \cup {n} /\ more[n] = line
        /\ n \notin DOMAIN e /\ \A i \in DOMAIN e : more[i] = e[i]
    BY <1>0, <1>1, <1>2
  <1>6. /\ line.sequence = n - 1
        /\ line.event = "TOOL_CANDIDATE" => (line.tool \in DOMAIN tools => tools[line.tool] = line.body)
    BY <1>0, <1>1 DEF Fits
  <1>7. ASSUME NEW i \in DOMAIN more
        PROVE  /\ more[i].sequence = i - 1
               /\ more[i].event = "TOOL_CANDIDATE" => more[i].tool \in DOMAIN kept /\ kept[more[i].tool] = more[i].body
    <2>1. CASE i = n
      BY <1>3, <1>5, <1>6, <2>1 DEF SetAt
    <2>2. CASE i # n
      <3>1. more[i] = e[i] /\ i \in DOMAIN e
        BY <1>5, <2>2
      <3>2. more[i].event = "TOOL_CANDIDATE" => more[i].tool \in DOMAIN tools /\ tools[more[i].tool] = more[i].body
        BY <1>0, <3>1
      <3>3. \A t \in DOMAIN tools : t \in DOMAIN kept /\ kept[t] = tools[t]
        BY <1>3, <1>6 DEF SetAt
      <3> QED BY <1>0, <3>1, <3>2, <3>3
    <2> QED BY <2>1, <2>2
  <1>8. StreamIsInOrder'
    <2>1. /\ maStream'.events = more /\ maStream'.tools = kept /\ maStream'.done = done
          /\ maStream'.lines = lines + 1 /\ maStream'.outcome = "READING"
      BY <1>4
    <2>2. maStream' = [events |-> maStream'.events, tools |-> maStream'.tools, done |-> maStream'.done,
                       lines |-> maStream'.lines, outcome |-> maStream'.outcome]
      BY <1>4, <2>1
    <2> QED BY <1>5, <1>7, <2>1, <2>2 DEF StreamIsInOrder
  <1>9. AllowedStreamIsWhole'
    BY <1>4 DEF AllowedStreamIsWhole
  <1> QED BY <1>8, <1>9

(* Anything else the reader does leaves events and tools alone.            *)
LEMMA SameEvents ==
  ASSUME ModelInv, maStream # NoStream, NEW done, NEW lines, NEW outcome,
         maStream' = [events |-> maStream.events, tools |-> maStream.tools, done |-> done,
                      lines |-> lines, outcome |-> outcome]
  PROVE  StreamIsInOrder'
  <1>1. /\ maStream'.events = maStream.events /\ maStream'.tools = maStream.tools
        /\ maStream' = [events |-> maStream'.events, tools |-> maStream'.tools, done |-> maStream'.done,
                        lines |-> maStream'.lines, outcome |-> maStream'.outcome]
    OBVIOUS
  <1> QED BY <1>1 DEF ModelInv, StreamIsInOrder

LEMMA StreamReadsKeeps ==
  ASSUME ModelInv, NEW line \in ProviderLines, StreamReads(line)
  PROVE  ModelInv'
  <1>1. /\ maStream # NoStream /\ maStream.outcome = "READING"
        /\ maStream' = WithLine(maStream, line)
        /\ UNCHANGED <<maLibrary, maCalls, maReceipts, maReserved, maSent, maAnswers>>
    BY DEF StreamReads
  <1>2. maStream = [events |-> maStream.events, tools |-> maStream.tools, done |-> maStream.done,
                    lines |-> maStream.lines, outcome |-> maStream.outcome]
    BY <1>1 DEF ModelInv, StreamIsInOrder
  <1>3. CASE line.kind = "MARK"
    <2>1. maStream' = [events |-> maStream.events, tools |-> maStream.tools, done |-> TRUE,
                       lines |-> maStream.lines + 1, outcome |-> maStream.outcome]
      BY <1>1, <1>2, <1>3 DEF WithLine
    <2>2. StreamIsInOrder'
      BY <1>1, <2>1, SameEvents
    <2>3. AllowedStreamIsWhole'
      BY <1>1, <2>1 DEF AllowedStreamIsWhole
    <2> QED BY <1>1, <2>2, <2>3, StreamStepKeeps
  <1>4. CASE line.kind # "MARK" /\ line.kind = "EVENT" /\ Fits(maStream, line)
    BY <1>1, <1>4, EventKeepsOrder, StreamStepKeeps
  <1>5. CASE line.kind # "MARK" /\ ~(line.kind = "EVENT" /\ Fits(maStream, line))
    <2>1. maStream' = [events |-> maStream.events, tools |-> maStream.tools, done |-> maStream.done,
                       lines |-> maStream.lines + 1, outcome |-> "QUARANTINE"]
      BY <1>1, <1>2, <1>5 DEF WithLine
    <2>2. StreamIsInOrder'
      BY <1>1, <2>1, SameEvents
    <2>3. AllowedStreamIsWhole'
      BY <2>1 DEF AllowedStreamIsWhole
    <2> QED BY <1>1, <2>2, <2>3, StreamStepKeeps
  <1> QED BY <1>3, <1>4, <1>5

(* The mark of the end and a last event that says so allow a stream: the   *)
(* order of its events and the bodies of its tools were checked line by    *)
(* line.                                                                   *)
LEMMA StreamEndsKeeps ==
  ASSUME ModelInv, StreamEnds
  PROVE  ModelInv'
  <1>0. PICK e : e = maStream.events
    OBVIOUS
  <1>1. PICK outcome \in {"ALLOW", "QUARANTINE"} :
          /\ outcome = "ALLOW" => maStream.done /\ e # <<>> /\ Last(e).event = "DONE"
          /\ maStream # NoStream /\ maStream.outcome = "READING"
          /\ maStream' = [maStream EXCEPT !.outcome = outcome]
          /\ UNCHANGED <<maLibrary, maCalls, maReceipts, maReserved, maSent, maAnswers>>
    BY <1>0 DEF StreamEnds
  <1>2. /\ maStream = [events |-> e, tools |-> maStream.tools, done |-> maStream.done,
                       lines |-> maStream.lines, outcome |-> maStream.outcome]
        /\ e \in Seq(ProviderLines)
        /\ \A i \in DOMAIN e :
             /\ e[i].sequence = i - 1
             /\ e[i].event = "TOOL_CANDIDATE" =>
                  e[i].tool \in DOMAIN maStream.tools /\ maStream.tools[e[i].tool] = e[i].body
    BY <1>0, <1>1 DEF ModelInv, StreamIsInOrder
  <1>3. maStream' = [events |-> e, tools |-> maStream.tools, done |-> maStream.done,
                     lines |-> maStream.lines, outcome |-> outcome]
    BY <1>1, <1>2
  <1>4. StreamIsInOrder'
    BY <1>0, <1>1, <1>3, SameEvents
  <1>5. AllowedStreamIsWhole'
    <2>1. CASE outcome # "ALLOW"
      BY <1>3, <2>1 DEF AllowedStreamIsWhole
    <2>2. CASE outcome = "ALLOW"
      <3>1. e[Len(e)].event = "DONE"
        BY <1>1, <2>2 DEF Last
      <3>2. \A i, j \in DOMAIN e :
              e[i].event = "TOOL_CANDIDATE" /\ e[j].event = "TOOL_CANDIDATE" /\ e[i].tool = e[j].tool
                => e[i].body = e[j].body
        BY <1>2
      <3>3. maStream'.events = e
        BY <1>3
      <3> QED BY <1>2, <3>1, <3>2, <3>3 DEF AllowedStreamIsWhole
    <2> QED BY <2>1, <2>2
  <1> QED BY <1>1, <1>4, <1>5, StreamStepKeeps

LEMMA ModelKeeps == ModelInv /\ [ModelNext]_maVars => ModelInv'
  <1> SUFFICES ASSUME ModelInv, [ModelNext]_maVars PROVE ModelInv'
    OBVIOUS
  <1>1. CASE UNCHANGED maVars
    <2>1. AllowedStreamIsWhole' /\ StreamIsInOrder'
      BY <1>1, StreamStays DEF maVars
    <2> QED BY <1>1, <2>1, StreamStepKeeps DEF maVars
  <1>2. ASSUME NEW r \in BagToSet(maCalls),
               InvokeQuarantined(r) \/ \E v \in ProviderAnswers : InvokeEnds(r, v)
        PROVE  ModelInv'
    BY <1>2, InvokeQuarantinedKeeps, InvokeEndsKeeps
  <1> QED BY <1>1, <1>2, InvokeBeginsKeeps, BrokerRestartsKeeps, StreamOpensKeeps,
             StreamReadsKeeps, StreamEndsKeeps DEF ModelNext

(* Whatever calls overlap, fail or come late: no tenant's purpose and route*)
(* has more calls than the ceiling, a receipt is an answer that was given  *)
(* to what was sent for its request, and an allowed stream is whole        *)
(* (invoke(), parseGuardedSseV1()).                                        *)
THEOREM CallsGuarded == ServicesSpec => []ModelCallsAreGuarded
  <1>1. ServicesInit => ModelInv
    BY ModelInitial DEF ServicesInit
  <1>2. ModelInv /\ [ServicesNext]_serviceVars => ModelInv'
    BY AuthoritySteps, ModelKeeps
  <1>3. ModelInv => ModelCallsAreGuarded
    BY DEF ModelInv
  <1> QED BY <1>1, <1>2, <1>3, PTL DEF ServicesSpec
=============================================================================
