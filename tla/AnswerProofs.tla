----------------------------- MODULE AnswerProofs -----------------------------
(***************************************************************************)
(* Theorems about the services whose answers and files outlive them, as    *)
(* parts of Services: the ERP order cell, the managed skill broker, the    *)
(* OpenClaw gateway, the builder's core, the daily candidate's directory   *)
(* and the usage store; and the inductive invariants of the services       *)
(* together.                                                               *)
(***************************************************************************)
EXTENDS StoreProofs

-----------------------------------------------------------------------------
(* Composition: what a step of the services is to each of these five.      *)
LEMMA AnswerSteps ==
  ASSUME [ServicesNext]_serviceVars
  PROVE  /\ [CellNext]_ecVars /\ [ManagerNext]_smVars /\ [GatewayNext]_gwVars
         /\ [BuilderNext]_bcVars /\ [DailyNext]_dpVars
  <1>1. CASE UNCHANGED serviceVars
    BY <1>1 DEF serviceVars
  <1>2. CASE ServicesNext
    BY <1>2 DEF ServicesNext, Others
  <1> QED BY <1>1, <1>2

-----------------------------------------------------------------------------
(* The ERP order cell                                                      *)

(* Two published profiles are of two kinds, so they bind two providers.    *)
LEMMA BindingsDiffer ==
  ASSUME NEW p \in ErpProfiles, NEW q \in ErpProfiles, ErpConformant(p), ErpConformant(q), p # q
  PROVE  p.binding # q.binding
  <1>1. p.kind # q.kind
    BY ErpAssumption
  <1> QED BY <1>1 DEF ErpConformant, AsPublished

LEMMA CellInitial == CellInit => CellInv
  BY FS_EmptySet DEF CellInit, CellInv, OrdersAreSentOnce, NoCounts

(* An order of a new id: it is sent, and its receipt kept.                 *)
LEMMA OrderKeeps ==
  ASSUME CellInv, NEW r \in ErpRequests, OrderExecuted(r)
  PROVE  CellInv'
  <1> DEFINE e == [profile |-> ecActive, request |-> r]
  <1>1. /\ r.id \notin ecReplay
        /\ ecReceipts' = [id \in DOMAIN ecReceipts \cup {r.id} |-> IF id = r.id THEN e ELSE ecReceipts[id]]
        /\ ecReplay' = ecReplay \cup {r.id}
        /\ ecCounts' = [ecCounts EXCEPT !.executions = @ + 1]
        /\ ecSeen' = ecSeen \cup {e}
        /\ UNCHANGED <<ecProfiles, ecActive, ecLkg, ecSwitches>>
    BY DEF OrderExecuted, Replayed
  <1>2. /\ DOMAIN ecReceipts = ecReplay /\ ecReplay = {x.request.id : x \in ecSeen}
        /\ ecSeen = {ecReceipts[id] : id \in DOMAIN ecReceipts}
        /\ \A a, b \in ecSeen : a.request.id = b.request.id => a = b
        /\ IsFiniteSet(ecSeen) /\ ecCounts.executions = Cardinality(ecSeen)
    <2>1. DOMAIN ecReceipts = ecReplay /\ ecReplay = {x.request.id : x \in ecSeen} /\ IsFiniteSet(ecSeen)
      BY Zenon DEF CellInv
    <2>2. ecSeen = {ecReceipts[id] : id \in DOMAIN ecReceipts} /\ ecCounts.executions = Cardinality(ecSeen)
      BY Zenon DEF CellInv, OrdersAreSentOnce
    <2>3. \A a, b \in ecSeen : a.request.id = b.request.id => a = b
      BY Zenon DEF CellInv, OrdersAreSentOnce
    <2> QED BY <2>1, <2>2, <2>3, Zenon
  <1>a. ecReplay = {x.request.id : x \in ecSeen} /\ r.id \notin ecReplay
    BY <1>1, <1>2, Zenon
  <1>3. e.request.id = r.id
    OBVIOUS
  <1> HIDE DEF e
  <1>4. e \notin ecSeen
    BY <1>a, <1>3
  <1>5. IsFiniteSet(ecSeen') /\ Cardinality(ecSeen') = Cardinality(ecSeen) + 1
    <2>1. IsFiniteSet(ecSeen) /\ ecSeen' = ecSeen \cup {e}
      BY <1>1, <1>2, Zenon
    <2> QED BY <1>4, <2>1, FS_AddElement
  <1>6. \A b \in DOMAIN ecOrders' : ecOrders'[b] = {}
    <2>1. \A b \in DOMAIN ecOrders : ecOrders[b] = {}
      BY Zenon DEF CellInv, OrdersAreSentOnce
    <2> QED BY <2>1 DEF OrderExecuted
  <1>7. ecReplay' = {x.request.id : x \in ecSeen'}
    <2>1. ecReplay' = ecReplay \cup {r.id} /\ ecSeen' = ecSeen \cup {e}
      BY <1>1
    <2>2. {x.request.id : x \in ecSeen \cup {e}} = {x.request.id : x \in ecSeen} \cup {r.id}
      BY <1>3
    <2> QED BY <1>a, <2>1, <2>2, Zenon
  <1>8. DOMAIN ecReceipts' = ecReplay'
    BY <1>1, <1>2, Zenon
  <1>9. ecSeen' = {ecReceipts'[id] : id \in DOMAIN ecReceipts'}
    <2>1. \A id \in DOMAIN ecReceipts : id # r.id /\ ecReceipts'[id] = ecReceipts[id] /\ id \in DOMAIN ecReceipts'
      <3>1. r.id \notin DOMAIN ecReceipts
        BY <1>1, <1>2, Zenon
      <3> QED BY <1>1, <3>1
    <2>2. r.id \in DOMAIN ecReceipts' /\ ecReceipts'[r.id] = e
      BY <1>1
    <2>3. ecSeen' = ecSeen \cup {e} /\ DOMAIN ecReceipts' = DOMAIN ecReceipts \cup {r.id}
      BY <1>1, <1>2, Zenon
    <2>4. {ecReceipts'[id] : id \in DOMAIN ecReceipts'} = {ecReceipts[id] : id \in DOMAIN ecReceipts} \cup {e}
      BY <2>1, <2>2, <2>3
    <2>5. ecSeen = {ecReceipts[id] : id \in DOMAIN ecReceipts}
      BY <1>2, Zenon
    <2> QED BY <2>3, <2>4, <2>5, Zenon
  <1>10. \A a, b \in ecSeen' : a.request.id = b.request.id => a = b
    <2>1. \A x \in ecSeen : x.request.id # e.request.id
      BY <1>a, <1>3
    <2>2. ASSUME NEW a \in ecSeen', NEW b \in ecSeen', a.request.id = b.request.id PROVE a = b
      <3>1. (a \in ecSeen \/ a = e) /\ (b \in ecSeen \/ b = e)
        BY <1>1, Zenon
      <3>2. \A c, d \in ecSeen : c.request.id = d.request.id => c = d
        BY <1>2, Zenon
      <3> QED BY <2>1, <2>2, <3>1, <3>2
    <2> QED BY <2>2, Zenon
  <1>11. ecCounts'.executions = Cardinality(ecSeen')
         /\ ecCounts' = [executions |-> ecCounts'.executions, replays |-> ecCounts'.replays,
                         switches |-> ecCounts'.switches, rollbacks |-> ecCounts'.rollbacks]
    <2>1. PICK a, b, c, d : ecCounts = [executions |-> a, replays |-> b, switches |-> c, rollbacks |-> d]
      BY Zenon DEF CellInv
    <2>2. ecCounts' = [executions |-> a + 1, replays |-> b, switches |-> c, rollbacks |-> d]
      BY <1>1, <2>1
    <2>3. ecCounts.executions = Cardinality(ecSeen) /\ Cardinality(ecSeen') = Cardinality(ecSeen) + 1
      BY <1>2, <1>5, Zenon
    <2> QED BY <2>1, <2>2, <2>3
  <1>12. OrdersAreSentOnce'
    <2>1. \A s \in ecSwitches' : s.from.action = s.to.action /\ s.from.binding # s.to.binding
      BY <1>1, Zenon DEF CellInv, OrdersAreSentOnce
    <2> QED BY <1>6, <1>9, <1>10, <1>11, <2>1, Zenon DEF OrdersAreSentOnce
  <1>13. ecProfiles' \subseteq ErpProfiles /\ \A p \in ecProfiles' : ErpConformant(p)
    BY <1>1, Zenon DEF CellInv
  <1> QED BY <1>5, <1>7, <1>8, <1>11, <1>12, <1>13, Zenon DEF CellInv

(* A step that sends no order: the switches and the counts it leaves.      *)
LEMMA CellSwitched ==
  ASSUME CellInv, UNCHANGED <<ecOrders, ecReplay, ecReceipts, ecSeen>>,
         ecProfiles' = ecProfiles,
         \A s \in ecSwitches' : s.from.action = s.to.action /\ s.from.binding # s.to.binding,
         ecCounts'.executions = ecCounts.executions,
         ecCounts' = [executions |-> ecCounts'.executions, replays |-> ecCounts'.replays,
                      switches |-> ecCounts'.switches, rollbacks |-> ecCounts'.rollbacks]
  PROVE  CellInv'
  <1>1. /\ ecOrders' = ecOrders /\ ecReplay' = ecReplay /\ ecReceipts' = ecReceipts /\ ecSeen' = ecSeen
    BY Zenon
  <1>2. OrdersAreSentOnce'
    <2>1. \A a, b \in ecSeen' : a.request.id = b.request.id => a = b
      BY <1>1, Zenon DEF CellInv, OrdersAreSentOnce
    <2>a. ecSeen = {ecReceipts[id] : id \in DOMAIN ecReceipts} /\ ecCounts.executions = Cardinality(ecSeen)
      BY Zenon DEF CellInv, OrdersAreSentOnce
    <2>2. ecSeen' = {ecReceipts'[id] : id \in DOMAIN ecReceipts'} /\ ecCounts'.executions = Cardinality(ecSeen')
      BY <1>1, <2>a, Zenon
    <2>3. \A b \in DOMAIN ecOrders' : ecOrders'[b] = {}
      BY <1>1, Zenon DEF CellInv, OrdersAreSentOnce
    <2> QED BY <2>1, <2>2, <2>3, Zenon DEF OrdersAreSentOnce
  <1>3. IsFiniteSet(ecSeen') /\ ecReplay' = {e.request.id : e \in ecSeen'} /\ DOMAIN ecReceipts' = ecReplay'
    BY <1>1, Zenon DEF CellInv
  <1>4. ecProfiles' \subseteq ErpProfiles /\ \A p \in ecProfiles' : ErpConformant(p)
    BY Zenon DEF CellInv
  <1> QED BY <1>2, <1>3, <1>4, Zenon DEF CellInv

(* A switch, for itself or to take one back, and what it counts.           *)
LEMMA SwitchKeeps ==
  ASSUME CellInv, NEW from, NEW to, NEW outcome, Switch(from, to, outcome),
         ecCounts'.executions = ecCounts.executions,
         ecCounts' = [executions |-> ecCounts'.executions, replays |-> ecCounts'.replays,
                      switches |-> ecCounts'.switches, rollbacks |-> ecCounts'.rollbacks]
  PROVE  CellInv'
  <1>1. from \in ecProfiles /\ to \in ecProfiles /\ from # to /\ from.action = to.action
    BY DEF Switch, MaySwitch
  <1>2. from.binding # to.binding
    BY <1>1, BindingsDiffer DEF CellInv
  <1>3. SwitchReceipt(from, to, outcome).from = from /\ SwitchReceipt(from, to, outcome).to = to
    BY DEF SwitchReceipt
  <1>4. \A s \in ecSwitches' : s.from.action = s.to.action /\ s.from.binding # s.to.binding
    BY <1>1, <1>2, <1>3 DEF Switch, CellInv, OrdersAreSentOnce
  <1>5. UNCHANGED <<ecProfiles, ecOrders, ecReplay, ecReceipts, ecSeen>>
    BY DEF Switch
  <1> QED BY <1>4, <1>5, CellSwitched

LEMMA CellKeeps ==
  ASSUME CellInv, [CellNext]_ecVars
  PROVE  CellInv'
  <1>0. PICK a, b, c, d : ecCounts = [executions |-> a, replays |-> b, switches |-> c, rollbacks |-> d]
    BY Zenon DEF CellInv
  <1>a. \A s \in ecSwitches : s.from.action = s.to.action /\ s.from.binding # s.to.binding
    BY Zenon DEF CellInv, OrdersAreSentOnce
  <1>1. CASE UNCHANGED ecVars
    <2>1. UNCHANGED <<ecProfiles, ecOrders, ecReplay, ecReceipts, ecCounts, ecSwitches, ecSeen>>
      BY <1>1 DEF ecVars
    <2>2. /\ ecCounts'.executions = ecCounts.executions
          /\ ecCounts' = [executions |-> ecCounts'.executions, replays |-> ecCounts'.replays,
                          switches |-> ecCounts'.switches, rollbacks |-> ecCounts'.rollbacks]
      BY <1>0, <2>1
    <2> QED BY <1>a, <2>1, <2>2, CellSwitched
  <1>2. ASSUME NEW profiles \in SUBSET ErpProfiles, NEW active \in profiles, CellOpens(profiles, active)
        PROVE  CellInv'
    <2>1. UNCHANGED <<ecReplay, ecReceipts, ecCounts, ecSwitches, ecSeen>>
      BY <1>2 DEF CellOpens
    <2>2. OrdersAreSentOnce'
      <3>1. \A b1 \in DOMAIN ecOrders' : ecOrders'[b1] = {}
        BY <1>2 DEF CellOpens
      <3>2. \A x, y \in ecSeen' : x.request.id = y.request.id => x = y
        BY <2>1, Zenon DEF CellInv, OrdersAreSentOnce
      <3>a. ecSeen = {ecReceipts[id] : id \in DOMAIN ecReceipts} /\ ecCounts.executions = Cardinality(ecSeen)
        BY Zenon DEF CellInv, OrdersAreSentOnce
      <3>3. ecSeen' = {ecReceipts'[id] : id \in DOMAIN ecReceipts'} /\ ecCounts'.executions = Cardinality(ecSeen')
        BY <2>1, <3>a, Zenon
      <3> QED BY <1>a, <2>1, <3>1, <3>2, <3>3, Zenon DEF OrdersAreSentOnce
    <2>3. /\ IsFiniteSet(ecSeen') /\ ecReplay' = {e.request.id : e \in ecSeen'} /\ DOMAIN ecReceipts' = ecReplay'
          /\ ecCounts' = [executions |-> ecCounts'.executions, replays |-> ecCounts'.replays,
                          switches |-> ecCounts'.switches, rollbacks |-> ecCounts'.rollbacks]
      BY <2>1, Zenon DEF CellInv
    <2>4. ecProfiles' \subseteq ErpProfiles /\ \A p \in ecProfiles' : ErpConformant(p)
      BY <1>2, Zenon DEF CellOpens
    <2> QED BY <2>2, <2>3, <2>4, Zenon DEF CellInv
  <1>3. ASSUME NEW r \in ErpRequests, OrderReplayed(r) PROVE CellInv'
    <2>1. ecCounts' = [ecCounts EXCEPT !.replays = b + 1]
      BY <1>0, <1>3 DEF OrderReplayed
    <2>2. ecCounts' = [executions |-> a, replays |-> b + 1, switches |-> c, rollbacks |-> d]
      BY <1>0, <2>1
    <2>3. /\ ecCounts'.executions = ecCounts.executions
          /\ ecCounts' = [executions |-> ecCounts'.executions, replays |-> ecCounts'.replays,
                          switches |-> ecCounts'.switches, rollbacks |-> ecCounts'.rollbacks]
      BY <1>0, <2>2
    <2>4. UNCHANGED <<ecProfiles, ecOrders, ecReplay, ecReceipts, ecSwitches, ecSeen>>
      BY <1>3 DEF OrderReplayed
    <2> QED BY <1>a, <2>3, <2>4, CellSwitched
  <1>4. ASSUME NEW from \in ecProfiles, NEW to \in ecProfiles, SwitchProfile(from, to) PROVE CellInv'
    <2>1. Switch(from, to, "EXACT_PROFILE_SWITCHED") /\ ecCounts' = [ecCounts EXCEPT !.switches = @ + 1]
      BY <1>4 DEF SwitchProfile
    <2>2. ecCounts' = [executions |-> a, replays |-> b, switches |-> c + 1, rollbacks |-> d]
      BY <1>0, <2>1
    <2>3. /\ ecCounts'.executions = ecCounts.executions
          /\ ecCounts' = [executions |-> ecCounts'.executions, replays |-> ecCounts'.replays,
                          switches |-> ecCounts'.switches, rollbacks |-> ecCounts'.rollbacks]
      BY <1>0, <2>2
    <2> QED BY <2>1, <2>3, SwitchKeeps
  <1>5. ASSUME NEW s \in ecSwitches, RollbackProfile(s) PROVE CellInv'
    <2>1. Switch(s.to, s.from, "EXACT_PROFILE_ROLLED_BACK") /\ ecCounts' = [ecCounts EXCEPT !.rollbacks = @ + 1]
      BY <1>5 DEF RollbackProfile
    <2>2. ecCounts' = [executions |-> a, replays |-> b, switches |-> c, rollbacks |-> d + 1]
      BY <1>0, <2>1
    <2>3. /\ ecCounts'.executions = ecCounts.executions
          /\ ecCounts' = [executions |-> ecCounts'.executions, replays |-> ecCounts'.replays,
                          switches |-> ecCounts'.switches, rollbacks |-> ecCounts'.rollbacks]
      BY <1>0, <2>2
    <2> QED BY <2>1, <2>3, SwitchKeeps
  <1>6. CASE ResetCell
    BY <1>6, FS_EmptySet DEF ResetCell, NoCounts, CellInv, OrdersAreSentOnce
  <1> QED BY <1>1, <1>2, <1>3, <1>4, <1>5, <1>6, OrderKeeps DEF CellNext

-----------------------------------------------------------------------------
(* The managed skill broker                                                *)

LEMMA ManagerInitial == ManagerInit => ManagerInv
  BY ManagerAssumption DEF ManagerInit, ManagerInv, InitialState, ManagerState, InstalledOnce, StillHas, ManagerUp

LEMMA ManagerSafety == ManagerInv => ManagerReceiptsLast
  <1> SUFFICES ASSUME ManagerInv PROVE ManagerReceiptsLast
    OBVIOUS
  <1>1. ASSUME NEW s \in {smMem, smFile} \ {Stopped}
        PROVE  Cardinality({i \in DOMAIN s.receipts : s.receipts[i] = "INSTALL"}) = (IF s.installed THEN 1 ELSE 0)
    <2> DEFINE I == {i \in DOMAIN s.receipts : s.receipts[i] = "INSTALL"}
    <2>1. InstalledOnce(s)
      BY DEF ManagerInv
    <2>2. CASE s.installed
      <3>1. PICK i : I = {i}
        BY <2>1, <2>2 DEF InstalledOnce
      <3> HIDE DEF I
      <3>2. Cardinality(I) = 1
        BY <3>1, FS_Singleton
      <3> QED BY <2>2, <3>2 DEF I
    <2>3. CASE ~s.installed
      <3>1. I = {}
        BY <2>1, <2>3 DEF InstalledOnce
      <3> HIDE DEF I
      <3>2. Cardinality(I) = 0
        BY <3>1, FS_EmptySet
      <3> QED BY <2>3, <3>2 DEF I
    <2> QED BY <2>2, <2>3
  <1>2. /\ \A s \in {smMem, smFile} \ {Stopped} : s.active => s.installed
        /\ \A r \in smAnswered : StillHas(smFile, r)
    BY DEF ManagerInv
  <1> QED BY <1>1, <1>2 DEF ManagerReceiptsLast, StillHas

(* A state with one receipt more: an install is the first, and nothing     *)
(* else changes what is installed.                                         *)
FitsAfter(s, installed, action) ==
  /\ action = "INSTALL" => ~s.installed /\ installed
  /\ action # "INSTALL" => installed = s.installed

OneReceipt(s, installed, active, action) ==
  [installed |-> installed, active |-> active, receipts |-> Append(s.receipts, action)]

ReceiptKept(s, installed, active, t) ==
  /\ t \in ManagerState /\ t.installed = installed /\ t.active = active
  /\ InstalledOnce(t)
  /\ \A r : StillHas(s, r) => StillHas(t, r)
  /\ \A r \in Made(t) : StillHas(t, r)

LEMMA ReceiptMade ==
  ASSUME NEW s \in ManagerState, NEW installed \in BOOLEAN, NEW active \in BOOLEAN,
         NEW action \in {"INSTALL", "ACTIVATE", "ROLLBACK"}, InstalledOnce(s),
         FitsAfter(s, installed, action)
  PROVE  ReceiptKept(s, installed, active, OneReceipt(s, installed, active, action))
  <1>t. PICK t : t = OneReceipt(s, installed, active, action)
    OBVIOUS
  <1>1. s.receipts \in Seq({"INSTALL", "ACTIVATE", "ROLLBACK"})
    BY DEF ManagerState
  <1>2. t = [installed |-> installed, active |-> active, receipts |-> Append(s.receipts, action)]
    BY <1>t DEF OneReceipt
  <1>3. /\ Len(t.receipts) = Len(s.receipts) + 1 /\ DOMAIN t.receipts = 1..Len(s.receipts) + 1
        /\ \A i \in 1..Len(s.receipts) : t.receipts[i] = s.receipts[i]
        /\ t.receipts[Len(s.receipts) + 1] = action
        /\ DOMAIN s.receipts = 1..Len(s.receipts) /\ Len(s.receipts) \in Nat
        /\ t.receipts \in Seq({"INSTALL", "ACTIVATE", "ROLLBACK"})
    BY <1>1, <1>2
  <1>4. t \in ManagerState /\ t.installed = installed /\ t.active = active
    <2>1. Append(s.receipts, action) \in Seq({"INSTALL", "ACTIVATE", "ROLLBACK"})
      BY <1>1
    <2> QED BY ONLY <1>2, <2>1, installed \in BOOLEAN, active \in BOOLEAN DEF ManagerState
  <1>5. \A r : StillHas(s, r) => StillHas(t, r)
    BY <1>3 DEF StillHas
  <1>6. \A r \in Made(t) : StillHas(t, r)
    BY <1>3 DEF StillHas, Made, Last
  <1>7. InstalledOnce(t)
    <2>1. CASE action = "INSTALL"
      <3>1. \A i \in DOMAIN t.receipts : t.receipts[i] = "INSTALL" <=> i = Len(s.receipts) + 1
        BY <1>3, <2>1 DEF InstalledOnce, FitsAfter
      <3>2. Len(s.receipts) + 1 \in DOMAIN t.receipts
        BY <1>3
      <3>3. t.installed
        BY <1>2, <2>1 DEF FitsAfter
      <3> QED BY <3>1, <3>2, <3>3 DEF InstalledOnce
    <2>2. CASE action # "INSTALL"
      <3>1. \A i \in DOMAIN t.receipts : t.receipts[i] = "INSTALL" <=> i \in DOMAIN s.receipts /\ s.receipts[i] = "INSTALL"
        BY <1>3, <2>2
      <3>2. DOMAIN s.receipts \subseteq DOMAIN t.receipts /\ t.installed = s.installed
        BY <1>3, <1>4, <2>2 DEF ManagerState, FitsAfter
      <3> HIDE DEF InstalledOnce
      <3> QED BY <3>1, <3>2 DEF InstalledOnce
    <2> QED BY <2>1, <2>2
  <1> QED BY <1>t, <1>4, <1>5, <1>6, <1>7 DEF ReceiptKept

(* A state that may replace the one in memory, however its persist ends.   *)
LEMMA StoredKeeps ==
  ASSUME ManagerInv, ManagerUp, NEW s \in ManagerState, NEW answer,
         InstalledOnce(s), s.active => s.installed,
         \A r \in smAnswered \cup answer : StillHas(s, r),
         Stored(s, answer), smHeld' \in {0, 1}, smHeld' = 1 => smMem' # Stopped /\ ~s.installed
  PROVE  ManagerInv'
  <1>0. s # Stopped /\ smFile # Stopped
    BY ManagerAssumption DEF ManagerInv
  <1>1. smMem' \in {s, Stopped} /\ smFile' \in {smFile, s}
    BY DEF Stored
  <1>2. \A x \in {smMem', smFile'} \ {Stopped} : InstalledOnce(x) /\ (x.active => x.installed)
    BY <1>0, <1>1 DEF ManagerInv
  <1>3. \A r \in smAnswered' : StillHas(smFile', r) /\ (smMem' # Stopped => StillHas(smMem', r))
    <2>1. CASE smMem' = s /\ smFile' = s /\ smAnswered' = smAnswered \cup answer
      BY <2>1
    <2>2. CASE smAnswered' = smAnswered
      BY <1>1, <2>2 DEF ManagerInv
    <2> QED BY <2>1, <2>2 DEF Stored
  <1>4. /\ smMem' \in ManagerState \cup {Stopped} /\ smFile' \in ManagerState
        /\ smHeld' = 1 => smMem' # Stopped /\ ~smMem'.installed
    BY <1>1 DEF ManagerInv
  <1> HIDE DEF InstalledOnce, StillHas
  <1>5. \A x \in {smMem, smFile}' \ {Stopped} : InstalledOnce(x) /\ (x.active => x.installed)
    BY <1>2
  <1> QED BY <1>3, <1>4, <1>5 DEF ManagerInv, ManagerUp, InstalledOnce, StillHas

LEMMA ManagerKeeps ==
  ASSUME ManagerInv, [ManagerNext]_smVars
  PROVE  ManagerInv'
  <1>0. ManagerUp => /\ smMem \in ManagerState /\ InstalledOnce(smMem) /\ (smMem.active => smMem.installed)
                     /\ \A r \in smAnswered : StillHas(smMem, r)
    BY DEF ManagerInv, ManagerUp
  <1>1. CASE UNCHANGED smVars
    BY <1>1 DEF smVars, ManagerInv, InstalledOnce, StillHas, ManagerUp
  <1>2. CASE ManagerKilled
    BY <1>2, ManagerAssumption DEF ManagerKilled, ManagerInv, InstalledOnce, StillHas, ManagerUp
  <1>3. CASE ManagerStarts
    BY <1>3, ManagerAssumption DEF ManagerStarts, ManagerInv, InstalledOnce, StillHas, ManagerUp
  <1>4. CASE InstallAsked
    BY <1>4 DEF InstallAsked, ManagerInv, InstalledOnce, StillHas, ManagerUp
  <1>5. CASE InstallCommits
    <2>0. PICK x \in BOOLEAN : x = TRUE
      OBVIOUS
    <2>s. PICK s : s = WithReceipt([smMem EXCEPT !.installed = x], "INSTALL")
      OBVIOUS
    <2>1. ManagerUp /\ smHeld = 1 /\ ~smMem.installed /\ Stored(s, Made(s)) /\ smHeld' = 0
      BY <1>5, <2>0, <2>s DEF InstallCommits, ManagerInv
    <2>2. s = [installed |-> x, active |-> smMem.active, receipts |-> Append(smMem.receipts, "INSTALL")]
      BY <1>0, <2>1, <2>s DEF ManagerState, WithReceipt
    <2>3. smMem.active \in BOOLEAN /\ smMem.installed \in BOOLEAN /\ x
      BY <1>0, <2>0, <2>1 DEF ManagerState
    <2>4. /\ s \in ManagerState /\ s.installed /\ InstalledOnce(s)
          /\ \A r : StillHas(smMem, r) => StillHas(s, r)
          /\ \A r \in Made(s) : StillHas(s, r)
      <3>1. smMem \in ManagerState /\ InstalledOnce(smMem) /\ x \in BOOLEAN /\ smMem.active \in BOOLEAN
        BY <1>0, <2>0, <2>1, <2>3
      <3>2. FitsAfter(smMem, x, "INSTALL") /\ "INSTALL" \in {"INSTALL", "ACTIVATE", "ROLLBACK"}
        BY <2>1, <2>3 DEF FitsAfter
      <3>3. ReceiptKept(smMem, x, smMem.active, OneReceipt(smMem, x, smMem.active, "INSTALL"))
        BY <3>1, <3>2, ReceiptMade
      <3>4. s = OneReceipt(smMem, x, smMem.active, "INSTALL")
        BY <2>2 DEF OneReceipt
      <3>5. ReceiptKept(smMem, x, smMem.active, s)
        BY <3>3, <3>4
      <3> QED BY <2>3, <3>5 DEF ReceiptKept
    <2> QED BY <1>0, <2>1, <2>4, StoredKeeps
  <1>6. ASSUME ManagerUp, NEW active \in BOOLEAN, active => smMem.installed, NEW action \in {"ACTIVATE", "ROLLBACK"},
               NEW s, s = WithReceipt([smMem EXCEPT !.active = active], action),
               NEW answer, answer \subseteq Made(s), Stored(s, answer),
               smHeld' = IF smMem' = Stopped THEN 0 ELSE smHeld
        PROVE  ManagerInv'
    <2>1. s = [installed |-> smMem.installed, active |-> active, receipts |-> Append(smMem.receipts, action)]
      BY <1>0, <1>6 DEF ManagerState, WithReceipt
    <2>2. smMem.installed \in BOOLEAN
      BY <1>0, <1>6 DEF ManagerState
    <2>3. /\ s \in ManagerState /\ s.installed = smMem.installed /\ s.active = active /\ InstalledOnce(s)
          /\ \A r : StillHas(smMem, r) => StillHas(s, r)
          /\ \A r \in Made(s) : StillHas(s, r)
      <3>1. FitsAfter(smMem, smMem.installed, action) /\ action \in {"INSTALL", "ACTIVATE", "ROLLBACK"}
        BY DEF FitsAfter
      <3>2. smMem \in ManagerState /\ InstalledOnce(smMem)
        BY <1>0, <1>6
      <3>3. ReceiptKept(smMem, smMem.installed, active, OneReceipt(smMem, smMem.installed, active, action))
        BY <2>2, <3>1, <3>2, ReceiptMade
      <3>4. s = OneReceipt(smMem, smMem.installed, active, action)
        BY <2>1 DEF OneReceipt
      <3>5. ReceiptKept(smMem, smMem.installed, active, s)
        BY <3>3, <3>4
      <3> QED BY <3>5 DEF ReceiptKept
    <2>4. smHeld' \in {0, 1} /\ (smHeld' = 1 => smMem' # Stopped /\ ~s.installed)
      BY <1>6, <2>3 DEF ManagerInv
    <2>5. \A r \in smAnswered \cup answer : StillHas(s, r)
      BY <1>0, <1>6, <2>3
    <2> QED BY <1>6, <2>3, <2>4, <2>5, StoredKeeps
  <1>7. CASE Activate
    <2>1. ManagerUp /\ smMem.installed /\ smHeld' = IF smMem' = Stopped THEN 0 ELSE smHeld
      BY <1>7 DEF Activate
    <2>2. CASE LET s == WithReceipt([smMem EXCEPT !.active = TRUE], "ACTIVATE") IN Stored(s, Made(s))
      BY <1>6, <2>1, <2>2
    <2>3. CASE smMem' \in {smMem, Stopped} /\ UNCHANGED <<smFile, smAnswered>>
      BY <2>1, <2>3 DEF ManagerInv, InstalledOnce, StillHas, ManagerUp
    <2>4. CASE LET s == WithReceipt([smMem EXCEPT !.active = FALSE], "ROLLBACK") IN Stored(s, {})
      BY <1>6, <2>1, <2>4
    <2> QED BY <1>7, <2>2, <2>3, <2>4 DEF Activate
  <1>8. CASE Rollback
    BY <1>6, <1>8 DEF Rollback
  <1>9. CASE ResetManager
    <2>1. InitialState \in ManagerState /\ InstalledOnce(InitialState) /\ ~InitialState.active
      BY DEF InitialState, ManagerState, InstalledOnce
    <2>2. /\ smMem' \in {InitialState, Stopped} /\ smFile' \in {smFile, InitialState} /\ smAnswered' = {}
          /\ smHeld' \in {0, 1} /\ (smHeld' = 1 => smMem' # Stopped)
      BY <1>9, ManagerAssumption DEF ResetManager, ManagerInv
    <2>3. ~InitialState.installed /\ smFile # Stopped /\ smFile \in ManagerState
      BY ManagerAssumption DEF InitialState, ManagerInv
    <2> QED BY <2>1, <2>2, <2>3 DEF ManagerInv, ManagerUp
  <1>10. CASE ManagerPersisted
    BY <1>0, <1>10 DEF ManagerPersisted, ManagerInv, InstalledOnce, StillHas, ManagerUp
  <1> QED BY <1>1, <1>2, <1>3, <1>4, <1>5, <1>7, <1>8, <1>9, <1>10 DEF ManagerNext

-----------------------------------------------------------------------------
(* The builder's core                                                      *)

(* A state file as BuilderInv has it.                                      *)
BuilderFileOk(s, base, cut) ==
  /\ IsBuilderState(s) /\ IsFiniteSet(DOMAIN s.receipts)
  /\ (cut => s.writes < s.attempts) /\ (~cut => s.target = base) /\ OnlyWritten(s.target, base)
  /\ \A id \in DOMAIN s.receipts :
       /\ s.receipts[id].request.id = id /\ s.receipts[id].final = s.receipts[id].before
       /\ OnlyWritten(s.receipts[id].before, base)
       /\ ~cut => s.receipts[id].before = base
  /\ s.reads = Cardinality(BuilderMade("READ", s)) /\ s.writes = Cardinality(BuilderMade("WRITE", s))
  /\ s.writes <= s.attempts

LEMMA BuilderStateParts ==
  ASSUME NEW s, IsBuilderState(s)
  PROVE  /\ s # NoBuilder
         /\ s = [target |-> s.target, receipts |-> s.receipts, reads |-> s.reads, writes |-> s.writes, attempts |-> s.attempts]
         /\ s.target \in BuilderTargets /\ s.reads \in Nat /\ s.writes \in Nat /\ s.attempts \in Nat
         /\ DOMAIN s.receipts \subseteq {a.request : a \in BuilderCaps}
         /\ s.receipts \in [DOMAIN s.receipts -> BuilderReceipt]
  <1>1. s # NoBuilder
    BY BuilderAssumption
  <1>2. PICK ids \in SUBSET {a.request : a \in BuilderCaps} :
          s \in [target : BuilderTargets, receipts : [ids -> BuilderReceipt], reads : Nat, writes : Nat, attempts : Nat]
    BY DEF IsBuilderState
  <1> QED BY <1>1, <1>2

LEMMA BuilderFileIsOk ==
  ASSUME BuilderInv, bcFile # NoBuilder
  PROVE  BuilderFileOk(bcFile, bcBase, bcCut)
  BY DEF BuilderInv, BuilderRestores, BuilderFileOk

LEMMA BuilderInvFrom ==
  ASSUME bcContract' \in BuilderContracts, bcCut' \in BOOLEAN, bcFile' = NoBuilder => ~bcCut',
         bcFile' # NoBuilder => BuilderFileOk(bcFile', bcBase', bcCut'), bcMem' # NoBuilder => bcMem' = bcFile',
         \A receipt \in bcAccepted' : BuilderHolds(receipt)',
         AnswerUnderWay' => BuilderHolds(bcAgent.receipt)'
  PROVE  BuilderInv'
  <1>1. BuilderRestores'
    BY DEF BuilderRestores, BuilderFileOk, BuilderHolds
  <1>2. bcFile' # NoBuilder =>
          /\ IsBuilderState(bcFile') /\ IsFiniteSet(DOMAIN bcFile'.receipts)
          /\ \A id \in DOMAIN bcFile'.receipts : bcFile'.receipts[id].request.id = id
    BY DEF BuilderFileOk
  <1> QED BY <1>1, <1>2 DEF BuilderInv, BuilderUp

LEMMA BuilderInitial == BuilderInit => BuilderInv
  BY DEF BuilderInit, BuilderInv, BuilderRestores, BuilderUp, AnswerUnderWay

LEMMA NewStateOk ==
  ASSUME bcContract \in BuilderContracts
  PROVE  BuilderFileOk(NewState, bcContract.target, FALSE) /\ NewState # NoBuilder
  <1>1. IsBuilderState(NewState)
    <2>1. NewState \in [target : BuilderTargets, receipts : [{} -> BuilderReceipt], reads : Nat, writes : Nat, attempts : Nat]
      BY BuilderAssumption DEF NewState
    <2> QED BY <2>1 DEF IsBuilderState
  <1>2. /\ DOMAIN NewState.receipts = {} /\ NewState.target = bcContract.target
        /\ NewState.reads = 0 /\ NewState.writes = 0 /\ NewState.attempts = 0
    BY DEF NewState
  <1>3. BuilderMade("READ", NewState) = {} /\ BuilderMade("WRITE", NewState) = {}
    BY <1>2 DEF BuilderMade
  <1>4. OnlyWritten(NewState.target, bcContract.target)
    BY <1>2 DEF OnlyWritten
  <1>5. /\ NewState.reads = Cardinality(BuilderMade("READ", NewState))
        /\ NewState.writes = Cardinality(BuilderMade("WRITE", NewState))
        /\ NewState.writes <= NewState.attempts
    BY <1>2, <1>3, FS_EmptySet
  <1>6. IsFiniteSet(DOMAIN NewState.receipts)
    BY <1>2, FS_EmptySet
  <1> HIDE DEF NewState
  <1>7. NewState # NoBuilder
    BY <1>1, BuilderStateParts
  <1> QED BY <1>1, <1>2, <1>4, <1>5, <1>6, <1>7, Zenon DEF BuilderFileOk

(* A state with one attempt more, and a target.                            *)
LEMMA AttemptOk ==
  ASSUME NEW s, NEW base, NEW cut, BuilderFileOk(s, base, cut),
         NEW t, NEW target \in BuilderTargets, NEW cutNow,
         t = [target |-> target, receipts |-> s.receipts, reads |-> s.reads, writes |-> s.writes, attempts |-> s.attempts + 1],
         cut => cutNow, ~cutNow => target = base, OnlyWritten(target, base)
  PROVE  BuilderFileOk(t, base, cutNow)
  <1>0. /\ s.reads \in Nat /\ s.writes \in Nat /\ s.attempts \in Nat
        /\ DOMAIN s.receipts \subseteq {a.request : a \in BuilderCaps}
        /\ s.receipts \in [DOMAIN s.receipts -> BuilderReceipt]
    BY BuilderStateParts DEF BuilderFileOk
  <1>1. IsBuilderState(t)
    <2>1. t \in [target : BuilderTargets, receipts : [DOMAIN s.receipts -> BuilderReceipt], reads : Nat, writes : Nat, attempts : Nat]
      BY <1>0
    <2> QED BY <1>0, <2>1 DEF IsBuilderState
  <1>2. /\ t.receipts = s.receipts /\ t.reads = s.reads /\ t.writes = s.writes
        /\ t.attempts = s.attempts + 1 /\ t.target = target
    OBVIOUS
  <1>3. BuilderMade("READ", t) = BuilderMade("READ", s) /\ BuilderMade("WRITE", t) = BuilderMade("WRITE", s)
    BY <1>2 DEF BuilderMade
  <1>4. t.writes <= t.attempts /\ t.writes < t.attempts
    BY <1>0, <1>2 DEF BuilderFileOk
  <1> QED BY <1>1, <1>2, <1>3, <1>4 DEF BuilderFileOk

(* A request that passes is of a capability of the contract.               *)
LEMMA CapabilityOf ==
  ASSUME bcContract \in BuilderContracts, NEW r, ValidRequest(r)
  PROVE  /\ Capability(r) \in BuilderCaps /\ Template(Capability(r)) = r
         /\ r.id = Capability(r).request /\ r.value = Capability(r).value
  <1>1. Capability(r) \in bcContract.caps /\ Template(Capability(r)) = r
    BY DEF ValidRequest, Capability
  <1>2. Capability(r) \in BuilderCaps
    BY <1>1 DEF BuilderCaps
  <1> QED BY <1>1, <1>2 DEF Template

(* A state with one receipt more.                                          *)
LEMMA ReceiptOk ==
  ASSUME bcContract \in BuilderContracts, NEW r, ValidRequest(r),
         NEW s, NEW base, NEW cut, BuilderFileOk(s, base, cut), r.id \notin DOMAIN s.receipts,
         NEW outcome \in {"READ", "WRITE"}, NEW effect \in BuilderTargets, NEW u,
         u = [target |-> s.target, receipts |-> s.receipts, reads |-> u.reads, writes |-> u.writes, attempts |-> s.attempts],
         outcome = "READ" => u.reads = s.reads + 1 /\ u.writes = s.writes,
         outcome = "WRITE" => /\ u.reads = s.reads /\ u.writes = s.writes + 1 /\ s.writes < s.attempts
                              /\ cut => s.writes + 1 < s.attempts,
         NEW t, t = WithBuilderReceipt(u, r, outcome, s.target, effect)
  PROVE  /\ BuilderFileOk(t, base, cut)
         /\ r.id \in DOMAIN t.receipts /\ t.receipts[r.id].request = r
         /\ \A id \in DOMAIN s.receipts : id \in DOMAIN t.receipts /\ t.receipts[id] = s.receipts[id]
  <1>0. /\ s.target \in BuilderTargets /\ s.reads \in Nat /\ s.writes \in Nat /\ s.attempts \in Nat
        /\ DOMAIN s.receipts \subseteq {a.request : a \in BuilderCaps}
        /\ s.receipts \in [DOMAIN s.receipts -> BuilderReceipt]
    BY BuilderStateParts DEF BuilderFileOk
  <1> DEFINE receipt == [request |-> r, route |-> Capability(r).route, outcome |-> outcome,
                         before |-> s.target, effect |-> effect, final |-> s.target]
             all == [id \in DOMAIN s.receipts \cup {r.id} |-> IF id = r.id THEN receipt ELSE s.receipts[id]]
  <1>1. receipt \in BuilderReceipt /\ r.id \in {a.request : a \in BuilderCaps}
    BY <1>0, CapabilityOf DEF BuilderReceipt
  <1>2. /\ receipt.request = r /\ receipt.outcome = outcome
        /\ receipt.before = s.target /\ receipt.final = s.target
    OBVIOUS
  <1>3. /\ t.target = s.target /\ t.receipts = all /\ t.attempts = s.attempts
        /\ t.reads = u.reads /\ t.writes = u.writes
        /\ t = [target |-> s.target, receipts |-> all, reads |-> u.reads, writes |-> u.writes, attempts |-> s.attempts]
    BY DEF WithBuilderReceipt
  <1> HIDE DEF receipt
  <1>4. all \in [DOMAIN s.receipts \cup {r.id} -> BuilderReceipt] /\ u.reads \in Nat /\ u.writes \in Nat
    BY <1>0, <1>1
  <1>5. /\ DOMAIN all = DOMAIN s.receipts \cup {r.id} /\ all[r.id] = receipt
        /\ \A id \in DOMAIN s.receipts : all[id] = s.receipts[id]
    OBVIOUS
  <1> HIDE DEF all
  <1>6. IsBuilderState(t)
    <2>1. t \in [target : BuilderTargets, receipts : [DOMAIN s.receipts \cup {r.id} -> BuilderReceipt],
                 reads : Nat, writes : Nat, attempts : Nat]
      BY <1>0, <1>3, <1>4
    <2>2. DOMAIN s.receipts \cup {r.id} \in SUBSET {a.request : a \in BuilderCaps}
      BY <1>0, <1>1
    <2> QED BY <2>1, <2>2 DEF IsBuilderState
  <1>7. IsFiniteSet(DOMAIN t.receipts)
    BY <1>3, <1>5, FS_AddElement DEF BuilderFileOk
  <1>8. /\ IsFiniteSet(BuilderMade(outcome, s)) /\ r.id \notin BuilderMade(outcome, s)
        /\ BuilderMade(outcome, t) = BuilderMade(outcome, s) \cup {r.id}
        /\ \A other \in {"READ", "WRITE"} \ {outcome} : BuilderMade(other, t) = BuilderMade(other, s)
    <2>1. BuilderMade(outcome, s) \subseteq DOMAIN s.receipts /\ IsFiniteSet(DOMAIN s.receipts)
      BY DEF BuilderMade, BuilderFileOk
    <2>2. BuilderMade(outcome, t) = BuilderMade(outcome, s) \cup {r.id}
      BY <1>2, <1>3, <1>5 DEF BuilderMade
    <2>3. ASSUME NEW other \in {"READ", "WRITE"} \ {outcome} PROVE BuilderMade(other, t) = BuilderMade(other, s)
      BY <1>2, <1>3, <1>5 DEF BuilderMade
    <2> QED BY <2>1, <2>2, <2>3, FS_Subset
  <1>9. /\ t.reads = Cardinality(BuilderMade("READ", t)) /\ t.writes = Cardinality(BuilderMade("WRITE", t))
        /\ t.writes <= t.attempts /\ (cut => t.writes < t.attempts)
    <2>1. Cardinality(BuilderMade(outcome, t)) = Cardinality(BuilderMade(outcome, s)) + 1
      <3>1. PICK made : made = BuilderMade(outcome, s)
        OBVIOUS
      <3>2. IsFiniteSet(made) /\ r.id \notin made
        BY <1>8, <3>1
      <3>3. Cardinality(made \cup {r.id}) = Cardinality(made) + 1
        BY <3>2, FS_AddElement
      <3> QED BY <1>8, <3>1, <3>3
    <2>2. /\ s.reads = Cardinality(BuilderMade("READ", s)) /\ s.writes = Cardinality(BuilderMade("WRITE", s))
          /\ s.writes <= s.attempts /\ (cut => s.writes < s.attempts)
      BY DEF BuilderFileOk
    <2>3. CASE outcome = "READ"
      BY <1>3, <1>8, <2>1, <2>2, <2>3
    <2>4. CASE outcome = "WRITE"
      BY <1>0, <1>3, <1>8, <2>1, <2>2, <2>4
    <2> QED BY <2>3, <2>4
  <1>10. \A id \in DOMAIN t.receipts :
           /\ t.receipts[id].request.id = id /\ t.receipts[id].final = t.receipts[id].before
           /\ OnlyWritten(t.receipts[id].before, base)
           /\ ~cut => t.receipts[id].before = base
    <2> SUFFICES ASSUME NEW id \in DOMAIN all
                 PROVE  /\ all[id].request.id = id /\ all[id].final = all[id].before
                        /\ OnlyWritten(all[id].before, base) /\ (~cut => all[id].before = base)
      BY <1>3
    <2>1. CASE id = r.id
      BY <1>2, <1>5, <2>1 DEF BuilderFileOk
    <2>2. CASE id \in DOMAIN s.receipts
      BY <1>5, <2>2 DEF BuilderFileOk
    <2> QED BY <1>5, <2>1, <2>2
  <1>11. (~cut => t.target = base) /\ OnlyWritten(t.target, base)
    BY <1>3 DEF BuilderFileOk
  <1> QED BY <1>2, <1>3, <1>5, <1>6, <1>7, <1>9, <1>10, <1>11 DEF BuilderFileOk

(* A handler ends: the files it may leave are as BuilderInv has them, and  *)
(* still hold the receipts.                                                *)
LEMMA EndsKeep ==
  ASSUME BuilderInv, BuilderUp, NEW r, bcAgent = [request |-> r, receipt |-> NoBuilder],
         NEW s, NEW files, NEW receipt, Ends(s, files, receipt),
         UNCHANGED <<bcContract, bcAccepted, bcBase>>, bcCut' \in BOOLEAN,
         BuilderFileOk(bcFile', bcBase, bcCut'),
         \A id \in DOMAIN bcFile.receipts :
           id \in DOMAIN bcFile'.receipts /\ bcFile'.receipts[id] = bcFile.receipts[id],
         receipt.request = r, r.id \in DOMAIN s.receipts, s.receipts[r.id] = receipt
  PROVE  BuilderInv'
  <1>1. (bcMem' = s /\ bcFile' = s) \/ bcMem' = NoBuilder
    BY DEF Ends
  <1>2. BuilderFileOk(bcFile', bcBase, bcCut') /\ bcFile' # NoBuilder
    BY BuilderStateParts DEF BuilderFileOk
  <1>3. \A x \in bcAccepted' : BuilderHolds(x)'
    BY <1>2 DEF BuilderInv, BuilderHolds
  <1>4. AnswerUnderWay' => BuilderHolds(bcAgent.receipt)'
    <2>1. CASE bcAgent' = NoBuilder
      BY <2>1 DEF AnswerUnderWay
    <2>2. CASE bcAgent' # NoBuilder
      <3>1. bcFile' = s /\ bcAgent' = [bcAgent EXCEPT !.receipt = receipt]
        BY <2>2 DEF Ends, AgentAnswered, AgentTold
      <3>2. bcAgent'.receipt = receipt
        BY <3>1
      <3> QED BY <1>2, <3>1, <3>2 DEF BuilderHolds
    <2> QED BY <2>1, <2>2
  <1>5. bcContract' \in BuilderContracts
    BY DEF BuilderInv
  <1> QED BY <1>1, <1>2, <1>3, <1>4, <1>5, BuilderInvFrom

(* Nothing is written, and the agent is answered with what the file has,   *)
(* or told nothing.                                                        *)
LEMMA FileStays ==
  ASSUME BuilderInv, UNCHANGED <<bcFile, bcBase, bcCut>>,
         bcContract' \in BuilderContracts, bcMem' \in {bcMem, NoBuilder},
         \A receipt \in bcAccepted' : BuilderHolds(receipt),
         AnswerUnderWay' => BuilderHolds(bcAgent'.receipt)
  PROVE  BuilderInv'
  <1>1. \A receipt \in bcAccepted' : BuilderHolds(receipt)'
    BY DEF BuilderHolds
  <1>2. AnswerUnderWay' => BuilderHolds(bcAgent.receipt)'
    BY DEF BuilderHolds
  <1>3. bcFile' # NoBuilder => BuilderFileOk(bcFile', bcBase', bcCut')
    BY BuilderFileIsOk
  <1>4. /\ bcCut' \in BOOLEAN /\ (bcMem' # NoBuilder => bcMem' = bcFile')
        /\ bcFile' = NoBuilder => ~bcCut'
    BY DEF BuilderInv, BuilderUp
  <1> QED BY <1>1, <1>2, <1>3, <1>4, BuilderInvFrom

LEMMA ExecuteReadKeeps ==
  ASSUME BuilderInv, NEW r \in Sent, ExecuteRead(r)
  PROVE  BuilderInv'
  <1>a. PICK u : u = [bcMem EXCEPT !.reads = @ + 1]
    OBVIOUS
  <1>b. PICK s : s = WithBuilderReceipt(u, r, "READ", bcMem.target, bcMem.target)
    OBVIOUS
  <1>1. /\ BuilderUp /\ ValidRequest(r) /\ r.id \notin DOMAIN bcMem.receipts
        /\ Ends(s, {bcFile, s}, s.receipts[r.id]) /\ UNCHANGED <<bcContract, bcAccepted, bcBase, bcCut>>
    BY <1>a, <1>b DEF ExecuteRead, First
  <1>2. bcMem = bcFile /\ bcFile # NoBuilder /\ BuilderFileOk(bcFile, bcBase, bcCut) /\ bcContract \in BuilderContracts
    BY <1>1, BuilderFileIsOk DEF BuilderInv, BuilderUp
  <1>3. /\ bcFile.target \in BuilderTargets
        /\ u = [target |-> bcFile.target, receipts |-> bcFile.receipts, reads |-> u.reads,
                writes |-> u.writes, attempts |-> bcFile.attempts]
        /\ u.reads = bcFile.reads + 1 /\ u.writes = bcFile.writes
    BY <1>2, <1>a, BuilderStateParts DEF BuilderFileOk
  <1>4. /\ BuilderFileOk(s, bcBase, bcCut)
        /\ r.id \in DOMAIN s.receipts /\ s.receipts[r.id].request = r
        /\ \A id \in DOMAIN bcFile.receipts : id \in DOMAIN s.receipts /\ s.receipts[id] = bcFile.receipts[id]
    <2>1. s = WithBuilderReceipt(u, r, "READ", bcFile.target, bcFile.target) /\ r.id \notin DOMAIN bcFile.receipts
      BY <1>1, <1>2, <1>b
    <2> QED BY <1>1, <1>2, <1>3, <2>1, ReceiptOk
  <1>5. bcAgent = [request |-> r, receipt |-> NoBuilder] /\ bcCut' \in BOOLEAN
    BY <1>1 DEF Sent, BuilderInv
  <1>6. bcFile' = s \/ bcFile' = bcFile
    BY <1>1 DEF Ends
  <1>7. /\ BuilderFileOk(bcFile', bcBase, bcCut')
        /\ \A id \in DOMAIN bcFile.receipts :
             id \in DOMAIN bcFile'.receipts /\ bcFile'.receipts[id] = bcFile.receipts[id]
    BY <1>1, <1>2, <1>4, <1>6
  <1> QED BY <1>1, <1>4, <1>5, <1>7, EndsKeep

(* The prior value is put back.                                            *)
LEMMA RestoredTarget ==
  ASSUME NEW target \in BuilderTargets, NEW field, NEW value \in BuilderValues
  PROVE  /\ [target EXCEPT ![field] = value] \in BuilderTargets
         /\ [[target EXCEPT ![field] = value] EXCEPT ![field] = target[field]] = target
  <1>1. PICK c \in BuilderContracts : target \in [DOMAIN c.target -> BuilderValues]
    BY DEF BuilderTargets
  <1>2. [target EXCEPT ![field] = value] \in [DOMAIN c.target -> BuilderValues]
    BY <1>1
  <1> QED BY <1>1, <1>2 DEF BuilderTargets

LEMMA ExecuteWriteKeeps ==
  ASSUME BuilderInv, NEW r \in Sent, ExecuteWrite(r)
  PROVE  BuilderInv'
  <1>a. PICK field : field = Capability(r).field
    OBVIOUS
  <1>b. PICK target : target = [bcMem.target EXCEPT ![field] = r.value]
    OBVIOUS
  <1>c. PICK written : written = [bcMem EXCEPT !.attempts = @ + 1, !.target[field] = r.value]
    OBVIOUS
  <1>d. PICK restored : restored = Restored(written, field, bcMem.target[field])
    OBVIOUS
  <1>e. PICK u : u = [restored EXCEPT !.writes = @ + 1]
    OBVIOUS
  <1>f. PICK done : done = WithBuilderReceipt(u, r, "WRITE", bcMem.target, written.target)
    OBVIOUS
  <1>1. /\ BuilderUp /\ ValidRequest(r) /\ r.id \notin DOMAIN bcMem.receipts
        /\ Capability(r).kind = "REVERSIBLE_WRITE_FIELD"
        /\ \/ Ends(done, {bcFile, written, restored, done}, done.receipts[r.id])
           \/ bcMem' = restored /\ bcFile' = restored /\ AgentTold
        /\ bcCut' = (bcCut \/ (bcMem' = NoBuilder /\ bcFile' = written))
        /\ UNCHANGED <<bcContract, bcAccepted, bcBase>>
    BY <1>a, <1>b, <1>c, <1>d, <1>e, <1>f DEF ExecuteWrite, First
  <1>2. bcMem = bcFile /\ bcFile # NoBuilder /\ BuilderFileOk(bcFile, bcBase, bcCut) /\ bcContract \in BuilderContracts
    BY <1>1, BuilderFileIsOk DEF BuilderInv, BuilderUp
  <1>3. /\ bcFile = [target |-> bcFile.target, receipts |-> bcFile.receipts, reads |-> bcFile.reads,
                     writes |-> bcFile.writes, attempts |-> bcFile.attempts]
        /\ bcFile.target \in BuilderTargets /\ bcFile.attempts \in Nat /\ bcFile.writes \in Nat
    BY <1>2, BuilderStateParts DEF BuilderFileOk
  <1>4. r.value \in BuilderValues
    <2>1. Capability(r) \in BuilderCaps /\ r.value = Capability(r).value
      BY <1>1, <1>2, CapabilityOf
    <2>2. r.value \in {a.value : a \in BuilderCaps}
      BY <2>1
    <2> QED BY <2>2 DEF BuilderValues
  <1>5. /\ target \in BuilderTargets /\ [target EXCEPT ![field] = bcFile.target[field]] = bcFile.target
        /\ OnlyWritten(target, bcBase)
    <2>1. r.value \in Writable(field)
      <3>1. PICK x : x = Capability(r)
        OBVIOUS
      <3>2. x \in BuilderCaps /\ r.value = x.value /\ x.kind = "REVERSIBLE_WRITE_FIELD" /\ x.field = field
        BY <1>1, <1>2, <1>a, <3>1, CapabilityOf
      <3> QED BY <3>2 DEF Writable
    <2>2. OnlyWritten(bcFile.target, bcBase)
      BY <1>2 DEF BuilderFileOk
    <2>3. /\ DOMAIN target = DOMAIN bcFile.target
          /\ \A f \in DOMAIN target : target[f] = bcFile.target[f] \/ (f = field /\ target[f] = r.value)
      BY <1>2, <1>b
    <2>4. OnlyWritten(target, bcBase)
      BY <2>1, <2>2, <2>3 DEF OnlyWritten
    <2> QED BY <1>2, <1>3, <1>4, <1>b, <2>4, RestoredTarget
  <1>6. written = [target |-> target, receipts |-> bcFile.receipts, reads |-> bcFile.reads,
                   writes |-> bcFile.writes, attempts |-> bcFile.attempts + 1]
    BY <1>2, <1>3, <1>b, <1>c
  <1>7. restored = [target |-> bcFile.target, receipts |-> bcFile.receipts, reads |-> bcFile.reads,
                    writes |-> bcFile.writes, attempts |-> bcFile.attempts + 1]
    BY <1>2, <1>5, <1>6, <1>d DEF Restored
  <1>8. /\ bcCut' \in BOOLEAN /\ (bcCut => bcCut')
        /\ ~(bcMem' = NoBuilder /\ bcFile' = written) => bcCut' = bcCut
    <2>1. bcCut \in BOOLEAN
      BY DEF BuilderInv
    <2>2. CASE bcCut
      BY <1>1, <2>1, <2>2
    <2>3. CASE ~bcCut
      BY <1>1, <2>1, <2>3
    <2> QED BY <2>2, <2>3
  <1>9. BuilderFileOk(restored, bcBase, bcCut)
    <2>1. (~bcCut => bcFile.target = bcBase) /\ OnlyWritten(bcFile.target, bcBase)
      BY <1>2 DEF BuilderFileOk
    <2> QED BY <1>2, <1>3, <1>7, <2>1, AttemptOk
  <1>10. restored.target = bcFile.target /\ restored.receipts = bcFile.receipts
         /\ restored.writes = bcFile.writes /\ restored.attempts = bcFile.attempts + 1 /\ restored.reads = bcFile.reads
    BY <1>7
  <1>11. /\ BuilderFileOk(done, bcBase, bcCut)
         /\ r.id \in DOMAIN done.receipts /\ done.receipts[r.id].request = r
         /\ \A id \in DOMAIN bcFile.receipts : id \in DOMAIN done.receipts /\ done.receipts[id] = bcFile.receipts[id]
    <2>1. /\ u = [target |-> restored.target, receipts |-> restored.receipts, reads |-> u.reads,
                  writes |-> u.writes, attempts |-> restored.attempts]
          /\ u.reads = restored.reads /\ u.writes = restored.writes + 1
      BY <1>7, <1>e
    <2>2. restored.writes < restored.attempts /\ (bcCut => restored.writes + 1 < restored.attempts)
      BY <1>2, <1>3, <1>10 DEF BuilderFileOk
    <2>3. written.target = target /\ bcMem.target = restored.target /\ r.id \notin DOMAIN restored.receipts
      BY <1>1, <1>2, <1>6, <1>10
    <2>4. done = WithBuilderReceipt(u, r, "WRITE", restored.target, target)
      BY <2>3, <1>f
    <2>5. /\ BuilderFileOk(done, bcBase, bcCut)
          /\ r.id \in DOMAIN done.receipts /\ done.receipts[r.id].request = r
          /\ \A id \in DOMAIN restored.receipts : id \in DOMAIN done.receipts /\ done.receipts[id] = restored.receipts[id]
      BY <1>1, <1>2, <1>5, <1>9, <2>1, <2>2, <2>3, <2>4, ReceiptOk
    <2> QED BY <1>10, <2>5
  <1>12. bcAgent = [request |-> r, receipt |-> NoBuilder]
    BY DEF Sent
  <1>13. CASE Ends(done, {bcFile, written, restored, done}, done.receipts[r.id])
    <2>1. bcFile' \in {bcFile, written, restored, done}
      BY <1>13 DEF Ends
    <2>2. BuilderFileOk(bcFile', bcBase, bcCut')
      <3>1. CASE bcFile' = written /\ bcMem' = NoBuilder
        <4>1. bcCut' /\ (bcCut => bcCut')
          BY <1>1, <3>1
        <4>2. BuilderFileOk(written, bcBase, bcCut')
          BY <1>2, <1>5, <1>6, <4>1, AttemptOk
        <4> QED BY <3>1, <4>2
      <3>2. CASE ~(bcFile' = written /\ bcMem' = NoBuilder)
        <4>1. bcCut' = bcCut
          BY <1>8, <3>2
        <4>2. bcFile' = bcFile \/ bcFile' = restored \/ bcFile' = done
          BY <1>13, <3>2 DEF Ends
        <4> QED BY <1>2, <1>9, <1>11, <4>1, <4>2
      <3> QED BY <3>1, <3>2
    <2>3. \A id \in DOMAIN bcFile.receipts :
            id \in DOMAIN bcFile'.receipts /\ bcFile'.receipts[id] = bcFile.receipts[id]
      <3>1. written.receipts = bcFile.receipts /\ restored.receipts = bcFile.receipts
        BY <1>6, <1>10
      <3> QED BY <1>11, <2>1, <3>1
    <2> QED BY <1>1, <1>8, <1>11, <1>12, <1>13, <2>2, <2>3, EndsKeep
  <1>14. CASE bcMem' = restored /\ bcFile' = restored /\ AgentTold
    <2>1. BuilderFileOk(bcFile', bcBase', bcCut') /\ bcFile' # NoBuilder
      <3>1. BuilderFileOk(bcFile', bcBase', bcCut')
        <4>1. restored # NoBuilder
          BY <1>9, BuilderStateParts DEF BuilderFileOk
        <4> QED BY <1>1, <1>8, <1>9, <1>14, <4>1
      <3> QED BY <3>1, BuilderStateParts DEF BuilderFileOk
    <2>2. \A receipt \in bcAccepted' : BuilderHolds(receipt)'
      BY <1>1, <1>10, <1>14, <2>1 DEF BuilderInv, BuilderHolds
    <2>3. ~AnswerUnderWay'
      BY <1>14 DEF AgentTold, AnswerUnderWay
    <2> QED BY <1>1, <1>2, <1>8, <1>14, <2>1, <2>2, <2>3, BuilderInvFrom
  <1> QED BY <1>1, <1>13, <1>14

LEMMA BuilderKeeps ==
  ASSUME BuilderInv, [BuilderNext]_bcVars
  PROVE  BuilderInv'
  <1>0. /\ bcContract \in BuilderContracts /\ \A receipt \in bcAccepted : BuilderHolds(receipt)
        /\ AnswerUnderWay => BuilderHolds(bcAgent.receipt)
    BY DEF BuilderInv
  <1>1. CASE UNCHANGED bcVars
    BY <1>0, <1>1, FileStays DEF bcVars, AnswerUnderWay
  <1>2. CASE BuilderStarts
    <2>1. CASE bcFile = NoBuilder
      <3>1. /\ bcFile' = NewState /\ bcMem' = NewState /\ bcBase' = bcContract.target
            /\ UNCHANGED <<bcContract, bcAgent, bcAccepted, bcCut>>
        BY <1>2, <2>1 DEF BuilderStarts
      <3>2. bcAccepted' = {} /\ ~AnswerUnderWay'
        BY <1>0, <2>1, <3>1 DEF BuilderHolds, AnswerUnderWay
      <3>3. BuilderFileOk(bcFile', bcBase', bcCut') /\ bcFile' # NoBuilder
        <4>1. bcCut' = FALSE
          BY <2>1, <3>1 DEF BuilderInv
        <4> QED BY <1>0, <3>1, <4>1, NewStateOk
      <3>4. bcCut' \in BOOLEAN
        BY <3>1 DEF BuilderInv
      <3> QED BY <1>0, <3>1, <3>2, <3>3, <3>4, BuilderInvFrom
    <2>2. CASE bcFile # NoBuilder
      <3>1. /\ bcMem' = bcFile' /\ bcFile' = bcFile
            /\ UNCHANGED <<bcContract, bcBase, bcAgent, bcAccepted, bcCut>>
        BY <1>2, <2>2 DEF BuilderStarts
      <3>2. \A receipt \in bcAccepted' : BuilderHolds(receipt)'
        BY <1>0, <3>1 DEF BuilderHolds
      <3>3. AnswerUnderWay' => BuilderHolds(bcAgent.receipt)'
        BY <1>0, <3>1 DEF BuilderHolds, AnswerUnderWay
      <3>4. bcCut' \in BOOLEAN /\ BuilderFileOk(bcFile', bcBase', bcCut')
        BY <2>2, <3>1, BuilderFileIsOk DEF BuilderInv
      <3>5. bcFile' # NoBuilder
        BY <2>2, <3>1
      <3> QED BY <1>0, <3>1, <3>2, <3>3, <3>4, <3>5, BuilderInvFrom
    <2> QED BY <2>1, <2>2
  <1>3. CASE BuilderKilled
    BY <1>0, <1>3, FileStays DEF BuilderKilled, AnswerUnderWay
  <1>4. CASE BuilderRedeployed
    BY <1>0, <1>4, FileStays DEF BuilderRedeployed, AnswerUnderWay
  <1>5. ASSUME NEW text \in BuilderTexts, AgentAsks(text) PROVE BuilderInv'
    <2>1. ~AnswerUnderWay'
      BY <1>5 DEF AgentAsks, AnswerUnderWay
    <2> QED BY <1>0, <1>5, <2>1, FileStays DEF AgentAsks
  <1>6. ASSUME NEW r \in Sent, ExecuteReplay(r) PROVE BuilderInv'
    <2>1. bcAgent = [request |-> r, receipt |-> NoBuilder] /\ bcMem = bcFile /\ bcFile # NoBuilder
      BY <1>6 DEF Sent, ExecuteReplay, BuilderInv, BuilderUp
    <2>2. /\ r.id \in DOMAIN bcFile.receipts
          /\ \/ bcFile.receipts[r.id].request = r /\ bcAgent' = [bcAgent EXCEPT !.receipt = bcFile.receipts[r.id]]
             \/ bcAgent' = NoBuilder
      BY <1>6, <2>1 DEF ExecuteReplay, AgentAnswered, AgentTold
    <2>3. AnswerUnderWay' => BuilderHolds(bcAgent'.receipt)
      <3>1. CASE bcAgent' = NoBuilder
        BY <3>1 DEF AnswerUnderWay
      <3>2. CASE bcFile.receipts[r.id].request = r /\ bcAgent' = [bcAgent EXCEPT !.receipt = bcFile.receipts[r.id]]
        <4>1. bcAgent'.receipt = bcFile.receipts[r.id]
          BY <2>1, <3>2
        <4> QED BY <2>1, <2>2, <3>2, <4>1 DEF BuilderHolds
      <3> QED BY <2>2, <3>1, <3>2
    <2> QED BY <1>0, <1>6, <2>3, FileStays DEF ExecuteReplay
  <1>7. ASSUME NEW r \in Sent, ExecuteDenied(r) PROVE BuilderInv'
    <2>1. ~AnswerUnderWay'
      BY <1>7 DEF ExecuteDenied, AgentTold, AnswerUnderWay
    <2> QED BY <1>0, <1>7, <2>1, FileStays DEF ExecuteDenied
  <1>8. CASE PluginReads
    <2>1. ~AnswerUnderWay' /\ BuilderHolds(bcAgent.receipt)
      BY <1>0, <1>8 DEF PluginReads, AnswerUnderWay
    <2>2. \A receipt \in bcAccepted' : BuilderHolds(receipt)
      BY <1>0, <1>8, <2>1 DEF PluginReads
    <2> QED BY <1>0, <1>8, <2>1, <2>2, FileStays DEF PluginReads
  <1>9. CASE BuilderReset
    <2>1. /\ bcFile' = NewState /\ bcBase' = bcContract.target /\ bcMem' \in {NewState, NoBuilder}
          /\ bcAccepted' = {} /\ bcCut' = FALSE /\ bcContract' = bcContract /\ ~AnswerUnderWay'
      BY <1>9 DEF BuilderReset, AnswerUnderWay
    <2> QED BY <1>0, <2>1, NewStateOk, BuilderInvFrom
  <1> QED BY <1>1, <1>2, <1>3, <1>4, <1>5, <1>6, <1>7, <1>8, <1>9, ExecuteReadKeeps, ExecuteWriteKeeps DEF BuilderNext

-----------------------------------------------------------------------------
(* The daily candidate                                                     *)

LEMMA ArtifactNames ==
  /\ DOMAIN Artifacts = 1..5 /\ Len(Artifacts) = 5
  /\ DailyNames = {Artifacts[i] : i \in 1..5} /\ Artifacts[2] = "candidate-report.json"
  BY DEF Artifacts, DailyNames

(* What the writes of a run are.                                           *)
LEMMA RunWrites ==
  ASSUME NEW m \in Manifests, NEW video, NEW run, RunOf(run, m, video)
  PROVE  /\ run.manifest = m.id /\ run.manifest \in {x.id : x \in Manifests}
         /\ run.verdict \in {"BLOCKED", "NO_MATERIAL_CHANGE", "READY_CANDIDATE"}
         /\ Len(run.writes) \in Nat /\ run.done \in 0..Len(run.writes)
         /\ \A i \in 1..Len(run.writes) :
              run.writes[i].name \in DailyNames /\ run.writes[i].content.manifest = m.id
         /\ run.verdict = "READY_CANDIDATE" =>
              /\ Len(run.writes) = 5
              /\ \A i \in 1..5 : run.writes[i].name = Artifacts[i] /\ run.writes[i].content = Content(Artifacts[i], m, video)
         /\ run.verdict # "READY_CANDIDATE" =>
              /\ Len(run.writes) = 1
              /\ run.writes[1].name = "candidate-report.json" /\ run.writes[1].content.of = run.verdict
  <1>1. /\ run.writes = Writes(m, video, run.verdict) /\ run.manifest = m.id
        /\ run.verdict \in {"BLOCKED", "NO_MATERIAL_CHANGE", "READY_CANDIDATE"} /\ run.done \in 0..Len(run.writes)
    BY DEF RunOf
  <1>2. \A n : Content(n, m, video).manifest = m.id
    BY DEF Content
  <1>3. CASE run.verdict = "READY_CANDIDATE"
    <2>1. run.writes = [i \in 1..5 |-> [name |-> Artifacts[i], content |-> Content(Artifacts[i], m, video)]]
      BY <1>1, <1>3, ArtifactNames DEF Writes
    <2> HIDE DEF Artifacts, Content
    <2>2. Len(run.writes) = 5
      BY <2>1
    <2>3. \A i \in 1..5 : run.writes[i].name = Artifacts[i] /\ run.writes[i].content = Content(Artifacts[i], m, video)
      BY <2>1
    <2>4. \A i \in 1..5 : Artifacts[i] \in DailyNames
      BY ArtifactNames
    <2>5. \A i \in 1..Len(run.writes) :
            run.writes[i].name \in DailyNames /\ run.writes[i].content.manifest = m.id
      BY <1>2, <2>2, <2>3, <2>4
    <2>6. run.manifest \in {x.id : x \in Manifests} /\ Len(run.writes) \in Nat
      BY <1>1, <2>2
    <2> QED BY <1>1, <1>3, <2>2, <2>3, <2>5, <2>6
  <1>4. CASE run.verdict # "READY_CANDIDATE"
    <2>1. run.writes = <<[name |-> "candidate-report.json", content |-> [manifest |-> m.id, of |-> run.verdict]]>>
      BY <1>1, <1>4 DEF Writes
    <2>2. /\ Len(run.writes) = 1 /\ run.writes[1].name = "candidate-report.json"
          /\ run.writes[1].content.of = run.verdict /\ run.writes[1].content.manifest = m.id
      BY <2>1
    <2> QED BY <1>1, <1>4, <2>2, ArtifactNames
  <1> QED BY <1>3, <1>4

LEMMA DailyInitial == DailyInit => DailyInv
  BY DEF DailyInit, DailyInv, DailyOutputIsOneCandidates

(* The state a run writes is one of its manifest.                          *)
LEMMA StateMade ==
  ASSUME NEW m \in Manifests, NEW video, NEW run, RunOf(run, m, video),
         NEW phase \in {"initialized", "generating", "complete", "blocked"}, NEW n \in 0..Len(run.writes)
  PROVE  /\ StateOf(run, phase, n) \in DailyState
         /\ StateOf(run, phase, n).manifest = m.id /\ StateOf(run, phase, n).phase = phase
         /\ StateOf(run, phase, n).files = {run.writes[i].name : i \in 1..n}
         /\ phase = "complete" => StateOf(run, phase, n).verdict = run.verdict
         /\ StateOf(run, phase, n) \notin {NoOutput, Torn}
  <1>1. {run.writes[i].name : i \in 1..n} \subseteq DailyNames
    BY RunWrites
  <1>2. run.manifest \in {x.id : x \in Manifests} /\ run.manifest = m.id
    BY RunWrites
  <1>3. run.verdict \in {"BLOCKED", "NO_MATERIAL_CHANGE", "READY_CANDIDATE"}
    BY RunWrites
  <1>4. StateOf(run, phase, n) \in DailyState
    BY <1>1, <1>2, <1>3 DEF StateOf, DailyState
  <1> QED BY <1>2, <1>4, DailyAssumption DEF StateOf

LEMMA PrepareKeeps ==
  ASSUME DailyInv, NEW m \in Manifests, NEW video \in Videos, PrepareBegins(m, video)
  PROVE  DailyInv'
  <1>a. PICK verdict : verdict = Verdict(m, video, dpSource)
    OBVIOUS
  <1>1. /\ dpRun' = [manifest |-> m.id, verdict |-> verdict, writes |-> Writes(m, video, verdict), done |-> 0, owned |-> FALSE]
        /\ UNCHANGED <<dpSource, dpState, dpFiles, dpPartial>>
    BY <1>a DEF PrepareBegins
  <1>7. PartialsAreOwn => PartialsAreOwn'
    BY <1>1 DEF PartialsAreOwn
  <1>2. verdict \in {"BLOCKED", "NO_MATERIAL_CHANGE", "READY_CANDIDATE"}
    BY <1>a DEF Verdict
  <1>3. verdict = "READY_CANDIDATE" =>
          /\ HistorySound(m)
          /\ \A c \in m.claims : \A e \in m.evidence : e.id \in c.refs => Rank(e.maturity) >= Rank(c.maturity)
    BY <1>a DEF Verdict, SemanticsSound, ClaimSound
  <1>4. Len(Writes(m, video, verdict)) \in Nat
    BY DEF Writes, Artifacts
  <1>5. RunOf(dpRun', m, video)
    <2>1. /\ dpRun'.manifest = m.id /\ dpRun'.verdict = verdict /\ dpRun'.writes = Writes(m, video, verdict)
          /\ dpRun'.done = 0 /\ dpRun'.owned = FALSE
      BY <1>1
    <2>2. dpRun' = [manifest |-> m.id, verdict |-> dpRun'.verdict, writes |-> Writes(m, video, dpRun'.verdict),
                    done |-> dpRun'.done, owned |-> dpRun'.owned]
      BY <1>1, <2>1
    <2>3. dpRun'.done \in 0..Len(dpRun'.writes) /\ dpRun'.owned \in BOOLEAN
      <3>1. Len(dpRun'.writes) \in Nat
        BY <1>4, <2>1
      <3>2. 0 \in 0..Len(dpRun'.writes)
        BY <3>1
      <3> QED BY <2>1, <3>2
    <2> HIDE DEF HistorySound, Rank, Writes
    <2> QED BY <1>2, <1>3, <2>1, <2>2, <2>3 DEF RunOf
  <1>6. dpRun'.done = 0 /\ ~dpRun'.owned
    BY <1>1
  <1> QED BY <1>1, <1>5, <1>6, <1>7 DEF DailyInv, DailyOutputIsOneCandidates, VerifiedIdentical

(* Between runs, in which a file may be left half written.                 *)
LEMMA NoRunKeeps ==
  ASSUME DailyInv, dpRun' = NoRun, UNCHANGED dpFiles,
         \/ dpState' = dpState /\ dpState \in DailyState /\ PartialsAreOwn'
         \/ UNCHANGED <<dpState, dpPartial>>
         \/ dpState = NoOutput /\ dpState' = Torn /\ UNCHANGED dpPartial
  PROVE  DailyInv'
  <1>1. CASE dpState' = dpState /\ dpState \in DailyState /\ PartialsAreOwn'
    <2>1. dpState \notin {NoOutput, Torn}
      BY <1>1, DailyAssumption
    <2> QED BY <1>1, <2>1 DEF DailyInv, DailyOutputIsOneCandidates, VerifiedIdentical
  <1>3. CASE UNCHANGED <<dpState, dpPartial>>
    <2>1. PartialsAreOwn => PartialsAreOwn'
      BY <1>3 DEF PartialsAreOwn
    <2> QED BY <1>3, <2>1 DEF DailyInv, DailyOutputIsOneCandidates, VerifiedIdentical
  <1>2. CASE dpState = NoOutput /\ dpState' = Torn /\ UNCHANGED dpPartial
    BY <1>2 DEF DailyInv, DailyOutputIsOneCandidates
  <1> QED BY <1>1, <1>2, <1>3

(* A run goes on: it owns the directory or has done one write more.        *)
LEMMA RunGoesOn ==
  ASSUME NEW m \in Manifests, NEW video, NEW run, RunOf(run, m, video),
         NEW done \in 0..Len(run.writes), NEW owned \in BOOLEAN, NEW next,
         next = [manifest |-> run.manifest, verdict |-> run.verdict, writes |-> run.writes, done |-> done, owned |-> owned]
  PROVE  RunOf(next, m, video)
  <1>1. /\ next.manifest = run.manifest /\ next.verdict = run.verdict /\ next.writes = run.writes
        /\ next.done = done /\ next.owned = owned
    OBVIOUS
  <1>2. run.manifest = m.id /\ run.writes = Writes(m, video, run.verdict)
    BY DEF RunOf
  <1>3. next = [manifest |-> m.id, verdict |-> next.verdict, writes |-> Writes(m, video, next.verdict),
                done |-> next.done, owned |-> next.owned]
    BY <1>1, <1>2
  <1> HIDE DEF HistorySound, Rank
  <1> QED BY <1>1, <1>3 DEF RunOf

(* The run under way.                                                      *)
LEMMA RunUnderWay ==
  ASSUME DailyInv, dpRun # NoRun
  PROVE  \E m \in Manifests, video \in Videos : RunOf(dpRun, m, video)
  BY DEF DailyInv

LEMMA InitializeKeeps ==
  ASSUME DailyInv, InitializeOutput
  PROVE  DailyInv'
  <1>1. dpRun # NoRun /\ ~dpRun.owned /\ dpRun.done = 0 /\ UNCHANGED <<dpFiles, dpPartial>>
    BY DEF InitializeOutput, RunIs, RunFails, DailyInv
  <1>2. PICK m \in Manifests, video \in Videos : RunOf(dpRun, m, video)
    BY <1>1, RunUnderWay
  <1>3. ASSUME dpRun' = [dpRun EXCEPT !.owned = TRUE]
        PROVE  /\ RunOf(dpRun', m, video) /\ dpRun'.done = 0 /\ dpRun'.manifest = dpRun.manifest
    <2>1. PICK owned \in BOOLEAN : owned = TRUE
      OBVIOUS
    <2>2. dpRun = [manifest |-> m.id, verdict |-> dpRun.verdict, writes |-> Writes(m, video, dpRun.verdict),
                   done |-> dpRun.done, owned |-> dpRun.owned]
          /\ 0 \in 0..Len(dpRun.writes)
      BY <1>1, <1>2 DEF RunOf
    <2>3. dpRun' = [manifest |-> dpRun.manifest, verdict |-> dpRun.verdict, writes |-> dpRun.writes, done |-> 0, owned |-> owned]
      BY <1>1, <1>3, <2>1, <2>2
    <2> QED BY <1>2, <2>2, <2>3, RunGoesOn
  <1>4. CASE dpState = NoOutput /\ dpState' = StateOf(dpRun, "initialized", 0) /\ dpRun' = [dpRun EXCEPT !.owned = TRUE]
    <2>1. /\ dpState' \in DailyState /\ dpState'.manifest = m.id /\ dpState'.phase = "initialized"
          /\ dpState' \notin {NoOutput, Torn}
      BY <1>2, <1>4, StateMade, RunWrites
    <2>2. dpRun'.manifest = m.id
      BY <1>2, <1>3, <1>4, RunWrites
    <2>3. DOMAIN dpFiles' = {} /\ DOMAIN dpPartial' = {}
      BY <1>1, <1>4 DEF DailyInv, DailyOutputIsOneCandidates
    <2>4. PartialsAreOwn'
      BY <2>3 DEF PartialsAreOwn
    <2> QED BY <1>3, <1>4, <2>1, <2>2, <2>3, <2>4 DEF DailyInv, DailyOutputIsOneCandidates
  <1>5. CASE Resumable(dpRun) /\ dpState' = dpState /\ dpRun' = [dpRun EXCEPT !.owned = TRUE]
    <2>1. dpState \in DailyState /\ dpState.manifest = dpRun.manifest
      BY <1>5 DEF Resumable, DailyInv
    <2>2. PartialsAreOwn => PartialsAreOwn'
      BY <1>1, <1>5 DEF PartialsAreOwn
    <2> QED BY <1>1, <1>3, <1>5, <2>1, <2>2 DEF DailyInv, DailyOutputIsOneCandidates, VerifiedIdentical
  <1>6. CASE dpRun' = NoRun /\ (dpState' = dpState \/ (dpState = NoOutput /\ dpState' = Torn))
    BY <1>1, <1>6, NoRunKeeps
  <1> QED BY <1>4, <1>5, <1>6 DEF InitializeOutput, RunFails

(* A write is done: by the file that was there, or a new one.              *)
LEMMA WriteDone ==
  ASSUME DailyInv, RunIs(TRUE), dpRun.done < Len(dpRun.writes), UNCHANGED dpState,
         dpRun' = [dpRun EXCEPT !.done = @ + 1],
         NEW w, w = dpRun.writes[dpRun.done + 1],
         \/ w.name \in DOMAIN dpFiles /\ dpFiles[w.name] = w.content /\ UNCHANGED <<dpFiles, dpPartial>>
         \/ /\ w.name \notin DOMAIN dpFiles /\ dpFiles' = WithFile(dpFiles, w.name, w.content)
            /\ dpPartial' = [n \in DOMAIN dpPartial \ {w.name} |-> dpPartial[n]]
  PROVE  DailyInv'
  <1>1. PICK m \in Manifests, video \in Videos : RunOf(dpRun, m, video)
    BY RunUnderWay DEF RunIs
  <1>2. /\ dpRun # NoRun /\ dpRun.owned /\ dpState \in DailyState /\ dpState.manifest = dpRun.manifest
        /\ dpState \notin {NoOutput, Torn}
    BY DailyAssumption DEF RunIs, DailyInv
  <1>3. /\ dpRun.manifest = m.id /\ Len(dpRun.writes) \in Nat /\ dpRun.done \in Nat
        /\ dpRun.done + 1 \in 1..Len(dpRun.writes) /\ w.content.manifest = m.id
    BY <1>1, RunWrites
  <1>4. /\ w.name \in DOMAIN dpFiles' /\ dpFiles'[w.name] = w.content
        /\ \A n \in DOMAIN dpFiles : n \in DOMAIN dpFiles' /\ dpFiles'[n] = dpFiles[n]
        /\ DOMAIN dpFiles' = DOMAIN dpFiles \cup {w.name}
    BY DEF WithFile
  <1>5. /\ RunOf(dpRun', m, video) /\ dpRun'.done = dpRun.done + 1 /\ dpRun'.writes = dpRun.writes
        /\ dpRun'.manifest = dpRun.manifest /\ dpRun'.owned
    <2>1. dpRun = [manifest |-> m.id, verdict |-> dpRun.verdict, writes |-> Writes(m, video, dpRun.verdict),
                   done |-> dpRun.done, owned |-> dpRun.owned] /\ dpRun.owned \in BOOLEAN
      BY <1>1 DEF RunOf
    <2>2. dpRun' = [manifest |-> dpRun.manifest, verdict |-> dpRun.verdict, writes |-> dpRun.writes,
                    done |-> dpRun.done + 1, owned |-> dpRun.owned]
      BY <2>1
    <2>3. RunOf(dpRun', m, video)
      BY <1>1, <1>3, <2>1, <2>2, RunGoesOn
    <2> QED BY <1>2, <2>2, <2>3
  <1>6. \A i \in 1..dpRun'.done :
          dpRun'.writes[i].name \in DOMAIN dpFiles' /\ dpFiles'[dpRun'.writes[i].name] = dpRun'.writes[i].content
    <2> SUFFICES ASSUME NEW i \in 1..dpRun.done + 1
                 PROVE  /\ dpRun.writes[i].name \in DOMAIN dpFiles'
                        /\ dpFiles'[dpRun.writes[i].name] = dpRun.writes[i].content
      BY <1>5
    <2>1. CASE i = dpRun.done + 1
      BY <1>4, <2>1
    <2>2. CASE i \in 1..dpRun.done
      BY <1>2, <1>4, <2>2 DEF DailyInv
    <2> QED BY <1>3, <2>1, <2>2
  <1>7. \A n \in DOMAIN dpFiles' : dpFiles'[n].manifest = dpState.manifest
    BY <1>2, <1>3, <1>4 DEF DailyInv, DailyOutputIsOneCandidates
  <1>8. dpState.phase = "complete" =>
          /\ "candidate-report.json" \in DOMAIN dpFiles'
          /\ \A n \in dpState.files : n \in DOMAIN dpFiles'
          /\ dpFiles'["candidate-report.json"].of = dpState.verdict
          /\ dpState.verdict = "READY_CANDIDATE" =>
               \E x \in Manifests, y \in Videos :
                 /\ x.id = dpState.manifest /\ HistorySound(x)
                 /\ \A i \in DOMAIN Artifacts : Artifacts[i] \in DOMAIN dpFiles' /\ dpFiles'[Artifacts[i]] = Content(Artifacts[i], x, y)
                 /\ \A c \in x.claims : \A e \in x.evidence : e.id \in c.refs => Rank(e.maturity) >= Rank(c.maturity)
    <2> SUFFICES ASSUME dpState.phase = "complete"
                 PROVE  /\ "candidate-report.json" \in DOMAIN dpFiles'
                        /\ \A n \in dpState.files : n \in DOMAIN dpFiles'
                        /\ dpFiles'["candidate-report.json"].of = dpState.verdict
                        /\ dpState.verdict = "READY_CANDIDATE" =>
                             \E x \in Manifests, y \in Videos :
                               /\ x.id = dpState.manifest /\ HistorySound(x)
                               /\ \A i \in DOMAIN Artifacts :
                                    Artifacts[i] \in DOMAIN dpFiles' /\ dpFiles'[Artifacts[i]] = Content(Artifacts[i], x, y)
                               /\ \A c \in x.claims : \A e \in x.evidence :
                                    e.id \in c.refs => Rank(e.maturity) >= Rank(c.maturity)
      OBVIOUS
    <2>1. "candidate-report.json" \in DOMAIN dpFiles
      BY <1>2 DEF DailyInv
    <2>2. (\A n \in dpState.files : n \in DOMAIN dpFiles) /\ dpFiles["candidate-report.json"].of = dpState.verdict
      BY <1>2 DEF DailyInv, DailyOutputIsOneCandidates
    <2>3. ASSUME dpState.verdict = "READY_CANDIDATE"
          PROVE  \E x \in Manifests, y \in Videos :
                   /\ x.id = dpState.manifest /\ HistorySound(x)
                   /\ \A i \in DOMAIN Artifacts : Artifacts[i] \in DOMAIN dpFiles' /\ dpFiles'[Artifacts[i]] = Content(Artifacts[i], x, y)
                   /\ \A c \in x.claims : \A e \in x.evidence : e.id \in c.refs => Rank(e.maturity) >= Rank(c.maturity)
      <3>1. PICK x \in Manifests, y \in Videos :
              /\ x.id = dpState.manifest /\ HistorySound(x) /\ VerifiedIdentical(x, y)
              /\ \A c \in x.claims : \A e \in x.evidence : e.id \in c.refs => Rank(e.maturity) >= Rank(c.maturity)
        BY <1>2, <2>3 DEF DailyInv, DailyOutputIsOneCandidates
      <3>2. \A i \in DOMAIN Artifacts : Artifacts[i] \in DOMAIN dpFiles' /\ dpFiles'[Artifacts[i]] = Content(Artifacts[i], x, y)
        BY <1>4, <3>1 DEF VerifiedIdentical
      <3> QED BY <3>1, <3>2
    <2> QED BY <1>4, <2>1, <2>2, <2>3
  <1>10. PartialsAreOwn'
    BY <1>2 DEF PartialsAreOwn, DailyInv, DailyOutputIsOneCandidates, WithFile
  <1>9. DailyOutputIsOneCandidates'
    BY <1>2, <1>7, <1>8, <1>10 DEF DailyOutputIsOneCandidates, VerifiedIdentical
  <1> QED BY <1>1, <1>2, <1>5, <1>6, <1>8, <1>9 DEF DailyInv

LEMMA WriteNextKeeps ==
  ASSUME DailyInv, WriteNext
  PROVE  DailyInv'
  <1>a. PICK w : w = dpRun.writes[dpRun.done + 1]
    OBVIOUS
  <1>1. RunIs(TRUE) /\ dpRun.done < Len(dpRun.writes) /\ UNCHANGED dpState
    BY DEF WriteNext
  <1>2. \/ dpRun' = NoRun /\ UNCHANGED <<dpFiles, dpPartial>>
        \/ /\ dpRun' = NoRun /\ UNCHANGED dpFiles /\ w.name \notin DOMAIN dpFiles
           /\ \E content \in {Torn, w.content} : dpPartial' = WithFile(dpPartial, w.name, content)
        \/ /\ dpRun' = [dpRun EXCEPT !.done = @ + 1]
           /\ \/ w.name \in DOMAIN dpFiles /\ dpFiles[w.name] = w.content /\ UNCHANGED <<dpFiles, dpPartial>>
              \/ /\ w.name \notin DOMAIN dpFiles /\ dpFiles' = WithFile(dpFiles, w.name, w.content)
                 /\ dpPartial' = [n \in DOMAIN dpPartial \ {w.name} |-> dpPartial[n]]
    BY <1>a DEF WriteNext
  <1>3. ASSUME UNCHANGED dpFiles, w.name \notin DOMAIN dpFiles,
               NEW content \in {Torn, w.content}, dpPartial' = WithFile(dpPartial, w.name, content)
        PROVE  dpState \in DailyState /\ PartialsAreOwn'
    <2>1. PICK m \in Manifests, video \in Videos : RunOf(dpRun, m, video)
      BY <1>1, RunUnderWay DEF RunIs
    <2>2. /\ dpState \in DailyState /\ dpState.manifest = dpRun.manifest /\ dpState \notin {NoOutput, Torn}
          /\ PartialsAreOwn
      BY <1>1, DailyAssumption DEF RunIs, DailyInv, DailyOutputIsOneCandidates
    <2>3. w.content.manifest = dpState.manifest
      <3>1. dpRun.done + 1 \in 1..Len(dpRun.writes) /\ dpRun.manifest = m.id
        BY <1>1, <2>1, RunWrites
      <3> QED BY <1>a, <2>1, <2>2, <3>1, RunWrites
    <2> QED BY <1>1, <1>3, <2>2, <2>3 DEF PartialsAreOwn, WithFile
  <1> QED BY <1>a, <1>1, <1>2, <1>3, NoRunKeeps, WriteDone

LEMMA StateFollowsKeeps ==
  ASSUME DailyInv, StateFollows
  PROVE  DailyInv'
  <1>1. PICK m \in Manifests, video \in Videos : RunOf(dpRun, m, video)
    BY RunUnderWay DEF StateFollows, RunIs
  <1>2. /\ dpRun # NoRun /\ dpRun.owned /\ dpState \in DailyState /\ dpState.manifest = dpRun.manifest
        /\ dpState \notin {NoOutput, Torn}
    BY DailyAssumption DEF StateFollows, RunIs, DailyInv
  <1>3. dpRun.done \in 0..Len(dpRun.writes) /\ dpRun.manifest = m.id
    BY <1>1, RunWrites
  <1>4. /\ dpState' \in DailyState /\ dpState'.manifest = m.id /\ dpState'.phase = "generating"
        /\ dpState' \notin {NoOutput, Torn}
    BY <1>1, <1>3, StateMade DEF StateFollows
  <1>5. UNCHANGED <<dpFiles, dpPartial, dpRun>>
    BY DEF StateFollows
  <1>6. PartialsAreOwn'
    BY <1>2, <1>3, <1>4, <1>5 DEF PartialsAreOwn, DailyInv, DailyOutputIsOneCandidates
  <1> QED BY <1>1, <1>2, <1>3, <1>4, <1>5, <1>6 DEF DailyInv, DailyOutputIsOneCandidates

LEMMA RunEndsKeeps ==
  ASSUME DailyInv, RunEnds
  PROVE  DailyInv'
  <1>a. PICK phase : phase = IF dpRun.verdict = "BLOCKED" THEN "blocked" ELSE "complete"
    OBVIOUS
  <1>1. PICK m \in Manifests, video \in Videos : RunOf(dpRun, m, video)
    BY RunUnderWay DEF RunEnds, RunIs
  <1>2. /\ dpRun # NoRun /\ dpRun.owned /\ dpState \in DailyState /\ dpState.manifest = dpRun.manifest
        /\ dpState \notin {NoOutput, Torn}
    BY DailyAssumption DEF RunEnds, RunIs, DailyInv
  <1>3. /\ dpRun.done = Len(dpRun.writes) /\ dpState' = StateOf(dpRun, phase, dpRun.done)
        /\ dpRun' = NoRun /\ UNCHANGED <<dpFiles, dpPartial>>
    BY <1>a DEF RunEnds
  <1>4. /\ dpRun.manifest = m.id /\ Len(dpRun.writes) \in Nat /\ dpRun.done \in 0..Len(dpRun.writes)
        /\ phase \in {"blocked", "complete"} /\ (phase = "complete" => dpRun.verdict # "BLOCKED")
    BY <1>a, <1>1, RunWrites
  <1>5. /\ dpState' \in DailyState /\ dpState'.manifest = m.id /\ dpState'.phase = phase
        /\ dpState'.files = {dpRun.writes[i].name : i \in 1..Len(dpRun.writes)}
        /\ phase = "complete" => dpState'.verdict = dpRun.verdict
        /\ dpState' \notin {NoOutput, Torn}
    BY <1>1, <1>3, <1>4, StateMade
  <1>6. \A i \in 1..Len(dpRun.writes) :
          dpRun.writes[i].name \in DOMAIN dpFiles /\ dpFiles[dpRun.writes[i].name] = dpRun.writes[i].content
    BY <1>2, <1>3 DEF DailyInv
  <1>7. \A n \in DOMAIN dpFiles' : dpFiles'[n].manifest = m.id
    BY <1>2, <1>3, <1>4 DEF DailyInv, DailyOutputIsOneCandidates
  <1>8. \A n \in dpState'.files : n \in DOMAIN dpFiles'
    BY <1>3, <1>5, <1>6
  <1>9. ASSUME phase = "complete", dpRun.verdict = "READY_CANDIDATE"
        PROVE  /\ "candidate-report.json" \in DOMAIN dpFiles /\ dpFiles["candidate-report.json"].of = "READY_CANDIDATE"
               /\ VerifiedIdentical(m, video) /\ HistorySound(m)
               /\ \A c \in m.claims : \A e \in m.evidence : e.id \in c.refs => Rank(e.maturity) >= Rank(c.maturity)
    <2>1. \A i \in 1..5 : Artifacts[i] \in DOMAIN dpFiles /\ dpFiles[Artifacts[i]] = Content(Artifacts[i], m, video)
      <3>1. /\ Len(dpRun.writes) = 5
            /\ \A i \in 1..5 : dpRun.writes[i].name = Artifacts[i] /\ dpRun.writes[i].content = Content(Artifacts[i], m, video)
        BY <1>1, <1>9, RunWrites
      <3> HIDE DEF Artifacts, Content
      <3> QED BY <1>6, <3>1
    <2>2. Content("candidate-report.json", m, video).of = "READY_CANDIDATE"
      BY DEF Content
    <2>3. "candidate-report.json" \in DOMAIN dpFiles /\ dpFiles["candidate-report.json"] = Content("candidate-report.json", m, video)
      BY <2>1, ArtifactNames
    <2>4. VerifiedIdentical(m, video)
      BY <2>1, ArtifactNames DEF VerifiedIdentical
    <2> QED BY <1>1, <1>9, <2>2, <2>3, <2>4 DEF RunOf
  <1>10. ASSUME phase = "complete", dpRun.verdict # "READY_CANDIDATE"
         PROVE  "candidate-report.json" \in DOMAIN dpFiles /\ dpFiles["candidate-report.json"].of = dpRun.verdict
    <2>1. /\ 1 \in 1..Len(dpRun.writes) /\ dpRun.writes[1].name = "candidate-report.json"
          /\ dpRun.writes[1].content.of = dpRun.verdict
      BY <1>1, <1>10, RunWrites
    <2> QED BY <1>6, <2>1
  <1>11. phase = "complete" =>
           /\ "candidate-report.json" \in DOMAIN dpFiles' /\ dpFiles'["candidate-report.json"].of = dpState'.verdict
           /\ dpState'.verdict = "READY_CANDIDATE" =>
                /\ VerifiedIdentical(m, video)' /\ HistorySound(m)
                /\ \A c \in m.claims : \A e \in m.evidence : e.id \in c.refs => Rank(e.maturity) >= Rank(c.maturity)
    <2>1. VerifiedIdentical(m, video) => VerifiedIdentical(m, video)'
      BY <1>3 DEF VerifiedIdentical
    <2> QED BY <1>3, <1>5, <1>9, <1>10, <2>1
  <1>13. PartialsAreOwn'
    BY <1>2, <1>3, <1>4, <1>5 DEF PartialsAreOwn, DailyInv, DailyOutputIsOneCandidates
  <1>12. DailyOutputIsOneCandidates'
    BY <1>5, <1>7, <1>8, <1>11, <1>13 DEF DailyOutputIsOneCandidates
  <1> QED BY <1>3, <1>5, <1>11, <1>12 DEF DailyInv

LEMMA DailyKeeps ==
  ASSUME DailyInv, [DailyNext]_dpVars
  PROVE  DailyInv'
  <1>1. CASE UNCHANGED <<dpState, dpFiles, dpPartial, dpRun>>
    <2>1. PartialsAreOwn => PartialsAreOwn'
      BY <1>1 DEF PartialsAreOwn
    <2> QED BY <1>1, <2>1 DEF DailyInv, DailyOutputIsOneCandidates, VerifiedIdentical
  <1>2. CASE RunKilled
    BY <1>2, NoRunKeeps DEF RunKilled, RunFails
  <1>3. [DailyNext]_dpVars =>
          \/ UNCHANGED <<dpState, dpFiles, dpPartial, dpRun>>
          \/ \E m \in Manifests, video \in Videos : PrepareBegins(m, video)
          \/ RunKilled \/ InitializeOutput \/ WriteNext \/ StateFollows \/ RunEnds
    BY DEF DailyNext, dpVars, SourceChanges
  <1> QED BY <1>1, <1>2, <1>3, PrepareKeeps, InitializeKeeps, WriteNextKeeps, StateFollowsKeeps, RunEndsKeeps

-----------------------------------------------------------------------------
(* The usage store                                                         *)

(* What Loadable() asks of the consent and the runtime.                    *)
ConsentLoads(c, state) ==
  /\ c.state = "GRANTED" => state = "ENABLED" /\ c.profile # "none"
  /\ c.state = "REVOKED" => state \in {"REVOKED", "DELETED"} /\ c.endpoint = NoEndpoint
  /\ c.state # "DISABLED"
  /\ c.profile # "diagnostics" <=> c.expires = 0

RuntimeLoads(rt) ==
  /\ rt.state \in {"ENABLED", "REVOKED"} => rt.id # 0 /\ \A e \in rt.events : e.at >= rt.rotated /\ e.at <= uiClock
  /\ rt.state = "DELETED" => rt.id = 0 /\ rt.events = {}
  /\ rt.rotated <= uiClock

BatchesLoad(d) ==
  /\ \A b, c \in d.batches : b.del = c.del => b = c
  /\ d.pending # NoBatch => d.pending.del \notin {b.del : b \in d.batches} /\ d.pending.events # {}

LEMMA LoadParts ==
  ASSUME LoadInv, uiDisk # NoStore
  PROVE  ConsentLoads(uiDisk.consent, uiDisk.rt.state) /\ RuntimeLoads(uiDisk.rt) /\ BatchesLoad(uiDisk)
  BY DEF LoadInv, UsageStoreLoads, Loadable, ConsentLoads, RuntimeLoads, BatchesLoad

(* The deletion ids of batches that differ in them.                        *)
LEMMA AsManyIds ==
  ASSUME NEW S, IsFiniteSet(S), \A b, c \in S : b.del = c.del => b = c
  PROVE  Cardinality({b.del : b \in S}) = Cardinality(S)
  <1> DEFINE T == {b.del : b \in S}
             f == [b \in S |-> b.del]
  <1>1. f \in [S -> T] /\ (\A t \in T : \E b \in S : f[b] = t) /\ \A b, c \in S : f[b] = f[c] => b = c
    OBVIOUS
  <1> HIDE DEF T, f
  <1>2. f \in Surjection(S, T) /\ f \in Injection(S, T)
    BY <1>1 DEF Surjection, Injection, IsInjective
  <1>3. Cardinality(T) = Cardinality(S)
    BY <1>2, FS_Surjection
  <1> QED BY <1>3 DEF T

(* A store that is written loads.                                          *)
LEMMA WrittenLoads ==
  ASSUME UsageInv', uiClock' = uiClock, uiDisk' # NoStore,
         ConsentLoads(uiDisk'.consent, uiDisk'.rt.state), RuntimeLoads(uiDisk'.rt), BatchesLoad(uiDisk'),
         Calling("share")' => uiDisk'.consent.state = "GRANTED"
  PROVE  LoadInv'
  <1>1. IsFiniteSet(uiDisk'.batches)
    <2>1. PICK H : H = Held'
      OBVIOUS
    <2>2. IsFiniteSet(H) /\ uiDisk'.batches \in SUBSET H
      BY <2>1 DEF UsageInv, UsageTypeOk, Held, StoredBatches
    <2> QED BY <2>2, FS_Subset
  <1>2. Cardinality({b.del : b \in uiDisk'.batches}) = Cardinality(uiDisk'.batches)
    BY <1>1, AsManyIds DEF BatchesLoad
  <1>3. /\ \A e \in uiDisk'.rt.events : e.id = uiDisk'.rt.id
        /\ uiDisk'.pending # NoBatch => OfItsEpoch(uiDisk'.pending)
    <2>1. uiDisk'.pending # NoBatch => uiDisk'.pending \in Held'
      BY DEF Held, StoredBatches
    <2> QED BY <2>1 DEF UsageInv, ConsentCovers, OfItsEpoch
  <1>4. Loadable(uiDisk)'
    BY <1>2, <1>3 DEF Loadable, ConsentLoads, RuntimeLoads, BatchesLoad, OfItsEpoch
  <1> QED BY <1>4 DEF LoadInv, UsageStoreLoads, RuntimeLoads, BatchesLoad

(* The store stays, or goes.                                               *)
LEMMA StoreStays ==
  ASSUME UsageInv, LoadInv, uiDisk' \in {uiDisk, NoStore}, uiClock' \in Nat, uiClock <= uiClock', ~Calling("share")'
  PROVE  LoadInv'
  <1>1. CASE uiDisk' = NoStore
    BY <1>1 DEF LoadInv, UsageStoreLoads
  <1>2. CASE uiDisk' = uiDisk /\ uiDisk # NoStore
    <2>1. uiDisk.rt.rotated \in Nat /\ uiClock \in Nat /\ \A e \in uiDisk.rt.events : e.at \in Nat
      <3>1. uiDisk.rt \in RuntimeState /\ uiClock \in Nat
        BY <1>2 DEF UsageInv, UsageTypeOk, StoredState
      <3>2. uiDisk.rt.events \subseteq Event /\ uiDisk.rt.rotated \in Nat
        BY <3>1 DEF RuntimeState
      <3> QED BY <3>1, <3>2 DEF Event
    <2>2. Loadable(uiDisk) /\ uiDisk.rt.rotated <= uiClock /\ \A b, c \in uiDisk.batches : b.del = c.del => b = c
      BY <1>2 DEF LoadInv, UsageStoreLoads
    <2>3. uiDisk.rt.state \in {"ENABLED", "REVOKED"} =>
            /\ uiDisk.rt.id # 0
            /\ \A e \in uiDisk.rt.events :
                 e.id = uiDisk.rt.id /\ e.at >= uiDisk.rt.rotated /\ e.at <= uiClock'
      BY <2>1, <2>2 DEF Loadable
    <2>4. Loadable(uiDisk)'
      <3>1. PICK n : n = Cardinality({b.del : b \in uiDisk.batches}) /\ n = Cardinality(uiDisk.batches)
        BY <2>2 DEF Loadable
      <3>2. Cardinality({b.del : b \in uiDisk'.batches}) = Cardinality(uiDisk'.batches)
        BY <1>2, <3>1
      <3> QED BY <1>2, <2>2, <2>3, <3>2 DEF Loadable, OfItsEpoch
    <2>5. uiDisk'.rt.rotated <= uiClock'
      BY <1>2, <2>1, <2>2
    <2> QED BY <1>2, <2>2, <2>4, <2>5 DEF LoadInv, UsageStoreLoads
  <1> QED BY <1>1, <1>2

(* #refresh() of a runtime that loads.                                     *)
LEMMA RefreshedLoads ==
  ASSUME UsageInv, NEW rt \in RuntimeState, RuntimeLoads(rt), NEW r, r = RtRefreshed(rt, uiClock)
  PROVE  /\ r \in RuntimeState /\ RuntimeLoads(r)
         /\ r.state = rt.state \/ (rt.state = "REVOKED" /\ r.state = "DELETED")
  <1>0. r \in RuntimeState
    BY RefreshedRuntime
  <1>1. FreshId(1) \in Nat \ {0} /\ uiClock \in Nat
    BY FreshIds DEF UsageInv, UsageTypeOk
  <1>2. CASE r = Erased /\ rt.state = "REVOKED"
    BY <1>0, <1>1, <1>2 DEF Erased, RuntimeLoads
  <1>3. CASE r = Rotated(rt, uiClock, FreshId(1)) /\ rt.state = "ENABLED"
    <2>1. r = [rt EXCEPT !.id = FreshId(1), !.events = {}, !.rotated = uiClock]
      BY <1>3 DEF Rotated
    <2>2. r.id = FreshId(1) /\ r.events = {} /\ r.rotated = uiClock /\ r.state = "ENABLED"
      BY <1>3, <2>1 DEF RuntimeState
    <2> QED BY <1>0, <1>1, <1>3, <2>2 DEF RuntimeLoads
  <1>4. CASE r = rt
    BY <1>0, <1>4
  <1> QED BY <1>2, <1>3, <1>4 DEF RtRefreshed

LEMMA RevokedLoads ==
  ASSUME NEW rt \in RuntimeState, rt.state = "ENABLED", RuntimeLoads(rt), uiClock + LazyExpiry \in Nat
  PROVE  /\ RtRevoked(rt, uiClock) \in RuntimeState /\ RuntimeLoads(RtRevoked(rt, uiClock))
         /\ RtRevoked(rt, uiClock).state = "REVOKED"
  <1>1. PICK r : r = RtRevoked(rt, uiClock)
    OBVIOUS
  <1>2. r = [rt EXCEPT !.state = "REVOKED", !.until = uiClock + LazyExpiry]
    BY <1>1 DEF RtRevoked
  <1>3. /\ r \in RuntimeState /\ r.state = "REVOKED"
        /\ r.id = rt.id /\ r.events = rt.events /\ r.rotated = rt.rotated
    BY <1>2 DEF RuntimeState
  <1>4. RuntimeLoads(r)
    BY <1>3 DEF RuntimeLoads
  <1> QED BY <1>1, <1>3, <1>4

LEMMA ConsentRevokedLoads ==
  ASSUME NEW c \in Consent, c.profile # "diagnostics" <=> c.expires = 0, NEW state \in {"REVOKED", "DELETED"}
  PROVE  ConsentLoads(ConsentRevoked(c), state)
  <1>1. PICK a : a = [c EXCEPT !.state = "REVOKED"]
    OBVIOUS
  <1>2. PICK r : r = [a EXCEPT !.endpoint = NoEndpoint]
    OBVIOUS
  <1>3. r.state = "REVOKED" /\ r.endpoint = NoEndpoint /\ r.profile = c.profile /\ r.expires = c.expires
    BY <1>1, <1>2 DEF Consent
  <1>4. r = ConsentRevoked(c)
    BY <1>1, <1>2 DEF ConsentRevoked
  <1> QED BY <1>3, <1>4 DEF ConsentLoads

(* What a command finds in a store that loads.                             *)
LEMMA FoundLoads ==
  ASSUME UsageInv, LoadInv, uiDisk # NoStore
  PROVE  /\ Found \in StoredState /\ Found.pending = uiDisk.pending /\ Found.batches = uiDisk.batches
         /\ ConsentLoads(Found.consent, Found.rt.state) /\ RuntimeLoads(Found.rt) /\ BatchesLoad(Found)
         /\ Found.consent.state = "GRANTED" => uiDisk.consent.state = "GRANTED"
         /\ uiDisk.consent.state = "GRANTED" => Found.rt.state \in {"ENABLED", "REVOKED"}
  <1> DEFINE c == uiDisk.consent
  <1>0. /\ uiDisk \in StoredState /\ uiClock \in Nat /\ c \in Consent /\ uiDisk.rt \in RuntimeState
        /\ ConsentLoads(c, uiDisk.rt.state) /\ RuntimeLoads(uiDisk.rt) /\ BatchesLoad(uiDisk)
    BY LoadParts DEF UsageInv, UsageTypeOk, StoredState
  <1>1. PICK r : r = RtRefreshed(uiDisk.rt, uiClock)
    OBVIOUS
  <1>2. PICK q : q = RtRefreshed(r, uiClock)
    OBVIOUS
  <1>3. /\ r \in RuntimeState /\ RuntimeLoads(r)
        /\ r.state = uiDisk.rt.state \/ (uiDisk.rt.state = "REVOKED" /\ r.state = "DELETED")
    BY <1>0, <1>1, RefreshedLoads
  <1>4. /\ q \in RuntimeState /\ RuntimeLoads(q)
        /\ q.state = uiDisk.rt.state \/ (uiDisk.rt.state = "REVOKED" /\ q.state = "DELETED")
    BY <1>2, <1>3, RefreshedLoads
  <1>5. PICK f : f = Found
    OBVIOUS
  <1>6. PICK o : o = Opened
    OBVIOUS
  <1>7. o = [uiDisk EXCEPT !.rt = r]
    BY <1>1, <1>6 DEF Opened
  <1>8. /\ o \in StoredState /\ o.rt = r /\ o.consent = c
        /\ o.pending = uiDisk.pending /\ o.batches = uiDisk.batches
    BY <1>0, <1>3, <1>7 DEF StoredState
  <1>9. Found \in StoredState /\ Found.pending = uiDisk.pending /\ Found.batches = uiDisk.batches /\ BatchesLoad(Found)
    BY <1>0, FoundReplaces DEF Replaces, BatchesLoad
  <1>10. CASE c.state = "GRANTED" /\ c.profile = "diagnostics" /\ uiClock >= c.expires
    <2>1. q.state = "ENABLED" /\ uiClock + LazyExpiry \in Nat
      BY <1>0, <1>4, <1>10, UsageAssumption DEF ConsentLoads
    <2>2. PICK p : p = RtRevoked(q, uiClock)
      OBVIOUS
    <2>3. p \in RuntimeState /\ RuntimeLoads(p) /\ p.state = "REVOKED"
      BY <1>4, <2>1, <2>2, RevokedLoads
    <2>4. PICK k : k = ConsentRevoked(c)
      OBVIOUS
    <2>5. k \in Consent /\ k.state = "REVOKED" /\ ConsentLoads(k, "REVOKED")
      <3>1. c.profile # "diagnostics" <=> c.expires = 0
        BY <1>0 DEF ConsentLoads
      <3> QED BY <1>0, <2>4, <3>1, RevokedConsent, ConsentRevokedLoads
    <2>6. f = [o EXCEPT !.rt = p, !.consent = k]
      BY <1>2, <1>5, <1>6, <1>8, <1>10, <2>1, <2>2, <2>4 DEF Found, Refreshed
    <2>7. f.rt = p /\ f.consent = k
      BY <1>8, <2>6 DEF StoredState
    <2> QED BY <1>5, <1>9, <2>3, <2>5, <2>7
  <1>11. CASE ~(c.state = "GRANTED" /\ c.profile = "diagnostics" /\ uiClock >= c.expires)
    <2>1. f = [o EXCEPT !.rt = q]
      BY <1>2, <1>5, <1>6, <1>8, <1>11 DEF Found, Refreshed
    <2>2. f.rt = q /\ f.consent = c
      BY <1>8, <2>1 DEF StoredState
    <2>3. ConsentLoads(c, q.state)
      BY <1>0, <1>4 DEF ConsentLoads
    <2>4. c.state = "GRANTED" => q.state = "ENABLED"
      BY <2>3 DEF ConsentLoads
    <2> QED BY <1>4, <1>5, <1>9, <2>2, <2>3, <2>4
  <1> QED BY <1>10, <1>11

LEMMA RotatedLoads ==
  ASSUME UsageInv, NEW rt \in RuntimeState, rt.state \in {"ENABLED", "REVOKED"},
         NEW id \in Nat \ {0}, NEW r, r = Rotated(rt, uiClock, id)
  PROVE  r \in RuntimeState /\ RuntimeLoads(r) /\ r.state = rt.state
  <1>1. uiClock \in Nat
    BY DEF UsageInv, UsageTypeOk
  <1>2. r = [rt EXCEPT !.id = id, !.events = {}, !.rotated = uiClock]
    BY DEF Rotated
  <1>3. r \in RuntimeState /\ r.id = id /\ r.events = {} /\ r.rotated = uiClock /\ r.state = rt.state
    BY <1>1, <1>2 DEF RuntimeState
  <1> QED BY <1>1, <1>3 DEF RuntimeLoads

(* A command stores what it found with another runtime or consent.         *)
LEMMA StoredLoads ==
  ASSUME UsageInv, UsageInv', LoadInv, Idle, uiDisk # NoStore, NEW d, Store(d), d # NoStore,
         ConsentLoads(d.consent, d.rt.state), RuntimeLoads(d.rt),
         d.pending = Found.pending, d.batches = Found.batches
  PROVE  LoadInv'
  <1>1. uiDisk' = d /\ uiClock' = uiClock /\ uiCall' = NoCall
    BY DEF Store, Idle
  <1>2. BatchesLoad(d)
    BY FoundLoads DEF BatchesLoad
  <1>3. Calling("share")' => uiDisk'.consent.state = "GRANTED"
    BY <1>1 DEF Calling
  <1> QED BY <1>1, <1>2, <1>3, WrittenLoads

LEMMA GrantLoads ==
  ASSUME UsageInv, UsageInv', LoadInv, NEW profile \in DOMAIN Profiles, Grant(profile)
  PROVE  LoadInv'
  <1>1. PICK o : o = Opened
    OBVIOUS
  <1>2. PICK id \in Nat : id = FreshId(1) /\ id # 0
    BY FreshIds
  <1>3. uiClock \in Nat /\ uiClock + Ttl \in Nat \ {0}
    BY UsageAssumption DEF UsageInv, UsageTypeOk
  <1>4. PICK rt : rt = OptedIn(uiClock, id)
    OBVIOUS
  <1>5. RuntimeLoads(rt) /\ rt.state = "ENABLED"
    BY <1>2, <1>3, <1>4 DEF OptedIn, RuntimeLoads
  <1>6. PICK c : c = [state |-> "GRANTED", profile |-> profile, endpoint |-> NoEndpoint,
                      expires |-> IF profile = "diagnostics" THEN uiClock + Ttl ELSE 0]
    OBVIOUS
  <1>7. ConsentLoads(c, "ENABLED") /\ c.state = "GRANTED"
    BY <1>3, <1>6, UsageAssumption DEF ConsentLoads
  <1>8. PICK d : d = [o EXCEPT !.rt = rt, !.consent = c] /\ Store(d)
    BY <1>1, <1>2, <1>4, <1>6 DEF Grant
  <1>9. o.pending = NoBatch /\ o.batches = {} /\ Idle
    BY <1>1 DEF Grant
  <1>10. d = [consent |-> c, rt |-> rt, pending |-> NoBatch, batches |-> {}]
    <2>1. CASE uiDisk = NoStore
      <3>1. o = [consent |-> DefaultConsent, rt |-> NewRuntime, pending |-> NoBatch, batches |-> {}]
        BY <1>1, <2>1 DEF Opened
      <3> QED BY <1>8, <3>1
    <2>2. CASE uiDisk # NoStore
      <3>1. uiDisk \in StoredState
        BY <2>2 DEF UsageInv, UsageTypeOk
      <3>2. PICK r : o = [uiDisk EXCEPT !.rt = r]
        BY <1>1, <2>2 DEF Opened
      <3>3. o = [consent |-> uiDisk.consent, rt |-> r, pending |-> uiDisk.pending, batches |-> uiDisk.batches]
        BY <3>1, <3>2 DEF StoredState
      <3> QED BY <1>8, <1>9, <3>3
    <2> QED BY <2>1, <2>2
  <1>11. d.consent = c /\ d.rt = rt /\ BatchesLoad(d)
    BY <1>10 DEF BatchesLoad
  <1>12. uiDisk' = d /\ uiClock' = uiClock /\ uiCall' = NoCall
    BY <1>8, <1>9 DEF Store, Idle
  <1>13. uiDisk' # NoStore
    <2>1. rt \in RuntimeState /\ c \in Consent
      BY <1>2, <1>3, <1>4, <1>6 DEF OptedIn, RuntimeState, Consent
    <2>2. d \in StoredState
      BY <1>10, <2>1 DEF StoredState
    <2> QED BY <1>12, <2>2, UsageAssumption
  <1>14. Calling("share")' => uiDisk'.consent.state = "GRANTED"
    BY <1>12 DEF Calling
  <1> QED BY <1>5, <1>7, <1>11, <1>12, <1>13, <1>14, WrittenLoads

LEMMA CommandLoads ==
  ASSUME UsageInv, UsageInv', LoadInv,
         \/ Look \/ Revoke \/ Rotate
         \/ \E e \in Endpoints \cup {NoEndpoint} : SetSharing(e)
         \/ \E o \in Outcomes : RecordEvent(o)
  PROVE  LoadInv'
  <1>1. Idle /\ uiDisk # NoStore
    BY GrantedIsStored DEF Look, Revoke, Rotate, SetSharing, RecordEvent
  <1>2. PICK f : f = Found
    OBVIOUS
  <1>3. PICK rt \in RuntimeState : rt = f.rt
    BY <1>1, <1>2, FoundLoads DEF StoredState
  <1>4. PICK c \in Consent : c = f.consent
    BY <1>1, <1>2, FoundLoads DEF StoredState
  <1>5. f \in StoredState /\ ConsentLoads(c, rt.state) /\ RuntimeLoads(rt)
    BY <1>1, <1>2, <1>3, <1>4, FoundLoads
  <1>6. uiClock \in Nat /\ uiClock + LazyExpiry \in Nat
    BY UsageAssumption DEF UsageInv, UsageTypeOk
  <1>7. \A d \in StoredState : d # NoStore
    BY UsageAssumption
  <1>8. CASE Look
    BY <1>1, <1>2, <1>3, <1>4, <1>5, <1>7, <1>8, StoredLoads DEF Look
  <1>9. f.consent.state = "GRANTED" => c.state = "GRANTED" /\ rt.state = "ENABLED"
    BY <1>4, <1>5 DEF ConsentLoads
  <1>10. CASE Revoke
    <2>1. PICK r : r = RtRevoked(rt, uiClock)
      OBVIOUS
    <2>2. r \in RuntimeState /\ RuntimeLoads(r) /\ r.state = "REVOKED"
      BY <1>2, <1>5, <1>6, <1>9, <1>10, <2>1, RevokedLoads DEF Revoke
    <2>3. PICK k \in Consent : k = ConsentRevoked(c)
      BY RevokedConsent
    <2>4. ConsentLoads(k, "REVOKED")
      <3>1. c.profile # "diagnostics" <=> c.expires = 0
        BY <1>5 DEF ConsentLoads
      <3> QED BY <2>3, <3>1, ConsentRevokedLoads
    <2>5. PICK d : d = [f EXCEPT !.rt = r, !.consent = k] /\ Store(d)
      BY <1>2, <1>3, <1>4, <1>10, <2>1, <2>3 DEF Revoke
    <2>6. d.rt = r /\ d.consent = k /\ d \in StoredState /\ d.pending = f.pending /\ d.batches = f.batches
      BY <1>5, <2>2, <2>5 DEF StoredState
    <2> QED BY <1>1, <1>2, <1>7, <2>2, <2>4, <2>5, <2>6, StoredLoads
  <1>11. CASE Rotate
    <2>1. PICK id \in Nat \ {0} : id = FreshId(2)
      BY FreshIds
    <2>2. PICK r : r = Rotated(rt, uiClock, id)
      OBVIOUS
    <2>3. r \in RuntimeState /\ RuntimeLoads(r) /\ r.state = rt.state
      BY <1>2, <1>9, <1>11, <2>2, RotatedLoads DEF Rotate
    <2>4. PICK d : d = [f EXCEPT !.rt = r] /\ Store(d)
      BY <1>2, <1>3, <1>11, <2>1, <2>2 DEF Rotate
    <2>5. d.rt = r /\ d.consent = c /\ d \in StoredState /\ d.pending = f.pending /\ d.batches = f.batches
      BY <1>4, <1>5, <2>3, <2>4 DEF StoredState
    <2> QED BY <1>1, <1>2, <1>5, <1>7, <2>3, <2>4, <2>5, StoredLoads
  <1>12. ASSUME NEW e \in Endpoints \cup {NoEndpoint}, SetSharing(e)
         PROVE  LoadInv'
    <2>1. PICK k : k = [c EXCEPT !.endpoint = e]
      OBVIOUS
    <2>2. k \in Consent /\ k.state = c.state /\ k.profile = c.profile /\ k.expires = c.expires
      BY <2>1 DEF Consent
    <2>3. c.state = "GRANTED"
      BY <1>2, <1>9, <1>12 DEF SetSharing
    <2>4. ConsentLoads(k, rt.state)
      BY <1>5, <2>2, <2>3 DEF ConsentLoads
    <2>5. PICK d : d = [f EXCEPT !.consent = k] /\ Store(d)
      BY <1>2, <1>4, <1>12, <2>1 DEF SetSharing
    <2>6. d.rt = rt /\ d.consent = k /\ d \in StoredState /\ d.pending = f.pending /\ d.batches = f.batches
      BY <1>3, <1>5, <2>2, <2>5 DEF StoredState
    <2> QED BY <1>1, <1>2, <1>5, <1>7, <2>4, <2>5, <2>6, StoredLoads
  <1>13. ASSUME NEW o \in Outcomes, RecordEvent(o)
         PROVE  LoadInv'
    <2>1. PICK v \in Event : v = [outcome |-> o, at |-> uiClock, id |-> rt.id]
      BY <1>6 DEF Event, RuntimeState
    <2>2. PICK r : r = [rt EXCEPT !.events = rt.events \cup {v}]
      OBVIOUS
    <2>3. /\ r \in RuntimeState /\ r.id = rt.id /\ r.state = rt.state /\ r.rotated = rt.rotated
          /\ r.events = rt.events \cup {v}
      BY <1>6, <2>1, <2>2 DEF RuntimeState
    <2>4. rt.state = "ENABLED" /\ rt.rotated \in Nat
      BY <1>2, <1>9, <1>13 DEF RecordEvent, RuntimeState
    <2>5. v.at = uiClock
      BY <2>1
    <2>6. RuntimeLoads(r)
      BY <1>5, <1>6, <2>3, <2>4, <2>5 DEF RuntimeLoads
    <2>7. PICK d : d = [f EXCEPT !.rt = r] /\ Store(d)
      BY <1>2, <1>3, <1>13, <2>1, <2>2 DEF RecordEvent
    <2>8. d.rt = r /\ d.consent = c /\ d \in StoredState /\ d.pending = f.pending /\ d.batches = f.batches
      BY <1>4, <1>5, <2>3, <2>7 DEF StoredState
    <2> QED BY <1>1, <1>2, <1>5, <1>7, <2>3, <2>6, <2>7, <2>8, StoredLoads
  <1> QED BY <1>8, <1>10, <1>11, <1>12, <1>13

LEMMA ShareLoads ==
  ASSUME UsageInv, UsageInv', LoadInv, Share
  PROVE  LoadInv'
  <1>1. uiDisk # NoStore /\ Found.consent.state = "GRANTED" /\ uiClock' = uiClock
    BY GrantedIsStored DEF Share
  <1>2. PICK f \in StoredState : f = Found
    BY <1>1, FoundLoads
  <1>3. /\ f.pending = uiDisk.pending /\ f.batches = uiDisk.batches /\ uiDisk.consent.state = "GRANTED"
        /\ ConsentLoads(f.consent, f.rt.state) /\ RuntimeLoads(f.rt)
    BY <1>1, <1>2, FoundLoads
  <1>4. CASE f.pending # NoBatch
    <2>1. uiDisk' = uiDisk
      BY <1>2, <1>4 DEF Share, PreparedShare
    <2> QED BY <1>1, <1>3, <2>1, LoadParts, WrittenLoads
  <1>5. CASE f.pending = NoBatch
    <2>1. PICK e : e = Envelope(f)
      OBVIOUS
    <2>2. /\ e \in Batch /\ \A b \in Held : b.del # e.del
          /\ e.events # {}
      <3>1. PICK x : x \in f.rt.events
        BY <1>2, <1>5 DEF Share
      <3>2. e.events = {[allowed |-> y.outcome \in Profiles[f.consent.profile], id |-> y.id] : y \in f.rt.events}
        BY <2>1 DEF Envelope
      <3> QED BY <1>1, <1>2, <1>5, <2>1, <3>1, <3>2, NewEnvelope
    <2>3. PICK d : d = [f EXCEPT !.pending = e]
      OBVIOUS
    <2>4. uiDisk' = d
      BY <1>2, <1>5, <2>1, <2>3 DEF Share, PreparedShare
    <2>5. /\ d \in StoredState /\ d # NoStore /\ d.pending = e /\ d.batches = f.batches
          /\ d.rt = f.rt /\ d.consent = f.consent
      BY <2>2, <2>3, UsageAssumption DEF StoredState
    <2>6. uiDisk.batches \subseteq Held
      BY <1>1 DEF Held, StoredBatches
    <2>7. \A b, c \in uiDisk.batches : b.del = c.del => b = c
      BY <1>1 DEF LoadInv
    <2>8. BatchesLoad(d)
      BY <1>3, <2>2, <2>5, <2>6, <2>7 DEF BatchesLoad
    <2> QED BY <1>1, <1>2, <1>3, <2>4, <2>5, <2>8, WrittenLoads
  <1> QED BY <1>4, <1>5

LEMMA AcknowledgedLoads ==
  ASSUME UsageInv, UsageInv', LoadInv, ShareAcknowledged
  PROVE  LoadInv'
  <1>1. uiCall # NoCall /\ uiCall.kind = "share" /\ uiCall' = NoCall /\ uiClock' = uiClock
    BY DEF ShareAcknowledged, Calling
  <1>2. /\ uiDisk # NoStore /\ uiDisk.pending # NoBatch /\ uiCall.batches = {uiDisk.pending}
        /\ uiDisk.consent.state = "GRANTED"
    BY <1>1 DEF UsageInv, CallHandles, LoadInv, Calling
  <1>3. PICK f \in StoredState : f = Found
    BY <1>2, FoundLoads
  <1>4. /\ f.pending = uiDisk.pending /\ f.batches = uiDisk.batches /\ f.rt.state \in {"ENABLED", "REVOKED"}
        /\ ConsentLoads(f.consent, f.rt.state) /\ BatchesLoad(f)
    BY <1>2, <1>3, FoundLoads
  <1>5. PICK b \in Batch : b = uiDisk.pending
    BY <1>2, <1>3, <1>4 DEF StoredState
  <1>6. PICK id \in Nat \ {0} : id = FreshId(2)
    BY FreshIds
  <1>7. PICK r : r = Rotated(f.rt, uiClock, id)
    OBVIOUS
  <1>8. r \in RuntimeState /\ RuntimeLoads(r) /\ r.state = f.rt.state
    BY <1>4, <1>7, RotatedLoads DEF StoredState
  <1>9. PICK a : a = ReceiptOf(b)
    OBVIOUS
  <1>10. a \in Batch /\ a.del = b.del
    BY <1>9 DEF ReceiptOf, Batch
  <1>11. PICK d : d = [f EXCEPT !.batches = f.batches \cup {a}, !.pending = NoBatch, !.rt = r]
    OBVIOUS
  <1>12. uiDisk' = d
    BY <1>2, <1>3, <1>5, <1>6, <1>7, <1>9, <1>11 DEF ShareAcknowledged
  <1>13. /\ d \in StoredState /\ d # NoStore /\ d.batches = f.batches \cup {a} /\ d.pending = NoBatch
         /\ d.rt = r /\ d.consent = f.consent
    <2>1. f.batches \cup {a} \in SUBSET Batch /\ f.consent \in Consent
      BY <1>10 DEF StoredState
    <2>2. d = [consent |-> f.consent, rt |-> r, pending |-> NoBatch, batches |-> f.batches \cup {a}]
      BY <1>11 DEF StoredState
    <2>3. d \in StoredState
      BY <1>8, <2>1, <2>2 DEF StoredState
    <2> QED BY <2>2, <2>3, UsageAssumption
  <1>14. BatchesLoad(d)
    BY <1>2, <1>4, <1>5, <1>10, <1>13 DEF BatchesLoad
  <1>15. Calling("share")' => uiDisk'.consent.state = "GRANTED"
    BY <1>1 DEF Calling
  <1> QED BY <1>1, <1>4, <1>8, <1>12, <1>13, <1>14, <1>15, WrittenLoads

LEMMA LoadInitial == UsageInit => LoadInv
  BY DEF UsageInit, LoadInv, UsageStoreLoads, Calling

LEMMA LoadKeeps ==
  ASSUME UsageInv, UsageInv', LoadInv, [UsageNext]_uiVars
  PROVE  LoadInv'
  <1>1. uiClock \in Nat /\ uiClock + 1 \in Nat /\ uiClock <= uiClock + 1
    BY DEF UsageInv, UsageTypeOk
  <1>2. CASE ShareFails \/ Delete \/ DeleteRemote \/ DeleteLocal \/ Killed \/ UsageTick
    <2>1. uiDisk' \in {uiDisk, NoStore} /\ uiClock' \in {uiClock, uiClock + 1}
      BY <1>2 DEF ShareFails, Delete, DeleteRemote, DeleteLocal, Killed, UsageTick
    <2>2. ~Calling("share")'
      <3>1. CASE DeleteRemote
        <4>1. uiCall.kind = "delete" /\ uiCall = [kind |-> uiCall.kind, batches |-> uiCall.batches]
          BY <3>1 DEF DeleteRemote, Calling, UsageInv, UsageTypeOk
        <4>2. uiCall' = NoCall \/ uiCall'.kind = "delete"
          BY <3>1, <4>1 DEF DeleteRemote
        <4> QED BY <4>2 DEF Calling
      <3>2. CASE Delete
        BY <3>2 DEF Delete, Awaiting, Calling
      <3>3. CASE ShareFails \/ DeleteLocal \/ Killed \/ UsageTick
        BY <3>3 DEF ShareFails, DeleteLocal, Killed, UsageTick, Idle, Calling
      <3> QED BY <1>2, <3>1, <3>2, <3>3
    <2> QED BY <1>1, <2>1, <2>2, StoreStays
  <1>3. CASE LateArrival \/ UNCHANGED uiVars
    <2>1. uiDisk' = uiDisk /\ uiClock' = uiClock /\ uiCall' = uiCall
      BY <1>3 DEF LateArrival, uiVars
    <2>2. CASE uiDisk = NoStore
      <3>1. ~Calling("share")'
        BY <2>1, <2>2 DEF UsageInv, CallHandles, Calling
      <3> QED BY <1>1, <2>1, <3>1, StoreStays
    <2>3. CASE uiDisk # NoStore
      <3>1. Calling("share")' => uiDisk'.consent.state = "GRANTED"
        BY <2>1 DEF LoadInv, Calling
      <3> QED BY <2>1, <2>3, <3>1, LoadParts, WrittenLoads
    <2> QED BY <2>2, <2>3
  <1> QED BY <1>2, <1>3, GrantLoads, CommandLoads, ShareLoads, AcknowledgedLoads DEF UsageNext

-----------------------------------------------------------------------------
(* The OpenClaw gateway                                                    *)

M14Record == [status : {"RESERVED", "COMMITTED", "DONE"}, body : STRING, ordinal : Nat]
MindEntry == [value : STRING, gen : Nat, expires : Nat]

LEMMA FileParts ==
  ASSUME NEW versions \in SUBSET {1, 2, 3}, NEW s, IsGatewayState(s, versions)
  PROVE  /\ s # NoFile /\ s # NoMemory /\ s.version \in versions
         /\ s = [version |-> s.version, effects |-> s.effects, m14 |-> s.m14, gen |-> s.gen,
                 entries |-> s.entries, lastReset |-> s.lastReset, reset |-> s.reset, replay |-> s.replay]
         /\ s.effects \in SUBSET GatewayIds /\ s.replay \in SUBSET Jtis
         /\ s.gen \in Nat /\ s.lastReset \in Nat /\ s.reset \in Nat
         /\ IsFiniteSet(DOMAIN s.m14) /\ DOMAIN s.m14 \in SUBSET GatewayIds /\ s.m14 \in [DOMAIN s.m14 -> M14Record]
         /\ IsFiniteSet(DOMAIN s.entries) /\ DOMAIN s.entries \in SUBSET MindNames
         /\ s.entries \in [DOMAIN s.entries -> MindEntry]
  <1>1. PICK calls \in SUBSET GatewayIds, keys \in SUBSET MindNames :
          IsFiniteSet(calls) /\ IsFiniteSet(keys) /\ s \in GatewayFile(versions, calls, keys)
    BY DEF IsGatewayState
  <1>2. s \in [version : versions, effects : SUBSET GatewayIds, m14 : [calls -> M14Record], gen : Nat,
               entries : [keys -> MindEntry], lastReset : Nat, reset : Nat, replay : SUBSET Jtis]
    BY <1>1 DEF GatewayFile, M14Record, MindEntry
  <1>3. s \in GatewayFile({1, 2, 3}, calls, keys)
    BY <1>2 DEF GatewayFile, M14Record, MindEntry
  <1>4. s # NoFile /\ s # NoMemory
    BY <1>1, <1>3, GatewayAssumption DEF IsGatewayState
  <1> QED BY <1>1, <1>2, <1>4

LEMMA FileMade ==
  ASSUME NEW versions, NEW version \in versions, NEW effects \in SUBSET GatewayIds, NEW replay \in SUBSET Jtis,
         NEW gen \in Nat, NEW lastReset \in Nat, NEW reset \in Nat,
         NEW calls \in SUBSET GatewayIds, IsFiniteSet(calls), NEW m14 \in [calls -> M14Record],
         NEW keys \in SUBSET MindNames, IsFiniteSet(keys), NEW entries \in [keys -> MindEntry],
         NEW s, s = [version |-> version, effects |-> effects, m14 |-> m14, gen |-> gen,
                     entries |-> entries, lastReset |-> lastReset, reset |-> reset, replay |-> replay]
  PROVE  IsGatewayState(s, versions)
  <1>1. s \in GatewayFile(versions, calls, keys)
    BY DEF GatewayFile, M14Record, MindEntry
  <1> QED BY <1>1 DEF IsGatewayState

LEMMA FileOfVersion ==
  ASSUME NEW versions \in SUBSET {1, 2, 3}, NEW s, IsGatewayState(s, versions),
         NEW others, s.version \in others
  PROVE  IsGatewayState(s, others)
  <1>1. PICK calls \in SUBSET GatewayIds, keys \in SUBSET MindNames :
          IsFiniteSet(calls) /\ IsFiniteSet(keys) /\ s \in GatewayFile(versions, calls, keys)
    BY DEF IsGatewayState
  <1>2. s \in GatewayFile(others, calls, keys)
    BY <1>1 DEF GatewayFile
  <1> QED BY <1>1, <1>2 DEF IsGatewayState

LEMMA CurrentParts ==
  ASSUME NEW s, IsGatewayState(s, {3})
  PROVE  /\ s # NoFile /\ s # NoMemory /\ s.version = 3
         /\ s = [version |-> 3, effects |-> s.effects, m14 |-> s.m14, gen |-> s.gen,
                 entries |-> s.entries, lastReset |-> s.lastReset, reset |-> s.reset, replay |-> s.replay]
         /\ s.effects \in SUBSET GatewayIds /\ s.replay \in SUBSET Jtis
         /\ s.gen \in Nat /\ s.lastReset \in Nat /\ s.reset \in Nat
         /\ IsFiniteSet(DOMAIN s.m14) /\ DOMAIN s.m14 \in SUBSET GatewayIds /\ s.m14 \in [DOMAIN s.m14 -> M14Record]
         /\ IsFiniteSet(DOMAIN s.entries) /\ DOMAIN s.entries \in SUBSET MindNames
         /\ s.entries \in [DOMAIN s.entries -> MindEntry]
  <1>1. {3} \in SUBSET {1, 2, 3}
    OBVIOUS
  <1>2. s.version = 3
    BY <1>1, FileParts
  <1> QED BY <1>1, <1>2, FileParts

(* A file of version 3, and one with some parts changed.                   *)
CurrentFile(effects, m14, gen, entries, lastReset, reset, replay) ==
  [version |-> 3, effects |-> effects, m14 |-> m14, gen |-> gen,
   entries |-> entries, lastReset |-> lastReset, reset |-> reset, replay |-> replay]

LEMMA FileChanged ==
  ASSUME NEW s, IsGatewayState(s, {3}),
         NEW effects, effects = s.effects \/ effects \in SUBSET GatewayIds,
         NEW replay, replay = s.replay \/ replay \in SUBSET Jtis,
         NEW gen, gen = s.gen \/ gen \in Nat,
         NEW lastReset, lastReset = s.lastReset \/ lastReset \in Nat,
         NEW reset, reset = s.reset \/ reset \in Nat,
         NEW keys \in SUBSET MindNames, IsFiniteSet(keys), NEW entries \in [keys -> MindEntry]
  PROVE  IsGatewayState(CurrentFile(effects, s.m14, gen, entries, lastReset, reset, replay), {3})
  <1>1. /\ effects \in SUBSET GatewayIds /\ replay \in SUBSET Jtis
        /\ gen \in Nat /\ lastReset \in Nat /\ reset \in Nat
    BY CurrentParts
  <1>2. PICK calls, m14 : calls = DOMAIN s.m14 /\ m14 = s.m14
    OBVIOUS
  <1>3. calls \in SUBSET GatewayIds /\ IsFiniteSet(calls) /\ m14 \in [calls -> M14Record] /\ 3 \in {3}
    BY <1>2, CurrentParts
  <1>4. PICK t : t = CurrentFile(effects, m14, gen, entries, lastReset, reset, replay)
    OBVIOUS
  <1>5. t = [version |-> 3, effects |-> effects, m14 |-> m14, gen |-> gen,
             entries |-> entries, lastReset |-> lastReset, reset |-> reset, replay |-> replay]
    BY <1>4 DEF CurrentFile
  <1>6. IsGatewayState(t, {3})
    BY <1>1, <1>3, <1>5, FileMade
  <1> QED BY <1>2, <1>4, <1>6

(* ... and its entries, where they stay.                                   *)
LEMMA EntriesStay ==
  ASSUME NEW s, IsGatewayState(s, {3})
  PROVE  DOMAIN s.entries \in SUBSET MindNames /\ IsFiniteSet(DOMAIN s.entries) /\ s.entries \in [DOMAIN s.entries -> MindEntry]
  BY CurrentParts

(* What a state keeps of an answer, what a file or memory is to be, and    *)
(* what a handler is, of any variables.                                    *)
KeepsUntil(s, a, now) ==
  /\ a.kind = "EFFECT" => a.id \in DOMAIN s.m14 /\ s.m14[a.id].status = "DONE"
  /\ a.kind = "LEGACY" => a.id \in s.effects
  /\ a.kind = "RESET" => s.gen > a.from
  /\ a.kind = "WRITE" =>
       \/ s.gen > a.entry.gen \/ a.entry.expires <= now
       \/ a.entry.gen = s.gen /\ a.key \in DOMAIN s.entries /\ a.entry.expires <= s.entries[a.key].expires

PassAnswer(a, now) == a \in PassAnswers /\ (a.kind = "WRITE" => a.entry.expires <= now + MindRetention)

GoodState(s, now, accepted, answers) ==
  /\ IsGatewayState(s, {3})
  /\ \A a \in answers : KeepsUntil(s, a, now)
  /\ \A j \in DOMAIN accepted : accepted[j] > 0 => j \in s.replay

AnswerOk(a, rest, last, mem, now, accepted) ==
  \/ a = NoAnswer
  \/ a.kind = "AUTHORIZED" /\ rest = <<>> /\ a.jti \in mem.replay /\ a.jti \in DOMAIN accepted /\ accepted[a.jti] = 0
  \/ PassAnswer(a, now) /\ KeepsUntil(last, a, now)

HandlerGood(h, mem, now, accepted, answers) ==
  /\ h = [rest |-> h.rest, answer |-> h.answer, catches |-> h.catches]
  /\ h.rest \in Seq({h.rest[i] : i \in DOMAIN h.rest}) /\ h.catches \in {0, 1, 2}
  /\ \A i \in DOMAIN h.rest : GoodState(h.rest[i], now, accepted, answers)
  /\ AnswerOk(h.answer, h.rest, IF h.rest = <<>> THEN mem ELSE Last(h.rest), mem, now, accepted)

GatewayGood(now, disk, mem, handler, accepted, answers) ==
  /\ now \in Nat /\ accepted \in [{i.jti : i \in GatewayIdentities} -> {0, 1}]
  /\ \A a \in answers : PassAnswer(a, now)
  /\ \/ /\ disk = NoFile \/ (disk.version # 3 /\ IsGatewayState(disk, {1, 2, 3}))
        /\ mem = NoMemory /\ answers = {} /\ \A j \in DOMAIN accepted : accepted[j] = 0
     \/ disk.version = 3 /\ GatewayStateLoads(disk) /\ GoodState(disk, now, accepted, answers)
  /\ mem = NoMemory => handler = NoHandler
  /\ mem # NoMemory => GoodState(mem, now, accepted, answers) /\ (handler = NoHandler => mem = disk)
  /\ handler # NoHandler => HandlerGood(handler, mem, now, accepted, answers)

(* An answer is of one kind.                                               *)
LEMMA AnswerKinds ==
  ASSUME NEW a \in PassAnswers
  PROVE  /\ a.kind \in {"EFFECT", "LEGACY", "RESET", "WRITE"}
         /\ a.kind \in {"EFFECT", "LEGACY"} => a.id \in GatewayIds
         /\ a.kind = "RESET" => a.from \in Nat
         /\ a.kind = "WRITE" => /\ a.key \in MindNames /\ a.entry \in MindEntry
                                /\ a.entry.gen \in Nat /\ a.entry.expires \in Nat
  BY DEF PassAnswers, MindEntry

LEMMA GatewayGives ==
  ASSUME GatewayInv
  PROVE  GatewayGood(gwNow, gwDisk, gwMem, gwHandler, gwAccepted, gwAnswers)
  <1>1. \A s : \A a \in gwAnswers : KeptUntil(s, a) => KeepsUntil(s, a, gwNow)
    <2>1. \A a \in gwAnswers : a \in PassAnswers
      BY Zenon DEF GatewayInv, GatewayTypeOk
    <2>2. \A a \in gwAnswers : a.kind \in {"EFFECT", "LEGACY", "RESET", "WRITE"}
      BY <2>1, AnswerKinds
    <2>3. ASSUME NEW s, NEW a \in gwAnswers, KeptUntil(s, a) PROVE KeepsUntil(s, a, gwNow)
      BY <2>2, <2>3 DEF KeptUntil, Kept, KeepsUntil
    <2> QED BY <2>3, Zenon
  <1>2. \A s : IsGatewayState(s, {3}) /\ Remembers(s) => GoodState(s, gwNow, gwAccepted, gwAnswers)
    BY <1>1 DEF Remembers, GoodState
  <1>3. gwNow \in Nat /\ gwAccepted \in [{i.jti : i \in GatewayIdentities} -> {0, 1}]
    BY DEF GatewayInv, GatewayTypeOk, GatewayAnswersLast
  <1>4. \A a \in gwAnswers : PassAnswer(a, gwNow)
    BY DEF GatewayInv, GatewayTypeOk, PassAnswer
  <1>5. gwDisk # NoFile /\ gwDisk.version = 3 => IsGatewayState(gwDisk, {3})
    <2> SUFFICES ASSUME gwDisk.version = 3, IsGatewayState(gwDisk, {1, 2, 3}) PROVE IsGatewayState(gwDisk, {3})
      BY DEF GatewayInv, GatewayTypeOk
    <2>1. PICK s : s = gwDisk
      OBVIOUS
    <2> QED BY <2>1, FileOfVersion
  <1>6. \/ /\ gwDisk = NoFile \/ (gwDisk.version # 3 /\ IsGatewayState(gwDisk, {1, 2, 3}))
           /\ gwMem = NoMemory /\ gwAnswers = {} /\ \A j \in DOMAIN gwAccepted : gwAccepted[j] = 0
        \/ gwDisk.version = 3 /\ GatewayStateLoads(gwDisk) /\ GoodState(gwDisk, gwNow, gwAccepted, gwAnswers)
    BY <1>2, <1>5 DEF GatewayInv, GatewayTypeOk, GatewayAnswersLast
  <1>7. gwMem # NoMemory => GoodState(gwMem, gwNow, gwAccepted, gwAnswers) /\ (gwHandler = NoHandler => gwMem = gwDisk)
    BY <1>2 DEF GatewayInv, GatewayTypeOk
  <1>8. gwHandler # NoHandler => HandlerGood(gwHandler, gwMem, gwNow, gwAccepted, gwAnswers)
    <2> SUFFICES ASSUME gwHandler # NoHandler PROVE HandlerGood(gwHandler, gwMem, gwNow, gwAccepted, gwAnswers)
      OBVIOUS
    <2>1. PICK last : last = IF gwHandler.rest = <<>> THEN gwMem ELSE Last(gwHandler.rest)
      OBVIOUS
    <2>2. gwHandler.answer \in PassAnswers /\ KeptUntil(last, gwHandler.answer) => KeepsUntil(last, gwHandler.answer, gwNow)
      BY AnswerKinds DEF KeptUntil, Kept, KeepsUntil
    <2>3. AnswerOk(gwHandler.answer, gwHandler.rest, last, gwMem, gwNow, gwAccepted)
      BY <2>1, <2>2 DEF GatewayInv, HandlerOk, AnswerOk, PassAnswer
    <2> QED BY <1>2, <2>1, <2>3 DEF GatewayInv, HandlerOk, HandlerGood
  <1> QED BY <1>3, <1>4, <1>6, <1>7, <1>8 DEF GatewayGood, GatewayInv

LEMMA GatewayTaken ==
  ASSUME GatewayGood(gwNow', gwDisk', gwMem', gwHandler', gwAccepted', gwAnswers')
  PROVE  GatewayInv'
  <1>1. \A s : \A a \in gwAnswers' : KeepsUntil(s, a, gwNow') => KeptUntil(s, a)' /\ Kept(s, a)'
    <2> TAKE s
    <2> TAKE a \in gwAnswers'
    <2> SUFFICES ASSUME KeepsUntil(s, a, gwNow') PROVE KeptUntil(s, a)' /\ Kept(s, a)'
      OBVIOUS
    <2>1. a \in PassAnswers /\ a.kind \in {"EFFECT", "LEGACY", "RESET", "WRITE"}
      BY AnswerKinds DEF GatewayGood, PassAnswer
    <2>2. CASE a.kind = "EFFECT"
      BY <2>2 DEF KeptUntil, Kept, KeepsUntil
    <2>3. CASE a.kind = "LEGACY"
      BY <2>3 DEF KeptUntil, Kept, KeepsUntil
    <2>4. CASE a.kind = "RESET"
      BY <2>4 DEF KeptUntil, Kept, KeepsUntil
    <2>5. CASE a.kind = "WRITE"
      BY <2>5 DEF KeptUntil, Kept, KeepsUntil
    <2> QED BY <2>1, <2>2, <2>3, <2>4, <2>5
  <1>2. \A s : GoodState(s, gwNow', gwAccepted', gwAnswers') => IsGatewayState(s, {3}) /\ Remembers(s)'
    BY <1>1 DEF Remembers, GoodState
  <1>3. \A s : IsGatewayState(s, {3}) => IsGatewayState(s, {1, 2, 3}) /\ s.version = 3 /\ s # NoFile /\ s # NoMemory
    <2> SUFFICES ASSUME NEW s, IsGatewayState(s, {3})
                 PROVE  IsGatewayState(s, {1, 2, 3}) /\ s.version = 3 /\ s # NoFile /\ s # NoMemory
      OBVIOUS
    <2>1. s # NoFile /\ s # NoMemory /\ s.version = 3
      BY FileParts
    <2> QED BY <2>1, FileOfVersion
  <1>4. gwDisk' # NoFile => IsGatewayState(gwDisk', {1, 2, 3})
    BY <1>3 DEF GatewayGood, GoodState
  <1>5. GatewayTypeOk'
    BY <1>2, <1>4 DEF GatewayTypeOk, GatewayGood, PassAnswer
  <1>6. GatewayAnswersLast'
    <2>1. \A j \in DOMAIN gwAccepted' : gwAccepted'[j] <= 1
      BY DEF GatewayGood
    <2>2. ASSUME gwDisk' # NoFile, gwDisk'.version = 3
          PROVE  GatewayStateLoads(gwDisk)' /\ \A a \in gwAnswers' : Kept(gwDisk, a)'
      <3>1. GatewayStateLoads(gwDisk') /\ GoodState(gwDisk', gwNow', gwAccepted', gwAnswers')
        BY <2>2 DEF GatewayGood
      <3> QED BY <1>1, <3>1 DEF GoodState
    <2> QED BY <2>1, <2>2 DEF GatewayAnswersLast
  <1>7. IF gwDisk' = NoFile \/ gwDisk'.version # 3
        THEN gwMem' = NoMemory /\ gwAnswers' = {} /\ \A j \in DOMAIN gwAccepted' : gwAccepted'[j] = 0
        ELSE Remembers(gwDisk)'
    BY <1>2, <1>3 DEF GatewayGood, GoodState
  <1>8. gwMem' # NoMemory => Remembers(gwMem)' /\ (gwHandler' = NoHandler => gwMem' = gwDisk')
    BY <1>2 DEF GatewayGood
  <1>9. HandlerOk'
    <2> SUFFICES ASSUME gwHandler' # NoHandler PROVE HandlerOk'
      BY DEF HandlerOk
    <2>1. HandlerGood(gwHandler', gwMem', gwNow', gwAccepted', gwAnswers')
      BY DEF GatewayGood
    <2>2. PICK last : last = IF gwHandler'.rest = <<>> THEN gwMem' ELSE Last(gwHandler'.rest)
      OBVIOUS
    <2>a. PICK a : a = gwHandler'.answer
      OBVIOUS
    <2>3. a \in PassAnswers /\ KeepsUntil(last, a, gwNow') => KeptUntil(last, a)'
      <3> SUFFICES ASSUME a \in PassAnswers, KeepsUntil(last, a, gwNow') PROVE KeptUntil(last, a)'
        OBVIOUS
      <3>1. a.kind \in {"EFFECT", "LEGACY", "RESET", "WRITE"}
        BY AnswerKinds
      <3>2. CASE a.kind = "EFFECT"
        BY <3>2 DEF KeptUntil, Kept, KeepsUntil
      <3>3. CASE a.kind = "LEGACY"
        BY <3>3 DEF KeptUntil, Kept, KeepsUntil
      <3>4. CASE a.kind = "RESET"
        BY <3>4 DEF KeptUntil, Kept, KeepsUntil
      <3>5. CASE a.kind = "WRITE"
        BY <3>5 DEF KeptUntil, Kept, KeepsUntil
      <3> QED BY <3>1, <3>2, <3>3, <3>4, <3>5
    <2>4. AnswerOk(gwHandler'.answer, gwHandler'.rest, last, gwMem', gwNow', gwAccepted')
      BY <2>1, <2>2 DEF HandlerGood
    <2>5. \A i \in DOMAIN gwHandler'.rest : IsGatewayState(gwHandler'.rest[i], {3}) /\ Remembers(gwHandler.rest[i])'
      BY <1>2, <2>1 DEF HandlerGood
    <2>6. \/ gwHandler'.answer = NoAnswer
          \/ /\ gwHandler'.answer.kind = "AUTHORIZED" /\ gwHandler'.rest = <<>>
             /\ gwHandler'.answer.jti \in gwMem'.replay /\ gwHandler'.answer.jti \in DOMAIN gwAccepted'
             /\ gwAccepted'[gwHandler'.answer.jti] = 0
          \/ /\ gwHandler'.answer \in PassAnswers /\ KeptUntil(last, gwHandler.answer)'
             /\ gwHandler'.answer.kind = "WRITE" => gwHandler'.answer.entry.expires <= gwNow' + MindRetention
      BY <2>a, <2>3, <2>4 DEF AnswerOk, PassAnswer
    <2> QED BY <2>1, <2>2, <2>5, <2>6 DEF HandlerOk, HandlerGood
  <1> QED BY <1>5, <1>6, <1>7, <1>8, <1>9 DEF GatewayInv, GatewayGood

(* A state that keeps of another whatever an answer can ask of it.         *)
Outlasts(s, t, now) ==
  /\ s.effects \subseteq t.effects /\ s.replay \subseteq t.replay
  /\ \A id \in DOMAIN s.m14 : s.m14[id].status = "DONE" => id \in DOMAIN t.m14 /\ t.m14[id].status = "DONE"
  /\ \/ t.gen > s.gen
     \/ /\ t.gen = s.gen
        /\ \A k \in DOMAIN s.entries, e \in Nat :
             e <= s.entries[k].expires /\ e <= now + MindRetention =>
               e <= now \/ (k \in DOMAIN t.entries /\ e <= t.entries[k].expires)

LEMMA AnswerOutlasts ==
  ASSUME NEW now \in Nat, NEW a, PassAnswer(a, now), NEW s, NEW t,
         IsGatewayState(s, {3}), IsGatewayState(t, {3}), Outlasts(s, t, now), KeepsUntil(s, a, now)
  PROVE  KeepsUntil(t, a, now)
  <1>1. s.gen \in Nat /\ t.gen \in Nat
    BY FileParts
  <1>2. CASE a.kind = "EFFECT"
    BY <1>2 DEF KeepsUntil, Outlasts
  <1>3. CASE a.kind = "LEGACY"
    BY <1>3 DEF KeepsUntil, Outlasts
  <1>4. CASE a.kind = "RESET"
    <2>1. a.from \in Nat
      BY <1>4, AnswerKinds DEF PassAnswer
    <2> QED BY <1>1, <1>4, <2>1 DEF KeepsUntil, Outlasts
  <1>5. CASE a.kind = "WRITE"
    <2>1. a.entry.gen \in Nat /\ a.entry.expires \in Nat /\ a.entry.expires <= now + MindRetention
      BY <1>5, AnswerKinds DEF PassAnswer
    <2>2. CASE s.gen > a.entry.gen \/ a.entry.expires <= now \/ (a.entry.gen = s.gen /\ t.gen > s.gen)
      BY <1>1, <1>5, <2>1, <2>2 DEF KeepsUntil, Outlasts
    <2>3. CASE /\ a.entry.gen = s.gen /\ t.gen = s.gen
               /\ a.key \in DOMAIN s.entries /\ a.entry.expires <= s.entries[a.key].expires
      <3>1. a.entry.expires <= now \/ (a.key \in DOMAIN t.entries /\ a.entry.expires <= t.entries[a.key].expires)
        BY <1>1, <2>1, <2>3 DEF Outlasts
      <3> QED BY <1>5, <2>3, <3>1 DEF KeepsUntil
    <2> QED BY <1>5, <2>2, <2>3 DEF KeepsUntil, Outlasts
  <1> QED BY <1>2, <1>3, <1>4, <1>5, AnswerKinds DEF PassAnswer

LEMMA OutlastsGood ==
  ASSUME NEW now \in Nat, NEW accepted, NEW answers, \A a \in answers : PassAnswer(a, now),
         NEW s, GoodState(s, now, accepted, answers), NEW t, IsGatewayState(t, {3}), Outlasts(s, t, now)
  PROVE  GoodState(t, now, accepted, answers)
  <1>1. \A a \in answers : KeepsUntil(t, a, now)
    BY AnswerOutlasts DEF GoodState
  <1>2. \A j \in DOMAIN accepted : accepted[j] > 0 => j \in t.replay
    BY DEF GoodState, Outlasts
  <1> QED BY <1>1, <1>2 DEF GoodState

(* What a handler makes of a state.                                     *)
LEMMA SweptOk ==
  ASSUME NEW s, IsGatewayState(s, {3}), gwNow \in Nat
  PROVE  /\ IsGatewayState(Unexpired(s), {3}) /\ Outlasts(s, Unexpired(s), gwNow)
         /\ Unexpired(s).gen = s.gen /\ Unexpired(s).m14 = s.m14
         /\ Unexpired(s).effects = s.effects /\ Unexpired(s).replay = s.replay
         /\ Unexpired(s).lastReset = s.lastReset /\ Unexpired(s).reset = s.reset
         /\ DOMAIN Unexpired(s).entries \subseteq DOMAIN s.entries
         /\ \A k \in DOMAIN Unexpired(s).entries : Unexpired(s).entries[k] = s.entries[k]
  <1>1. PICK keys : keys = {k \in DOMAIN s.entries : s.entries[k].expires > gwNow}
    OBVIOUS
  <1>2. PICK entries : entries = [k \in keys |-> s.entries[k]]
    OBVIOUS
  <1>3. PICK t : t = Unexpired(s)
    OBVIOUS
  <1>4. t = [s EXCEPT !.entries = entries]
    BY <1>1, <1>2, <1>3 DEF Unexpired, Restrict
  <1>5. t = [version |-> 3, effects |-> s.effects, m14 |-> s.m14, gen |-> s.gen, entries |-> entries,
             lastReset |-> s.lastReset, reset |-> s.reset, replay |-> s.replay]
    BY <1>4, CurrentParts
  <1>6. keys \in SUBSET MindNames /\ IsFiniteSet(keys) /\ entries \in [keys -> MindEntry]
    BY <1>1, <1>2, CurrentParts, FS_Subset
  <1>7. IsGatewayState(t, {3})
    <2>1. t = CurrentFile(s.effects, s.m14, s.gen, entries, s.lastReset, s.reset, s.replay)
      BY <1>5 DEF CurrentFile
    <2> QED BY <1>6, <2>1, FileChanged
  <1>8. Outlasts(s, t, gwNow)
    <2>1. \A k \in DOMAIN s.entries : s.entries[k].expires \in Nat
      BY CurrentParts DEF MindEntry
    <2>2. t.effects = s.effects /\ t.replay = s.replay /\ t.m14 = s.m14 /\ t.gen = s.gen /\ t.entries = entries
      BY <1>5
    <2>3. \A k \in DOMAIN s.entries : k \in keys => k \in DOMAIN entries /\ entries[k] = s.entries[k]
      BY <1>2
    <2>4. ASSUME NEW k \in DOMAIN s.entries, NEW e \in Nat, e <= s.entries[k].expires
          PROVE  e <= gwNow \/ (k \in DOMAIN entries /\ e <= entries[k].expires)
      BY <1>1, <2>1, <2>3, <2>4
    <2> QED BY <2>2, <2>4 DEF Outlasts
  <1> QED BY <1>1, <1>2, <1>3, <1>5, <1>7, <1>8

LEMMA EntryOk ==
  ASSUME NEW s, IsGatewayState(s, {3}), gwNow \in Nat, NEW key \in MindNames, NEW entry \in MindEntry,
         entry.expires = gwNow + MindRetention
  PROVE  /\ IsGatewayState(WithEntry(s, key, entry), {3}) /\ Outlasts(s, WithEntry(s, key, entry), gwNow)
         /\ WithEntry(s, key, entry).gen = s.gen
         /\ key \in DOMAIN WithEntry(s, key, entry).entries /\ WithEntry(s, key, entry).entries[key] = entry
  <1>1. PICK keys : keys = DOMAIN s.entries \cup {key}
    OBVIOUS
  <1>2. PICK entries : entries = [k \in keys |-> IF k = key THEN entry ELSE s.entries[k]]
    OBVIOUS
  <1>3. PICK t : t = WithEntry(s, key, entry)
    OBVIOUS
  <1>4. t = [s EXCEPT !.entries = entries]
    BY <1>1, <1>2, <1>3 DEF WithEntry
  <1>5. t = [version |-> 3, effects |-> s.effects, m14 |-> s.m14, gen |-> s.gen, entries |-> entries,
             lastReset |-> s.lastReset, reset |-> s.reset, replay |-> s.replay]
    BY <1>4, CurrentParts
  <1>6. keys \in SUBSET MindNames /\ IsFiniteSet(keys) /\ entries \in [keys -> MindEntry]
    <2>1. /\ IsFiniteSet(DOMAIN s.entries) /\ DOMAIN s.entries \in SUBSET MindNames
          /\ \A k \in DOMAIN s.entries : s.entries[k] \in MindEntry
      BY CurrentParts
    <2>2. keys \in SUBSET MindNames /\ IsFiniteSet(keys)
      BY <1>1, <2>1, FS_AddElement
    <2>3. \A k \in keys : entries[k] \in MindEntry
      BY <1>1, <1>2, <2>1
    <2> QED BY <1>2, <2>2, <2>3
  <1>7. IsGatewayState(t, {3})
    <2>1. t = CurrentFile(s.effects, s.m14, s.gen, entries, s.lastReset, s.reset, s.replay)
      BY <1>5 DEF CurrentFile
    <2> QED BY <1>6, <2>1, FileChanged
  <1>8. Outlasts(s, t, gwNow)
    <2>1. t.effects = s.effects /\ t.replay = s.replay /\ t.m14 = s.m14 /\ t.gen = s.gen /\ t.entries = entries
      BY <1>5
    <2>2. \A k \in DOMAIN s.entries : k \in DOMAIN entries /\ (entries[k] = s.entries[k] \/ entries[k] = entry)
      BY <1>1, <1>2
    <2> QED BY <2>1, <2>2 DEF Outlasts
  <1> QED BY <1>1, <1>2, <1>3, <1>5, <1>7, <1>8

(* A reset: the generation is another.                                     *)
LEMMA ResetOk ==
  ASSUME NEW s, IsGatewayState(s, {3}), NEW now
  PROVE  /\ IsGatewayState(MindReset(s), {3}) /\ Outlasts(s, MindReset(s), now)
         /\ MindReset(s).gen = s.gen + 1 /\ MindReset(s).lastReset = s.gen /\ MindReset(s).reset = 0
         /\ DOMAIN MindReset(s).entries = {} /\ MindReset(s).m14 = s.m14
         /\ MindReset(s).effects = s.effects /\ MindReset(s).replay = s.replay
  <1>1. PICK t : t = MindReset(s)
    OBVIOUS
  <1>2. PICK none : none = <<>>
    OBVIOUS
  <1>a. none \in [{} -> MindEntry]
    <2>1. none \in Seq(MindEntry) /\ Len(none) = 0
      BY <1>2
    <2>2. none \in [1..0 -> MindEntry]
      BY <2>1, LenProperties
    <2> QED BY <2>2
  <1>b. t = [s EXCEPT !.gen = s.gen + 1, !.entries = none, !.lastReset = s.gen, !.reset = 0]
    BY <1>1, <1>2 DEF MindReset
  <1>3. t = [version |-> 3, effects |-> s.effects, m14 |-> s.m14, gen |-> s.gen + 1, entries |-> none,
             lastReset |-> s.gen, reset |-> 0, replay |-> s.replay]
    <2>1. PICK effects, m14, gen, entries, last, reset, replay :
            s = [version |-> 3, effects |-> effects, m14 |-> m14, gen |-> gen,
                 entries |-> entries, lastReset |-> last, reset |-> reset, replay |-> replay]
      BY CurrentParts
    <2>2. t = [s EXCEPT !.gen = gen + 1, !.entries = none, !.lastReset = gen, !.reset = 0]
      BY <1>b, <2>1
    <2>3. t = [version |-> 3, effects |-> effects, m14 |-> m14, gen |-> gen + 1, entries |-> none,
               lastReset |-> gen, reset |-> 0, replay |-> replay]
      BY <2>1, <2>2
    <2> QED BY <2>1, <2>3
  <1>4. IsGatewayState(t, {3})
    <2>1. {} \in SUBSET MindNames /\ IsFiniteSet({}) /\ s.gen \in Nat /\ s.gen + 1 \in Nat /\ 0 \in Nat
      BY CurrentParts, FS_EmptySet
    <2>2. t = CurrentFile(s.effects, s.m14, s.gen + 1, none, s.gen, 0, s.replay)
      BY <1>3 DEF CurrentFile
    <2> QED BY <1>a, <2>1, <2>2, FileChanged
  <1>5. t.effects = s.effects /\ t.replay = s.replay /\ t.m14 = s.m14 /\ t.gen > s.gen
    BY <1>3, CurrentParts
  <1>6. Outlasts(s, t, now)
    BY <1>5 DEF Outlasts
  <1> QED BY <1>1, <1>a, <1>3, <1>4, <1>6

LEMMA ReplayOk ==
  ASSUME IsGatewayState(gwMem, {3}), NEW jti \in Jtis
  PROVE  /\ IsGatewayState(WithReplay(jti), {3}) /\ Outlasts(gwMem, WithReplay(jti), gwNow)
         /\ jti \in WithReplay(jti).replay
  <1>1. PICK s : s = gwMem
    OBVIOUS
  <1>0. s.replay \in SUBSET Jtis
    BY <1>1, CurrentParts
  <1>2. PICK replay : replay = s.replay \cup {jti} /\ replay \in SUBSET Jtis
    BY <1>0
  <1>3. PICK t : t = WithReplay(jti)
    OBVIOUS
  <1>4. t = [s EXCEPT !.replay = replay]
    BY <1>1, <1>2, <1>3 DEF WithReplay
  <1>5. t = [version |-> 3, effects |-> s.effects, m14 |-> s.m14, gen |-> s.gen, entries |-> s.entries,
             lastReset |-> s.lastReset, reset |-> s.reset, replay |-> replay]
    BY <1>1, <1>4, CurrentParts
  <1>6. IsGatewayState(t, {3})
    <2>1. t = CurrentFile(s.effects, s.m14, s.gen, s.entries, s.lastReset, s.reset, replay)
      BY <1>5 DEF CurrentFile
    <2>2. IsGatewayState(s, {3})
      BY <1>1
    <2>3. IsGatewayState(CurrentFile(s.effects, s.m14, s.gen, s.entries, s.lastReset, s.reset, replay), {3})
      BY <1>2, <2>2, EntriesStay, FileChanged
    <2> QED BY <2>1, <2>3
  <1>7. Outlasts(s, t, gwNow) /\ jti \in t.replay
    BY <1>2, <1>5 DEF Outlasts
  <1> QED BY <1>1, <1>3, <1>6, <1>7

LEMMA EffectOk ==
  ASSUME IsGatewayState(gwMem, {3}), NEW id \in GatewayIds,
         NEW t, t = [gwMem EXCEPT !.effects = @ \cup {id}]
  PROVE  IsGatewayState(t, {3}) /\ Outlasts(gwMem, t, gwNow) /\ id \in t.effects
  <1>1. PICK s : s = gwMem
    OBVIOUS
  <1>2. PICK effects : effects = s.effects \cup {id} /\ effects \in SUBSET GatewayIds
    BY <1>1, CurrentParts
  <1>3. t = [s EXCEPT !.effects = effects]
    BY <1>1, <1>2
  <1>4. t = [version |-> 3, effects |-> effects, m14 |-> s.m14, gen |-> s.gen, entries |-> s.entries,
             lastReset |-> s.lastReset, reset |-> s.reset, replay |-> s.replay]
    <2>1. PICK old, m14, gen, entries, last, reset, replay :
            s = [version |-> 3, effects |-> old, m14 |-> m14, gen |-> gen,
                 entries |-> entries, lastReset |-> last, reset |-> reset, replay |-> replay]
      BY <1>1, CurrentParts
    <2>2. t = [version |-> 3, effects |-> effects, m14 |-> m14, gen |-> gen, entries |-> entries,
               lastReset |-> last, reset |-> reset, replay |-> replay]
      BY <1>3, <2>1
    <2> QED BY <2>1, <2>2
  <1>5. IsGatewayState(t, {3})
    <2>1. t = CurrentFile(effects, s.m14, s.gen, s.entries, s.lastReset, s.reset, s.replay)
      BY <1>4 DEF CurrentFile
    <2>2. IsGatewayState(s, {3})
      BY <1>1
    <2>3. IsGatewayState(CurrentFile(effects, s.m14, s.gen, s.entries, s.lastReset, s.reset, s.replay), {3})
      BY <1>2, <2>2, EntriesStay, FileChanged
    <2> QED BY <2>1, <2>3
  <1>6. Outlasts(s, t, gwNow) /\ id \in t.effects
    BY <1>2, <1>4 DEF Outlasts
  <1> QED BY <1>1, <1>5, <1>6

LEMMA JournalOk ==
  ASSUME IsGatewayState(gwMem, {3}), NEW t, t = [gwMem EXCEPT !.reset = gwMem.gen]
  PROVE  IsGatewayState(t, {3}) /\ Outlasts(gwMem, t, gwNow) /\ t.gen = gwMem.gen
  <1>1. PICK s : s = gwMem
    OBVIOUS
  <1>2. PICK gen \in Nat : gen = s.gen
    BY <1>1, CurrentParts
  <1>3. t = [s EXCEPT !.reset = gen]
    BY <1>1, <1>2
  <1>4. t = [version |-> 3, effects |-> s.effects, m14 |-> s.m14, gen |-> s.gen, entries |-> s.entries,
             lastReset |-> s.lastReset, reset |-> gen, replay |-> s.replay]
    BY <1>1, <1>3, CurrentParts
  <1>5. IsGatewayState(t, {3})
    <2>1. t = CurrentFile(s.effects, s.m14, s.gen, s.entries, s.lastReset, gen, s.replay)
      BY <1>4 DEF CurrentFile
    <2>2. IsGatewayState(s, {3})
      BY <1>1
    <2>3. IsGatewayState(CurrentFile(s.effects, s.m14, s.gen, s.entries, s.lastReset, gen, s.replay), {3})
      BY <1>2, <2>2, EntriesStay, FileChanged
    <2> QED BY <2>1, <2>3
  <1>6. Outlasts(s, t, gwNow) /\ t.gen = s.gen
    BY <1>4 DEF Outlasts
  <1> QED BY <1>1, <1>5, <1>6

(* An entry that has expired is deleted.                                   *)
LEMMA DroppedOk ==
  ASSUME IsGatewayState(gwMem, {3}), gwNow \in Nat, NEW key \in DOMAIN gwMem.entries,
         gwMem.entries[key].expires <= gwNow,
         NEW t, t = [gwMem EXCEPT !.entries = Restrict(@, DOMAIN @ \ {key})]
  PROVE  IsGatewayState(t, {3}) /\ Outlasts(gwMem, t, gwNow)
  <1>1. PICK s : s = gwMem
    OBVIOUS
  <1>2. PICK keys : keys = DOMAIN s.entries \ {key}
    OBVIOUS
  <1>3. PICK entries : entries = [k \in keys |-> s.entries[k]]
    OBVIOUS
  <1>4. t = [s EXCEPT !.entries = entries]
    BY <1>1, <1>2, <1>3 DEF Restrict
  <1>5. t = [version |-> 3, effects |-> s.effects, m14 |-> s.m14, gen |-> s.gen, entries |-> entries,
             lastReset |-> s.lastReset, reset |-> s.reset, replay |-> s.replay]
    BY <1>1, <1>4, CurrentParts
  <1>6. keys \in SUBSET MindNames /\ IsFiniteSet(keys) /\ entries \in [keys -> MindEntry]
    BY <1>1, <1>2, <1>3, CurrentParts, FS_Subset
  <1>7. IsGatewayState(t, {3})
    <2>1. t = CurrentFile(s.effects, s.m14, s.gen, entries, s.lastReset, s.reset, s.replay)
      BY <1>5 DEF CurrentFile
    <2>2. IsGatewayState(s, {3})
      BY <1>1
    <2>3. IsGatewayState(CurrentFile(s.effects, s.m14, s.gen, entries, s.lastReset, s.reset, s.replay), {3})
      BY <1>6, <2>2, FileChanged
    <2> QED BY <2>1, <2>3
  <1>8. Outlasts(s, t, gwNow)
    <2>1. \A k \in DOMAIN s.entries : s.entries[k].expires \in Nat
      BY <1>1, CurrentParts DEF MindEntry
    <2>2. t.effects = s.effects /\ t.replay = s.replay /\ t.m14 = s.m14 /\ t.gen = s.gen /\ t.entries = entries
      BY <1>5
    <2>3. \A k \in DOMAIN s.entries : k = key \/ (k \in DOMAIN entries /\ entries[k] = s.entries[k])
      BY <1>2, <1>3
    <2>4. ASSUME NEW k \in DOMAIN s.entries, NEW e \in Nat, e <= s.entries[k].expires
          PROVE  e <= gwNow \/ (k \in DOMAIN entries /\ e <= entries[k].expires)
      BY <1>1, <2>1, <2>3, <2>4
    <2> QED BY <2>2, <2>4 DEF Outlasts
  <1> QED BY <1>1, <1>7, <1>8

(* A record of the M1.4 route: new, or of an answer that is repeated.      *)
LEMMA M14Ok ==
  ASSUME IsGatewayState(gwMem, {3}), NEW b \in GatewayBodies,
         NEW status \in {"RESERVED", "COMMITTED", "DONE"},
         b.id \notin DOMAIN gwMem.m14 \/ status = "DONE"
  PROVE  /\ IsGatewayState(WithM14(b, status), {3}) /\ Outlasts(gwMem, WithM14(b, status), gwNow)
         /\ b.id \in DOMAIN WithM14(b, status).m14 /\ WithM14(b, status).m14[b.id].status = status
  <1>1. PICK s : s = gwMem
    OBVIOUS
  <1>2. PICK prior : prior = s.m14
    OBVIOUS
  <1>3. /\ prior \in [DOMAIN prior -> M14Record] /\ IsFiniteSet(DOMAIN prior) /\ DOMAIN prior \in SUBSET GatewayIds
        /\ b.id \in GatewayIds /\ b.body \in STRING
    BY <1>1, <1>2, CurrentParts, GatewayAssumption DEF GatewayIds
  <1>4. PICK n : n = IF b.id \in DOMAIN prior THEN prior[b.id].ordinal ELSE Cardinality(DOMAIN prior) + 1
    OBVIOUS
  <1>5. n \in Nat
    BY <1>3, <1>4, FS_CardinalityType DEF M14Record
  <1>6. PICK record : record = [status |-> status, body |-> b.body, ordinal |-> n]
    OBVIOUS
  <1>7. record \in M14Record /\ record.status = status
    BY <1>3, <1>5, <1>6 DEF M14Record
  <1>8. PICK calls : calls = DOMAIN prior \cup {b.id}
    OBVIOUS
  <1>9. PICK m14 : m14 = [r \in calls |-> IF r = b.id THEN record ELSE prior[r]]
    OBVIOUS
  <1>10. calls \in SUBSET GatewayIds /\ IsFiniteSet(calls) /\ m14 \in [calls -> M14Record]
    BY <1>3, <1>7, <1>8, <1>9, FS_AddElement
  <1>11. PICK t : t = WithM14(b, status)
    OBVIOUS
  <1>12. t = [s EXCEPT !.m14 = m14]
    BY <1>1, <1>2, <1>4, <1>6, <1>8, <1>9, <1>11 DEF WithM14
  <1>13. t = [version |-> 3, effects |-> s.effects, m14 |-> m14, gen |-> s.gen, entries |-> s.entries,
              lastReset |-> s.lastReset, reset |-> s.reset, replay |-> s.replay]
    BY <1>1, <1>12, CurrentParts
  <1>14. IsGatewayState(t, {3})
    BY <1>1, <1>10, <1>13, CurrentParts, FileMade
  <1>15. t.m14 = m14 /\ t.effects = s.effects /\ t.replay = s.replay /\ t.gen = s.gen /\ t.entries = s.entries
    BY <1>13
  <1>16. \A id \in DOMAIN s.m14 : s.m14[id].status = "DONE" => id \in DOMAIN m14 /\ m14[id].status = "DONE"
    BY <1>1, <1>2, <1>7, <1>8, <1>9
  <1>17. Outlasts(s, t, gwNow)
    BY <1>15, <1>16 DEF Outlasts
  <1> QED BY <1>1, <1>7, <1>8, <1>9, <1>11, <1>14, <1>15, <1>17

(* The file of an earlier version, and what loading makes of a file.       *)
LEMMA MigratedOk ==
  ASSUME gwNow \in Nat, NEW s, IsGatewayState(s, {1, 2, 3})
  PROVE  IsGatewayState(Migrated(s), {3}) /\ (s.version = 3 => Migrated(s) = s)
  <1>0. /\ s = [version |-> s.version, effects |-> s.effects, m14 |-> s.m14, gen |-> s.gen,
                entries |-> s.entries, lastReset |-> s.lastReset, reset |-> s.reset, replay |-> s.replay]
        /\ s.version \in {1, 2, 3} /\ 1 \in Nat /\ gwNow + MindRetention \in Nat
    <2>1. {1, 2, 3} \in SUBSET {1, 2, 3}
      OBVIOUS
    <2>2. s.version \in {1, 2, 3} /\ s = [version |-> s.version, effects |-> s.effects, m14 |-> s.m14, gen |-> s.gen,
                entries |-> s.entries, lastReset |-> s.lastReset, reset |-> s.reset, replay |-> s.replay]
      BY <2>1, FileParts
    <2>3. gwNow + MindRetention \in Nat
      BY GatewayAssumption
    <2> QED BY <2>2, <2>3
  <1>a. /\ s.effects \in SUBSET GatewayIds /\ s.replay \in SUBSET Jtis
        /\ s.gen \in Nat /\ s.lastReset \in Nat /\ s.reset \in Nat
        /\ IsFiniteSet(DOMAIN s.m14) /\ DOMAIN s.m14 \in SUBSET GatewayIds /\ s.m14 \in [DOMAIN s.m14 -> M14Record]
        /\ IsFiniteSet(DOMAIN s.entries) /\ DOMAIN s.entries \in SUBSET MindNames
        /\ s.entries \in [DOMAIN s.entries -> MindEntry]
    <2>1. {1, 2, 3} \in SUBSET {1, 2, 3}
      OBVIOUS
    <2> QED BY <2>1, FileParts
  <1>1. CASE s.version = 3
    BY <1>1, FileOfVersion DEF Migrated
  <1>2. CASE s.version = 2
    <2>1. PICK t : t = Migrated(s)
      OBVIOUS
    <2>2. t = [s EXCEPT !.version = 3]
      BY <1>2, <2>1 DEF Migrated
    <2>3. t = [version |-> 3, effects |-> s.effects, m14 |-> s.m14, gen |-> s.gen, entries |-> s.entries,
               lastReset |-> s.lastReset, reset |-> s.reset, replay |-> s.replay]
      BY <1>0, <2>2
    <2>4. IsGatewayState(t, {3})
      BY <1>a, <2>3, FileMade
    <2> QED BY <1>2, <2>1, <2>4
  <1>3. CASE s.version = 1
    <2>1. PICK t : t = Migrated(s)
      OBVIOUS
    <2>2. PICK keys : keys = DOMAIN s.entries
      OBVIOUS
    <2>3. PICK entries : entries = [k \in keys |-> [value |-> s.entries[k].value, gen |-> 1, expires |-> gwNow + MindRetention]]
      OBVIOUS
    <2>4. t = [s EXCEPT !.version = 3, !.gen = 1, !.entries = entries]
      BY <1>3, <2>1, <2>2, <2>3 DEF Migrated
    <2>5. t = [version |-> 3, effects |-> s.effects, m14 |-> s.m14, gen |-> 1, entries |-> entries,
               lastReset |-> s.lastReset, reset |-> s.reset, replay |-> s.replay]
      <3>1. PICK version, effects, m14, gen, old, last, reset, replay :
              s = [version |-> version, effects |-> effects, m14 |-> m14, gen |-> gen,
                   entries |-> old, lastReset |-> last, reset |-> reset, replay |-> replay]
        BY <1>0
      <3>2. t = [version |-> 3, effects |-> effects, m14 |-> m14, gen |-> 1, entries |-> entries,
                 lastReset |-> last, reset |-> reset, replay |-> replay]
        BY <2>4, <3>1
      <3> QED BY <3>1, <3>2
    <2>6. entries \in [keys -> MindEntry]
      <3>1. s.entries \in [keys -> MindEntry]
        BY <1>a, <2>2
      <3>2. ASSUME NEW k \in keys
            PROVE  [value |-> s.entries[k].value, gen |-> 1, expires |-> gwNow + MindRetention] \in MindEntry
        BY <1>0, <3>1 DEF MindEntry
      <3> QED BY <2>3, <3>2
    <2>7. IsGatewayState(t, {3})
      BY <1>0, <1>a, <2>2, <2>5, <2>6, FileMade
    <2> QED BY <1>3, <2>1, <2>7
  <1> QED BY <1>0, <1>1, <1>2, <1>3

LEMMA FreshOk == IsGatewayState(FreshGatewayState, {3})
  <1>1. PICK none : none = <<>>
    OBVIOUS
  <1>2. none \in [{} -> MindEntry] /\ none \in [{} -> M14Record]
    <2>1. none \in Seq(MindEntry) /\ none \in Seq(M14Record) /\ Len(none) = 0
      BY <1>1
    <2>2. none \in [1..0 -> MindEntry] /\ none \in [1..0 -> M14Record]
      BY <2>1, LenProperties
    <2> QED BY <2>2
  <1>3. FreshGatewayState = [version |-> 3, effects |-> {}, m14 |-> none, gen |-> 1, entries |-> none,
                             lastReset |-> 0, reset |-> 0, replay |-> {}]
    BY <1>1 DEF FreshGatewayState
  <1>4. /\ {} \in SUBSET GatewayIds /\ {} \in SUBSET MindNames /\ {} \in SUBSET Jtis /\ IsFiniteSet({})
        /\ 3 \in {3} /\ 0 \in Nat /\ 1 \in Nat
    BY FS_EmptySet
  <1> QED BY <1>2, <1>3, <1>4, FileMade

LEMMA RecoveredLoads ==
  ASSUME NEW s, IsGatewayState(s, {3}), GatewayStateLoads(s)
  PROVE  /\ IsGatewayState(MindRecovered(s), {3}) /\ GatewayStateLoads(MindRecovered(s))
         /\ \A now : Outlasts(s, MindRecovered(s), now)
  <1>1. CASE s.reset = 0
    <2>1. MindRecovered(s) = s
      BY <1>1 DEF MindRecovered
    <2>2. \A now : Outlasts(s, s, now)
      BY DEF Outlasts
    <2> QED BY <2>1, <2>2
  <1>2. CASE s.reset # 0
    <2>1. PICK t : t = MindRecovered(s)
      OBVIOUS
    <2>2. t = MindReset(s)
      BY <1>2, <2>1 DEF MindRecovered
    <2>3. s.gen \in Nat /\ s.gen + 1 \in 1..MaxMindGeneration
      BY <1>2, CurrentParts, GatewayAssumption DEF GatewayStateLoads, MindLoads
    <2>4. /\ t.gen = s.gen + 1 /\ t.lastReset = s.gen /\ t.reset = 0 /\ DOMAIN t.entries = {}
          /\ t.m14 = s.m14 /\ t.effects = s.effects /\ t.replay = s.replay /\ IsGatewayState(t, {3})
      BY <2>2, ResetOk
    <2>5. MindLoads(t)
      BY <2>3, <2>4, FS_EmptySet, GatewayAssumption DEF MindLoads
    <2>6. GatewayStateLoads(t)
      BY <2>4, <2>5 DEF GatewayStateLoads, M14Loads
    <2> QED BY <2>1, <2>2, <2>6, ResetOk
  <1> QED BY <1>1, <1>2

LEMMA SweptLoads ==
  ASSUME NEW s, IsGatewayState(s, {3}), GatewayStateLoads(s), gwNow \in Nat
  PROVE  GatewayStateLoads(Unexpired(s))
  <1>1. PICK t : t = Unexpired(s)
    OBVIOUS
  <1>2. /\ t.gen = s.gen /\ t.m14 = s.m14 /\ t.effects = s.effects /\ t.replay = s.replay
        /\ t.lastReset = s.lastReset /\ t.reset = s.reset /\ DOMAIN t.entries \in SUBSET DOMAIN s.entries
        /\ \A k \in DOMAIN t.entries : t.entries[k] = s.entries[k]
    BY <1>1, SweptOk
  <1>3. /\ Cardinality(DOMAIN t.entries) \in Nat /\ Cardinality(DOMAIN s.entries) \in Nat
        /\ Cardinality(DOMAIN t.entries) <= Cardinality(DOMAIN s.entries)
    BY <1>2, CurrentParts, FS_Subset, FS_CardinalityType
  <1>4. MindLoads(t)
    BY <1>2, <1>3, GatewayAssumption DEF GatewayStateLoads, MindLoads
  <1>5. GatewayStateLoads(t)
    BY <1>2, <1>4 DEF GatewayStateLoads, M14Loads
  <1> QED BY <1>1, <1>5

-----------------------------------------------------------------------------
(* The gateway's actions                                                   *)
LEMMA GatewayInitial == GatewayInit => GatewayInv
  <1> SUFFICES ASSUME GatewayInit PROVE GatewayInv
    OBVIOUS
  <1>1. gwDisk # NoFile => IsGatewayState(gwDisk, {1, 2, 3}) /\ gwDisk.version # 3
    <2> SUFFICES ASSUME gwDisk # NoFile PROVE IsGatewayState(gwDisk, {1, 2, 3}) /\ gwDisk.version # 3
      OBVIOUS
    <2>1. PICK s \in LegacyStates : s = gwDisk
      BY DEF GatewayInit
    <2>2. IsGatewayState(s, {1, 2}) /\ {1, 2} \in SUBSET {1, 2, 3}
      BY GatewayAssumption
    <2>3. s.version \in {1, 2}
      BY <2>2, FileParts
    <2> QED BY <2>1, <2>2, <2>3, FileOfVersion
  <1>2. GatewayTypeOk /\ HandlerOk
    BY <1>1 DEF GatewayInit, GatewayTypeOk, HandlerOk
  <1> QED BY <1>1, <1>2 DEF GatewayInit, GatewayInv, GatewayAnswersLast

LEMMA RunningParts ==
  ASSUME GatewayInv, gwMem # NoMemory
  PROVE  /\ gwNow \in Nat /\ gwAccepted \in [{i.jti : i \in GatewayIdentities} -> {0, 1}]
         /\ \A a \in gwAnswers : PassAnswer(a, gwNow)
         /\ gwDisk.version = 3 /\ GatewayStateLoads(gwDisk) /\ GoodState(gwDisk, gwNow, gwAccepted, gwAnswers)
         /\ GoodState(gwMem, gwNow, gwAccepted, gwAnswers) /\ (gwHandler = NoHandler => gwMem = gwDisk)
         /\ gwHandler # NoHandler => HandlerGood(gwHandler, gwMem, gwNow, gwAccepted, gwAnswers)
  BY GatewayGives DEF GatewayGood

(* A state of the invariant whose handler is another.                      *)
LEMMA HandlerBegins ==
  ASSUME GatewayInv, gwMem # NoMemory, UNCHANGED <<gwNow, gwAccepted, gwAnswers>>,
         gwDisk' = gwDisk \/ (gwDisk' = gwMem /\ GatewayStateLoads(gwMem)),
         GoodState(gwMem', gwNow, gwAccepted, gwAnswers),
         NEW rest, NEW answer, NEW catches \in {0, 1, 2},
         gwHandler' = [rest |-> rest, answer |-> answer, catches |-> catches],
         rest \in Seq({rest[i] : i \in DOMAIN rest}),
         \A i \in DOMAIN rest : GoodState(rest[i], gwNow, gwAccepted, gwAnswers),
         AnswerOk(answer, rest, IF rest = <<>> THEN gwMem' ELSE Last(rest), gwMem', gwNow, gwAccepted)
  PROVE  GatewayInv'
  <1>1. gwHandler'.rest = rest /\ gwHandler'.answer = answer /\ gwHandler'.catches = catches
    OBVIOUS
  <1>2. HandlerGood(gwHandler', gwMem', gwNow', gwAccepted', gwAnswers')
    BY <1>1 DEF HandlerGood
  <1>3. gwHandler' # NoHandler
    BY DEF NoHandler
  <1>4. gwMem' # NoMemory
    BY CurrentParts DEF GoodState
  <1>5. /\ gwDisk'.version = 3 /\ GatewayStateLoads(gwDisk')
        /\ GoodState(gwDisk', gwNow', gwAccepted', gwAnswers')
    BY RunningParts, CurrentParts DEF GoodState
  <1>6. GatewayGood(gwNow', gwDisk', gwMem', gwHandler', gwAccepted', gwAnswers')
    BY <1>2, <1>3, <1>4, <1>5, RunningParts DEF GatewayGood
  <1> QED BY <1>6, GatewayTaken

(* A handler of one state.                                                 *)
LEMMA OneState ==
  ASSUME GatewayInv, gwMem # NoMemory, UNCHANGED <<gwNow, gwDisk, gwAccepted, gwAnswers>>,
         NEW s, GoodState(s, gwNow, gwAccepted, gwAnswers), NEW answer, NEW catches \in {0, 1, 2},
         GatewayBegins(<<s>>, answer, catches), AnswerOk(answer, <<>>, s, s, gwNow, gwAccepted)
  PROVE  GatewayInv'
  <1>1. PICK rest : rest = <<>>
    OBVIOUS
  <1>2. gwMem' = s /\ gwHandler' = [rest |-> rest, answer |-> answer, catches |-> catches]
    BY <1>1 DEF GatewayBegins
  <1>3. rest \in Seq({rest[i] : i \in DOMAIN rest}) /\ DOMAIN rest = {}
    BY <1>1
  <1> QED BY <1>1, <1>2, <1>3, HandlerBegins

(* A handler of two states.                                                *)
LEMMA SeveralStates ==
  ASSUME GatewayInv, gwMem # NoMemory, UNCHANGED <<gwNow, gwDisk, gwAccepted, gwAnswers>>,
         NEW s, GoodState(s, gwNow, gwAccepted, gwAnswers), NEW more, NEW answer, NEW catches \in {0, 1, 2},
         gwMem' = s, gwHandler' = [rest |-> more, answer |-> answer, catches |-> catches],
         NEW S, more \in Seq(S), more # <<>>, \A t \in S : GoodState(t, gwNow, gwAccepted, gwAnswers),
         answer = NoAnswer \/ (PassAnswer(answer, gwNow) /\ KeepsUntil(Last(more), answer, gwNow))
  PROVE  GatewayInv'
  <1>1. more \in Seq({more[i] : i \in DOMAIN more})
    <2>1. Len(more) \in Nat /\ more \in [1..Len(more) -> S] /\ DOMAIN more = 1..Len(more)
      BY LenProperties
    <2>2. PICK n \in Nat : n = Len(more)
      BY <2>1, Zenon
    <2>3. PICK T : T = {more[i] : i \in DOMAIN more}
      OBVIOUS
    <2>4. more \in [1..n -> T]
      BY <2>1, <2>2, <2>3
    <2>5. more \in Seq(T)
      BY <2>4, SeqDef
    <2> QED BY <2>3, <2>5
  <1>2. \A i \in DOMAIN more : more[i] \in S
    BY LenProperties
  <1>3. AnswerOk(answer, more, IF more = <<>> THEN s ELSE Last(more), s, gwNow, gwAccepted)
    BY DEF AnswerOk
  <1> QED BY <1>1, <1>2, <1>3, HandlerBegins

LEMMA GatewayEndsKeep ==
  ASSUME GatewayInv, gwMem # NoMemory, GatewayEnds
  PROVE  GatewayInv'
  <1>1. /\ gwMem' = NoMemory /\ gwHandler' = NoHandler
        /\ UNCHANGED <<gwNow, gwDisk, gwAccepted, gwAnswers>>
    BY DEF GatewayEnds
  <1> QED BY <1>1, RunningParts, GatewayTaken DEF GatewayGood

(* Time only lets entries expire.                                          *)
LEMMA LaterGood ==
  ASSUME NEW now \in Nat, NEW later \in Nat, now <= later, NEW accepted, NEW answers,
         \A a \in answers : PassAnswer(a, now)
  PROVE  /\ \A a : PassAnswer(a, now) => PassAnswer(a, later)
         /\ \A s : \A a : PassAnswer(a, now) /\ KeepsUntil(s, a, now) => KeepsUntil(s, a, later)
         /\ \A s : GoodState(s, now, accepted, answers) => GoodState(s, later, accepted, answers)
  <1>1. \A a : PassAnswer(a, now) => PassAnswer(a, later)
    BY AnswerKinds, GatewayAssumption DEF PassAnswer
  <1>2. ASSUME NEW s, NEW a, PassAnswer(a, now), KeepsUntil(s, a, now) PROVE KeepsUntil(s, a, later)
    <2>1. CASE a.kind = "WRITE"
      <3>1. a.entry.expires \in Nat
        BY <1>2, <2>1, AnswerKinds DEF PassAnswer
      <3> QED BY <1>2, <2>1, <3>1 DEF KeepsUntil
    <2>2. CASE a.kind # "WRITE"
      BY <1>2, <2>2 DEF KeepsUntil
    <2> QED BY <2>1, <2>2
  <1>3. \A s : GoodState(s, now, accepted, answers) => GoodState(s, later, accepted, answers)
    BY <1>2 DEF GoodState
  <1> QED BY <1>1, <1>2, <1>3

LEMMA TimeKeeps ==
  ASSUME GatewayInv, GatewayTime
  PROVE  GatewayInv'
  <1>1. gwNow' = gwNow + 1 /\ UNCHANGED <<gwDisk, gwMem, gwHandler, gwAccepted, gwAnswers>>
    BY DEF GatewayTime
  <1>2. gwNow \in Nat /\ gwNow' \in Nat /\ gwNow <= gwNow' /\ \A a \in gwAnswers : PassAnswer(a, gwNow)
    BY <1>1, GatewayGives DEF GatewayGood
  <1>3. PICK later \in Nat : later = gwNow'
    BY <1>2
  <1>4. /\ \A a : PassAnswer(a, gwNow) => PassAnswer(a, later)
        /\ \A s : \A a : PassAnswer(a, gwNow) /\ KeepsUntil(s, a, gwNow) => KeepsUntil(s, a, later)
        /\ \A s : GoodState(s, gwNow, gwAccepted, gwAnswers) => GoodState(s, later, gwAccepted, gwAnswers)
    BY <1>2, <1>3, LaterGood
  <1>5. gwHandler # NoHandler => HandlerGood(gwHandler, gwMem, later, gwAccepted, gwAnswers)
    BY <1>4, GatewayGives DEF GatewayGood, HandlerGood, AnswerOk
  <1>6. GatewayGood(later, gwDisk, gwMem, gwHandler, gwAccepted, gwAnswers)
    BY <1>4, <1>5, GatewayGives DEF GatewayGood
  <1> QED BY <1>1, <1>3, <1>6, GatewayTaken

LEMMA LoadGatewayKeeps ==
  ASSUME GatewayInv, LoadGateway
  PROVE  GatewayInv'
  <1>1. PICK found : found = IF gwDisk = NoFile THEN FreshGatewayState ELSE Migrated(gwDisk)
    OBVIOUS
  <1>2. PICK ready : ready = Unexpired(MindRecovered(found))
    OBVIOUS
  <1>3. /\ gwMem = NoMemory /\ GatewayStateLoads(found)
        /\ \/ gwDisk' = ready /\ gwMem' = ready
           \/ gwDisk' \in {found, MindRecovered(found)} /\ gwMem' = gwMem
        /\ UNCHANGED <<gwNow, gwHandler, gwCalls, gwAccepted, gwAnswers>>
    BY <1>1, <1>2 DEF LoadGateway
  <1>4. GatewayGood(gwNow, gwDisk, gwMem, gwHandler, gwAccepted, gwAnswers)
    BY GatewayGives
  <1>5. /\ gwNow \in Nat /\ \A a \in gwAnswers : PassAnswer(a, gwNow)
        /\ gwAccepted \in [{i.jti : i \in GatewayIdentities} -> {0, 1}] /\ gwHandler = NoHandler
    BY <1>3, <1>4 DEF GatewayGood
  <1>6. GoodState(found, gwNow, gwAccepted, gwAnswers)
    <2>1. CASE gwDisk = NoFile \/ (gwDisk.version # 3 /\ IsGatewayState(gwDisk, {1, 2, 3}))
      <3>1. IsGatewayState(found, {3})
        BY <1>1, <1>5, <2>1, FreshOk, MigratedOk
      <3>2. gwAnswers = {} /\ \A j \in DOMAIN gwAccepted : gwAccepted[j] = 0
        <4>1. \A s : GoodState(s, gwNow, gwAccepted, gwAnswers) => s # NoFile /\ s.version = 3
          BY CurrentParts DEF GoodState
        <4> QED BY <1>4, <2>1, <4>1 DEF GatewayGood
      <3> QED BY <3>1, <3>2 DEF GoodState
    <2>2. CASE GoodState(gwDisk, gwNow, gwAccepted, gwAnswers)
      <3>1. gwDisk # NoFile /\ gwDisk.version = 3 /\ IsGatewayState(gwDisk, {3})
        BY <2>2, CurrentParts DEF GoodState
      <3>2. Migrated(gwDisk) = gwDisk
        BY <3>1 DEF Migrated
      <3> QED BY <1>1, <2>2, <3>1, <3>2
    <2> QED BY <1>4, <2>1, <2>2 DEF GatewayGood
  <1>7. PICK recovered : recovered = MindRecovered(found)
    OBVIOUS
  <1>8. GoodState(recovered, gwNow, gwAccepted, gwAnswers) /\ GatewayStateLoads(recovered)
    <2>1. IsGatewayState(recovered, {3}) /\ GatewayStateLoads(recovered) /\ Outlasts(found, recovered, gwNow)
      BY <1>3, <1>6, <1>7, RecoveredLoads DEF GoodState
    <2> QED BY <1>5, <1>6, <2>1, OutlastsGood
  <1>9. GoodState(ready, gwNow, gwAccepted, gwAnswers) /\ GatewayStateLoads(ready)
    <2>1. IsGatewayState(ready, {3}) /\ GatewayStateLoads(ready) /\ Outlasts(recovered, ready, gwNow)
      BY <1>2, <1>5, <1>7, <1>8, SweptLoads, SweptOk DEF GoodState
    <2> QED BY <1>5, <1>8, <2>1, OutlastsGood
  <1>10. GoodState(gwDisk', gwNow, gwAccepted, gwAnswers) /\ GatewayStateLoads(gwDisk') /\ gwMem' \in {NoMemory, gwDisk'}
    BY <1>3, <1>6, <1>7, <1>8, <1>9
  <1>11. gwDisk'.version = 3
    BY <1>10, CurrentParts DEF GoodState
  <1>12. GatewayGood(gwNow', gwDisk', gwMem', gwHandler', gwAccepted', gwAnswers')
    BY <1>3, <1>5, <1>10, <1>11 DEF GatewayGood
  <1> QED BY <1>12, GatewayTaken

(* The next state of a handler.                                            *)
LEMMA Advances ==
  ASSUME NEW h, NEW mem, NEW now, NEW accepted, NEW answers,
         HandlerGood(h, mem, now, accepted, answers), h.rest # <<>>,
         NEW q, q = Tail(h.rest), NEW m, m = Head(h.rest)
  PROVE  /\ GoodState(m, now, accepted, answers)
         /\ q \in Seq({q[i] : i \in DOMAIN q})
         /\ \A i \in DOMAIN q : GoodState(q[i], now, accepted, answers)
         /\ AnswerOk(h.answer, q, IF q = <<>> THEN m ELSE Last(q), m, now, accepted)
  <1>1. PICK rest : rest = h.rest
    OBVIOUS
  <1>2. PICK T : T = {rest[i] : i \in DOMAIN rest}
    OBVIOUS
  <1>3. rest \in Seq(T) /\ rest # <<>> /\ \A t \in T : GoodState(t, now, accepted, answers)
    BY <1>1, <1>2 DEF HandlerGood
  <1>4. m \in T /\ q \in Seq(T) /\ Len(rest) \in Nat \ {0} /\ Len(q) = Len(rest) - 1
    BY <1>1, <1>3
  <1>5. /\ Len(rest) = 1 => q = <<>> /\ m = rest[Len(rest)]
        /\ Len(rest) # 1 => q # <<>> /\ q[Len(q)] = rest[Len(rest)]
    <2>1. /\ q = Tail(rest) /\ m = Head(rest) /\ Len(rest) \in Nat /\ Len(q) \in Nat
          /\ \A i \in 1..Len(q) : q[i] = rest[i + 1]
      BY <1>1, <1>3, <1>4, HeadTailProperties
    <2>2. CASE Len(rest) = 1
      <3>1. Len(q) = 0 /\ m = rest[1]
        BY <1>3, <1>4, <2>1, <2>2
      <3> QED BY <1>4, <2>2, <3>1, EmptySeq
    <2>3. CASE Len(rest) # 1
      <3>0. PICK n, k : n = Len(rest) /\ k = Len(q)
        OBVIOUS
      <3>a. n \in Nat \ {0} /\ k \in Nat /\ k = n - 1 /\ n # 1
        BY <1>4, <2>1, <2>3, <3>0
      <3>b. k # 0 /\ k \in 1..k /\ k + 1 = n
        BY <3>a
      <3>1. Len(q) # 0 /\ Len(q) \in 1..Len(q) /\ Len(q) + 1 = Len(rest)
        BY <3>0, <3>b
      <3>2. q[Len(q)] = rest[Len(q) + 1]
        BY <2>1, <3>1
      <3> QED BY <1>4, <2>3, <3>1, <3>2, EmptySeq
    <2> QED BY <2>2, <2>3
  <1>6. (IF q = <<>> THEN m ELSE Last(q)) = Last(rest)
    BY <1>4, <1>5 DEF Last
  <1>7. AnswerOk(h.answer, q, IF q = <<>> THEN m ELSE Last(q), m, now, accepted)
    BY <1>1, <1>3, <1>6 DEF HandlerGood, AnswerOk
  <1>8. \A i \in DOMAIN q : q[i] \in T
    BY <1>4, LenProperties
  <1>9. q \in Seq({q[i] : i \in DOMAIN q})
    <2>1. Len(q) \in Nat /\ q \in [1..Len(q) -> T] /\ DOMAIN q = 1..Len(q)
      BY <1>4, LenProperties
    <2>2. PICK n \in Nat : n = Len(q)
      BY <2>1, Zenon
    <2>3. PICK S : S = {q[i] : i \in DOMAIN q}
      OBVIOUS
    <2>4. q \in [1..n -> S]
      BY <2>1, <2>2, <2>3
    <2>5. q \in Seq(S)
      BY <2>4, SeqDef
    <2> QED BY <2>3, <2>5
  <1> QED BY <1>3, <1>4, <1>7, <1>8, <1>9

(* The last state of a handler is persisted: its answer is given.          *)
LEMMA AnswerGiven ==
  ASSUME GatewayInv, PersistSucceeds, gwHandler.rest = <<>>
  PROVE  GatewayInv'
  <1>1. gwHandler # NoHandler /\ GatewayStateLoads(gwMem) /\ gwDisk' = gwMem /\ gwNow' = gwNow
    BY DEF PersistSucceeds
  <1>2. gwMem # NoMemory
    BY <1>1, GatewayGives DEF GatewayGood
  <1>3. PICK a : a = gwHandler.answer
    OBVIOUS
  <1>4. /\ gwHandler' = NoHandler /\ gwMem' = gwMem
        /\ IF a.kind = "AUTHORIZED"
           THEN gwAccepted' = [gwAccepted EXCEPT ![a.jti] = @ + 1] /\ gwAnswers' = gwAnswers
           ELSE gwAnswers' = gwAnswers \cup ({a} \ {NoAnswer}) /\ gwAccepted' = gwAccepted
    BY <1>3 DEF PersistSucceeds
  <1>5. /\ gwNow \in Nat /\ gwAccepted \in [{i.jti : i \in GatewayIdentities} -> {0, 1}]
        /\ \A x \in gwAnswers : PassAnswer(x, gwNow)
        /\ GoodState(gwMem, gwNow, gwAccepted, gwAnswers)
        /\ AnswerOk(a, <<>>, gwMem, gwMem, gwNow, gwAccepted)
    BY <1>1, <1>2, <1>3, RunningParts DEF HandlerGood
  <1>6. /\ GoodState(gwMem, gwNow, gwAccepted', gwAnswers')
        /\ gwAccepted' \in [{i.jti : i \in GatewayIdentities} -> {0, 1}]
        /\ \A x \in gwAnswers' : PassAnswer(x, gwNow)
    <2>1. CASE a.kind = "AUTHORIZED"
      <3>1. a.jti \in gwMem.replay /\ a.jti \in DOMAIN gwAccepted /\ gwAccepted[a.jti] = 0
        BY <1>5, <2>1, AnswerKinds DEF AnswerOk, NoAnswer, PassAnswer
      <3>2. gwAccepted' = [gwAccepted EXCEPT ![a.jti] = 1] /\ gwAnswers' = gwAnswers
        BY <1>4, <2>1, <3>1
      <3>3. \A j \in DOMAIN gwAccepted' : gwAccepted'[j] > 0 => j \in gwMem.replay
        BY <1>5, <3>1, <3>2 DEF GoodState
      <3> QED BY <1>5, <3>2, <3>3 DEF GoodState
    <2>2. CASE a.kind # "AUTHORIZED"
      <3>1. gwAnswers' = gwAnswers \cup ({a} \ {NoAnswer}) /\ gwAccepted' = gwAccepted
        BY <1>4, <2>2
      <3>2. a = NoAnswer \/ (PassAnswer(a, gwNow) /\ KeepsUntil(gwMem, a, gwNow))
        BY <1>5, <2>2 DEF AnswerOk
      <3> QED BY <1>5, <3>1, <3>2 DEF GoodState
    <2> QED BY <2>1, <2>2
  <1>7. gwMem.version = 3
    BY <1>5, CurrentParts DEF GoodState
  <1>8. GatewayGood(gwNow', gwDisk', gwMem', gwHandler', gwAccepted', gwAnswers')
    BY <1>1, <1>2, <1>4, <1>5, <1>6, <1>7 DEF GatewayGood
  <1> QED BY <1>8, GatewayTaken

LEMMA PersistKeepsGateway ==
  ASSUME GatewayInv, PersistSucceeds \/ PersistThrows
  PROVE  GatewayInv'
  <1>1. gwHandler # NoHandler
    BY DEF PersistSucceeds, PersistThrows, Reconciling
  <1>2. gwMem # NoMemory /\ HandlerGood(gwHandler, gwMem, gwNow, gwAccepted, gwAnswers)
    BY <1>1, GatewayGives DEF GatewayGood
  <1>3. ASSUME GatewayBegins(gwHandler.rest, gwHandler.answer, gwHandler.catches), gwHandler.rest # <<>>,
               gwDisk' = gwDisk \/ (gwDisk' = gwMem /\ GatewayStateLoads(gwMem)),
               UNCHANGED <<gwNow, gwAccepted, gwAnswers>>
        PROVE  GatewayInv'
    <2>1. PICK q : q = Tail(gwHandler.rest)
      OBVIOUS
    <2>2. gwMem' = Head(gwHandler.rest)
          /\ gwHandler' = [rest |-> q, answer |-> gwHandler.answer, catches |-> gwHandler.catches]
      BY <1>3, <2>1 DEF GatewayBegins
    <2>3. /\ GoodState(gwMem', gwNow, gwAccepted, gwAnswers)
          /\ q \in Seq({q[i] : i \in DOMAIN q})
          /\ \A i \in DOMAIN q : GoodState(q[i], gwNow, gwAccepted, gwAnswers)
          /\ AnswerOk(gwHandler.answer, q, IF q = <<>> THEN gwMem' ELSE Last(q), gwMem', gwNow, gwAccepted)
      BY <1>2, <1>3, <2>1, <2>2, Advances
    <2>4. gwHandler.catches \in {0, 1, 2}
      BY <1>2 DEF HandlerGood
    <2> QED BY <1>2, <1>3, <2>2, <2>3, <2>4, HandlerBegins
  <1>4. CASE PersistSucceeds
    <2>1. CASE gwHandler.rest = <<>>
      BY <1>4, <2>1, AnswerGiven
    <2>2. CASE gwHandler.rest # <<>>
      BY <1>3, <1>4, <2>2 DEF PersistSucceeds
    <2> QED BY <2>1, <2>2
  <1>5. CASE PersistThrows
    <2>1. CASE Reconciling
      <3>0. Len(gwHandler.rest) = 1 /\ Len(<<>>) = 0
        BY <2>1, EmptySeq DEF Reconciling
      <3>1. gwHandler.rest # <<>>
        BY <3>0
      <3> QED BY <1>3, <1>5, <2>1, <3>1 DEF PersistThrows
    <2>2. CASE gwHandler.catches > 0 /\ GatewayBegins(<<gwMem>>, NoAnswer, gwHandler.catches - 1)
               /\ UNCHANGED <<gwNow, gwDisk, gwCalls, gwAccepted, gwAnswers>>
      <3>1. PICK catches : catches = gwHandler.catches - 1
        OBVIOUS
      <3>2. catches \in {0, 1, 2}
        BY <1>2, <2>2, <3>1 DEF HandlerGood
      <3>3. GoodState(gwMem, gwNow, gwAccepted, gwAnswers) /\ AnswerOk(NoAnswer, <<>>, gwMem, gwMem, gwNow, gwAccepted)
        BY <1>2, RunningParts DEF AnswerOk
      <3> QED BY <1>2, <2>2, <3>1, <3>2, <3>3, OneState
    <2>3. CASE GatewayEnds
      BY <1>2, <2>3, GatewayEndsKeep
    <2> QED BY <1>5, <2>1, <2>2, <2>3 DEF PersistThrows
  <1> QED BY <1>4, <1>5

LEMMA AuthorizeKeeps ==
  ASSUME GatewayInv, NEW i \in GatewayIdentities, Authorize(i)
  PROVE  GatewayInv'
  <1>1. /\ gwMem # NoMemory /\ i.jti \notin gwMem.replay
        /\ UNCHANGED <<gwNow, gwDisk, gwAccepted, gwAnswers>>
    BY DEF Authorize, GatewayIdle
  <1>2. PICK s : s = WithReplay(i.jti)
    OBVIOUS
  <1>3. PICK answer : answer = [kind |-> "AUTHORIZED", jti |-> i.jti, id |-> i.id]
    OBVIOUS
  <1>4. GatewayBegins(<<s>>, answer, 2)
    BY <1>2, <1>3 DEF Authorize
  <1>5. i.jti \in Jtis /\ gwNow \in Nat /\ IsGatewayState(gwMem, {3})
    BY <1>1, RunningParts DEF Jtis, GoodState
  <1>6. GoodState(s, gwNow, gwAccepted, gwAnswers) /\ i.jti \in s.replay
    <2>1. IsGatewayState(s, {3}) /\ Outlasts(gwMem, s, gwNow) /\ i.jti \in s.replay
      BY <1>2, <1>5, ReplayOk
    <2> QED BY <1>1, <1>5, <2>1, RunningParts, OutlastsGood
  <1>7. i.jti \in DOMAIN gwAccepted /\ gwAccepted[i.jti] = 0
    BY <1>1, RunningParts DEF GoodState
  <1>8. AnswerOk(answer, <<>>, s, s, gwNow, gwAccepted)
    BY <1>3, <1>6, <1>7 DEF AnswerOk
  <1> QED BY <1>1, <1>4, <1>6, <1>8, OneState

LEMMA LegacyKeeps ==
  ASSUME GatewayInv, NEW c, NEW b \in GatewayBodies, ExecuteLegacy(c, b)
  PROVE  GatewayInv'
  <1>1. gwMem # NoMemory /\ UNCHANGED <<gwNow, gwDisk, gwAccepted, gwAnswers>>
    BY DEF ExecuteLegacy, GatewayIdle
  <1>2. PICK s : s = [gwMem EXCEPT !.effects = @ \cup {b.id}]
    OBVIOUS
  <1>3. PICK answer : answer = [kind |-> "LEGACY", id |-> b.id]
    OBVIOUS
  <1>4. GatewayBegins(<<s>>, answer, 2)
    BY <1>2, <1>3 DEF ExecuteLegacy
  <1>5. b.id \in GatewayIds /\ gwNow \in Nat /\ IsGatewayState(gwMem, {3})
    BY <1>1, RunningParts DEF GatewayIds, GoodState
  <1>6. GoodState(s, gwNow, gwAccepted, gwAnswers) /\ b.id \in s.effects
    <2>1. IsGatewayState(s, {3}) /\ Outlasts(gwMem, s, gwNow) /\ b.id \in s.effects
      BY <1>2, <1>5, EffectOk
    <2> QED BY <1>1, <1>5, <2>1, RunningParts, OutlastsGood
  <1>7. PassAnswer(answer, gwNow) /\ KeepsUntil(s, answer, gwNow)
    BY <1>3, <1>5, <1>6 DEF PassAnswer, PassAnswers, KeepsUntil
  <1>8. AnswerOk(answer, <<>>, s, s, gwNow, gwAccepted)
    BY <1>7 DEF AnswerOk
  <1> QED BY <1>1, <1>4, <1>6, <1>8, OneState

LEMMA M14Keeps ==
  ASSUME GatewayInv, NEW c, NEW b \in GatewayBodies, ExecuteM14(c, b)
  PROVE  GatewayInv'
  <1>1. gwMem # NoMemory /\ UNCHANGED <<gwNow, gwDisk, gwAccepted, gwAnswers>>
    BY DEF ExecuteM14, GatewayIdle
  <1>2. b.id \in GatewayIds /\ gwNow \in Nat /\ IsGatewayState(gwMem, {3})
    BY <1>1, RunningParts DEF GatewayIds, GoodState
  <1>3. PICK answer : answer = [kind |-> "EFFECT", id |-> b.id]
    OBVIOUS
  <1>4. PICK done : done = WithM14(b, "DONE")
    OBVIOUS
  <1>5. ASSUME NEW status \in {"RESERVED", "COMMITTED", "DONE"}, b.id \notin DOMAIN gwMem.m14 \/ status = "DONE"
        PROVE  GoodState(WithM14(b, status), gwNow, gwAccepted, gwAnswers)
    <2>1. PICK s : s = WithM14(b, status)
      OBVIOUS
    <2>2. IsGatewayState(s, {3}) /\ Outlasts(gwMem, s, gwNow)
      BY <1>2, <1>5, <2>1, M14Ok
    <2> QED BY <1>1, <1>2, <2>1, <2>2, RunningParts, OutlastsGood
  <1>6. PassAnswer(answer, gwNow) /\ KeepsUntil(done, answer, gwNow)
    <2>1. b.id \in DOMAIN done.m14 /\ done.m14[b.id].status = "DONE"
      BY <1>2, <1>4, M14Ok
    <2> QED BY <1>2, <1>3, <2>1 DEF PassAnswer, PassAnswers, KeepsUntil
  <1>7. CASE b.id \in DOMAIN gwMem.m14 /\ GatewayBegins(<<done>>, answer, 2)
    <2>1. AnswerOk(answer, <<>>, done, done, gwNow, gwAccepted)
      BY <1>6 DEF AnswerOk
    <2>2. GoodState(done, gwNow, gwAccepted, gwAnswers)
      BY <1>4, <1>5
    <2> QED BY <1>1, <1>7, <2>1, <2>2, OneState
  <1>8. CASE /\ b.id \notin DOMAIN gwMem.m14
             /\ GatewayBegins(<<WithM14(b, "RESERVED"), WithM14(b, "COMMITTED"), done>>, answer, 2)
    <2>1. PICK reserved, committed : reserved = WithM14(b, "RESERVED") /\ committed = WithM14(b, "COMMITTED")
      OBVIOUS
    <2>2. /\ GoodState(reserved, gwNow, gwAccepted, gwAnswers)
          /\ GoodState(committed, gwNow, gwAccepted, gwAnswers) /\ GoodState(done, gwNow, gwAccepted, gwAnswers)
      BY <1>4, <1>5, <1>8, <2>1
    <2>3. PICK more : more = <<committed, done>>
      OBVIOUS
    <2>4. /\ more \in Seq({committed, done}) /\ more # <<>> /\ Last(more) = done
          /\ gwMem' = reserved /\ gwHandler' = [rest |-> more, answer |-> answer, catches |-> 2]
      BY <1>8, <2>1, <2>3 DEF GatewayBegins, Last
    <2>5. PICK S : S = {committed, done}
      OBVIOUS
    <2>6. more \in Seq(S) /\ \A t \in S : GoodState(t, gwNow, gwAccepted, gwAnswers)
      BY <2>2, <2>4, <2>5
    <2>7. KeepsUntil(Last(more), answer, gwNow) /\ 2 \in {0, 1, 2}
      BY <1>6, <2>4
    <2> QED BY <1>1, <1>6, <2>2, <2>4, <2>6, <2>7, SeveralStates
  <1> QED BY <1>3, <1>4, <1>7, <1>8 DEF ExecuteM14

LEMMA MindStates ==
  ASSUME GatewayInv, GatewayIdle, NEW s, IsGatewayState(s, {3}), Outlasts(gwMem, s, gwNow), NEW answer,
         MindHandler(<<s>>, answer), answer = NoAnswer \/ (PassAnswer(answer, gwNow) /\ KeepsUntil(s, answer, gwNow))
  PROVE  GatewayInv'
  <1>1. /\ gwMem # NoMemory /\ UNCHANGED <<gwNow, gwDisk, gwAccepted, gwAnswers>>
        /\ GatewayBegins(<<s>>, answer, 1)
    BY DEF MindHandler, GatewayIdle
  <1>2. GoodState(s, gwNow, gwAccepted, gwAnswers)
    BY <1>1, RunningParts, OutlastsGood
  <1>3. AnswerOk(answer, <<>>, s, s, gwNow, gwAccepted)
    BY DEF AnswerOk
  <1> QED BY <1>1, <1>2, <1>3, OneState

LEMMA WriteMindKeeps ==
  ASSUME GatewayInv, NEW key \in MindKeys, NEW value \in MindValues, WriteMind(key, value)
  PROVE  GatewayInv'
  <1>1. gwMem # NoMemory /\ GatewayIdle
    BY DEF WriteMind, GatewayIdle
  <1>2. gwNow \in Nat /\ IsGatewayState(gwMem, {3}) /\ gwMem.gen \in Nat
    BY <1>1, RunningParts, CurrentParts DEF GoodState
  <1>3. PICK swept : swept = Unexpired(gwMem)
    OBVIOUS
  <1>4. PICK entry : entry = [value |-> value, gen |-> gwMem.gen, expires |-> gwNow + MindRetention]
    OBVIOUS
  <1>5. PICK next : next = WithEntry(swept, key, entry)
    OBVIOUS
  <1>6. IsGatewayState(swept, {3}) /\ Outlasts(gwMem, swept, gwNow) /\ swept.gen = gwMem.gen
    BY <1>2, <1>3, SweptOk
  <1>7. /\ entry \in MindEntry /\ entry.expires = gwNow + MindRetention /\ entry.gen = gwMem.gen /\ key \in MindNames
        /\ entry.expires \in Nat
    BY <1>2, <1>4, GatewayAssumption DEF MindEntry, MindNames
  <1>8. /\ IsGatewayState(next, {3}) /\ Outlasts(swept, next, gwNow) /\ next.gen = gwMem.gen
        /\ key \in DOMAIN next.entries /\ next.entries[key] = entry
    BY <1>2, <1>5, <1>6, <1>7, EntryOk
  <1>9. CASE MindHandler(<<swept>>, NoAnswer)
    BY <1>1, <1>6, <1>9, MindStates
  <1>10. CASE MindHandler(<<next>>, [kind |-> "WRITE", key |-> key, entry |-> next.entries[key]])
    <2>1. PICK answer : answer = [kind |-> "WRITE", key |-> key, entry |-> next.entries[key]]
      OBVIOUS
    <2>2. answer.kind = "WRITE" /\ answer.key = key /\ answer.entry = entry /\ answer = [kind |-> "WRITE", key |-> key, entry |-> entry]
      BY <1>8, <2>1
    <2>3. PassAnswer(answer, gwNow)
      BY <1>7, <2>2 DEF PassAnswer, PassAnswers, MindEntry
    <2>4. KeepsUntil(next, answer, gwNow)
      BY <1>7, <1>8, <2>2 DEF KeepsUntil
    <2>5. GoodState(next, gwNow, gwAccepted, gwAnswers)
      <3>1. GoodState(swept, gwNow, gwAccepted, gwAnswers)
        BY <1>1, <1>2, <1>6, RunningParts, OutlastsGood
      <3> QED BY <1>1, <1>2, <1>8, <3>1, RunningParts, OutlastsGood
    <2>6. GatewayBegins(<<next>>, answer, 1) /\ UNCHANGED <<gwNow, gwDisk, gwAccepted, gwAnswers>>
      BY <1>10, <2>1 DEF MindHandler
    <2>7. AnswerOk(answer, <<>>, next, next, gwNow, gwAccepted)
      BY <2>3, <2>4 DEF AnswerOk
    <2> QED BY <1>1, <2>5, <2>6, <2>7, OneState
  <1> QED BY <1>3, <1>4, <1>5, <1>9, <1>10 DEF WriteMind

LEMMA ReadMindKeeps ==
  ASSUME GatewayInv, NEW key \in MindKeys, ReadMind(key)
  PROVE  GatewayInv'
  <1>1. gwMem # NoMemory /\ GatewayIdle /\ key \in DOMAIN gwMem.entries /\ gwMem.entries[key].expires <= gwNow
    BY DEF ReadMind, GatewayIdle
  <1>2. gwNow \in Nat /\ IsGatewayState(gwMem, {3})
    BY <1>1, RunningParts DEF GoodState
  <1>3. PICK s : s = [gwMem EXCEPT !.entries = Restrict(@, DOMAIN @ \ {key})]
    OBVIOUS
  <1>4. IsGatewayState(s, {3}) /\ Outlasts(gwMem, s, gwNow)
    BY <1>1, <1>2, <1>3, DroppedOk
  <1>5. MindHandler(<<s>>, NoAnswer)
    BY <1>3 DEF ReadMind
  <1> QED BY <1>1, <1>4, <1>5, MindStates

LEMMA ResetMindKeeps ==
  ASSUME GatewayInv, NEW from \in 1..MaxMindGeneration, ResetMind(from)
  PROVE  GatewayInv'
  <1>1. gwMem # NoMemory /\ GatewayIdle /\ gwHandler = NoHandler
    BY DEF ResetMind, GatewayIdle
  <1>2. /\ gwNow \in Nat /\ GoodState(gwMem, gwNow, gwAccepted, gwAnswers) /\ IsGatewayState(gwMem, {3})
        /\ gwMem = gwDisk /\ GatewayStateLoads(gwMem) /\ from \in Nat \ {0} /\ gwMem.gen \in Nat
    BY <1>1, RunningParts, CurrentParts, GatewayAssumption DEF GoodState
  <1>3. PICK answer : answer = [kind |-> "RESET", from |-> from]
    OBVIOUS
  <1>4. PassAnswer(answer, gwNow)
    BY <1>2, <1>3 DEF PassAnswer, PassAnswers
  <1>5. CASE /\ from = gwMem.lastReset /\ gwAnswers' = gwAnswers \cup {answer}
             /\ UNCHANGED <<gwNow, gwDisk, gwMem, gwHandler, gwCalls, gwAccepted>>
    <2>1. gwMem.gen > from
      BY <1>2, <1>5 DEF GatewayStateLoads, MindLoads
    <2>2. KeepsUntil(gwMem, answer, gwNow)
      BY <1>3, <2>1 DEF KeepsUntil
    <2>3. GoodState(gwMem, gwNow, gwAccepted, gwAnswers') /\ \A a \in gwAnswers' : PassAnswer(a, gwNow)
      BY <1>1, <1>2, <1>4, <1>5, <2>2, RunningParts DEF GoodState
    <2>4. GatewayGood(gwNow', gwDisk', gwMem', gwHandler', gwAccepted', gwAnswers')
      BY <1>1, <1>2, <1>5, <2>3, RunningParts DEF GatewayGood
    <2> QED BY <2>4, GatewayTaken
  <1>6. PICK journalled : journalled = [gwMem EXCEPT !.reset = gwMem.gen]
    OBVIOUS
  <1>7. CASE from = gwMem.gen /\ MindHandler(<<journalled, MindReset(journalled)>>, answer)
    <2>1. PICK done : done = MindReset(journalled)
      OBVIOUS
    <2>2. IsGatewayState(journalled, {3}) /\ Outlasts(gwMem, journalled, gwNow) /\ journalled.gen = gwMem.gen
      BY <1>2, <1>6, JournalOk
    <2>3. IsGatewayState(done, {3}) /\ Outlasts(journalled, done, gwNow) /\ done.gen = from + 1
      BY <1>7, <2>1, <2>2, ResetOk
    <2>4. GoodState(journalled, gwNow, gwAccepted, gwAnswers)
      BY <1>1, <1>2, <2>2, RunningParts, OutlastsGood
    <2>5. GoodState(done, gwNow, gwAccepted, gwAnswers)
      BY <1>1, <1>2, <2>3, <2>4, RunningParts, OutlastsGood
    <2>6. KeepsUntil(done, answer, gwNow)
      BY <1>2, <1>3, <2>3 DEF KeepsUntil
    <2>7. PICK more : more = <<done>>
      OBVIOUS
    <2>8. /\ more \in Seq({done}) /\ more # <<>> /\ Last(more) = done
          /\ gwMem' = journalled /\ gwHandler' = [rest |-> more, answer |-> answer, catches |-> 1]
          /\ UNCHANGED <<gwNow, gwDisk, gwAccepted, gwAnswers>>
      BY <1>7, <2>1, <2>7 DEF MindHandler, GatewayBegins, Last
    <2>9. PICK S : S = {done}
      OBVIOUS
    <2>10. more \in Seq(S) /\ \A t \in S : GoodState(t, gwNow, gwAccepted, gwAnswers)
      BY <2>5, <2>8, <2>9
    <2>11. KeepsUntil(Last(more), answer, gwNow) /\ 1 \in {0, 1, 2}
      BY <2>6, <2>8
    <2> QED BY <1>1, <1>4, <2>4, <2>8, <2>10, <2>11, SeveralStates
  <1> QED BY <1>3, <1>5, <1>6, <1>7 DEF ResetMind

LEMMA GatewayKeeps ==
  ASSUME GatewayInv, [GatewayNext]_gwVars
  PROVE  GatewayInv'
  <1>1. CASE UNCHANGED gwVars \/ \E c \in gwCalls : CallDenied(c)
    <2>1. UNCHANGED <<gwNow, gwDisk, gwMem, gwHandler, gwAccepted, gwAnswers>>
      BY <1>1 DEF gwVars, CallDenied
    <2> QED BY <2>1, GatewayGives, GatewayTaken
  <1>2. CASE GatewayKilled
    BY <1>2, GatewayEndsKeep DEF GatewayKilled
  <1> QED BY <1>1, <1>2, LoadGatewayKeeps, TimeKeeps, PersistKeepsGateway, AuthorizeKeeps, M14Keeps,
             LegacyKeeps, WriteMindKeeps, ReadMindKeeps, ResetMindKeeps DEF GatewayNext

-----------------------------------------------------------------------------
(* The services together                                                   *)
AnsweringInv == GatewayInv /\ ManagerInv /\ CellInv

StoringInv == UsageInv /\ LoadInv /\ BuilderInv /\ DailyInv

LEMMA AnsweringStep ==
  ASSUME AnsweringInv, [ServicesNext]_serviceVars
  PROVE  AnsweringInv'
  BY AnswerSteps, GatewayKeeps, ManagerKeeps, CellKeeps DEF AnsweringInv

LEMMA StoringStep ==
  ASSUME StoringInv, [ServicesNext]_serviceVars
  PROVE  StoringInv'
  <1>1. UsageInv' /\ LoadInv'
    BY StoreSteps, UsageKeeps, LoadKeeps DEF StoringInv
  <1>2. BuilderInv' /\ DailyInv'
    BY AnswerSteps, BuilderKeeps, DailyKeeps DEF StoringInv
  <1> QED BY <1>1, <1>2 DEF StoringInv

(* In every behaviour of the services, whatever answer is lost, whatever   *)
(* persist throws and wherever a process is killed: what the gateway       *)
(* answered PASS stays in the file its next process loads, and a jti       *)
(* authorises one call (persist(), loadGatewayState(),                     *)
(* persistAcceptedReplayIds()); a receipt the skill manager answered stays *)
(* in its ledger, which installed the profile at most once (install(),     *)
(* activate(), rollback()); an order of an id is sent to a provider once   *)
(* (execute() of the ERP cell).                                            *)
THEOREM AnswersAreLast == ServicesSpec => []AnswersLast
  <1>1. ServicesInit => AnsweringInv
    BY GatewayInitial, ManagerInitial, CellInitial DEF ServicesInit, AnsweringInv
  <1>2. AnsweringInv /\ [ServicesNext]_serviceVars => AnsweringInv'
    BY AnsweringStep
  <1>3. AnsweringInv => AnswersLast
    BY ManagerSafety DEF AnsweringInv, GatewayInv, CellInv, AnswersLast
  <1> QED BY <1>1, <1>2, <1>3, PTL DEF ServicesSpec

(* In every behaviour of the services, wherever a process is killed: the   *)
(* usage store a command leaves is one readStoredState() accepts; the      *)
(* builder's file holds its target's base, with a receipt for every effect *)
(* it counts, or shows by an attempt without an answer that executeWrite() *)
(* was cut between its two persists; and a daily candidate's directory     *)
(* holds the files, whole and half written, of its state's manifest, and   *)
(* none while it has no state file (initializeOutput(), atomicWrite()).    *)
THEOREM StoresSurvive == ServicesSpec => []StoresSurviveKills
  <1>1. ServicesInit => StoringInv
    BY UsageInitial, LoadInitial, BuilderInitial, DailyInitial DEF ServicesInit, StoringInv
  <1>2. StoringInv /\ [ServicesNext]_serviceVars => StoringInv'
    BY StoringStep
  <1>3. StoringInv => StoresSurviveKills
    BY DEF StoringInv, LoadInv, BuilderInv, DailyInv, StoresSurviveKills
  <1> QED BY <1>1, <1>2, <1>3, PTL DEF ServicesSpec
=============================================================================
