------------------------------ MODULE Delivery ------------------------------
(***************************************************************************)
(* From a work order to a merged contribution: the development worker's    *)
(* run, the governed execution of workloads, the publication broker and    *)
(* the contribution-intake ledger.  The code passes documents between them *)
(* (a receipt's patch is a publication's input, a pushed head a delivery), *)
(* and every part checks a document as if it came from anywhere: the parts *)
(* share no variable.  A behaviour therefore explores one part, from its   *)
(* own initial states, and "part" says which.                              *)
(***************************************************************************)
EXTENDS DevWorker, GovernedWorkloads, PublicationBroker, ContributionLedger

VARIABLE part
deliveryVars == <<part, dwVars, govVars, pubVars, ledgerVars>>

DeliveryInit ==
  /\ part \in {"worker", "governance", "publication", "ledger"}
  /\ WorkerInit /\ GovernanceInit /\ PublicationInit /\ LedgerInit
  /\ part # "worker" => dwMode = "synthetic" /\ dwFlaws = {}

WorkerStep(A) == part = "worker" /\ A /\ UNCHANGED <<part, govVars, pubVars, ledgerVars>>

DeliveryNext ==
  \/ WorkerStep(WorkerNext)
  \/ /\ part = "governance" /\ GovernanceNext
     /\ UNCHANGED <<part, dwVars, pubVars, ledgerVars>>
  \/ /\ part = "publication" /\ PublicationNext
     /\ UNCHANGED <<part, dwVars, govVars, ledgerVars>>
  \/ /\ part = "ledger" /\ LedgerNext
     /\ UNCHANGED <<part, dwVars, govVars, pubVars>>

(* The worker's process runs, and its one await ends by its timeout.       *)
DeliverySpec ==
  DeliveryInit /\ [][DeliveryNext]_deliveryVars /\ WF_deliveryVars(WorkerStep(RunAdvances))

DeliveryTypeOK ==
  /\ WorkerTypeOK /\ GovernanceTypeOK /\ PublicationTypeOK /\ LedgerTypeOK

(* The parts' inductive invariants, their type invariants among them.      *)
DeliveryInv == WorkerInv /\ GovernanceInv /\ PublicationInv /\ LedgerInv

(* Every worker run ends (RunsEnd of DevWorker).                           *)
WorkerRunsEnd == part = "worker" => RunsEnd
=============================================================================
