-------------------------- MODULE PublicationBroker --------------------------
(***************************************************************************)
(* TrustedPublicationBrokerV1 and FakeGitLabPublicationAdapterV1           *)
(* (packages/dev-worker/src/publication-broker.ts): a publication creates  *)
(* a worker branch, pushes one bounded patch and opens a draft merge       *)
(* request, or takes back what it made.  publish() and the adapter are     *)
(* synchronous, so a call is one step; the adapter may fail at each call,  *)
(* answer a readback that does not match, or fail to clean up.  A new      *)
(* broker object may be made over the same provider: its replay map is     *)
(* empty.                                                                  *)
(*                                                                         *)
(* bound is the first of the comparisons between request, work order and   *)
(* policy (project, issue, order, lease, base, branch prefix, draft, patch *)
(* digests, paths) that fails, or "OK".                                    *)
(***************************************************************************)
EXTENDS Naturals, FiniteSets, FiniteSetsExt, Functions, Verdicts

CONSTANTS
  Publications,   \* the requests: [op, digest, branch, patch, expires, bound]
  NoBranch,       \* the branch does not exist
  PublicationEnabled,
  MaxPubTime,     \* bound of the clock
  MaxBrokers,     \* bound of the broker objects made
  MaxAttempts     \* bound of the merge requests opened

VARIABLES
  pubClock,
  pubBroker,      \* how many broker objects were made
  pubReplay,      \* replay: operation -> receipt
  pubBranches,    \* the provider's branches
  pubRequests,    \* the provider's open merge requests
  pubNextIid,     \* the provider's next merge request number
  pubPublished,   \* history: every receipt with outcome PUBLISHED
  pubDirty        \* history: branches whose cleanup failed

pubVars == <<pubClock, pubBroker, pubReplay, pubBranches, pubRequests,
             pubNextIid, pubPublished, pubDirty>>

BranchNames == {p.branch : p \in Publications}
MergeRequest == [iid : Nat, source : BranchNames]

ASSUME PublicationAssumption ==
  /\ \A p \in Publications : p.patch # NoBranch
  /\ MaxPubTime \in Nat /\ MaxBrokers \in Nat \ {0} /\ MaxAttempts \in Nat

PublicationInit ==
  /\ pubClock = 0 /\ pubBroker = 1 /\ pubReplay = <<>>
  /\ pubBranches = [b \in BranchNames |-> NoBranch]
  /\ pubRequests = {} /\ pubNextIid = 117
  /\ pubPublished = {} /\ pubDirty = {}

(* Mutant of BranchExists: the broker looks at its own receipts only.      *)
BranchInReceipts(b) == \E o \in DOMAIN pubReplay : pubReplay[o].branch = b

(* branchExists() *)
BranchExists(b) == pubBranches[b] # NoBranch

(* The checks of publish() before the first effect.                        *)
PublishVerdict(p) ==
  FirstDenial(<<
    Check(PublicationEnabled, "PUBLICATION_DISABLED_DENIED"),
    Check(p.bound # "SCHEMA", "REQUEST_SCHEMA_OR_DIGEST_DENIED"),
    Check(p.op \notin DOMAIN pubReplay \/ pubReplay[p.op].digest = p.digest,
          "REPLAY_CONFLICT_DENIED"),
    Check(p.op \notin DOMAIN pubReplay, "REPLAYED"),
    Check(pubClock < p.expires, "EXPIRED_REQUEST_OR_LEASE_DENIED"),
    Check(p.bound = "OK", "PUBLICATION_BINDING_DENIED"),
    Check(~BranchExists(p.branch), "BRANCH_COLLISION_DENIED")>>)

(* The three effects, all of them acknowledged and read back as they were  *)
(* asked for.                                                              *)
Publish(p) ==
  LET receipt == [op |-> p.op, digest |-> p.digest, branch |-> p.branch,
                  iid |-> pubNextIid, head |-> p.patch]
  IN  /\ PublishVerdict(p) = "OK" /\ pubNextIid < 117 + MaxAttempts
      /\ pubBranches' = [pubBranches EXCEPT ![p.branch] = p.patch]
      /\ pubRequests' = pubRequests \cup {[iid |-> pubNextIid, source |-> p.branch]}
      /\ pubNextIid' = pubNextIid + 1
      /\ pubReplay' = [o \in DOMAIN pubReplay \cup {p.op} |->
                         IF o = p.op THEN receipt ELSE pubReplay[o]]
      /\ pubPublished' = pubPublished \cup {receipt}
      /\ UNCHANGED <<pubClock, pubBroker, pubDirty>>

(* cleanup(): the merge request is known to it only when creating it       *)
(* returned.                                                               *)
CleanedUp(made, iid) == {r \in made : r.iid # iid}

(* An effect or the readback fails after the branch was created: at is the *)
(* failing call.  The broker cleans up, or finds that it could not; the    *)
(* branch then still has what was pushed before the failure.               *)
PublishFails(p, at, cleans) ==
  LET pushed == at \in {"MR", "READBACK"}
      opened == at = "READBACK"
      made   == IF opened THEN pubRequests \cup {[iid |-> pubNextIid, source |-> p.branch]}
                ELSE pubRequests
  IN  /\ PublishVerdict(p) = "OK" /\ pubNextIid < 117 + MaxAttempts
      /\ pubNextIid' = IF opened THEN pubNextIid + 1 ELSE pubNextIid
      /\ pubBranches' = [pubBranches EXCEPT ![p.branch] =
                           IF cleans THEN NoBranch ELSE IF pushed THEN p.patch ELSE "base"]
      /\ pubRequests' = IF cleans /\ opened THEN CleanedUp(made, pubNextIid) ELSE made
      /\ pubDirty' = IF cleans THEN pubDirty ELSE pubDirty \cup {p.branch}
      /\ UNCHANGED <<pubClock, pubBroker, pubReplay, pubPublished>>

(* A new TrustedPublicationBrokerV1 over the same provider.                *)
NewBroker ==
  /\ pubBroker < MaxBrokers
  /\ pubBroker' = pubBroker + 1
  /\ pubReplay' = <<>>
  /\ UNCHANGED <<pubClock, pubBranches, pubRequests, pubNextIid, pubPublished, pubDirty>>

PublicationTick ==
  /\ pubClock < MaxPubTime
  /\ pubClock' = pubClock + 1
  /\ UNCHANGED <<pubBroker, pubReplay, pubBranches, pubRequests, pubNextIid,
                 pubPublished, pubDirty>>

PublicationNext ==
  \/ \E p \in Publications : Publish(p)
  \/ \E p \in Publications, at \in {"PUSH", "MR", "READBACK"}, cleans \in BOOLEAN :
       PublishFails(p, at, cleans)
  \/ NewBroker
  \/ PublicationTick

(***************************************************************************)
(* Properties                                                              *)
(***************************************************************************)
PublicationTypeOK ==
  /\ pubBroker \in 1..MaxBrokers
  /\ pubClock \in 0..MaxPubTime
  /\ pubBranches \in [BranchNames -> {NoBranch, "base"} \cup {p.patch : p \in Publications}]
  /\ pubRequests \subseteq [iid : 117..pubNextIid, source : BranchNames]
  /\ DOMAIN pubReplay \subseteq {p.op : p \in Publications}
  /\ pubDirty \subseteq BranchNames

(* Whatever fails and however often a request is repeated, also to a new   *)
(* broker that has forgotten its receipts, the provider holds exactly the  *)
(* published merge requests and branches and what a failed cleanup left:   *)
(* one merge request per branch, for the patch its receipt names.          *)
ProviderMatchesReceipts ==
  /\ \A r \in pubPublished :
       /\ [iid |-> r.iid, source |-> r.branch] \in pubRequests
       /\ pubBranches[r.branch] = r.head
  /\ \A r, q \in pubPublished : r # q => r.branch # q.branch /\ r.iid # q.iid
  /\ \A m \in pubRequests :
       m.source \in pubDirty \/ \E r \in pubPublished : r.iid = m.iid /\ r.branch = m.source
  /\ \A b \in BranchNames :
       pubBranches[b] # NoBranch => b \in pubDirty \/ \E r \in pubPublished : r.branch = b
  /\ \A o \in DOMAIN pubReplay : pubReplay[o] \in pubPublished

(* The inductive invariant: the provider's next number is not in use.      *)
PublicationInv ==
  /\ PublicationTypeOK
  /\ pubNextIid \in Nat /\ pubNextIid >= 117
  /\ \A m \in pubRequests : m.iid < pubNextIid
  /\ \A r \in pubPublished : r.branch \in BranchNames /\ r.iid < pubNextIid
                             /\ r.head # NoBranch
  /\ ProviderMatchesReceipts
=============================================================================
