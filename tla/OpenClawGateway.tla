--------------------------- MODULE OpenClawGateway ---------------------------
(***************************************************************************)
(* The OpenClaw capability gateway (demo/openclaw-agent): gateway.mjs,     *)
(* gateway-state.mjs, capability-m1-4-adapter.mjs, mind-store.mjs and the  *)
(* identity check of plugin/identity-v2.mjs.  One state file holds the     *)
(* effects of both routes, the mind's generation and entries and the       *)
(* replay ids.  A handler changes the state in memory and persists it,     *)
(* M1.4 and the mind's reset several times over; a persist may throw, and  *)
(* the process may be killed between any two.                              *)
(*                                                                         *)
(* A handler that throws counts a denial and persists once more (twice on  *)
(* the capability route); when that throws too, the rejection is unhandled *)
(* and ends the process.  An M1.4 body other than the fixture's passes the *)
(* request schema but no persist accepts its reservation.                  *)
(*                                                                         *)
(* Left out: the counters, the foreign scope's canary, the model route.    *)
(***************************************************************************)
EXTENDS Naturals, Sequences, FiniteSets, SequencesExt

CONSTANTS
  GatewayIdentities,  \* what a caller presents: [jti, id, flaws]
  GatewayBodies,      \* request bodies: [id, route, body]
  MindKeys, MindValues,
  ReplayCacheMax, EffectBudget, MindQuota, MindRetention, MaxMindGeneration,
  LegacyStates,       \* the state files of earlier versions
  NoFile, NoMemory,
  MaxGatewayTime      \* bound of the clock

VARIABLES
  gwNow, gwDisk, gwMem,
  gwHandler,   \* the handler under way: [rest, answer, catches]; its state is
               \* in gwMem and not yet persisted, "rest" are those to follow
  gwCalls,     \* authorised calls whose body is being read: [jti, id]
  gwAccepted,  \* jti -> the calls it authorised
  gwAnswers    \* the PASS answers

gwVars == <<gwNow, gwDisk, gwMem, gwHandler, gwCalls, gwAccepted, gwAnswers>>

(* The state file.                                                         *)
GatewayIds == {b.id : b \in GatewayBodies} \cup UNION {s.effects \cup DOMAIN s.m14 : s \in LegacyStates}
MindNames == MindKeys \cup UNION {DOMAIN s.entries : s \in LegacyStates}
Jtis == {i.jti : i \in GatewayIdentities} \cup UNION {s.replay : s \in LegacyStates}

(* A state with records of the ids in "calls" and entries of "keys".       *)
GatewayFile(versions, calls, keys) ==
  [version : versions, effects : SUBSET GatewayIds,
   m14 : [calls -> [status : {"RESERVED", "COMMITTED", "DONE"}, body : STRING, ordinal : Nat]],
   gen : Nat, entries : [keys -> [value : STRING, gen : Nat, expires : Nat]],
   lastReset : Nat, reset : Nat, replay : SUBSET Jtis]

IsGatewayState(s, versions) ==
  \E calls \in SUBSET GatewayIds, keys \in SUBSET MindNames :
    IsFiniteSet(calls) /\ IsFiniteSet(keys) /\ s \in GatewayFile(versions, calls, keys)

ASSUME GatewayAssumption ==
  /\ \A s \in LegacyStates : IsGatewayState(s, {1, 2})
  /\ ~IsGatewayState(NoFile, {1, 2, 3}) /\ ~IsGatewayState(NoMemory, {1, 2, 3})
  /\ MindValues \subseteq STRING /\ \A b \in GatewayBodies : b.body \in STRING
  /\ MindRetention \in Nat /\ MindQuota \in Nat /\ MaxMindGeneration \in Nat

NoHandler == [rest |-> <<>>]
NoAnswer == [kind |-> "DENY"]

GatewayIdle == gwMem # NoMemory /\ gwHandler = NoHandler

(* The claims authorizeGatewayRequest() checks before the jti.             *)
IdentityFlaws ==
  {"NETWORK_POLICY", "PROTOCOL", "DNS_TARGET", "DESTINATION", "ROUTE", "FORMAT", "PROOF",
   "SUBJECT", "AUDIENCE", "TENANT", "SCOPE", "CORRELATION", "JTI", "TIME", "EXPIRED", "TTL"}

(***************************************************************************)
(* The state                                                               *)
(***************************************************************************)
FreshGatewayState ==
  [version |-> 3, effects |-> {}, m14 |-> <<>>, gen |-> 1, entries |-> <<>>,
   lastReset |-> 0, reset |-> 0, replay |-> {}]

WithEntry(s, key, entry) ==
  [s EXCEPT !.entries = [k \in DOMAIN s.entries \cup {key} |-> IF k = key THEN entry ELSE s.entries[k]]]

Unexpired(s) ==
  [s EXCEPT !.entries = Restrict(s.entries, {k \in DOMAIN s.entries : s.entries[k].expires > gwNow})]

(* migrateGatewayStateV1(), migrateGatewayStateV2()                        *)
Migrated(s) ==
  CASE s.version = 3 -> s
    [] s.version = 2 -> [s EXCEPT !.version = 3]
    [] s.version = 1 ->
         [s EXCEPT !.version = 3, !.gen = 1,
                   !.entries = [k \in DOMAIN s.entries |->
                     [value |-> s.entries[k].value, gen |-> 1, expires |-> gwNow + MindRetention]]]

(* recoverMindState(): the journalled reset is carried out.                *)
MindReset(s) == [s EXCEPT !.gen = s.gen + 1, !.entries = <<>>, !.lastReset = s.gen, !.reset = 0]

MindRecovered(s) == IF s.reset = 0 THEN s ELSE MindReset(s)

(* validateMindState() and recoverMindState() *)
MindLoads(s) ==
  /\ \A k \in DOMAIN s.entries : s.entries[k].gen = s.gen
  /\ Cardinality(DOMAIN s.entries) <= MindQuota
  /\ s.gen \in 1..MaxMindGeneration
  /\ s.lastReset \in {0, s.gen - 1}
  /\ s.reset # 0 => s.reset = s.gen /\ s.gen < MaxMindGeneration

(* validateOpenClawM14State() *)
M14Loads(s) ==
  /\ {s.m14[r].ordinal : r \in DOMAIN s.m14} = 1..Cardinality(DOMAIN s.m14)
  /\ \A r \in DOMAIN s.m14 : s.m14[r].body = "fixture"

(* validateGatewayState() *)
GatewayStateLoads(s) ==
  /\ Cardinality(s.effects) <= EffectBudget /\ Cardinality(s.replay) <= ReplayCacheMax
  /\ MindLoads(s) /\ M14Loads(s)

GatewayInit ==
  /\ gwNow = 0 /\ gwDisk \in LegacyStates \cup {NoFile} /\ gwMem = NoMemory
  /\ gwHandler = NoHandler /\ gwCalls = {}
  /\ gwAccepted = [j \in {i.jti : i \in GatewayIdentities} |-> 0]
  /\ gwAnswers = {}

(***************************************************************************)
(* Start and stop                                                          *)
(***************************************************************************)
(* loadGatewayState(): each of its persists may be the last before a kill. *)
LoadGateway ==
  LET found == IF gwDisk = NoFile THEN FreshGatewayState ELSE Migrated(gwDisk)
      ready == Unexpired(MindRecovered(found))
  IN  /\ gwMem = NoMemory
      /\ GatewayStateLoads(found)
      /\ \/ gwDisk' = ready /\ gwMem' = ready
         \/ gwDisk' \in {found, MindRecovered(found)} /\ UNCHANGED gwMem
      /\ UNCHANGED <<gwNow, gwHandler, gwCalls, gwAccepted, gwAnswers>>

GatewayEnds ==
  /\ gwMem' = NoMemory /\ gwHandler' = NoHandler /\ gwCalls' = {}
  /\ UNCHANGED <<gwNow, gwDisk, gwAccepted, gwAnswers>>

GatewayKilled == gwMem # NoMemory /\ GatewayEnds

GatewayTime ==
  /\ gwNow < MaxGatewayTime /\ gwNow' = gwNow + 1
  /\ UNCHANGED <<gwDisk, gwMem, gwHandler, gwCalls, gwAccepted, gwAnswers>>

(***************************************************************************)
(* A handler: the states it persists in turn                               *)
(***************************************************************************)
GatewayBegins(states, answer, catches) ==
  /\ gwMem' = Head(states)
  /\ gwHandler' = [rest |-> Tail(states), answer |-> answer, catches |-> catches]

(* The M1.4 commit callback persists the second of three states: when it   *)
(* throws, the receipt is AMBIGUOUS and the adapter reconciles at once.    *)
Reconciling == gwHandler # NoHandler /\ gwHandler.catches = 2 /\ Len(gwHandler.rest) = 1

(* persist() validates the whole state first.                              *)
PersistSucceeds ==
  /\ gwHandler # NoHandler /\ GatewayStateLoads(gwMem)
  /\ gwDisk' = gwMem
  /\ \/ /\ gwHandler.rest # <<>>
        /\ GatewayBegins(gwHandler.rest, gwHandler.answer, gwHandler.catches)
        /\ UNCHANGED <<gwCalls, gwAccepted, gwAnswers>>
     \/ /\ gwHandler.rest = <<>>
        /\ gwHandler' = NoHandler /\ UNCHANGED gwMem
        /\ LET a == gwHandler.answer
           IN  IF a.kind = "AUTHORIZED"
               THEN /\ gwCalls' = gwCalls \cup {a}
                    /\ gwAccepted' = [gwAccepted EXCEPT ![a.jti] = @ + 1]
                    /\ UNCHANGED gwAnswers
               ELSE gwAnswers' = gwAnswers \cup ({a} \ {NoAnswer}) /\ UNCHANGED <<gwCalls, gwAccepted>>
  /\ UNCHANGED gwNow

PersistThrows ==
  /\ gwHandler # NoHandler
  /\ \/ /\ Reconciling
        /\ GatewayBegins(gwHandler.rest, gwHandler.answer, gwHandler.catches)
        /\ UNCHANGED <<gwNow, gwDisk, gwCalls, gwAccepted, gwAnswers>>
     \/ /\ ~Reconciling /\ gwHandler.catches > 0
        /\ GatewayBegins(<<gwMem>>, NoAnswer, gwHandler.catches - 1)
        /\ UNCHANGED <<gwNow, gwDisk, gwCalls, gwAccepted, gwAnswers>>
     \/ ~Reconciling /\ gwHandler.catches = 0 /\ GatewayEnds

(***************************************************************************)
(* The capability route                                                    *)
(***************************************************************************)
(* persistAcceptedReplayIds() *)
WithReplay(jti) == [gwMem EXCEPT !.replay = @ \cup {jti}]

(* authorizeGatewayRequest(): the jti is on disk before the body is read.  *)
Authorize(i) ==
  /\ GatewayIdle
  /\ i.flaws \cap IdentityFlaws = {}
  /\ i.jti \notin gwMem.replay /\ Cardinality(gwMem.replay) < ReplayCacheMax
  /\ GatewayBegins(<<WithReplay(i.jti)>>, [kind |-> "AUTHORIZED", jti |-> i.jti, id |-> i.id], 2)
  /\ UNCHANGED <<gwNow, gwDisk, gwCalls, gwAccepted, gwAnswers>>

WithM14(b, status) ==
  LET prior == gwMem.m14
      record == [status |-> status, body |-> b.body,
                 ordinal |-> IF b.id \in DOMAIN prior THEN prior[b.id].ordinal
                             ELSE Cardinality(DOMAIN prior) + 1]
  IN  [gwMem EXCEPT !.m14 = [r \in DOMAIN prior \cup {b.id} |-> IF r = b.id THEN record ELSE prior[r]]]

(* executeOpenClawM14Capability(): a first execution reserves, commits and *)
(* records; a retry answers the record or reconciles a commit.  What it    *)
(* denies changes nothing: a RESERVED id, another body, another id.        *)
ExecuteM14(c, b) ==
  /\ GatewayIdle /\ b.route = "M14" /\ b.id = c.id
  /\ LET answer == [kind |-> "EFFECT", id |-> b.id]
     IN  \/ /\ b.id \notin DOMAIN gwMem.m14
           /\ GatewayBegins(<<WithM14(b, "RESERVED"), WithM14(b, "COMMITTED"), WithM14(b, "DONE")>>, answer, 2)
        \/ /\ b.id \in DOMAIN gwMem.m14 /\ gwMem.m14[b.id].body = b.body
           /\ gwMem.m14[b.id].status # "RESERVED"
           /\ GatewayBegins(<<WithM14(b, "DONE")>>, answer, 2)
  /\ gwCalls' = gwCalls \ {c}
  /\ UNCHANGED <<gwNow, gwDisk, gwAccepted, gwAnswers>>

(* executeCapability(): its effect is in memory before it is persisted.    *)
ExecuteLegacy(c, b) ==
  /\ GatewayIdle /\ b.route = "LEGACY"
  /\ b.id \in gwMem.effects \/ Cardinality(gwMem.effects) < EffectBudget
  /\ GatewayBegins(<<[gwMem EXCEPT !.effects = @ \cup {b.id}]>>, [kind |-> "LEGACY", id |-> b.id], 2)
  /\ gwCalls' = gwCalls \ {c}
  /\ UNCHANGED <<gwNow, gwDisk, gwAccepted, gwAnswers>>

CallDenied(c) ==
  /\ GatewayIdle
  /\ gwCalls' = gwCalls \ {c}
  /\ UNCHANGED <<gwNow, gwDisk, gwMem, gwHandler, gwAccepted, gwAnswers>>

(***************************************************************************)
(* The mind                                                                *)
(***************************************************************************)
MindHandler(states, answer) ==
  GatewayBegins(states, answer, 1) /\ UNCHANGED <<gwNow, gwDisk, gwCalls, gwAccepted, gwAnswers>>

(* writeMind(): expired entries go even when the quota denies the write.   *)
WriteMind(key, value) ==
  LET swept == Unexpired(gwMem)
      next == WithEntry(swept, key, [value |-> value, gen |-> gwMem.gen, expires |-> gwNow + MindRetention])
  IN  /\ GatewayIdle /\ gwMem.reset = 0
      /\ \/ /\ Cardinality(DOMAIN next.entries) <= MindQuota
            /\ MindHandler(<<next>>, [kind |-> "WRITE", key |-> key, entry |-> next.entries[key]])
         \/ /\ Cardinality(DOMAIN next.entries) > MindQuota
            /\ MindHandler(<<swept>>, NoAnswer)

(* readMind(): an expired entry is deleted and denied.                     *)
ReadMind(key) ==
  /\ GatewayIdle /\ gwMem.reset = 0 /\ key \in DOMAIN gwMem.entries
  /\ gwMem.entries[key].expires <= gwNow
  /\ MindHandler(<<[gwMem EXCEPT !.entries = Restrict(@, DOMAIN @ \ {key})]>>, NoAnswer)

(* resetMind(): journal, then commit; a repeated reset is answered from    *)
(* memory.                                                                 *)
ResetMind(from) ==
  /\ GatewayIdle /\ gwMem.reset = 0
  /\ LET answer == [kind |-> "RESET", from |-> from]
         journalled == [gwMem EXCEPT !.reset = gwMem.gen]
     IN  \/ /\ from = gwMem.lastReset /\ DOMAIN gwMem.entries = {}
           /\ gwAnswers' = gwAnswers \cup {answer}
           /\ UNCHANGED <<gwNow, gwDisk, gwMem, gwHandler, gwCalls, gwAccepted>>
        \/ /\ from = gwMem.gen /\ gwMem.gen < MaxMindGeneration
           /\ MindHandler(<<journalled, MindReset(journalled)>>, answer)

GatewayNext ==
  \/ LoadGateway \/ GatewayKilled \/ GatewayTime \/ PersistSucceeds \/ PersistThrows
  \/ \E i \in GatewayIdentities : Authorize(i)
  \/ \E c \in gwCalls :
       CallDenied(c) \/ \E b \in GatewayBodies : ExecuteM14(c, b) \/ ExecuteLegacy(c, b)
  \/ \E k \in MindKeys, v \in MindValues : WriteMind(k, v)
  \/ \E k \in MindKeys : ReadMind(k)
  \/ \E g \in 1..MaxMindGeneration : ResetMind(g)

(***************************************************************************)
(* Properties                                                              *)
(***************************************************************************)
(* What the state file keeps of an answer: the effect's record; a mind     *)
(* past the generation that was reset; an entry, until it is overwritten,  *)
(* expires or is reset.                                                    *)
Kept(s, a) ==
  CASE a.kind = "EFFECT" -> a.id \in DOMAIN s.m14 /\ s.m14[a.id].status = "DONE"
    [] a.kind = "LEGACY" -> a.id \in s.effects
    [] a.kind = "RESET" -> s.gen > a.from
    [] a.kind = "WRITE" -> s.gen > a.entry.gen \/ a.entry.expires <= gwNow \/ a.key \in DOMAIN s.entries

(* Whatever persist throws and whenever the process is killed: the state   *)
(* file loads again; what a PASS answered stays; a jti authorises one call *)
(* at most; and no entry outlives its generation.                          *)
GatewayAnswersLast ==
  /\ gwDisk # NoFile /\ gwDisk.version = 3 =>
       /\ GatewayStateLoads(gwDisk)
       /\ \A a \in gwAnswers : Kept(gwDisk, a)
  /\ \A j \in DOMAIN gwAccepted : gwAccepted[j] <= 1

(* An answered entry is not overwritten by one that ends before it.        *)
KeptUntil(s, a) ==
  IF a.kind = "WRITE"
  THEN \/ s.gen > a.entry.gen \/ a.entry.expires <= gwNow
       \/ a.entry.gen = s.gen /\ a.key \in DOMAIN s.entries /\ a.entry.expires <= s.entries[a.key].expires
  ELSE Kept(s, a)

Remembers(s) ==
  /\ \A a \in gwAnswers : KeptUntil(s, a)
  /\ \A j \in DOMAIN gwAccepted : gwAccepted[j] > 0 => j \in s.replay

PassAnswers ==
  [kind : {"EFFECT", "LEGACY"}, id : GatewayIds] \cup [kind : {"RESET"}, from : Nat]
  \cup [kind : {"WRITE"}, key : MindNames, entry : [value : STRING, gen : Nat, expires : Nat]]

GatewayTypeOk ==
  /\ gwNow \in Nat
  /\ gwDisk # NoFile => IsGatewayState(gwDisk, {1, 2, 3})
  /\ gwMem # NoMemory => IsGatewayState(gwMem, {3})
  /\ gwAccepted \in [{i.jti : i \in GatewayIdentities} -> Nat]
  /\ \A a \in gwAnswers : a \in PassAnswers /\ (a.kind = "WRITE" => a.entry.expires <= gwNow + MindRetention)

(* A handler's last state keeps its answer, each of its states the earlier *)
(* ones.                                                                   *)
HandlerOk ==
  gwHandler # NoHandler =>
    LET rest == gwHandler.rest
        answer == gwHandler.answer
        last == IF rest = <<>> THEN gwMem ELSE Last(rest)
    IN  /\ gwHandler = [rest |-> rest, answer |-> answer, catches |-> gwHandler.catches]
        /\ rest \in Seq({rest[i] : i \in DOMAIN rest}) /\ gwHandler.catches \in {0, 1, 2}
        /\ \A i \in DOMAIN rest : IsGatewayState(rest[i], {3}) /\ Remembers(rest[i])
        /\ \/ answer = NoAnswer
           \/ /\ answer.kind = "AUTHORIZED" /\ rest = <<>>
              /\ answer.jti \in gwMem.replay /\ answer.jti \in DOMAIN gwAccepted /\ gwAccepted[answer.jti] = 0
           \/ /\ answer \in PassAnswers /\ KeptUntil(last, answer)
              /\ answer.kind = "WRITE" => answer.entry.expires <= gwNow + MindRetention

(* The inductive invariant: between handlers memory is the file.           *)
GatewayInv ==
  /\ GatewayAnswersLast /\ GatewayTypeOk
  /\ IF gwDisk = NoFile \/ gwDisk.version # 3
     THEN gwMem = NoMemory /\ gwAnswers = {} /\ \A j \in DOMAIN gwAccepted : gwAccepted[j] = 0
     ELSE Remembers(gwDisk)
  /\ gwMem = NoMemory => gwHandler = NoHandler
  /\ gwMem # NoMemory => Remembers(gwMem) /\ (gwHandler = NoHandler => gwMem = gwDisk)
  /\ HandlerOk
=============================================================================
