----------------------------- MODULE MCServices -----------------------------
(***************************************************************************)
(* An instance of Services for TLC.                                        *)
(***************************************************************************)
EXTENDS Services

(* The second profile also allows what the first does not: a store of its  *)
(* events must not be sent under the first.                                *)
MCProfiles == [basic |-> {"INSTALL"}, diagnostics |-> {"INSTALL", "ERROR"}]

(* Two receivers, told apart by nothing but their name.                    *)
MCEndpointSymmetry == Permutations(Endpoints)

MCRequests == [c1 |-> "CONTACT", o1 |-> "ORDER", u1 |-> "UNDECLARED"]

(* Installs of one operation with two digests; a capability of each pool,  *)
(* and one that escalates; a mark of each severity; a flawed package.      *)
MCSkill(op, d, id, pkg, flaws, marks, caps) ==
  [op |-> op, digest |-> d, id |-> id, package |-> pkg, flaws |-> flaws, marks |-> marks, caps |-> caps]
MCSkillRequests ==
  {MCSkill("i1", "d1", "greeter", "g1", {}, {}, {}), MCSkill("i1", "d2", "greeter", "g2", {}, {}, {}),
   MCSkill("i2", "d3", "reader", "r1", {}, {}, {"documents.read"}),
   MCSkill("i3", "d4", "reader", "r1", {}, {"PUBLISHER_UNTRUSTED"}, {"documents.read"}),
   MCSkill("i4", "d5", "writer", "w1", {}, {}, {"contacts.write"}),
   MCSkill("i5", "d6", "admin", "a1", {}, {}, {"authority.admin"}),
   MCSkill("i6", "d7", "tool", "t1", {}, {"HIDDEN_NETWORK"}, {}),
   MCSkill("i7", "d8", "swap", "g1", {"PACKAGE_DIGEST"}, {}, {})}
MCApprovals == {[request |-> "d3", package |-> "r1"], [request |-> "d6", package |-> "a1"]}

(* Two windows that overlap, a policy that does not verify, an id sent with *)
(* two bodies, and a request with a flaw.                                  *)
MCPolicy(m, from, until) ==
  [sound |-> TRUE, tenant |-> "zoo", maintainers |-> {m}, from |-> from, until |-> until]
MCPolicies == {MCPolicy("m1", 0, 2), MCPolicy("m2", 1, 3), [MCPolicy("m1", 0, 3) EXCEPT !.sound = FALSE]}
MCActivation(action, m, from, until) ==
  [sound |-> TRUE, tenant |-> "zoo", maintainer |-> m, action |-> action, from |-> from, until |-> until]
MCActivations == {MCActivation("contact", "m1", 0, 2), MCActivation("order", "m2", 0, 3)}
MCCapability(id, action, policy, body, flaws) ==
  [id |-> id, action |-> action, tenant |-> "zoo", policy |-> policy, body |-> body, flaws |-> flaws]
MCCapabilityRequests ==
  {MCCapability("r1", "contact", MCPolicy("m1", 0, 2), "b1", {}),
   MCCapability("r1", "contact", MCPolicy("m1", 0, 2), "b2", {}),
   MCCapability("r2", "order", MCPolicy("m2", 1, 3), "b3", {}),
   MCCapability("r3", "contact", MCPolicy("m1", 0, 2), "b4", {"REQUEST_BODY"})}

(* Two identities of one call and an expired one; an M1.4 body of each     *)
(* kind and a legacy one; state files of both earlier versions.            *)
MCIdentity(jti, id, flaws) == [jti |-> jti, id |-> id, flaws |-> flaws]
MCIdentities == {MCIdentity("j1", "q1", {}), MCIdentity("j2", "q1", {}), MCIdentity("j3", "q2", {"EXPIRED"})}
MCBodies == {[id |-> "q1", route |-> "M14", body |-> "fixture"], [id |-> "q1", route |-> "M14", body |-> "other"],
             [id |-> "e1", route |-> "LEGACY", body |-> "fixture"]}
MCOld(version) ==
  [version |-> version, effects |-> {"e0"}, m14 |-> <<>>, gen |-> version, lastReset |-> version - 1, reset |-> 0, replay |-> {"j1"},
   entries |-> IF version = 1 THEN [k \in {"k1"} |-> [value |-> "v1", gen |-> 1, expires |-> 0]] ELSE <<>>]
MCLegacyStates == {MCOld(1), MCOld(2)}

(* A read and a write; a contract with another value, one whose rights do  *)
(* not add up, and one with another target.                                *)
MCBuilderCap(op, id, kind, effect, route, approved, value, terms) ==
  [op |-> op, request |-> id, kind |-> kind, effect |-> effect, route |-> route, approved |-> approved,
   bound |-> TRUE, recovery |-> "RESTORE_PRIOR_VALUE", field |-> "setpoint", value |-> value, terms |-> terms]
MCRead == MCBuilderCap("read", "q1", "READ_FIELD", "READ_ONLY", "AUTO_EXECUTE", FALSE, 0, {"read", "temperature"})
MCWrite(v) == MCBuilderCap("write", "q2", "REVERSIBLE_WRITE_FIELD", "REVERSIBLE_WRITE", "OWNER_APPROVAL", TRUE, v, {"setpoint"})
MCContract(caps) ==
  [sound |-> TRUE, profile |-> "SAFE_GUIDED", rights |-> [i \in 1..4 |-> {"read", "write"}], effective |-> {"read", "write"},
   routes |-> [read |-> "AUTO_EXECUTE", write |-> "OWNER_APPROVAL"], caps |-> caps,
   approvals |-> {[op |-> "write", sound |-> TRUE]}, target |-> [setpoint |-> 22]]
MCBuilderContracts ==
  {MCContract({MCRead, MCWrite(23)}), MCContract({MCRead, MCWrite(24)}),
   [MCContract({MCRead, MCWrite(23)}) EXCEPT !.rights[4] = {"read"}],
   [MCContract({MCRead, [MCWrite(23) EXCEPT !.field = "humidity"]}) EXCEPT !.target = [humidity |-> 1]]}
MCPluginRequests == {Template(MCRead), Template(MCWrite(23)), Template(MCWrite(24))}
MCBuilderTexts == {{"read"}, {"setpoint"}, {"read", "temperature", "setpoint"}, {"read", "setpoint"}}

(* Two conformant profiles, one that is not as published and one of another*)
(* action; an id sent with two orders, a flawed request.                   *)
MCErpProfile(kind, binding, rights) ==
  [sound |-> TRUE, signed |-> TRUE, action |-> "a1", semantics |-> "DISCRETE_UNITS", runtime |-> "NETLESS",
   kind |-> kind, binding |-> binding, exact |-> TRUE, rights |-> rights]
MCLedger == MCErpProfile("SYNTHETIC_LEDGER_A", "ledger", {"create", "delete"})
MCErpProfiles ==
  {MCLedger, MCErpProfile("SYNTHETIC_COMMERCE_B", "commerce", {"create", "cancel"}), [MCLedger EXCEPT !.exact = FALSE],
   [MCLedger EXCEPT !.action = "a0"]}
MCErpRequests ==
  {[id |-> "o1", order |-> "x", flawed |-> FALSE], [id |-> "o1", order |-> "y", flawed |-> FALSE],
   [id |-> "o2", order |-> "x", flawed |-> FALSE], [id |-> "o3", order |-> "x", flawed |-> TRUE]}

(* Requests of one operation that differ, some only by a secret in the     *)
(* text or in a tool's description, one of each denial; two                *)
(* users of one operation id; answers the guard refuses; the lines of a tool*)
(* with two bodies, out of order and incomplete.                           *)
MCModelRoutes == {[route |-> "rt", tenants |-> {"zoo"}, purposes |-> {"help"}, options |-> {"seed"}, media |-> {"png"}]}
MCBudget(n) == [requests |-> n, tokens |-> 2, input |-> 2, output |-> 2]
MCModelRequest(op, text, n) ==
  [sound |-> TRUE, op |-> op, workload |-> "wl", user |-> "u", tenant |-> "zoo", purpose |-> "help", route |-> "rt",
   class |-> "INTERNAL", text |-> text, secrets |-> {}, tools |-> {"crm"}, toolsSound |-> TRUE, size |-> 1,
   attachments |-> {"png"}, options |-> {}, budget |-> MCBudget(n)]
MCModelRequests ==
  {MCModelRequest("p1", "hi", 3), [MCModelRequest("p1", "hi", 3) EXCEPT !.secrets = {<<"text", "k1">>}],
   [MCModelRequest("p1", "hi", 3) EXCEPT !.secrets = {<<"text", "k2">>}], [MCModelRequest("p1", "hi", 3) EXCEPT !.secrets = {<<"tools", "k1">>}],
   MCModelRequest("p1", "bye", 2), MCModelRequest("p2", "hi", 1),
   [MCModelRequest("p3", "hi", 2) EXCEPT !.class = "SECRET"], [MCModelRequest("p3", "hi", 2) EXCEPT !.tenant = "other"],
   [MCModelRequest("p3", "hi", 4) EXCEPT !.text = "x"], [MCModelRequest("p3", "hi", 2) EXCEPT !.options = {"top"}]}
MCChat(user, text, tools, secrets) == [user |-> user, text |-> text, tools |-> tools, secrets |-> secrets]
MCChats == {MCChat("Ann", "hi", {"crm"}, {<<"text", "k1">>}), MCChat("ann", "bye", {}, {}), MCChat("bob", "hi", {"crm"}, {})}
MCOperationOf == [u \in {"Ann", "ann", "bob"} |-> IF u = "bob" THEN "bob" ELSE "ann"]
MCDemoContract == [MCModelRequest("none", "", 3) EXCEPT !.attachments = {}]
MCProviderAnswers == {[mime |-> "text/plain", size |-> 1, tokens |-> 1, tools |-> {}], [mime |-> "text/plain", size |-> 1, tokens |-> 1, tools |-> {[name |-> "crm", smuggles |-> FALSE]}],
  [mime |-> "text/html", size |-> 1, tokens |-> 1, tools |-> {}], [mime |-> "text/plain", size |-> 1, tokens |-> 1, tools |-> {[name |-> "crm", smuggles |-> TRUE]}]}
MCLine(n, event, tool, body, complete) == [kind |-> "EVENT", sequence |-> n, event |-> event, tool |-> tool, body |-> body, complete |-> complete]
MCProviderLines == {[kind |-> "MARK"], [kind |-> "BAD"], MCLine(0, "TEXT_DELTA", "", "", TRUE), MCLine(0, "DONE", "", "", TRUE)}
   \cup {MCLine(n, "TOOL_CANDIDATE", "t", b, TRUE) : n \in 0..2, b \in {"x", "y"}} \cup {MCLine(1, "TOOL_CANDIDATE", "t", "x", FALSE)}
   \cup {MCLine(n, "DONE", "", "", TRUE) : n \in 1..3}
MCModelCeiling == [requests |-> 3, tokens |-> 2, input |-> 2]

(* A key that covers the signer's window, a newer minimum, a revoked key, a*)
(* key that ends; a policy event may be reported late.                     *)
MCTrust(min, active, from, until) == [sound |-> TRUE, minimum |-> min, active |-> active, from |-> from, until |-> until]
MCTrusts == {MCTrust(1, TRUE, 0, 20), MCTrust(2, TRUE, 0, 20), MCTrust(1, FALSE, 0, 20), MCTrust(1, TRUE, 0, 2)}
MCWindow == [from |-> 0, until |-> 12]
MCOutcomes == [k \in EventKinds |-> 
   IF k = "APPROVAL" THEN {"ALLOW", "DENY"} ELSE IF k \in {"EFFECT", "READBACK"} THEN {"COMMITTED", "FAILED"} ELSE {"OBSERVED"}]
MCDelays == [k \in EventKinds |-> IF k = "POLICY" THEN {0, 2} ELSE {0}]

(* A candidate; one whose claim holds of a merged source only; one that    *)
(* changes nothing; one that claims more than its evidence shows.  The     *)
(* source as it is, dirty, merged, and with other subjects.                *)
MCEvidence == [id |-> "e1", path |-> "p", sha |-> "h", until |-> 2, commit |-> "c1", maturity |-> "CI_VALIDATED", kind |-> "CI"]
MCClaim == [id |-> "cl", maturity |-> "CI_VALIDATED", refs |-> {"e1"}, says |-> "NOTHING", contradicted |-> FALSE]
MCSnapshot == [date |-> 0, sequence |-> 1, version |-> <<"v1", 0, 1>>, head |-> "c0", sealed |-> TRUE]
MCManifest ==
  [id |-> "m1", unique |-> TRUE, clean |-> TRUE, line |-> "v1", date |-> 1, sequence |-> 1, version |-> <<"v1", 1, 1>>,
   base |-> "c0", head |-> "c1", changed |-> TRUE, history |-> {MCSnapshot}, highlights |-> TRUE, claims |-> {MCClaim},
   evidence |-> {MCEvidence}, segments |-> {[order |-> 1, claims |-> {"cl"}, says |-> "NOTHING"]}, assets |-> TRUE, publishes |-> FALSE]
MCManifests == {MCManifest, [MCManifest EXCEPT !.id = "m2", !.claims = {[MCClaim EXCEPT !.maturity = "MERGED"]}, !.evidence = {[MCEvidence EXCEPT !.maturity = "RELEASED"]}],
  [MCManifest EXCEPT !.id = "m3", !.changed = FALSE], [MCManifest EXCEPT !.id = "m4", !.claims = {[MCClaim EXCEPT !.maturity = "MERGED"]}]}
MCSource == [head |-> "c1", dirty |-> FALSE, commits |-> {"c0", "c1"}, ancestry |-> {<<"c0", "c1">>}, merged |-> FALSE, tagged |-> FALSE, readme |-> TRUE,
  files |-> {<<"p", "h">>}, subjects |-> TRUE]
MCSources == {MCSource, [MCSource EXCEPT !.dirty = TRUE, !.merged = TRUE], [MCSource EXCEPT !.merged = TRUE], [MCSource EXCEPT !.subjects = FALSE]}

(* A catalog with two providers that exclude each other and a simulator;   *)
(* one without a recommended base, one with a need nothing meets.          *)
MCShowcase == [u1 |-> [module |-> "forge", actions |-> {"a1", "a2"}], u2 |-> [module |-> "docs", actions |-> {"b1"}]]
MCBuiltins == {MadeTemplate(<<"quick-tour">>, "BUILTIN", "BUILTIN_VERIFIED", {"u1", "u2"}, {"plan"}, {})}
MCPart(version, mode, kind, needs, blocks, network) ==
  [version |-> version, mode |-> mode, kind |-> kind, caps |-> IF kind \in {"PROVIDER", "SIMULATOR"} THEN {"store"} ELSE {},
   needs |-> needs, blocks |-> blocks, network |-> network]
MCNeeds(id) == [x \in {id} |-> {1}]
MCParts ==
  [core |-> MCPart(1, "SUPPORT", "SYSTEM", MCNeeds("node"), {}, {}), node |-> MCPart(1, "SUPPORT", "TOOL", <<>>, {}, {}),
   real |-> MCPart(1, "REAL", "PROVIDER", MCNeeds("core"), {}, {}), other |-> MCPart(1, "REAL", "PROVIDER", <<>>, {"real"}, {}),
   sim |-> MCPart(1, "SYNTHETIC", "SIMULATOR", MCNeeds("core"), {}, {}), web |-> MCPart(2, "REAL", "MODULE", <<>>, {}, {"any"})]
MCUseCases ==
  [u1 |-> [needs |-> MCNeeds("core"), groups |-> <<[group |-> "g1", cap |-> "store", oneOf |-> <<"real", "other">>]>>, simulator |-> "sim", blocks |-> {}],
   u2 |-> [needs |-> MCNeeds("other"), groups |-> <<>>, simulator |-> NoSimulator, blocks |-> {"web"}]]
MCCatalog ==
  [trust |-> "CUSTOM_UNVERIFIED", sealed |-> TRUE, components |-> MCParts, useCases |-> MCUseCases,
   bases |-> [tour |-> [recommended |-> TRUE, components |-> {"node"}, useCases |-> {"u1"}]]]
MCNoDocument == [none |-> TRUE]
MCCatalogs ==
  [local |-> MCCatalog, no_base |-> [MCCatalog EXCEPT !.bases.tour.recommended = FALSE],
   old_node |-> [MCCatalog EXCEPT !.components.core.needs = [x \in {"node"} |-> {2}]]]

(* A good candidate, one the resolver rejects, one of the resolver's own.  *)
MCTuple(core, packs) == [core |-> core, packs |-> packs]
MCCandidate(id, core) ==
  [id |-> id, release |-> 1, tuple |-> MCTuple(core, {"p2"}), tupleDigest |-> MCTuple(core, {"p2"}), authority |-> "auth",
   attestedBy |-> "attestor:x", promotedBy |-> "promoter:y", synthetic |-> TRUE, immutable |-> TRUE]
MCCandidates == {MCCandidate("candidate:a", {"c2"}), MCCandidate("candidate:b", {"c3"}), MCCandidate("candidate:z", {"c2"})}
MCLkgTuples == {MCTuple({"c1"}, {"p1"}), MCTuple({"c1"}, {})}
MCDecide(c) == [verdict |-> IF c.id = "candidate:b" THEN "INCOMPATIBLE" ELSE "COMPATIBLE", added |-> {}, removed |-> {}]
MCTrusted == [attestedBy |-> "attestor:x", promotedBy |-> "promoter:y", resolvedBy |-> "resolver:z"]
MCAlias ==
  [i \in {"candidate:a", "candidate:b", "candidate:z", "attestor:x", "promoter:y", "promoter:other", "resolver:z"} |->
     IF i \in {"candidate:z", "resolver:z"} THEN "z" ELSE i]
MCLocks == {[release |-> 1, exact |-> TRUE, authority |-> "a"], [release |-> 2, exact |-> FALSE, authority |-> "b"]}

(* A bundle, one with two paths that are one, one without its entrypoint.  *)
MCFile(role) == [role |-> role, media |-> "text/markdown"]
MCBundle(files) ==
  [id |-> "b", version |-> "1.0.0", source |-> "LOCAL_CONTENT", files |-> files, limitations |-> TRUE, dependencies |-> TRUE,
   consumers |-> {"INSTALLATION", "ROLLBACK"}, grants |-> {}]
MCBundleManifests ==
  {MCBundle("SKILL.md" :> MCFile("ENTRYPOINT") @@ "a.json" :> MCFile("CONFIG")), MCBundle("a.json" :> MCFile("ENTRYPOINT")),
   MCBundle("SKILL.md" :> MCFile("ENTRYPOINT") @@ "skill.md" :> MCFile("DOC"))}
MCPaths == <<"SKILL.md", "a.json", "skill.md">>
MCPathAlias == [p \in {"SKILL.md", "a.json", "skill.md"} |-> IF p = "SKILL.md" THEN "skill.md" ELSE p]
MCByteSize == [one |-> 1, other |-> 1, big |-> 3]

(* The default input of the X-ray, in two domains.                         *)
MCDomains == <<{"create", "order"}, {"name", "email"}>>
MCOperand(kind, scope) ==
  [kind |-> kind, generation |-> 1, tenant |-> "zoo", actor |-> "ai", profile |-> "SAFE_GUIDED", profileGeneration |-> 1,
   ceiling |-> "ALLOW", scope |-> scope]
MCRightsInput ==
  [sound |-> TRUE, actor |-> "ai", tenant |-> "zoo",
   operands |-> <<MCOperand("PROFILE", <<<<"create", "order">>, <<"email", "name">>>>),
                  MCOperand("ASSIGNMENT", <<<<"create">>, <<"email", "name">>>>),
                  MCOperand("CAPABILITY", <<<<"create">>, <<"email", "name">>>>),
                  MCOperand("CONSTRAINT", <<<<"create">>, <<"email">>>>)>>]

(* A write whose object leans on another one, and a description of a       *)
(* publication; one whose guide does not cover it.  Two descriptors of one *)
(* capability, one of another system.  Owners of three minds.              *)
MCOperation(object, effect, contexts, hint) ==
  [object |-> object, effect |-> effect, reversible |-> effect = "REVERSIBLE_WRITE", contexts |-> contexts, hint |-> hint]
MCDescription ==
  [sound |-> TRUE, tenant |-> "zoo", actor |-> "builder", requested |-> {"update"},
   manifest |-> [id |-> "m", tenant |-> "zoo", type |-> "crm", objects |-> [record |-> {"keeper"}, keeper |-> {"zone"}, zone |-> {"keeper"}, page |-> {}],
                 operations |-> [update |-> MCOperation("record", "REVERSIBLE_WRITE", {"undo", "why"}, "writer"),
                                 publish |-> MCOperation("page", "PUBLICATION", {"why"}, "writer")]],
   guides |-> [guide |-> [type |-> "crm", operations |-> {"update", "publish"}, contexts |-> {"undo", "why"}],
               partial |-> [type |-> "crm", operations |-> {"update"}, contexts |-> {"why"}]],
   contexts |-> [undo |-> [kind |-> "ROLLBACK", source |-> "guide"], why |-> [kind |-> "PURPOSE", source |-> "m"]]]
MCDescriptions ==
  [write |-> MCDescription, both |-> [MCDescription EXCEPT !.requested = {"update", "publish"}],
   uncovered |-> [MCDescription EXCEPT !.guides.guide.operations = {"publish"}]]
MCRegistration(capability, types, operations) ==
  [capability |-> capability, sealed |-> TRUE, types |-> types, operations |-> operations, effects |-> {"REVERSIBLE_WRITE", "PUBLICATION"}]
MCRegistrations ==
  {MCRegistration("writer", {"crm"}, {"update", "publish"}), MCRegistration("writer", {"crm", "erp"}, {"update"})}
MCAuthority(requested, effects, rules) ==
  [tenant |-> "zoo", actor |-> "builder", requested |-> requested, rights |-> effects, ceiling |-> DOMAIN effects, assigned |-> DOMAIN effects,
   constrained |-> DOMAIN effects, rules |-> rules]
MCUpdate == [x \in {"update"} |-> "REVERSIBLE_WRITE"]
MCBoth == [update |-> "REVERSIBLE_WRITE", publish |-> "PUBLICATION"]
MCAuthorities ==
  [guided |-> MCAuthority("NONE", MCUpdate, <<>>), rampage |-> [MCAuthority("RAMPAGE", MCUpdate, <<>>) EXCEPT !.assigned = {}],
   custom |-> MCAuthority("CUSTOM", MCBoth, [x \in {"update"} |-> "AUTO_EXECUTE"]),
   unknown |-> MCAuthority("FULL_CONTROL", MCUpdate, <<>>)]
=============================================================================
