----------------------------- MODULE MCDelivery -----------------------------
(***************************************************************************)
(* An instance of Delivery for TLC.                                        *)
(***************************************************************************)
EXTENDS Delivery

MCBudget(p, r, c) == [maxParallel |-> p, maxRequests |-> r, maxCost |-> c]
MCGlobalBudget == MCBudget(2, 3, 3)
MCProjectBudget == [alpha |-> MCBudget(2, 3, 2), beta |-> MCBudget(1, 2, 2)]
MCProviderBudget == [local |-> MCBudget(2, 3, 3)]

MCWorkload(id, kind, project, issue, order, lease, cost) ==
  [id |-> id, digest |-> id, kind |-> kind, project |-> project, issue |-> issue,
   order |-> order, lease |-> lease, provider |-> "local", requests |-> 1,
   cost |-> cost, expires |-> 2, binding |-> "OK"]

(* A writer and its reviewer, once under a lease of its own and once under *)
(* the writer's; a second writer for the order and one for the issue; a    *)
(* writer of another project, and requests that miss a binding, a project  *)
(* or the clock.                                                           *)
MCWorkloads ==
  {MCWorkload("w1", "WRITER", "alpha", "i1", "o1", "l1", 1),
   MCWorkload("r1", "REVIEWER", "alpha", "i1", "o1", "l2", 0),
   MCWorkload("r2", "REVIEWER", "alpha", "i1", "o1", "l1", 0),
   MCWorkload("w2", "WRITER", "alpha", "i2", "o1", "l3", 0),
   MCWorkload("w3", "WRITER", "alpha", "i1", "o3", "l3", 0),
   MCWorkload("w1", "WRITER", "beta", "i1", "o1", "l4", 2),
   MCWorkload("w4", "WRITER", "beta", "i1", "o1", "l4", 1),
   [MCWorkload("w5", "WRITER", "beta", "i5", "o5", "l5", 0) EXCEPT !.expires = 1],
   [MCWorkload("w6", "WRITER", "beta", "i6", "o6", "l6", 0) EXCEPT !.binding = "ROUTE"],
   MCWorkload("w7", "WRITER", "gamma", "i7", "o7", "l7", 0)}

MCPublication(op, digest, branch, patch, bound) ==
  [op |-> op, digest |-> digest, branch |-> branch, patch |-> patch, expires |-> 2,
   bound |-> bound]

(* One operation with two requests, a second operation for the same        *)
(* branch, one for another branch, and requests that bind nothing.         *)
MCPublications ==
  {MCPublication("p1", "d1", "b1", "x1", "OK"), MCPublication("p1", "d2", "b2", "x2", "OK"),
   MCPublication("p2", "d3", "b1", "x2", "OK"), MCPublication("p3", "d4", "b2", "x1", "OK"),
   MCPublication("p4", "d5", "b3", "x1", "BASE"), MCPublication("p5", "d6", "b3", "x1", "SCHEMA")}

MCOwn == [scope |-> "own", actor |-> "own", rank |-> 1]
MCHeads == {"h1", "h2", "h3"}
MCDelivery(id, who, head, ancestor, at) ==
  [id |-> id, who |-> who, head |-> head, ancestor |-> ancestor, payload |-> "p", at |-> at]

(* A new contribution, a supersession, force pushes with and without a     *)
(* known ancestor, a replaced head that returns, an id used twice, a late  *)
(* timestamp, and deliveries of another scope, actor or authority.         *)
MCDeliveries ==
  {MCDelivery("d1", MCOwn, "h1", NoHead, 1), MCDelivery("d2", MCOwn, "h2", "h1", 1),
   MCDelivery("d3", MCOwn, "h3", NoHead, 2), MCDelivery("d4", MCOwn, "h1", "h2", 2),
   MCDelivery("d2", MCOwn, "h3", "h1", 1), MCDelivery("d5", MCOwn, "h3", "h1", 0),
   MCDelivery("d7", [MCOwn EXCEPT !.rank = 2], "h2", "h1", 2),
   MCDelivery("d8", [MCOwn EXCEPT !.scope = "other"], "h2", "h1", 2),
   MCDelivery("d9", [MCOwn EXCEPT !.actor = "other"], "h3", "h1", 2)}
=============================================================================
