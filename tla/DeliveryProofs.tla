--------------------------- MODULE DeliveryProofs ---------------------------
(***************************************************************************)
(* Theorems about Delivery: the governed workloads, the publication        *)
(* broker, the development worker and the contribution ledger, for any     *)
(* workloads, budgets, publications, edits, deliveries and faults.         *)
(***************************************************************************)
EXTENDS Delivery, FiniteSetTheorems, SequenceTheorems, WellFoundedInduction, TLAPS

-----------------------------------------------------------------------------
(* Verdicts                                                                *)

(* A set of natural numbers that is not empty has a least element.         *)
LEMMA LeastNatural ==
  ASSUME NEW S \in SUBSET Nat, S # {}
  PROVE  \E m \in S : \A k \in S : m <= k
  <1> DEFINE Less == {p \in Nat \X Nat : p[1] < p[2]}
  <1>1. IsWellFoundedOn(Less, Nat)
    BY NatLessThanWellFounded DEF OpToRel
  <1>2. PICK m \in S : \A k \in S : ~(<<k, m>> \in Less)
    <2> HIDE DEF Less
    <2> QED BY <1>1, WFMin
  <1>3. SUFFICES ASSUME NEW k \in S PROVE m <= k
    OBVIOUS
  <1>4. ~(k < m)
    BY <1>2
  <1> QED BY <1>4

(* FirstDenial answers "OK" only when no check fails, if no check denies   *)
(* with "OK".                                                              *)
LEMMA NoDenial ==
  ASSUME NEW checks, DOMAIN checks \subseteq Nat,
         \A i \in DOMAIN checks : checks[i].code # "OK",
         FirstDenial(checks) = "OK"
  PROVE  \A i \in DOMAIN checks : checks[i].holds
  <1> DEFINE failing == {i \in DOMAIN checks : ~checks[i].holds}
  <1>1. SUFFICES ASSUME failing # {} PROVE FALSE
    OBVIOUS
  <1>2. PICK m \in failing : \A k \in failing : m <= k
    BY <1>1, LeastNatural
  <1> DEFINE first == CHOOSE i \in failing : \A j \in failing : i <= j
  <1>3. first \in failing
    BY <1>2
  <1>4. FirstDenial(checks) = checks[first].code
    BY <1>1 DEF FirstDenial
  <1> QED BY <1>3, <1>4

-----------------------------------------------------------------------------
(* Sums over finite sets                                                   *)

Some(U) == CHOOSE x \in U : TRUE

(* g gives each subset of S the sum of v over it.                          *)
IsSum(g, v, S) ==
  g = [s \in SUBSET S |-> IF s = {} THEN 0 ELSE v[Some(s)] + g[s \ {Some(s)}]]

LEMMA SomeMember == ASSUME NEW U, U # {} PROVE Some(U) \in U
  BY DEF Some

LEMMA SumStep ==
  ASSUME NEW g, NEW v, NEW S, IsSum(g, v, S), NEW U \in SUBSET S
  PROVE  /\ U = {} => g[U] = 0
         /\ U # {} => g[U] = v[Some(U)] + g[U \ {Some(U)}]
  BY DEF IsSum

LEMMA SumUnique ==
  ASSUME NEW u, NEW v, NEW S, NEW T, NEW g, NEW h, IsSum(g, u, S), IsSum(h, v, T),
         \A x \in S \cap T : u[x] = v[x], NEW U \in SUBSET (S \cap T), IsFiniteSet(U)
  PROVE  g[U] = h[U]
  <1> DEFINE Differs(W) == W \subseteq S \cap T /\ IsFiniteSet(W) /\ g[W] # h[W]
             Bad == {Cardinality(W) : W \in {X \in SUBSET (S \cap T) : Differs(X)}}
  <1>1. SUFFICES ASSUME g[U] # h[U] PROVE FALSE
    OBVIOUS
  <1>2. Bad # {} /\ Bad \subseteq Nat
    BY <1>1, FS_CardinalityType
  <1>3. PICK m \in Bad : \A k \in Bad : m <= k
    BY <1>2, LeastNatural
  <1>4. PICK W \in SUBSET (S \cap T) : Differs(W) /\ Cardinality(W) = m
    BY <1>3
  <1>5. W # {}
    BY <1>4, SumStep
  <1> DEFINE x == Some(W)
  <1>6. x \in W /\ g[W] = u[x] + g[W \ {x}] /\ h[W] = v[x] + h[W \ {x}]
    <2>1. W \in SUBSET S /\ W \in SUBSET T
      BY <1>4
    <2>2. g[W] = u[x] + g[W \ {x}]
      BY <1>5, <2>1, SumStep
    <2>3. h[W] = v[x] + h[W \ {x}]
      BY <1>5, <2>1, SumStep
    <2> QED BY <1>5, <2>2, <2>3, SomeMember
  <1> HIDE DEF x
  <1>7. IsFiniteSet(W \ {x}) /\ Cardinality(W \ {x}) = m - 1 /\ m \in Nat /\ m - 1 < m
    <2>1. IsFiniteSet(W) /\ Cardinality(W) = m /\ m \in Nat
      BY <1>2, <1>4
    <2>2. IsFiniteSet(W \ {x}) /\ Cardinality(W \ {x}) = Cardinality(W) - 1
      BY <1>6, <2>1, FS_RemoveElement
    <2> QED BY <2>1, <2>2
  <1>8. ~Differs(W \ {x})
    <2>1. m - 1 \notin Bad
      BY <1>2, <1>3, <1>7
    <2> QED BY <1>7, <2>1
  <1>9. g[W \ {x}] = h[W \ {x}]
    BY <1>7, <1>8
  <1> QED BY <1>4, <1>6, <1>9

LEMMA SumExists ==
  ASSUME NEW v, NEW S, IsFiniteSet(S)
  PROVE  \E g : IsSum(g, v, S)
  <1> DEFINE Fails(W) == IsFiniteSet(W) /\ ~\E g : IsSum(g, v, W)
             Bad == {Cardinality(W) : W \in {X \in SUBSET S : Fails(X)}}
  <1>1. SUFFICES ASSUME ~\E g : IsSum(g, v, S) PROVE FALSE
    OBVIOUS
  <1>2. Bad # {} /\ Bad \subseteq Nat
    BY <1>1, FS_CardinalityType
  <1>3. PICK m \in Bad : \A k \in Bad : m <= k
    BY <1>2, LeastNatural
  <1>4. PICK T \in SUBSET S : Fails(T) /\ Cardinality(T) = m
    BY <1>3
  <1> DEFINE Sum(s) == CHOOSE h : IsSum(h, v, s)
             value(s) == IF s = {} THEN 0 ELSE v[Some(s)] + Sum(s \ {Some(s)})[s \ {Some(s)}]
             g == [s \in SUBSET T |-> value(s)]
  <1>5. ASSUME NEW s \in SUBSET T, s # T
        PROVE  IsSum(Sum(s), v, s) /\ IsFiniteSet(s)
    <2>1. IsFiniteSet(s) /\ Cardinality(s) < m
      <3>1. IsFiniteSet(T) /\ s \subseteq T /\ m = Cardinality(T)
        BY <1>4
      <3>2. IsFiniteSet(s) /\ Cardinality(s) <= m /\ Cardinality(s) # m
        BY <1>5, <3>1, FS_Subset
      <3>3. m \in Nat /\ Cardinality(s) \in Nat
        BY <3>1, <3>2, FS_CardinalityType
      <3> QED BY <3>2, <3>3
    <2>2. Cardinality(s) \notin Bad
      BY <1>2, <1>3, <2>1, FS_CardinalityType, SMTT(60)
    <2>3. \E h : IsSum(h, v, s)
      BY <2>1, <2>2
    <2> QED BY <2>1, <2>3
  <1>6. ASSUME NEW s \in SUBSET T, s # {}
        PROVE  value(s) = v[Some(s)] + g[s \ {Some(s)}]
    <2> DEFINE u == s \ {Some(s)}
    <2>1. Some(s) \in s /\ u \in SUBSET T /\ u # T
      BY <1>6, SomeMember
    <2>2. IsSum(Sum(u), v, u) /\ IsFiniteSet(u)
      BY <1>5, <2>1
    <2>3. Sum(u)[u] = value(u)
      <3>1. CASE u = {}
        BY <2>2, <3>1, SumStep
      <3>2. CASE u # {}
        <4> DEFINE t == u \ {Some(u)}
        <4>1. Some(u) \in u /\ t \in SUBSET T /\ t # T /\ t \in SUBSET (u \cap t)
          BY <2>1, <3>2, SomeMember
        <4>2. IsSum(Sum(t), v, t) /\ IsFiniteSet(t)
          BY <1>5, <4>1
        <4> HIDE DEF Sum
        <4>3. Sum(u)[t] = Sum(t)[t]
          <5> HIDE DEF t, u
          <5> QED BY <2>2, <4>1, <4>2, SumUnique
        <4>4. Sum(u)[u] = v[Some(u)] + Sum(u)[t]
          <5> HIDE DEF u
          <5> QED BY <2>2, <3>2, SumStep
        <4> QED BY <3>2, <4>3, <4>4
      <3> QED BY <3>1, <3>2
    <2>4. g[u] = value(u)
      BY <2>1
    <2> QED BY <1>6, <2>3, <2>4
  <1>7. IsSum(g, v, T)
    <2>1. g = [s \in SUBSET T |-> IF s = {} THEN 0 ELSE v[Some(s)] + g[s \ {Some(s)}]]
      <3>1. \A s \in SUBSET T : value(s) = IF s = {} THEN 0 ELSE v[Some(s)] + g[s \ {Some(s)}]
        <4> HIDE DEF g
        <4> QED BY <1>6
      <3> HIDE DEF value
      <3>2. g = [s \in SUBSET T |-> value(s)]
        OBVIOUS
      <3> HIDE DEF g
      <3> QED BY <3>1, <3>2
    <2> HIDE DEF g
    <2> QED BY <2>1 DEF IsSum
  <1> QED BY <1>4, <1>7

SumOf(v, S) == (CHOOSE g : IsSum(g, v, S))[S]

LEMMA SumRecursion ==
  ASSUME NEW v, NEW S, IsFiniteSet(S)
  PROVE  /\ S = {} => SumOf(v, S) = 0
         /\ S # {} => SumOf(v, S) = v[Some(S)] + SumOf(v, S \ {Some(S)})
  <1> DEFINE T == S \ {Some(S)}
             g == CHOOSE f : IsSum(f, v, S)
             h == CHOOSE f : IsSum(f, v, T)
  <1>1. IsFiniteSet(T) /\ T \subseteq S
    BY FS_Subset
  <1>2. IsSum(g, v, S) /\ IsSum(h, v, T)
    <2>1. \E f : IsSum(f, v, S)
      BY SumExists
    <2>2. \E f : IsSum(f, v, T)
      <3> HIDE DEF T
      <3> QED BY <1>1, SumExists
    <2> QED BY <2>1, <2>2
  <1>3. SumOf(v, S) = g[S] /\ SumOf(v, T) = h[T]
    BY DEF SumOf
  <1>4. S # {} => g[S] = v[Some(S)] + g[T]
    <2> HIDE DEF g
    <2> QED BY <1>2, SumStep
  <1> HIDE DEF g, h
  <1>5. S = {} => g[S] = 0
    BY <1>2, SumStep
  <1>6. g[T] = h[T]
    <2> HIDE DEF T
    <2>1. T \in SUBSET (S \cap T)
      BY <1>1
    <2> QED BY <1>1, <1>2, <2>1, SumUnique
  <1> QED BY <1>3, <1>4, <1>5, <1>6

LEMMA SumAdd ==
  ASSUME NEW D, NEW v, \A x \in D : v[x] \in Nat, NEW S \in SUBSET D, IsFiniteSet(S)
  PROVE  /\ SumOf(v, S) \in Nat
         /\ \A x \in D \ S : SumOf(v, S \cup {x}) = v[x] + SumOf(v, S)
  <1> DEFINE Holds(W) == /\ SumOf(v, W) \in Nat
                         /\ \A x \in D \ W : SumOf(v, W \cup {x}) = v[x] + SumOf(v, W)
             Fails(W) == IsFiniteSet(W) /\ ~Holds(W)
             Bad == {Cardinality(W) : W \in {X \in SUBSET D : Fails(X)}}
  <1>1. SUFFICES ASSUME ~Holds(S) PROVE FALSE
    OBVIOUS
  <1>2. Bad # {} /\ Bad \subseteq Nat
    BY <1>1, FS_CardinalityType
  <1>3. PICK m \in Bad : \A k \in Bad : m <= k
    BY <1>2, LeastNatural
  <1>4. PICK W \in SUBSET D : Fails(W) /\ Cardinality(W) = m
    BY <1>3
  <1>5. ASSUME NEW y \in W PROVE Holds(W \ {y}) /\ IsFiniteSet(W \ {y})
    <2>1. IsFiniteSet(W) /\ Cardinality(W) = m /\ m \in Nat
      BY <1>2, <1>4
    <2>2. IsFiniteSet(W \ {y}) /\ Cardinality(W \ {y}) = m - 1
      BY <1>5, <2>1, FS_RemoveElement
    <2>3. m - 1 \notin Bad
      BY <1>2, <1>3, <2>1
    <2> QED BY <2>2, <2>3
  <1>6. SumOf(v, W) \in Nat
    <2>1. CASE W = {}
      <3>1. SumOf(v, W) = 0
        BY <1>4, <2>1, SumRecursion
      <3> QED BY <3>1
    <2>2. CASE W # {}
      <3>1. SumOf(v, W) = v[Some(W)] + SumOf(v, W \ {Some(W)}) /\ Some(W) \in W
        BY <1>4, <2>2, SumRecursion, SomeMember
      <3>2. SumOf(v, W \ {Some(W)}) \in Nat
        BY <1>5, <3>1
      <3> QED BY <3>1, <3>2
    <2> QED BY <2>1, <2>2
  <1>7. ASSUME NEW x \in D \ W
        PROVE  SumOf(v, W \cup {x}) = v[x] + SumOf(v, W)
    <2> DEFINE T == W \cup {x}
               y == Some(T)
    <2>1. IsFiniteSet(T) /\ T # {} /\ y \in T
      <3>1. IsFiniteSet(T) /\ T # {}
        BY <1>4, FS_AddElement
      <3> HIDE DEF T
      <3> QED BY <3>1, SomeMember
    <2>2. SumOf(v, T) = v[y] + SumOf(v, T \ {y})
      <3> HIDE DEF T
      <3> QED BY <2>1, SumRecursion
    <2>3. CASE y = x
      <3>1. T \ {y} = W
        BY <2>3
      <3> QED BY <2>2, <2>3, <3>1
    <2>4. CASE y # x
      <3> HIDE DEF y
      <3>1. y \in W /\ T \ {y} = (W \ {y}) \cup {x} /\ x \in D \ (W \ {y})
        BY <2>1, <2>4
      <3>2. SumOf(v, T \ {y}) = v[x] + SumOf(v, W \ {y})
        BY <1>5, <3>1
      <3>3. SumOf(v, W) = v[y] + SumOf(v, W \ {y})
        <4>1. W = (W \ {y}) \cup {y} /\ y \in D \ (W \ {y})
          BY <3>1
        <4> QED BY <1>5, <3>1, <4>1
      <3>4. v[x] \in Nat /\ v[y] \in Nat /\ SumOf(v, W \ {y}) \in Nat
        BY <1>5, <3>1
      <3> QED BY <2>2, <3>2, <3>3, <3>4
    <2> QED BY <2>3, <2>4
  <1> QED BY <1>4, <1>6, <1>7


(* SumFunctionOnSet is that sum.                                           *)
LEMMA SumIsFold ==
  ASSUME NEW v, NEW S, IsFiniteSet(S)
  PROVE  SumFunctionOnSet(v, S) = SumOf(v, S)
  <1> DEFINE Body(g) == [s \in SUBSET S |->
                          IF s = {} THEN 0
                          ELSE LET x == CHOOSE x \in s : TRUE IN v[x] + g[s \ {x}]]
             I == CHOOSE g : g = Body(g)
             h == CHOOSE g : IsSum(g, v, S)
  <1>1. SumFunctionOnSet(v, S) = I[S]
    BY DEF SumFunctionOnSet, FoldFunctionOnSet, MapThenFoldSet
  <1>2. ASSUME NEW g PROVE IsSum(g, v, S) <=> g = Body(g)
    BY DEF IsSum, Some
  <1>3. \E g : IsSum(g, v, S)
    BY SumExists
  <1>4. IsSum(h, v, S)
    BY <1>3
  <1> HIDE DEF Body
  <1>5. I = Body(I)
    BY <1>2, <1>3, Zenon
  <1> HIDE DEF I
  <1>6. IsSum(I, v, S)
    BY <1>2, <1>5
  <1> HIDE DEF h
  <1>7. I[S] = h[S]
    <2>1. S \in SUBSET (S \cap S)
      OBVIOUS
    <2> QED BY <1>4, <1>6, <2>1, SumUnique
  <1>8. SumOf(v, S) = h[S]
    BY DEF SumOf, h
  <1> QED BY <1>1, <1>7, <1>8

(* What the models' sums are over no member, one more and one less.        *)
LEMMA SumTheorem ==
  ASSUME NEW v, NEW S, IsFiniteSet(S), \A x \in S : v[x] \in Nat
  PROVE  /\ SumFunctionOnSet(v, S) \in Nat
         /\ S = {} => SumFunctionOnSet(v, S) = 0
         /\ \A x \in S : SumFunctionOnSet(v, S) = v[x] + SumFunctionOnSet(v, S \ {x})
  <1>1. SumFunctionOnSet(v, S) \in Nat
    BY SumIsFold, SumAdd
  <1>2. S = {} => SumFunctionOnSet(v, S) = 0
    BY SumIsFold, SumRecursion
  <1>3. ASSUME NEW x \in S
        PROVE  SumFunctionOnSet(v, S) = v[x] + SumFunctionOnSet(v, S \ {x})
    <2> DEFINE T == S \ {x}
    <2>1. IsFiniteSet(T) /\ T \in SUBSET S /\ x \in S \ T /\ T \cup {x} = S
      BY FS_Subset
    <2> HIDE DEF T
    <2>2. SumOf(v, S) = v[x] + SumOf(v, T)
      BY <2>1, SumAdd
    <2>3. SumFunctionOnSet(v, T) = SumOf(v, T)
      BY <2>1, SumIsFold
    <2> QED BY <2>2, <2>3, SumIsFold DEF T
  <1> QED BY <1>1, <1>2, <1>3

(* A sum depends on the values of its members only.                        *)
LEMMA SumSame ==
  ASSUME NEW u, NEW v, NEW S, IsFiniteSet(S), \A x \in S : u[x] = v[x]
  PROVE  SumFunctionOnSet(u, S) = SumFunctionOnSet(v, S)
  <1> DEFINE g == CHOOSE f : IsSum(f, u, S)
             h == CHOOSE f : IsSum(f, v, S)
  <1>1. IsSum(g, u, S) /\ IsSum(h, v, S)
    <2>1. \E f : IsSum(f, u, S)
      BY SumExists
    <2>2. \E f : IsSum(f, v, S)
      BY SumExists
    <2> QED BY <2>1, <2>2
  <1>2. SumOf(u, S) = g[S] /\ SumOf(v, S) = h[S]
    BY DEF SumOf
  <1> HIDE DEF g, h
  <1>3. g[S] = h[S]
    <2>1. S \in SUBSET (S \cap S)
      OBVIOUS
    <2> QED BY <1>1, <2>1, SumUnique
  <1> QED BY <1>2, <1>3, SumIsFold

-----------------------------------------------------------------------------
(* GovernedWorkloads                                                       *)

LEMMA AdmissionFacts ==
  ASSUME NEW w, AdmissionVerdict(w) = "OK"
  PROVE  /\ w.id \notin DOMAIN govDigest
         /\ w.project \in Projects /\ w.provider \in Providers
         /\ ScopeUnclaimed(w)
         /\ \A s \in ScopesOf(w) \cap Scopes : Fits(s, w)
  <1> DEFINE c1 == w.binding # "SCHEMA"
             c2 == GovernanceEnabled
             c3 == ValidBudget(GlobalBudget)
             c4 == govClock < w.expires
             c5 == w.id \notin DOMAIN govDigest
             c6 == w.binding = "OK"
             c7 == /\ w.project \in Projects /\ ValidBudget(ProjectBudget[w.project])
                   /\ w.provider \in Providers /\ ValidBudget(ProviderBudget[w.provider])
             c8 == ScopeUnclaimed(w)
             c9 == LeaseApart(w)
             c10 == \A s \in ScopesOf(w) \cap Scopes : Fits(s, w)
             checks == <<Check(c1, "GOVERNED_REQUEST_SCHEMA_OR_DIGEST_DENIED"),
                         Check(c2, "GOVERNANCE_DISABLED_DENIED"),
                         Check(c3, "GOVERNANCE_POLICY_DENIED"),
                         Check(c4, "STALE_OR_EXPIRED_WORKLOAD_DENIED"),
                         Check(c5, "CONCURRENT_OR_REPLAY_REQUEST_DENIED"),
                         Check(c6, "WORKLOAD_BINDING_DENIED"),
                         Check(c7, "BUDGET_ROUTE_DENIED"),
                         Check(c8, "WRITER_SCOPE_CONFLICT_DENIED"),
                         Check(c9, "REVIEWER_WRITER_LEASE_SHARE_DENIED"),
                         Check(c10, "GOVERNANCE_BUDGET_EXHAUSTED")>>
  <1>1. FirstDenial(checks) = "OK"
    BY DEF AdmissionVerdict
  <1> SUFFICES c5 /\ c7 /\ c8 /\ c10
    OBVIOUS
  <1> HIDE DEF c1, c2, c3, c4, c5, c6, c7, c8, c9, c10
  <1>2. \A i \in DOMAIN checks : checks[i].holds
    <2>1. \A i \in DOMAIN checks : checks[i].code # "OK"
      BY DEF Check
    <2>2. DOMAIN checks \subseteq Nat
      OBVIOUS
    <2> HIDE DEF checks
    <2> QED BY <1>1, <2>1, <2>2, NoDenial
  <1>3. c5
    BY <1>2 DEF Check
  <1>4. c7
    BY <1>2 DEF Check
  <1>5. c8
    BY <1>2 DEF Check
  <1>6. c10
    BY <1>2 DEF Check
  <1> QED BY <1>3, <1>4, <1>5, <1>6

(* Claims and numbers of the calls, which no step takes back.              *)
LEMMA GovernanceClaims ==
  ASSUME GovernanceTypeOK, GovernanceTypeOK', ClaimsKept, OneWriterPerScope,
         [GovernanceNext]_govVars
  PROVE  ClaimsKept' /\ OneWriterPerScope'
  <1> USE DEF ClaimsKept, OneWriterPerScope
  <1>1. CASE UNCHANGED govVars
    BY <1>1 DEF govVars, Admitted
  <1>2. CASE GovernanceTick
    BY <1>2 DEF GovernanceTick, Admitted
  <1>3. ASSUME NEW c \in govRunning, Finish(c)
        PROVE  ClaimsKept' /\ OneWriterPerScope'
    <2>1. Admitted' \subseteq Admitted
      <3>1. c = [w |-> c.w, n |-> c.n]
        BY DEF GovernanceTypeOK
      <3> QED BY <1>3, <3>1 DEF Finish, Admitted
    <2>2. UNCHANGED <<govIssueLease, govOrderLease, govDigest>>
      BY <1>3 DEF Finish
    <2> QED BY <2>1, <2>2
  <1>4. ASSUME NEW w \in Workloads, Admit(w)
        PROVE  ClaimsKept' /\ OneWriterPerScope'
    <2> DEFINE new == [w |-> w, n |-> govSequence + 1]
    <2>1. Admitted' = Admitted \cup {new}
      BY <1>4 DEF Admit, Admitted
    <2>2. /\ w.id \notin DOMAIN govDigest
          /\ ~IsReviewer(w) => /\ IssueKey(w) \notin DOMAIN govIssueLease
                               /\ OrderKey(w) \notin DOMAIN govOrderLease
      BY <1>4, AdmissionFacts DEF Admit, ScopeUnclaimed
    <2>3. /\ DOMAIN govDigest' = DOMAIN govDigest \cup {w.id}
          /\ DOMAIN govIssueLease' = IF IsReviewer(w) THEN DOMAIN govIssueLease
                                     ELSE DOMAIN govIssueLease \cup {IssueKey(w)}
          /\ DOMAIN govOrderLease' = IF IsReviewer(w) THEN DOMAIN govOrderLease
                                     ELSE DOMAIN govOrderLease \cup {OrderKey(w)}
      BY <1>4 DEF Admit, Bind
    <2>4. ClaimsKept'
      BY <2>1, <2>3
    <2>5. ASSUME NEW x \in Admitted
          PROVE  /\ x.w.id # w.id
                 /\ ~IsReviewer(x.w) /\ ~IsReviewer(w) =>
                      IssueKey(x.w) # IssueKey(w) /\ OrderKey(x.w) # OrderKey(w)
      BY <2>2
    <2> HIDE DEF ClaimsKept
    <2>6. OneWriterPerScope'
      BY <2>1, <2>5
    <2> QED BY <2>4, <2>6
  <1> QED BY <1>1, <1>2, <1>3, <1>4 DEF GovernanceNext

LEMMA OutputFacts ==
  ASSUME NEW w, NEW out, OutputVerdict(w, out) = "OK"
  PROVE  out.requests <= w.requests /\ out.cost <= w.cost
  <1> DEFINE c1 == out.wellFormed
             c2 == out.requests <= w.requests /\ out.cost <= w.cost
             c3 == ~out.authorities
             c4 == IsReviewer(w) => ~out.patch /\ out.review
             c5 == ~IsReviewer(w) => out.patch /\ ~out.review
             checks == <<Check(c1, "ADAPTER_OUTPUT_TAMPERING_DENIED"),
                         Check(c2, "ADAPTER_BUDGET_MISMATCH_DENIED"),
                         Check(c3, "AUTHORITY_ATTEMPT_DENIED"),
                         Check(c4, "REVIEWER_MUTATION_DENIED"),
                         Check(c5, "WRITER_OUTPUT_DENIED")>>
  <1>1. FirstDenial(checks) = "OK"
    BY DEF OutputVerdict
  <1> SUFFICES c2
    OBVIOUS
  <1> HIDE DEF c1, c2, c3, c4, c5
  <1>2. \A i \in DOMAIN checks : checks[i].holds
    <2>1. \A i \in DOMAIN checks : checks[i].code # "OK"
      BY DEF Check
    <2>2. DOMAIN checks \subseteq Nat
      OBVIOUS
    <2> HIDE DEF checks
    <2> QED BY <1>1, <2>1, <2>2, NoDenial
  <1> QED BY <1>2 DEF Check

(* T is S and one member more, and the amounts u of S are those v of T,    *)
(* natural numbers.                                                        *)
OneMore(u, S, v, T, x) ==
  /\ IsFiniteSet(S) /\ x \notin S /\ T = S \cup {x}
  /\ \A y \in S : u[y] = v[y]
  /\ \A y \in T : v[y] \in Nat

(* The sum over one member more.                                           *)
LEMMA SumGrows ==
  ASSUME NEW u, NEW v, NEW S, NEW x, NEW T, OneMore(u, S, v, T, x)
  PROVE  /\ SumFunctionOnSet(v, T) = v[x] + SumFunctionOnSet(u, S)
         /\ SumFunctionOnSet(u, S) \in Nat
  <1> USE DEF OneMore
  <1>1. IsFiniteSet(T) /\ x \in T /\ T \ {x} = S
    BY FS_AddElement
  <1>2. SumFunctionOnSet(v, T) = v[x] + SumFunctionOnSet(v, S)
    BY <1>1, SumTheorem
  <1>3. SumFunctionOnSet(v, S) = SumFunctionOnSet(u, S)
    BY SumSame
  <1>4. SumFunctionOnSet(u, S) \in Nat
    BY SumTheorem
  <1> QED BY <1>2, <1>3, <1>4

(* What a scope's calls in flight and its receipts account for.            *)
RunningRequests(s) ==
  SumFunctionOnSet([c \in govRunning |-> c.w.requests], InScope(govRunning, s))
RunningCost(s) ==
  SumFunctionOnSet([c \in govRunning |-> c.w.cost], InScope(govRunning, s))
SpentRequests(s) ==
  SumFunctionOnSet([r \in GovReceipts |-> r.receipt[1]], InScope(GovReceipts, s))
SpentCost(s) ==
  SumFunctionOnSet([r \in GovReceipts |-> r.receipt[2]], InScope(GovReceipts, s))

LEMMA ScopesFinite ==
  ASSUME GovernanceInv, NEW s
  PROVE  IsFiniteSet(InScope(govRunning, s)) /\ IsFiniteSet(InScope(GovReceipts, s))
  <1>1. InScope(govRunning, s) \subseteq govRunning /\ InScope(GovReceipts, s) \subseteq govAnswers
    BY DEF InScope, GovReceipts
  <1> QED BY <1>1, FS_Subset DEF GovernanceInv

(* The amounts are natural numbers.                                        *)
LEMMA AmountsNatural ==
  ASSUME GovernanceTypeOK
  PROVE  /\ \A c \in govRunning : c.w.requests \in Nat /\ c.w.cost \in Nat
         /\ \A r \in GovReceipts : r.receipt[1] \in Nat /\ r.receipt[2] \in Nat
  <1>1. \A c \in govRunning : c.w \in Workload
    BY GovernanceAssumption DEF GovernanceTypeOK
  <1> QED BY <1>1 DEF GovernanceTypeOK, Workload, GovReceipts

LEMMA SumsNatural ==
  ASSUME GovernanceInv, NEW s
  PROVE  /\ RunningRequests(s) \in Nat /\ RunningCost(s) \in Nat
         /\ SpentRequests(s) \in Nat /\ SpentCost(s) \in Nat
  <1> DEFINE S == InScope(govRunning, s)
             T == InScope(GovReceipts, s)
             f == [c \in govRunning |-> c.w.requests]
             g == [c \in govRunning |-> c.w.cost]
             h == [r \in GovReceipts |-> r.receipt[1]]
             i == [r \in GovReceipts |-> r.receipt[2]]
  <1>1. /\ \A x \in S : f[x] \in Nat /\ g[x] \in Nat
        /\ \A x \in T : h[x] \in Nat /\ i[x] \in Nat
    BY AmountsNatural DEF GovernanceInv, InScope
  <1>2. IsFiniteSet(S) /\ IsFiniteSet(T)
    BY ScopesFinite
  <1>3. RunningRequests(s) = SumFunctionOnSet(f, S) /\ RunningCost(s) = SumFunctionOnSet(g, S)
        /\ SpentRequests(s) = SumFunctionOnSet(h, T) /\ SpentCost(s) = SumFunctionOnSet(i, T)
    BY DEF RunningRequests, RunningCost, SpentRequests, SpentCost
  <1> HIDE DEF f, g, h, i, S, T
  <1> QED BY <1>1, <1>2, <1>3, SumTheorem

LEMMA BoundedOf ==
  GovernanceBounded <=>
    \A s \in Scopes :
      /\ govUsage[s].active = Cardinality(InScope(govRunning, s))
      /\ govUsage[s].active <= BudgetOf(s).maxParallel
      /\ govUsage[s].requests <= BudgetOf(s).maxRequests
      /\ govUsage[s].cost <= BudgetOf(s).maxCost
      /\ SpentRequests(s) + RunningRequests(s) <= govUsage[s].requests
      /\ SpentCost(s) + RunningCost(s) <= govUsage[s].cost
  BY DEF GovernanceBounded, RunningRequests, RunningCost, SpentRequests, SpentCost

(* An admission adds its call to the calls of its scopes, and its amounts. *)
LEMMA AdmitCounts ==
  ASSUME GovernanceInv, NEW w \in Workloads, Admit(w), NEW s \in Scopes
  PROVE  IF s \in ScopesOf(w)
         THEN /\ Cardinality(InScope(govRunning, s))' = Cardinality(InScope(govRunning, s)) + 1
              /\ RunningRequests(s)' = w.requests + RunningRequests(s)
              /\ RunningCost(s)' = w.cost + RunningCost(s)
         ELSE /\ Cardinality(InScope(govRunning, s))' = Cardinality(InScope(govRunning, s))
              /\ RunningRequests(s)' = RunningRequests(s)
              /\ RunningCost(s)' = RunningCost(s)
  <1> DEFINE x == [w |-> w, n |-> govSequence + 1]
             S == InScope(govRunning, s)
             f == [c \in govRunning |-> c.w.requests]
             g == [c \in govRunning |-> c.w.cost]
  <1>1. govRunning' = govRunning \cup {x} /\ x \notin govRunning
    BY DEF Admit, GovernanceInv, GovernanceTypeOK
  <1>2. w \in Workload
    BY GovernanceAssumption
  <1>3. /\ \A y \in S : f[y] \in Nat /\ g[y] \in Nat
        /\ \A y \in S : f[y] = f'[y] /\ g[y] = g'[y]
        /\ f'[x] = w.requests /\ g'[x] = w.cost
    BY <1>1, AmountsNatural DEF GovernanceInv, InScope
  <1>4. IsFiniteSet(S)
    BY ScopesFinite
  <1>5. /\ RunningRequests(s) = SumFunctionOnSet(f, S) /\ RunningCost(s) = SumFunctionOnSet(g, S)
        /\ RunningRequests(s)' = SumFunctionOnSet(f', S') /\ RunningCost(s)' = SumFunctionOnSet(g', S')
    BY DEF RunningRequests, RunningCost, InScope
  <1>6. Cardinality(InScope(govRunning, s))' = Cardinality(S')
    BY DEF InScope
  <1>7. S' = IF s \in ScopesOf(w) THEN S \cup {x} ELSE S
    BY <1>1 DEF InScope
  <1>8. x \notin S
    BY <1>1 DEF InScope
  <1>9. w.requests \in Nat /\ w.cost \in Nat
    BY <1>2 DEF Workload
  <1>10. ASSUME NEW F, NEW G, F = f', G = g', NEW T, T = S'
         PROVE  IF s \in ScopesOf(w)
                THEN /\ Cardinality(T) = Cardinality(S) + 1
                     /\ SumFunctionOnSet(F, T) = w.requests + SumFunctionOnSet(f, S)
                     /\ SumFunctionOnSet(G, T) = w.cost + SumFunctionOnSet(g, S)
                ELSE /\ Cardinality(T) = Cardinality(S)
                     /\ SumFunctionOnSet(F, T) = SumFunctionOnSet(f, S)
                     /\ SumFunctionOnSet(G, T) = SumFunctionOnSet(g, S)
    <2>1. /\ \A y \in S : f[y] = F[y] /\ g[y] = G[y]
          /\ \A y \in S \cup {x} : F[y] \in Nat /\ G[y] \in Nat
          /\ F[x] = w.requests /\ G[x] = w.cost
      BY <1>3, <1>9, <1>10
    <2>2. T = IF s \in ScopesOf(w) THEN S \cup {x} ELSE S
      BY <1>7, <1>10
    <2> HIDE DEF f, g, S, x
    <2>3. CASE s \in ScopesOf(w)
      <3>0. T = S \cup {x}
        BY <2>2, <2>3
      <3>1. SumFunctionOnSet(F, T) = w.requests + SumFunctionOnSet(f, S)
        <4>1. OneMore(f, S, F, T, x)
          BY <1>4, <1>8, <2>1, <3>0 DEF OneMore
        <4>2. SumFunctionOnSet(F, T) = F[x] + SumFunctionOnSet(f, S)
          BY <4>1, SumGrows
        <4> QED BY <2>1, <4>2
      <3>2. SumFunctionOnSet(G, T) = w.cost + SumFunctionOnSet(g, S)
        <4>1. OneMore(g, S, G, T, x)
          BY <1>4, <1>8, <2>1, <3>0 DEF OneMore
        <4>2. SumFunctionOnSet(G, T) = G[x] + SumFunctionOnSet(g, S)
          BY <4>1, SumGrows
        <4> QED BY <2>1, <4>2
      <3>3. Cardinality(S \cup {x}) = Cardinality(S) + 1
        BY <1>4, <1>8, FS_AddElement
      <3> QED BY <2>2, <2>3, <3>1, <3>2, <3>3
    <2>4. CASE s \notin ScopesOf(w)
      <3>1. SumFunctionOnSet(F, S) = SumFunctionOnSet(f, S) /\ SumFunctionOnSet(G, S) = SumFunctionOnSet(g, S)
        BY <1>4, <2>1, SumSame
      <3> QED BY <2>2, <2>4, <3>1
    <2> QED BY <2>3, <2>4
  <1> HIDE DEF f, g
  <1> QED BY <1>5, <1>6, <1>10

(* A call that ends leaves its scopes' calls, with its amounts; what its   *)
(* receipt adds to their spending is no more.                              *)
LEMMA FinishRunning ==
  ASSUME GovernanceInv, NEW c \in govRunning, Finish(c), NEW s \in Scopes
  PROVE  IF s \in ScopesOf(c.w)
         THEN /\ Cardinality(InScope(govRunning, s)) = Cardinality(InScope(govRunning, s))' + 1
              /\ Cardinality(InScope(govRunning, s))' \in Nat
              /\ RunningRequests(s) = c.w.requests + RunningRequests(s)'
              /\ RunningCost(s) = c.w.cost + RunningCost(s)'
              /\ RunningRequests(s)' \in Nat /\ RunningCost(s)' \in Nat
         ELSE /\ Cardinality(InScope(govRunning, s))' = Cardinality(InScope(govRunning, s))
              /\ RunningRequests(s)' = RunningRequests(s)
              /\ RunningCost(s)' = RunningCost(s)
  <1> DEFINE S == InScope(govRunning, s)
             f == [x \in govRunning |-> x.w.requests]
             g == [x \in govRunning |-> x.w.cost]
  <1>1. govRunning' = govRunning \ {c}
    BY DEF Finish
  <1>2. /\ \A y \in S : f[y] \in Nat /\ g[y] \in Nat
        /\ \A y \in S' : f'[y] = f[y] /\ g'[y] = g[y]
        /\ f[c] = c.w.requests /\ g[c] = c.w.cost
    BY <1>1, AmountsNatural DEF GovernanceInv, InScope
  <1>3. IsFiniteSet(S)
    BY ScopesFinite
  <1>4. /\ RunningRequests(s) = SumFunctionOnSet(f, S) /\ RunningCost(s) = SumFunctionOnSet(g, S)
        /\ RunningRequests(s)' = SumFunctionOnSet(f', S') /\ RunningCost(s)' = SumFunctionOnSet(g', S')
    BY DEF RunningRequests, RunningCost, InScope
  <1>5. Cardinality(InScope(govRunning, s))' = Cardinality(S')
    BY DEF InScope
  <1>6. S' = S \ {c} /\ (c \in S <=> s \in ScopesOf(c.w))
    BY <1>1 DEF InScope
  <1>7. ASSUME NEW F, NEW G, F = f', G = g', NEW T, T = S'
        PROVE  IF s \in ScopesOf(c.w)
               THEN /\ Cardinality(S) = Cardinality(T) + 1 /\ Cardinality(T) \in Nat
                    /\ SumFunctionOnSet(f, S) = c.w.requests + SumFunctionOnSet(F, T)
                    /\ SumFunctionOnSet(g, S) = c.w.cost + SumFunctionOnSet(G, T)
                    /\ SumFunctionOnSet(F, T) \in Nat /\ SumFunctionOnSet(G, T) \in Nat
               ELSE /\ Cardinality(T) = Cardinality(S)
                    /\ SumFunctionOnSet(F, T) = SumFunctionOnSet(f, S)
                    /\ SumFunctionOnSet(G, T) = SumFunctionOnSet(g, S)
    <2>1. /\ \A y \in T : F[y] = f[y] /\ G[y] = g[y]
          /\ T = S \ {c}
      BY <1>2, <1>6, <1>7
    <2> HIDE DEF f, g, S
    <2>2. IsFiniteSet(T)
      BY <1>3, <2>1, FS_Subset
    <2>3. CASE c \in S
      <3>1. S = T \cup {c} /\ c \notin T
        BY <2>1, <2>3
      <3>2. SumFunctionOnSet(f, S) = f[c] + SumFunctionOnSet(F, T) /\ SumFunctionOnSet(F, T) \in Nat
        <4>1. OneMore(F, T, f, S, c)
          BY <1>2, <2>1, <2>2, <3>1 DEF OneMore
        <4> QED BY <4>1, SumGrows
      <3>3. SumFunctionOnSet(g, S) = g[c] + SumFunctionOnSet(G, T) /\ SumFunctionOnSet(G, T) \in Nat
        <4>1. OneMore(G, T, g, S, c)
          BY <1>2, <2>1, <2>2, <3>1 DEF OneMore
        <4> QED BY <4>1, SumGrows
      <3>4. Cardinality(T \cup {c}) = Cardinality(T) + 1 /\ Cardinality(T) \in Nat
        BY <2>2, <3>1, FS_AddElement, FS_CardinalityType
      <3> QED BY <1>2, <1>6, <2>3, <3>1, <3>2, <3>3, <3>4
    <2>4. CASE c \notin S
      <3>1. T = S
        BY <2>1, <2>4
      <3>2. SumFunctionOnSet(F, S) = SumFunctionOnSet(f, S) /\ SumFunctionOnSet(G, S) = SumFunctionOnSet(g, S)
        BY <1>3, <2>1, <3>1, SumSame
      <3> QED BY <1>6, <2>4, <3>1, <3>2
    <2> QED BY <2>3, <2>4
  <1> HIDE DEF f, g
  <1> QED BY <1>4, <1>5, <1>7

LEMMA FinishSpent ==
  ASSUME GovernanceInv, GovernanceTypeOK',
         NEW c \in govRunning, Finish(c), NEW s \in Scopes
  PROVE  IF s \in ScopesOf(c.w)
         THEN /\ SpentRequests(s)' <= c.w.requests + SpentRequests(s)
              /\ SpentCost(s)' <= c.w.cost + SpentCost(s)
              /\ SpentRequests(s)' \in Nat /\ SpentCost(s)' \in Nat
         ELSE /\ SpentRequests(s)' = SpentRequests(s)
              /\ SpentCost(s)' = SpentCost(s)
  <1> DEFINE S == InScope(GovReceipts, s)
             f == [r \in GovReceipts |-> r.receipt[1]]
             g == [r \in GovReceipts |-> r.receipt[2]]
  <1>1. PICK a : /\ a.w = c.w /\ govAnswers' = govAnswers \cup {a}
                 /\ a.receipt # <<>> => /\ a.receipt[1] \in Nat /\ a.receipt[1] <= c.w.requests
                                        /\ a.receipt[2] \in Nat /\ a.receipt[2] <= c.w.cost
    <2>1. CASE \E out \in AdapterOutput :
                 govAnswers' = govAnswers \cup {[w |-> c.w, n |-> c.n,
                   receipt |-> IF OutputVerdict(c.w, out) = "OK"
                               THEN <<out.requests, out.cost>> ELSE <<>>]}
      <3>1. PICK out \in AdapterOutput :
                 govAnswers' = govAnswers \cup {[w |-> c.w, n |-> c.n,
                   receipt |-> IF OutputVerdict(c.w, out) = "OK"
                               THEN <<out.requests, out.cost>> ELSE <<>>]}
        BY <2>1
      <3>2. out.requests \in Nat /\ out.cost \in Nat
        BY DEF AdapterOutput
      <3>3. CASE OutputVerdict(c.w, out) = "OK"
        <4> DEFINE b == [w |-> c.w, n |-> c.n, receipt |-> <<out.requests, out.cost>>]
        <4>1. govAnswers' = govAnswers \cup {b}
          BY <3>1, <3>3
        <4>2. out.requests <= c.w.requests /\ out.cost <= c.w.cost
          BY <3>3, OutputFacts
        <4>3. b.w = c.w /\ b.receipt[1] = out.requests /\ b.receipt[2] = out.cost
          OBVIOUS
        <4> HIDE DEF b
        <4> QED BY <3>2, <4>1, <4>2, <4>3
      <3>4. CASE OutputVerdict(c.w, out) # "OK"
        <4> DEFINE b == [w |-> c.w, n |-> c.n, receipt |-> <<>>]
        <4>1. govAnswers' = govAnswers \cup {b}
          BY <3>1, <3>4
        <4>2. b.w = c.w /\ b.receipt = <<>>
          OBVIOUS
        <4> HIDE DEF b
        <4> QED BY <4>1, <4>2
      <3> QED BY <3>3, <3>4
    <2>2. CASE govAnswers' = govAnswers \cup {[w |-> c.w, n |-> c.n, receipt |-> <<>>]}
      <3> DEFINE b == [w |-> c.w, n |-> c.n, receipt |-> <<>>]
      <3>1. govAnswers' = govAnswers \cup {b}
        BY <2>2
      <3>2. b.w = c.w /\ b.receipt = <<>>
        OBVIOUS
      <3> HIDE DEF b
      <3> QED BY <3>1, <3>2
    <2> QED BY <2>1, <2>2 DEF Finish
  <1>2. /\ \A y \in S : f[y] \in Nat /\ g[y] \in Nat /\ f'[y] = f[y] /\ g'[y] = g[y]
    BY <1>1, AmountsNatural DEF GovernanceInv, InScope, GovReceipts
  <1>3. IsFiniteSet(S)
    BY ScopesFinite
  <1>4. /\ SpentRequests(s) = SumFunctionOnSet(f, S) /\ SpentCost(s) = SumFunctionOnSet(g, S)
        /\ SpentRequests(s)' = SumFunctionOnSet(f', S') /\ SpentCost(s)' = SumFunctionOnSet(g', S')
    BY DEF SpentRequests, SpentCost, InScope, GovReceipts
  <1>5. S' = IF s \in ScopesOf(c.w) /\ a.receipt # <<>> THEN S \cup {a} ELSE S
    BY <1>1 DEF InScope, GovReceipts
  <1>6. s \in ScopesOf(c.w) /\ a.receipt # <<>> =>
          f'[a] = a.receipt[1] /\ g'[a] = a.receipt[2]
    BY <1>1 DEF GovReceipts
  <1>7. c.w.requests \in Nat /\ c.w.cost \in Nat
    BY AmountsNatural DEF GovernanceInv
  <1>8. ASSUME NEW F, NEW G, F = f', G = g', NEW T, T = S'
        PROVE  IF s \in ScopesOf(c.w)
               THEN /\ SumFunctionOnSet(F, T) <= c.w.requests + SumFunctionOnSet(f, S)
                    /\ SumFunctionOnSet(G, T) <= c.w.cost + SumFunctionOnSet(g, S)
                    /\ SumFunctionOnSet(F, T) \in Nat /\ SumFunctionOnSet(G, T) \in Nat
               ELSE /\ SumFunctionOnSet(F, T) = SumFunctionOnSet(f, S)
                    /\ SumFunctionOnSet(G, T) = SumFunctionOnSet(g, S)
    <2>1. /\ \A y \in S : f[y] \in Nat /\ g[y] \in Nat /\ F[y] = f[y] /\ G[y] = g[y]
      BY <1>2, <1>8
    <2>2. T = IF s \in ScopesOf(c.w) /\ a.receipt # <<>> THEN S \cup {a} ELSE S
      BY <1>5, <1>8
    <2>3. s \in ScopesOf(c.w) /\ a.receipt # <<>> => F[a] = a.receipt[1] /\ G[a] = a.receipt[2]
      BY <1>6, <1>8
    <2> HIDE DEF f, g, S
    <2>4. CASE s \in ScopesOf(c.w) /\ a.receipt # <<>> /\ a \notin S
      <3>0. T = S \cup {a}
        BY <2>2, <2>4
      <3>1. SumFunctionOnSet(F, T) = F[a] + SumFunctionOnSet(f, S) /\ SumFunctionOnSet(f, S) \in Nat
        <4>1. OneMore(f, S, F, T, a)
          BY <1>1, <1>3, <2>1, <2>3, <2>4, <3>0 DEF OneMore
        <4> QED BY <4>1, SumGrows
      <3>2. SumFunctionOnSet(G, T) = G[a] + SumFunctionOnSet(g, S) /\ SumFunctionOnSet(g, S) \in Nat
        <4>1. OneMore(g, S, G, T, a)
          BY <1>1, <1>3, <2>1, <2>3, <2>4, <3>0 DEF OneMore
        <4> QED BY <4>1, SumGrows
      <3> QED BY <1>1, <1>7, <2>2, <2>3, <2>4, <3>1, <3>2, SMTT(60)
    <2>5. CASE ~(s \in ScopesOf(c.w) /\ a.receipt # <<>> /\ a \notin S)
      <3>1. T = S
        BY <2>2, <2>5
      <3>2. SumFunctionOnSet(F, S) = SumFunctionOnSet(f, S) /\ SumFunctionOnSet(G, S) = SumFunctionOnSet(g, S)
        BY <1>3, <2>1, SumSame
      <3>3. SumFunctionOnSet(f, S) \in Nat /\ SumFunctionOnSet(g, S) \in Nat
        BY <1>3, <2>1, SumTheorem
      <3> QED BY <1>7, <3>1, <3>2, <3>3
    <2> QED BY <2>4, <2>5
  <1> HIDE DEF f, g
  <1> QED BY <1>4, <1>8

LEMMA GovernanceTypes ==
  ASSUME GovernanceInv, [GovernanceNext]_govVars
  PROVE  /\ GovernanceTypeOK'
         /\ IsFiniteSet(govRunning)' /\ IsFiniteSet(govAnswers)'
  <1> USE DEF GovernanceTypeOK, GovernanceInv
  <1>1. CASE UNCHANGED govVars
    BY <1>1 DEF govVars
  <1>2. CASE GovernanceTick
    BY <1>2, GovernanceAssumption DEF GovernanceTick
  <1>3. ASSUME NEW w \in Workloads, Admit(w)
        PROVE  GovernanceTypeOK' /\ IsFiniteSet(govRunning)' /\ IsFiniteSet(govAnswers)'
    <2>1. w.requests \in Nat /\ w.cost \in Nat
      BY GovernanceAssumption DEF Workload
    <2>2. govUsage' \in [Scopes -> [active : Nat, requests : Nat, cost : Nat]]
      BY <1>3, <2>1 DEF Admit
    <2>3. /\ govSequence' \in Nat
          /\ govRunning' \subseteq [w : Workloads, n : 1..govSequence']
          /\ govAnswers' \subseteq
               [w : Workloads, n : 1..govSequence', receipt : {<<>>} \cup (Nat \X Nat)]
      BY <1>3 DEF Admit
    <2>4. IsFiniteSet(govRunning)' /\ IsFiniteSet(govAnswers)'
      BY <1>3, FS_AddElement DEF Admit
    <2> QED BY <1>3, <2>2, <2>3, <2>4 DEF Admit
  <1>4. ASSUME NEW c \in govRunning, Finish(c)
        PROVE  GovernanceTypeOK' /\ IsFiniteSet(govRunning)' /\ IsFiniteSet(govAnswers)'
    <2>1. \A s \in Scopes \cap ScopesOf(c.w) : govUsage[s].active - 1 \in Nat
      <3> SUFFICES ASSUME NEW s \in Scopes \cap ScopesOf(c.w)
                   PROVE  govUsage[s].active - 1 \in Nat
        OBVIOUS
      <3> DEFINE S == InScope(govRunning, s)
      <3>1. c \in S
        BY DEF InScope
      <3>2. IsFiniteSet(S)
        BY ScopesFinite
      <3>3. Cardinality(S) # 0 /\ Cardinality(S) \in Nat
        BY <3>1, <3>2, FS_EmptySet, FS_CardinalityType
      <3>4. govUsage[s].active = Cardinality(S)
        BY DEF GovernanceBounded
      <3> HIDE DEF S
      <3> QED BY <3>3, <3>4
    <2>2. govUsage' \in [Scopes -> [active : Nat, requests : Nat, cost : Nat]]
      BY <1>4, <2>1 DEF Finish, Released
    <2>3. govRunning' \subseteq [w : Workloads, n : 1..govSequence']
      BY <1>4 DEF Finish
    <2>4. IsFiniteSet(govRunning)' /\ IsFiniteSet(govAnswers)'
      <3>1. IsFiniteSet(govRunning)'
        BY <1>4, FS_RemoveElement DEF Finish
      <3>2. PICK a : govAnswers' = govAnswers \cup {a}
        BY <1>4 DEF Finish
      <3> QED BY <3>1, <3>2, FS_AddElement
    <2>5. govAnswers' \subseteq
            [w : Workloads, n : 1..govSequence', receipt : {<<>>} \cup (Nat \X Nat)]
      BY <1>4 DEF Finish, AdapterOutput
    <2> QED BY <1>4, <2>2, <2>3, <2>4, <2>5 DEF Finish
  <1> QED BY <1>1, <1>2, <1>3, <1>4 DEF GovernanceNext

LEMMA GovernanceBounds ==
  ASSUME GovernanceInv, GovernanceTypeOK', [GovernanceNext]_govVars
  PROVE  GovernanceBounded'
  <1> DEFINE Bounded(s) ==
               /\ govUsage[s].active = Cardinality(InScope(govRunning, s))
               /\ govUsage[s].active <= BudgetOf(s).maxParallel
               /\ govUsage[s].requests <= BudgetOf(s).maxRequests
               /\ govUsage[s].cost <= BudgetOf(s).maxCost
               /\ SpentRequests(s) + RunningRequests(s) <= govUsage[s].requests
               /\ SpentCost(s) + RunningCost(s) <= govUsage[s].cost
  <1>1. GovernanceBounded' <=> \A s \in Scopes : Bounded(s)'
    BY DEF GovernanceBounded, RunningRequests, RunningCost, SpentRequests, SpentCost, BudgetOf
  <1> SUFFICES ASSUME NEW s \in Scopes PROVE Bounded(s)'
    BY <1>1
  <1>2. Bounded(s)
    BY BoundedOf DEF GovernanceInv
  <1>3. /\ RunningRequests(s) \in Nat /\ RunningCost(s) \in Nat
        /\ SpentRequests(s) \in Nat /\ SpentCost(s) \in Nat
    BY SumsNatural
  <1>4. govUsage[s] \in [active : Nat, requests : Nat, cost : Nat]
    BY DEF GovernanceInv, GovernanceTypeOK
  <1>5. BudgetOf(s) \in Budget /\ BudgetOf(s)' = BudgetOf(s)
    BY GovernanceAssumption DEF BudgetOf, Scopes
  <1>6. CASE UNCHANGED govVars \/ GovernanceTick
    <2>1. UNCHANGED <<govUsage, govRunning, govAnswers>>
      BY <1>6 DEF govVars, GovernanceTick
    <2> QED BY <1>2, <1>5, <2>1
          DEF RunningRequests, RunningCost, SpentRequests, SpentCost, InScope, GovReceipts
  <1>7. ASSUME NEW w \in Workloads, Admit(w) PROVE Bounded(s)'
    <2>1. SpentRequests(s)' = SpentRequests(s) /\ SpentCost(s)' = SpentCost(s)
      BY <1>7 DEF Admit, SpentRequests, SpentCost, InScope, GovReceipts
    <2>2. w.requests \in Nat /\ w.cost \in Nat
      BY GovernanceAssumption DEF Workload
    <2>3. CASE s \in ScopesOf(w)
      <3>1. Fits(s, w)
        BY <1>7, <2>3, AdmissionFacts DEF Admit
      <3>2. govUsage'[s] = [active   |-> govUsage[s].active + 1,
                            requests |-> govUsage[s].requests + w.requests,
                            cost     |-> govUsage[s].cost + w.cost]
        BY <1>7, <2>3 DEF Admit
      <3>3. /\ Cardinality(InScope(govRunning, s))' = Cardinality(InScope(govRunning, s)) + 1
            /\ RunningRequests(s)' = w.requests + RunningRequests(s)
            /\ RunningCost(s)' = w.cost + RunningCost(s)
        BY <1>7, <2>3, AdmitCounts
      <3> QED BY <1>2, <1>3, <1>4, <1>5, <2>1, <2>2, <3>1, <3>2, <3>3 DEF Fits, Budget
    <2>4. CASE s \notin ScopesOf(w)
      <3>1. govUsage'[s] = govUsage[s]
        BY <1>7, <2>4 DEF Admit
      <3>2. /\ Cardinality(InScope(govRunning, s))' = Cardinality(InScope(govRunning, s))
            /\ RunningRequests(s)' = RunningRequests(s)
            /\ RunningCost(s)' = RunningCost(s)
        BY <1>7, <2>4, AdmitCounts
      <3> QED BY <1>2, <1>5, <2>1, <3>1, <3>2
    <2> QED BY <2>3, <2>4
  <1>8. ASSUME NEW c \in govRunning, Finish(c) PROVE Bounded(s)'
    <2>1. c.w.requests \in Nat /\ c.w.cost \in Nat
      BY AmountsNatural DEF GovernanceInv
    <2>2. CASE s \in ScopesOf(c.w)
      <3>1. govUsage'[s] = [govUsage[s] EXCEPT !.active = @ - 1]
        BY <1>8, <2>2 DEF Finish, Released
      <3>2. /\ Cardinality(InScope(govRunning, s)) = Cardinality(InScope(govRunning, s))' + 1
            /\ Cardinality(InScope(govRunning, s))' \in Nat
            /\ RunningRequests(s) = c.w.requests + RunningRequests(s)'
            /\ RunningCost(s) = c.w.cost + RunningCost(s)'
            /\ RunningRequests(s)' \in Nat /\ RunningCost(s)' \in Nat
        BY <1>8, <2>2, FinishRunning
      <3>3. /\ SpentRequests(s)' <= c.w.requests + SpentRequests(s)
            /\ SpentCost(s)' <= c.w.cost + SpentCost(s)
            /\ SpentRequests(s)' \in Nat /\ SpentCost(s)' \in Nat
        BY <1>8, <2>2, FinishSpent
      <3>4. GovernanceInv /\ govUsage'[s].requests = govUsage[s].requests
            /\ govUsage'[s].cost = govUsage[s].cost /\ govUsage'[s].active = govUsage[s].active - 1
        BY <1>4, <3>1
      <3> QED BY <1>2, <1>3, <1>4, <1>5, <2>1, <3>2, <3>3, <3>4 DEF Budget
    <2>3. CASE s \notin ScopesOf(c.w)
      <3>1. govUsage'[s] = govUsage[s]
        BY <1>8, <2>3 DEF Finish, Released
      <3>2. /\ Cardinality(InScope(govRunning, s))' = Cardinality(InScope(govRunning, s))
            /\ RunningRequests(s)' = RunningRequests(s)
            /\ RunningCost(s)' = RunningCost(s)
        BY <1>8, <2>3, FinishRunning
      <3>3. SpentRequests(s)' = SpentRequests(s) /\ SpentCost(s)' = SpentCost(s)
        BY <1>8, <2>3, FinishSpent
      <3> QED BY <1>2, <1>5, <3>1, <3>2, <3>3
    <2> QED BY <2>2, <2>3
  <1> QED BY <1>6, <1>7, <1>8 DEF GovernanceNext

LEMMA GovernanceKeeps ==
  ASSUME GovernanceInv, [GovernanceNext]_govVars
  PROVE  GovernanceInv'
  <1>1. /\ GovernanceTypeOK'
        /\ IsFiniteSet(govRunning)' /\ IsFiniteSet(govAnswers)'
    BY GovernanceTypes
  <1>2. ClaimsKept' /\ OneWriterPerScope'
    BY <1>1, GovernanceClaims DEF GovernanceInv
  <1>3. GovernanceBounded'
    BY <1>1, GovernanceBounds
  <1> QED BY <1>1, <1>2, <1>3 DEF GovernanceInv

LEMMA GovernanceInitial ==
  ASSUME GovernanceInit
  PROVE  GovernanceInv
  <1>1. GovernanceTypeOK
    BY GovernanceAssumption DEF GovernanceInit, GovernanceTypeOK
  <1>2. IsFiniteSet(govRunning) /\ IsFiniteSet(govAnswers)
    BY FS_EmptySet DEF GovernanceInit
  <1>3. ClaimsKept /\ OneWriterPerScope
    BY DEF GovernanceInit, ClaimsKept, OneWriterPerScope, Admitted
  <1>4. ASSUME NEW s \in Scopes
        PROVE  /\ govUsage[s].active = Cardinality(InScope(govRunning, s))
               /\ govUsage[s].active <= BudgetOf(s).maxParallel
               /\ govUsage[s].requests <= BudgetOf(s).maxRequests
               /\ govUsage[s].cost <= BudgetOf(s).maxCost
               /\ SpentRequests(s) + RunningRequests(s) <= govUsage[s].requests
               /\ SpentCost(s) + RunningCost(s) <= govUsage[s].cost
    <2>1. govUsage[s] = [active |-> 0, requests |-> 0, cost |-> 0]
      BY DEF GovernanceInit
    <2>2. InScope(govRunning, s) = {} /\ InScope(GovReceipts, s) = {}
      BY DEF GovernanceInit, InScope, GovReceipts
    <2>3. ASSUME NEW v PROVE SumFunctionOnSet(v, {}) = 0
      <3>1. IsFiniteSet({}) /\ \A x \in {} : v[x] \in Nat
        BY FS_EmptySet
      <3> DEFINE E == {}
      <3>2. IsFiniteSet(E) /\ \A x \in E : v[x] \in Nat
        BY <3>1
      <3>3. SumFunctionOnSet(v, E) = 0
        <4> HIDE DEF E
        <4>1. E = {}
          BY DEF E
        <4> QED BY <3>2, <4>1, SumTheorem
      <3> QED BY <3>3
    <2>4. SpentRequests(s) = 0 /\ RunningRequests(s) = 0 /\ SpentCost(s) = 0 /\ RunningCost(s) = 0
      BY <2>2, <2>3 DEF SpentRequests, RunningRequests, SpentCost, RunningCost
    <2>5. BudgetOf(s) \in Budget
      BY GovernanceAssumption DEF BudgetOf, Scopes
    <2>6. Cardinality({}) = 0
      BY FS_EmptySet
    <2> QED BY <2>1, <2>2, <2>4, <2>5, <2>6 DEF Budget
  <1>5. GovernanceBounded
    BY <1>4, BoundedOf
  <1> QED BY <1>1, <1>2, <1>3, <1>5 DEF GovernanceInv

-----------------------------------------------------------------------------
(* DevWorker                                                               *)

(* A run whose admission checks all hold has no flaw.                      *)
LEMMA NoFlaw ==
  ASSUME NEW flaws, dwFlaws \subseteq flaws, dwFlaws \subseteq Range(WorkerChecks(dwMode)),
         Failing(WorkerChecks(dwMode), flaws) = {}
  PROVE  dwFlaws = {}
  BY DEF Failing, Range

LEMMA WorkerKeeps ==
  ASSUME WorkerInv, [WorkerNext]_dwVars
  PROVE  WorkerInv'
  <1> USE WorkerAssumption DEF WorkerInv, WorkerTypeOK
  <1> USE DEF Pending, Issued, Denied
  <1>1. CASE UNCHANGED dwVars
    BY <1>1 DEF dwVars
  <1>2. CASE EditSource
    BY <1>2 DEF EditSource
  <1>3. CASE AdmitRun
    <2> DEFINE flaws == dwFlaws \cup (IF dwSource = 0 THEN {} ELSE {"FILE_DIGEST"})
               checks == WorkerChecks(dwMode)
    <2>1. CASE Failing(checks, flaws) = {}
      <3>1. dwFlaws = {}
        BY <2>1, NoFlaw
      <3> QED BY <1>3, <2>1, <3>1 DEF AdmitRun
    <2>2. CASE Failing(checks, flaws) # {}
      <3>1. PICK code : dwOutcome' = <<"DENIED", code>>
        BY <1>3, <2>2 DEF AdmitRun
      <3> QED BY <1>3, <2>2, <3>1 DEF AdmitRun
    <2> QED BY <2>1, <2>2
  <1>4. CASE CopySource
    BY <1>4 DEF CopySource
  <1>5. CASE CallModel
    BY <1>5 DEF CallModel
  <1>6. ASSUME NEW flaw, JudgeReply(flaw) PROVE WorkerInv'
    BY <1>6 DEF JudgeReply
  <1>7. CASE CallFails
    BY <1>7 DEF CallFails
  <1>8. CASE CloseRun
    BY <1>8 DEF CloseRun
  <1> QED BY <1>1, <1>2, <1>3, <1>4, <1>5, <1>6, <1>7, <1>8 DEF WorkerNext, RunAdvances

LEMMA WorkerInitial ==
  ASSUME WorkerInit
  PROVE  WorkerInv
  <1>1. dwFlaws \subseteq Range(WorkerChecks(dwMode))
    <2>1. ASSUME NEW S, NEW f \in [1..MaxFlaws -> S] PROVE Range(f) \subseteq S
      BY DEF Range
    <2> QED BY <2>1 DEF WorkerInit
  <1> QED BY <1>1, WorkerAssumption DEF WorkerInit, WorkerInv, WorkerTypeOK, Pending, Issued

LEMMA WorkerSafety ==
  ASSUME WorkerInv
  PROVE  ProviderOnlyWhenAdmitted /\ ReceiptBindsManifest
  BY WorkerAssumption DEF WorkerInv, WorkerTypeOK, ProviderOnlyWhenAdmitted,
         ReceiptBindsManifest, Issued, Pending, Denied

-----------------------------------------------------------------------------
(* PublicationBroker                                                       *)

LEMMA PublishFacts ==
  ASSUME NEW p, PublishVerdict(p) = "OK"
  PROVE  pubBranches[p.branch] = NoBranch
  <1> DEFINE c1 == PublicationEnabled
             c2 == p.bound # "SCHEMA"
             c3 == p.op \notin DOMAIN pubReplay \/ pubReplay[p.op].digest = p.digest
             c4 == p.op \notin DOMAIN pubReplay
             c5 == pubClock < p.expires
             c6 == p.bound = "OK"
             c7 == ~BranchExists(p.branch)
             checks == <<Check(c1, "PUBLICATION_DISABLED_DENIED"),
                         Check(c2, "REQUEST_SCHEMA_OR_DIGEST_DENIED"),
                         Check(c3, "REPLAY_CONFLICT_DENIED"),
                         Check(c4, "REPLAYED"),
                         Check(c5, "EXPIRED_REQUEST_OR_LEASE_DENIED"),
                         Check(c6, "PUBLICATION_BINDING_DENIED"),
                         Check(c7, "BRANCH_COLLISION_DENIED")>>
  <1>1. FirstDenial(checks) = "OK"
    BY DEF PublishVerdict
  <1> SUFFICES c7
    BY DEF BranchExists
  <1> HIDE DEF c1, c2, c3, c4, c5, c6, c7
  <1>2. \A i \in DOMAIN checks : checks[i].holds
    <2>1. \A i \in DOMAIN checks : checks[i].code # "OK"
      BY DEF Check
    <2>2. DOMAIN checks \subseteq Nat
      OBVIOUS
    <2> HIDE DEF checks
    <2> QED BY <1>1, <2>1, <2>2, NoDenial
  <1> QED BY <1>2 DEF Check

LEMMA PublicationKeeps ==
  ASSUME PublicationInv, [PublicationNext]_pubVars
  PROVE  PublicationInv'
  <1>0. /\ PublicationTypeOK /\ ProviderMatchesReceipts
        /\ pubNextIid \in Nat /\ pubNextIid >= 117
        /\ \A m \in pubRequests : m.iid \in Nat /\ m.iid < pubNextIid
        /\ \A r \in pubPublished : /\ r.branch \in BranchNames /\ r.iid < pubNextIid
                                   /\ r.head # NoBranch
    BY DEF PublicationInv, PublicationTypeOK
  <1>a. \A r \in pubPublished : pubBranches[r.branch] # NoBranch
    BY <1>0 DEF ProviderMatchesReceipts
  <1>b. \A r \in pubPublished : r.iid \in Nat
    BY <1>0 DEF ProviderMatchesReceipts, PublicationTypeOK
  <1>1. CASE UNCHANGED pubVars
    BY <1>1 DEF pubVars, ProviderMatchesReceipts, PublicationInv, PublicationTypeOK
  <1>2. CASE PublicationTick
    BY <1>2, PublicationAssumption DEF PublicationTick, ProviderMatchesReceipts,
                PublicationInv, PublicationTypeOK
  <1>3. CASE NewBroker
    BY <1>3, PublicationAssumption DEF NewBroker, ProviderMatchesReceipts,
                PublicationInv, PublicationTypeOK
  <1>4. ASSUME NEW p \in Publications, Publish(p) PROVE PublicationInv'
    <2> DEFINE b == p.branch
               receipt == [op |-> p.op, digest |-> p.digest, branch |-> p.branch,
                           iid |-> pubNextIid, head |-> p.patch]
               m == [iid |-> pubNextIid, source |-> p.branch]
    <2>1. pubBranches[b] = NoBranch /\ b \in BranchNames /\ p.patch # NoBranch
      BY <1>4, PublishFacts, PublicationAssumption DEF Publish, BranchNames
    <2>2. /\ pubBranches' = [pubBranches EXCEPT ![b] = p.patch]
          /\ pubRequests' = pubRequests \cup {m}
          /\ pubNextIid' = pubNextIid + 1
          /\ pubPublished' = pubPublished \cup {receipt}
          /\ DOMAIN pubReplay' = DOMAIN pubReplay \cup {p.op}
          /\ \A o \in DOMAIN pubReplay' :
               pubReplay'[o] = IF o = p.op THEN receipt ELSE pubReplay[o]
          /\ UNCHANGED <<pubClock, pubBroker, pubDirty>>
      BY <1>4 DEF Publish
    <2>3. PublicationTypeOK'
      <3>1. pubNextIid \in 117..pubNextIid'
        BY <1>0, <2>2
      <3> QED BY <1>0, <2>1, <2>2, <3>1 DEF PublicationTypeOK
    <2>4. /\ pubNextIid' \in Nat /\ pubNextIid' >= 117
          /\ \A x \in pubRequests' : x.iid < pubNextIid'
          /\ \A r \in pubPublished' : r.branch \in BranchNames /\ r.iid < pubNextIid'
                                      /\ r.head # NoBranch
      <3>1. \A n \in Nat : n < pubNextIid => n < pubNextIid'
        BY <1>0, <2>2
      <3>2. pubNextIid < pubNextIid' /\ pubNextIid' \in Nat /\ pubNextIid' >= 117
        BY <1>0, <2>2
      <3> QED BY <1>0, <1>b, <2>1, <2>2, <3>1, <3>2
    <2>5. \A r \in pubPublished : r.branch # b /\ r.iid # pubNextIid
      BY <1>0, <1>a, <1>b, <2>1
    <2>6. ProviderMatchesReceipts'
      BY <1>0, <2>1, <2>2, <2>5 DEF ProviderMatchesReceipts, PublicationTypeOK
    <2> QED BY <2>3, <2>4, <2>6 DEF PublicationInv, BranchNames
  <1>5. ASSUME NEW p \in Publications, NEW at \in {"PUSH", "MR", "READBACK"},
               NEW cleans \in BOOLEAN, PublishFails(p, at, cleans)
        PROVE  PublicationInv'
    <2> DEFINE b == p.branch
               opened == at = "READBACK"
               m == [iid |-> pubNextIid, source |-> p.branch]
    <2>1. pubBranches[b] = NoBranch /\ b \in BranchNames
      BY <1>5, PublishFacts DEF PublishFails, BranchNames
    <2>2. PICK left \in {NoBranch, "base", p.patch} :
            /\ pubBranches' = [pubBranches EXCEPT ![b] = left]
            /\ cleans => left = NoBranch
      BY <1>5 DEF PublishFails
    <2>3. /\ pubNextIid' = IF opened THEN pubNextIid + 1 ELSE pubNextIid
          /\ pubRequests' = IF opened /\ ~cleans THEN pubRequests \cup {m} ELSE pubRequests
          /\ pubDirty' = IF cleans THEN pubDirty ELSE pubDirty \cup {b}
          /\ UNCHANGED <<pubClock, pubBroker, pubReplay, pubPublished>>
      <3>1. CleanedUp(pubRequests \cup {m}, pubNextIid) = pubRequests
        BY <1>0 DEF CleanedUp
      <3> QED BY <1>5, <3>1 DEF PublishFails
    <2>4. PublicationTypeOK'
      <3>1. opened => pubNextIid \in 117..pubNextIid'
        BY <1>0, <2>3
      <3> QED BY <1>0, <2>1, <2>2, <2>3, <3>1 DEF PublicationTypeOK
    <2>5. /\ pubNextIid' \in Nat /\ pubNextIid' >= 117
          /\ \A x \in pubRequests' : x.iid < pubNextIid'
          /\ \A r \in pubPublished' : r.branch \in BranchNames /\ r.iid < pubNextIid'
                                      /\ r.head # NoBranch
      <3>1. \A n \in Nat : n < pubNextIid => n < pubNextIid'
        BY <1>0, <2>3
      <3>2. pubNextIid' \in Nat /\ pubNextIid' >= 117 /\ (opened => pubNextIid < pubNextIid')
        BY <1>0, <2>3
      <3> QED BY <1>0, <1>b, <2>1, <2>3, <3>1, <3>2
    <2>6. \A r \in pubPublished : r.branch # b
      BY <1>a, <2>1
    <2>7. ProviderMatchesReceipts'
      BY <1>0, <2>1, <2>2, <2>3, <2>6 DEF ProviderMatchesReceipts, PublicationTypeOK
    <2> QED BY <2>4, <2>5, <2>7 DEF PublicationInv, BranchNames
  <1> QED BY <1>1, <1>2, <1>3, <1>4, <1>5 DEF PublicationNext

LEMMA PublicationInitial ==
  ASSUME PublicationInit
  PROVE  PublicationInv
  BY PublicationAssumption DEF PublicationInit, PublicationInv, PublicationTypeOK,
         ProviderMatchesReceipts

-----------------------------------------------------------------------------
(* Delivery                                                                *)

(* A step of the composition is a step of each part, or leaves it alone.   *)
LEMMA DeliverySteps ==
  ASSUME [DeliveryNext]_deliveryVars
  PROVE  /\ [WorkerNext]_dwVars /\ [GovernanceNext]_govVars
         /\ [PublicationNext]_pubVars /\ [LedgerNext]_ledgerVars
  <1>1. CASE UNCHANGED deliveryVars
    BY <1>1 DEF deliveryVars
  <1>2. CASE DeliveryNext
    BY <1>2 DEF DeliveryNext, WorkerStep
  <1> QED BY <1>1, <1>2

(* In every run of the worker the provider is called at most once, and     *)
(* only after every admission fact held: AdmitRun, CallModel and the catch *)
(* and finally blocks of controller.ts.                                    *)
THEOREM WorkerCallsWhenAdmitted == DeliverySpec => []ProviderOnlyWhenAdmitted
  <1>1. DeliveryInit => WorkerInv
    BY WorkerInitial DEF DeliveryInit
  <1>2. WorkerInv /\ [DeliveryNext]_deliveryVars => WorkerInv'
    BY DeliverySteps, WorkerKeeps
  <1>3. WorkerInv => ProviderOnlyWhenAdmitted
    BY WorkerSafety
  <1> QED BY <1>1, <1>2, <1>3, PTL DEF DeliverySpec

(* A receipt binds the manifest's content (assertSourceProjection again    *)
(* before the receipt), unless the projection was edited twice.            *)
THEOREM WorkerReceiptBound == DeliverySpec => []ReceiptBindsManifest
  <1>1. DeliveryInit => WorkerInv
    BY WorkerInitial DEF DeliveryInit
  <1>2. WorkerInv /\ [DeliveryNext]_deliveryVars => WorkerInv'
    BY DeliverySteps, WorkerKeeps
  <1>3. WorkerInv => ReceiptBindsManifest
    BY WorkerSafety
  <1> QED BY <1>1, <1>2, <1>3, PTL DEF DeliverySpec

(* The inductive invariant of the governed workloads (execute() of         *)
(* m3-governance.ts and its finally block).                                *)
THEOREM GovernanceInvariant == DeliverySpec => []GovernanceInv
  <1>1. DeliveryInit => GovernanceInv
    BY GovernanceInitial DEF DeliveryInit
  <1>2. GovernanceInv /\ [DeliveryNext]_deliveryVars => GovernanceInv'
    BY DeliverySteps, GovernanceKeeps
  <1> QED BY <1>1, <1>2, PTL DEF DeliverySpec

(* No ceiling of a budget is exceeded, the active slots are the calls in   *)
(* flight, and what is spent was reserved: #reserve() and #release().      *)
THEOREM BudgetsHold == DeliverySpec => []GovernanceBounded
  <1>1. GovernanceInv => GovernanceBounded
    BY DEF GovernanceInv
  <1> QED BY <1>1, GovernanceInvariant, PTL

(* At most one writer is admitted per issue and work order, and no request *)
(* id twice: writerIssues, writerOrders and requestDigests.                *)
THEOREM OneWriter == DeliverySpec => []OneWriterPerScope
  <1>1. GovernanceInv => OneWriterPerScope
    BY DEF GovernanceInv
  <1> QED BY <1>1, GovernanceInvariant, PTL

(* The provider holds what the receipts say and what failed cleanups left: *)
(* publish() and cleanup() of publication-broker.ts.                       *)
THEOREM ProviderMatches == DeliverySpec => []ProviderMatchesReceipts
  <1>1. DeliveryInit => PublicationInv
    BY PublicationInitial DEF DeliveryInit
  <1>2. PublicationInv /\ [DeliveryNext]_deliveryVars => PublicationInv'
    BY DeliverySteps, PublicationKeeps
  <1>3. PublicationInv => ProviderMatchesReceipts
    BY DEF PublicationInv
  <1> QED BY <1>1, <1>2, <1>3, PTL DEF DeliverySpec

-----------------------------------------------------------------------------
-----------------------------------------------------------------------------
(* Ledgers                                                                 *)

(* The last appended entry is one of the ledger.                           *)
LEMMA MaxMember ==
  ASSUME NEW n \in Nat, NEW S \in SUBSET (1..n), S # {}
  PROVE  Max(S) \in S /\ \A i \in S : Max(S) >= i
  <1> DEFINE Rest == {n - i : i \in S}
  <1>1. Rest \in SUBSET Nat /\ Rest # {}
    <2>1. \A i \in 1..n : n - i \in Nat
      OBVIOUS
    <2> QED BY <2>1
  <1>2. PICK m \in Rest : \A k \in Rest : m <= k
    <2> HIDE DEF Rest
    <2> QED BY <1>1, LeastNatural
  <1>3. PICK i \in S : m = n - i
    BY <1>2
  <1>4. \A j \in S : i >= j
    <2> SUFFICES ASSUME NEW j \in S PROVE i >= j
      OBVIOUS
    <2>1. m <= n - j
      BY <1>2
    <2> QED BY <1>3, <2>1
  <1> QED BY <1>3, <1>4 DEF Max

LEMMA HeadOfLedger ==
  ASSUME NEW l \in Seq(Entry), HasHead(l)
  PROVE  /\ Max(Appended(l)) \in Appended(l)
         /\ CurrentHead(l) \in Entry /\ CurrentHead(l).ev.head \in Heads
  <1>1. Max(Appended(l)) \in Appended(l)
    <2>1. Appended(l) \in SUBSET (1..Len(l)) /\ Len(l) \in Nat
      BY DEF Appended
    <2> QED BY <2>1, MaxMember DEF HasHead
  <1>2. CurrentHead(l) \in Entry
    BY <1>1 DEF CurrentHead, Appended
  <1> QED BY <1>1, <1>2 DEF Entry, Delivery

(* What a delivery is classified as.                                       *)
IsClassification(l, ev, c) ==
  /\ c.disposition \in Dispositions \cup {"TRANSPORT_DUPLICATE"}
  /\ c.reasons \in Seq(ReasonCodes) /\ c.reasons # <<>>
  /\ c.quarantined \in BOOLEAN /\ (c.quarantined <=> c.disposition \in {"STALE", "REJECTED"})
  /\ c.replaced \in Heads \cup {NoHead}
  /\ c.disposition = "TRANSPORT_DUPLICATE" =>
       c.reasons = <<"TRANSPORT_REDELIVERY">> /\ \E i \in DOMAIN l : l[i].ev = ev
  /\ c.disposition = "APPENDED" =>
       IF HasHead(l)
       THEN c.replaced = CurrentHead(l).ev.head /\ \A i \in Appended(l) : l[i].ev.head # ev.head
       ELSE c.replaced = NoHead

LEMMA PlainClassification ==
  ASSUME NEW l, NEW ev, NEW d \in Dispositions \ {"APPENDED"}, NEW r \in ReasonCodes,
         NEW q \in BOOLEAN, q <=> d \in {"STALE", "REJECTED"}
  PROVE  IsClassification(l, ev, Classification(d, <<r>>, q, NoHead))
  <1> DEFINE c == Classification(d, <<r>>, q, NoHead)
  <1>1. /\ c.disposition = d /\ c.reasons = <<r>> /\ c.quarantined = q /\ c.replaced = NoHead
    BY DEF Classification
  <1> HIDE DEF c
  <1>2. <<r>> \in Seq(ReasonCodes) /\ <<r>> # <<>>
    OBVIOUS
  <1>3. d # "TRANSPORT_DUPLICATE"
    BY DEF Dispositions
  <1>4. c.quarantined \in BOOLEAN /\ (c.quarantined <=> c.disposition \in {"STALE", "REJECTED"})
    BY <1>1
  <1>5. IsClassification(l, ev, c)
    BY <1>1, <1>2, <1>3, <1>4 DEF IsClassification
  <1> QED BY <1>5 DEF c

LEMMA AppendedClassification ==
  ASSUME NEW l, NEW ev, NEW rs \in Seq(ReasonCodes), rs # <<>>, NEW h \in Heads \cup {NoHead},
         IF HasHead(l)
         THEN h = CurrentHead(l).ev.head /\ \A i \in Appended(l) : l[i].ev.head # ev.head
         ELSE h = NoHead
  PROVE  IsClassification(l, ev, Classification("APPENDED", rs, FALSE, h))
  <1> DEFINE c == Classification("APPENDED", rs, FALSE, h)
  <1>1. /\ c.disposition = "APPENDED" /\ c.reasons = rs /\ c.quarantined = FALSE /\ c.replaced = h
    BY DEF Classification
  <1> HIDE DEF c
  <1>2. c.quarantined \in BOOLEAN /\ (c.quarantined <=> c.disposition \in {"STALE", "REJECTED"})
    BY <1>1
  <1>3. IsClassification(l, ev, c)
    BY <1>1, <1>2 DEF IsClassification, Dispositions
  <1> QED BY <1>3 DEF c

LEMMA Classified ==
  ASSUME NEW l \in Seq(Entry), NEW ev \in Delivery
  PROVE  IsClassification(l, ev, Classify(l, ev))
  <1> DEFINE c == Classify(l, ev)
  <1>2. /\ "TRANSPORT_REDELIVERY" \in ReasonCodes /\ "DELIVERY_ID_REUSE_TAMPER" \in ReasonCodes
        /\ "TRUST_CONTEXT_MISMATCH" \in ReasonCodes /\ "NEW_CONTRIBUTION" \in ReasonCodes
        /\ "HEAD_ALREADY_CURRENT" \in ReasonCodes /\ "INVALIDATED_HEAD_REPLAY" \in ReasonCodes
        /\ "SUPERSEDED_HEAD_REPLAY" \in ReasonCodes /\ "STALE_HEAD_TIMESTAMP" \in ReasonCodes
        /\ "PR_HEAD_SUPERSESSION" \in ReasonCodes /\ "PR_HEAD_FORCE_PUSH" \in ReasonCodes
        /\ "UNKNOWN_ANCESTOR" \in ReasonCodes
        /\ "AUTHORITY_WIDENING" \in ReasonCodes /\ "AUTHORITY_CHANGE" \in ReasonCodes
    BY DEF ReasonCodes
  <1>3. CASE \E i \in DOMAIN l : l[i].ev = ev
    <2>1. c = Classification("TRANSPORT_DUPLICATE", <<"TRANSPORT_REDELIVERY">>, FALSE, NoHead)
      BY <1>3 DEF Classify
    <2>2. /\ c.disposition = "TRANSPORT_DUPLICATE" /\ c.reasons = <<"TRANSPORT_REDELIVERY">>
          /\ c.quarantined = FALSE /\ c.replaced = NoHead
      BY <2>1 DEF Classification
    <2> HIDE DEF c
    <2>3. c.quarantined \in BOOLEAN /\ (c.quarantined <=> c.disposition \in {"STALE", "REJECTED"})
      BY <2>2
    <2>4. <<"TRANSPORT_REDELIVERY">> \in Seq(ReasonCodes) /\ <<"TRANSPORT_REDELIVERY">> # <<>>
      BY <1>2
    <2>5. IsClassification(l, ev, c)
      BY <1>3, <2>2, <2>3, <2>4 DEF IsClassification
    <2> QED BY <2>5 DEF c
  <1>4. ASSUME NEW r \in ReasonCodes, c = Rejection(r)
        PROVE  IsClassification(l, ev, c)
    <2> HIDE DEF c
    <2> QED BY <1>4, PlainClassification DEF Rejection, Dispositions
  <1>5. CASE ~HasHead(l) /\ c = Classification("APPENDED", <<"NEW_CONTRIBUTION">>, FALSE, NoHead)
    <2> HIDE DEF c
    <2>1. <<"NEW_CONTRIBUTION">> \in Seq(ReasonCodes) /\ <<"NEW_CONTRIBUTION">> # <<>>
      BY <1>2
    <2>2. IsClassification(l, ev, c)
      BY <1>5, <2>1, AppendedClassification
    <2> QED BY <2>2 DEF c
  <1>6. CASE HasHead(l) /\ c = ClassifyAgainstHead(l, ev)
    <2> HIDE DEF c
    <2> DEFINE current == CurrentHead(l).ev
               known == \E i \in Appended(l) : l[i].ev.head = ev.head
    <2>1. current.head \in Heads
      BY <1>6, HeadOfLedger
    <2>2. CASE ev.head = current.head
      <3>1. c = Classification("SEMANTIC_DUPLICATE", <<"HEAD_ALREADY_CURRENT">>, FALSE, NoHead)
        BY <1>6, <2>2 DEF ClassifyAgainstHead
      <3>2. IsClassification(l, ev, c)
        BY <1>2, <3>1, PlainClassification DEF Dispositions
      <3> QED BY <3>2 DEF c
    <2>3. CASE ev.head # current.head /\ known
      <3>1. PICK r \in ReasonCodes : c = Classification("STALE", <<r>>, TRUE, NoHead)
        BY <1>2, <1>6, <2>3 DEF ClassifyAgainstHead
      <3>2. IsClassification(l, ev, c)
        BY <3>1, PlainClassification DEF Dispositions
      <3> QED BY <3>2 DEF c
    <2>4. CASE ev.head # current.head /\ ~known /\ ev.at < current.at
      <3>1. c = Classification("STALE", <<"STALE_HEAD_TIMESTAMP">>, TRUE, NoHead)
        BY <1>6, <2>4 DEF ClassifyAgainstHead
      <3>2. IsClassification(l, ev, c)
        BY <1>2, <3>1, PlainClassification DEF Dispositions
      <3> QED BY <3>2 DEF c
    <2>5. CASE ev.head # current.head /\ ~known /\ ~(ev.at < current.at)
      <3>1. PICK rs \in Seq(ReasonCodes) :
              rs # <<>> /\ c = Classification("APPENDED", rs, FALSE, current.head)
        <4>1. <<"PR_HEAD_FORCE_PUSH", "UNKNOWN_ANCESTOR">> \in Seq(ReasonCodes)
              /\ <<"PR_HEAD_FORCE_PUSH">> \in Seq(ReasonCodes)
              /\ <<"PR_HEAD_SUPERSESSION">> \in Seq(ReasonCodes)
          BY <1>2
        <4>2. <<"PR_HEAD_FORCE_PUSH", "UNKNOWN_ANCESTOR">> # <<>>
              /\ <<"PR_HEAD_FORCE_PUSH">> # <<>> /\ <<"PR_HEAD_SUPERSESSION">> # <<>>
          OBVIOUS
        <4>3. \/ c = Classification("APPENDED", <<"PR_HEAD_SUPERSESSION">>, FALSE, current.head)
              \/ c = Classification("APPENDED", <<"PR_HEAD_FORCE_PUSH", "UNKNOWN_ANCESTOR">>, FALSE, current.head)
              \/ c = Classification("APPENDED", <<"PR_HEAD_FORCE_PUSH">>, FALSE, current.head)
          BY <1>6, <2>5 DEF ClassifyAgainstHead
        <4> QED BY <4>1, <4>2, <4>3
      <3> DEFINE h == current.head
      <3>2. HasHead(l) /\ h = CurrentHead(l).ev.head /\ h \in Heads
            /\ \A i \in Appended(l) : l[i].ev.head # ev.head
        BY <1>6, <2>1, <2>5
      <3>3. IsClassification(l, ev, c)
        <4> HIDE DEF h
        <4>1. IsClassification(l, ev, Classification("APPENDED", rs, FALSE, h))
          BY <3>1, <3>2, AppendedClassification
        <4> QED BY <3>1, <4>1 DEF h
      <3> QED BY <3>3 DEF c
    <2> QED BY <2>2, <2>3, <2>4, <2>5
  <1>7. CASE ~\E i \in DOMAIN l : l[i].ev = ev
    <2>1. \/ \E r \in ReasonCodes : c = Rejection(r)
          \/ ~HasHead(l) /\ c = Classification("APPENDED", <<"NEW_CONTRIBUTION">>, FALSE, NoHead)
          \/ HasHead(l) /\ c = ClassifyAgainstHead(l, ev)
      BY <1>2, <1>7 DEF Classify, SubmittedIdentityBinding
    <2> QED BY <1>4, <1>5, <1>6, <2>1
  <1> QED BY <1>3, <1>7

(* buildEntry() builds an entry.                                           *)
LEMMA BuiltEntry ==
  ASSUME NEW l \in Seq(Entry), NEW ev \in Delivery, NEW c, IsClassification(l, ev, c),
         c.disposition # "TRANSPORT_DUPLICATE"
  PROVE  /\ BuildEntry(l, ev, c) \in Entry
         /\ SameClassification(BuildEntry(l, ev, c), c)
         /\ BuildEntry(l, ev, c).reasons # <<>>
  <1> DEFINE e == BuildEntry(l, ev, c)
  <1>1. /\ e.sequence = Len(l) + 1 /\ e.ev = ev /\ e.binding = SubmittedIdentityBinding(ev)
        /\ e.disposition = c.disposition /\ e.reasons = c.reasons
        /\ e.quarantined = c.quarantined /\ e.replaced = c.replaced
    BY DEF BuildEntry
  <1>2. SubmittedIdentityBinding(ev) \in IdentityBindings
    BY DEF SubmittedIdentityBinding, IdentityBindings
  <1>3. Len(l) + 1 \in Nat \ {0}
    OBVIOUS
  <1>4. BuildEntry(l, ev, c) \in Entry
    BY <1>2, <1>3 DEF BuildEntry, Entry, IsClassification
  <1> HIDE DEF e
  <1>5. SameClassification(e, c) /\ e.reasons # <<>>
    BY <1>1 DEF SameClassification, IsClassification
  <1> QED BY <1>4, <1>5 DEF e

(* The verifier's judgement of one entry after the ledger before it.       *)
Derived(l, e, i) ==
  /\ WellFormedEntry(e)
  /\ e.sequence = i
  /\ e.binding = SubmittedIdentityBinding(e.ev)
  /\ e.quarantined = (e.disposition \in {"STALE", "REJECTED"})
  /\ SameClassification(e, Classify(l, e.ev))

LEMMA QuarantineOf ==
  ASSUME NEW q \in BOOLEAN, NEW d, q <=> d \in {"STALE", "REJECTED"}
  PROVE  q = (d \in {"STALE", "REJECTED"})
  OBVIOUS

LEMMA VerifiedByPrefixes ==
  ASSUME NEW l
  PROVE  VerifyLedger(l) <=> \A i \in DOMAIN l : Derived(SubSeq(l, 1, i - 1), l[i], i)
  BY DEF VerifyLedger, Derived

(* A step of the producer: an accepted ledger stays one that the verifier  *)
(* accepts, and its receipt is of the entry it names.                      *)
LEMMA IngestVerifies ==
  ASSUME NEW l \in Seq(Entry), VerifyLedger(l), NEW ev \in Delivery
  PROVE  /\ Ingested(l, ev).ledger \in Seq(Entry)
         /\ VerifyLedger(Ingested(l, ev).ledger)
         /\ Ingested(l, ev).ledger = l
              \/ \E e \in Entry : /\ Ingested(l, ev).ledger = Append(l, e) /\ e.ev = ev
                                  /\ e.disposition = Classify(l, ev).disposition
                                  /\ e.replaced = Classify(l, ev).replaced
  <1> DEFINE c == Classify(l, ev)
             e == BuildEntry(l, ev, c)
  <1>1. IsClassification(l, ev, c)
    BY Classified
  <1>2. CASE c.disposition = "TRANSPORT_DUPLICATE"
    BY <1>2 DEF Ingested
  <1>3. CASE c.disposition # "TRANSPORT_DUPLICATE"
    <2>1. Ingested(l, ev).ledger = Append(l, e)
      BY <1>3 DEF Ingested
    <2>2. e \in Entry /\ SameClassification(e, c) /\ e.reasons # <<>>
      <3> HIDE DEF c
      <3> QED BY <1>1, <1>3, BuiltEntry
    <2>3. /\ e.sequence = Len(l) + 1 /\ e.ev = ev /\ e.binding = SubmittedIdentityBinding(ev)
          /\ e.disposition = c.disposition /\ e.replaced = c.replaced
          /\ e.quarantined = c.quarantined
      BY DEF BuildEntry
    <2>4. e.quarantined = (e.disposition \in {"STALE", "REJECTED"})
      <3>1. e.quarantined \in BOOLEAN /\ (e.quarantined <=> e.disposition \in {"STALE", "REJECTED"})
        BY <1>1, <2>3 DEF IsClassification
      <3> HIDE DEF e
      <3> QED BY <3>1, QuarantineOf
    <2> HIDE DEF c, e
    <2>5. Derived(l, e, Len(l) + 1)
      BY <2>2, <2>3, <2>4 DEF Derived, WellFormedEntry, c
    <2>6. Append(l, e) \in Seq(Entry) /\ Len(Append(l, e)) = Len(l) + 1 /\ Len(l) \in Nat
      BY <2>2
    <2>7. VerifyLedger(Append(l, e))
      <3> DEFINE m == Append(l, e)
      <3>0. DOMAIN m = 1..(Len(l) + 1)
        BY <2>6
      <3> SUFFICES ASSUME NEW i \in 1..(Len(l) + 1)
                   PROVE  Derived(SubSeq(m, 1, i - 1), m[i], i)
        <4>1. ASSUME \A i \in 1..(Len(l) + 1) : Derived(SubSeq(m, 1, i - 1), m[i], i)
              PROVE  VerifyLedger(m)
          <5> HIDE DEF m
          <5> QED BY <3>0, <4>1, VerifiedByPrefixes
        <4> QED BY <4>1
      <3>1. CASE i = Len(l) + 1
        <4>1. SubSeq(Append(l, e), 1, i - 1) = l /\ Append(l, e)[i] = e
          BY <2>2, <2>6, <3>1
        <4> QED BY <2>5, <3>1, <4>1
      <3>2. CASE i \in 1..Len(l)
        <4>1. SubSeq(Append(l, e), 1, i - 1) = SubSeq(l, 1, i - 1) /\ Append(l, e)[i] = l[i]
          BY <2>2, <2>6, <3>2
        <4>2. i \in DOMAIN l
          BY <3>2
        <4>3. Derived(SubSeq(l, 1, i - 1), l[i], i)
          BY <4>2, VerifiedByPrefixes
        <4> QED BY <4>1, <4>3
      <3> QED BY <2>6, <3>1, <3>2
    <2> QED BY <2>1, <2>2, <2>3, <2>6, <2>7 DEF c
  <1> QED BY <1>2, <1>3
(* The appended entries and the current head of a longer ledger.           *)
LEMMA AppendedLater ==
  ASSUME NEW l \in Seq(Entry), NEW e \in Entry
  PROVE  /\ DOMAIN Append(l, e) = DOMAIN l \cup {Len(l) + 1} /\ Len(l) + 1 \notin DOMAIN l
         /\ Append(l, e)[Len(l) + 1] = e
         /\ \A i \in DOMAIN l : Append(l, e)[i] = l[i]
         /\ Appended(Append(l, e)) = IF e.disposition = "APPENDED"
                                     THEN Appended(l) \cup {Len(l) + 1} ELSE Appended(l)
  <1> DEFINE m == Append(l, e)
  <1>1. /\ DOMAIN m = DOMAIN l \cup {Len(l) + 1} /\ Len(l) + 1 \notin DOMAIN l
        /\ m[Len(l) + 1] = e /\ \A i \in DOMAIN l : m[i] = l[i]
    OBVIOUS
  <1> HIDE DEF m
  <1>2. Appended(m) = IF e.disposition = "APPENDED"
                      THEN Appended(l) \cup {Len(l) + 1} ELSE Appended(l)
    BY <1>1 DEF Appended
  <1> QED BY <1>1, <1>2 DEF m

LEMMA HeadLater ==
  ASSUME NEW l \in Seq(Entry), NEW e \in Entry
  PROVE  LET m == Append(l, e)
         IN  IF e.disposition = "APPENDED"
             THEN HasHead(m) /\ CurrentHead(m) = e
             ELSE (HasHead(m) <=> HasHead(l)) /\ (HasHead(l) => CurrentHead(m) = CurrentHead(l))
  <1> DEFINE m == Append(l, e)
  <1>1. /\ DOMAIN m = DOMAIN l \cup {Len(l) + 1} /\ m[Len(l) + 1] = e
        /\ \A i \in DOMAIN l : m[i] = l[i]
        /\ Appended(m) = IF e.disposition = "APPENDED"
                         THEN Appended(l) \cup {Len(l) + 1} ELSE Appended(l)
    BY AppendedLater
  <1>2. DOMAIN l = 1..Len(l) /\ Len(l) \in Nat /\ Len(l) + 1 \in Nat
    OBVIOUS
  <1> HIDE DEF m
  <1>3. Appended(l) \in SUBSET (1..Len(l)) /\ Appended(m) \in SUBSET (1..(Len(l) + 1))
    BY <1>1, <1>2 DEF Appended
  <1>4. CASE e.disposition = "APPENDED"
    <2>1. Len(l) + 1 \in Appended(m)
      BY <1>1, <1>4
    <2>2. Max(Appended(m)) \in Appended(m) /\ Max(Appended(m)) >= Len(l) + 1
      BY <1>2, <1>3, <2>1, MaxMember
    <2>3. Max(Appended(m)) = Len(l) + 1
      BY <1>2, <1>3, <2>2
    <2> QED BY <1>1, <1>4, <2>1, <2>3 DEF HasHead, CurrentHead, m
  <1>5. CASE e.disposition # "APPENDED"
    <2>1. Appended(m) = Appended(l)
      BY <1>1, <1>5
    <2>2. HasHead(l) => Max(Appended(l)) \in Appended(l)
      BY HeadOfLedger
    <2>3. HasHead(l) => CurrentHead(m) = CurrentHead(l)
      BY <1>1, <1>2, <1>3, <2>1, <2>2 DEF CurrentHead
    <2> QED BY <1>5, <2>1, <2>3 DEF HasHead, m
  <1> QED BY <1>4, <1>5

(* Every receipt verifies against the ledger it is issued for, and against *)
(* every longer one.                                                       *)
LEMMA IngestReceipt ==
  ASSUME NEW l \in Seq(Entry), VerifyLedger(l), NEW ev \in Delivery
  PROVE  /\ VerifyReceipt(Ingested(l, ev).ledger, Ingested(l, ev).receipt)
         /\ Ingested(l, ev).receipt.ev = ev
         /\ Ingested(l, ev).receipt.sequence \in 1..(Len(l) + 1)
  <1> DEFINE c == Classify(l, ev)
             e == BuildEntry(l, ev, c)
  <1>1. IsClassification(l, ev, c)
    BY Classified
  <1>2. CASE c.disposition = "TRANSPORT_DUPLICATE"
    <2> DEFINE First(i) == i \in DOMAIN l /\ l[i].ev = ev /\ \A j \in DOMAIN l : l[j].ev = ev => i <= j
               prior == CHOOSE i \in DOMAIN l :
                          l[i].ev = ev /\ \A j \in DOMAIN l : l[j].ev = ev => i <= j
               again == Classification("TRANSPORT_DUPLICATE", <<"TRANSPORT_REDELIVERY">>, FALSE, NoHead)
    <2>1. \E i \in DOMAIN l : l[i].ev = ev
      BY <1>1, <1>2 DEF IsClassification
    <2>2. \E i : First(i)
      <3> DEFINE Same == {i \in DOMAIN l : l[i].ev = ev}
      <3>1. Same \in SUBSET Nat /\ Same # {}
        BY <2>1
      <3>2. \E i \in Same : \A j \in Same : i <= j
        <4> HIDE DEF Same
        <4> QED BY <3>1, LeastNatural
      <3> QED BY <3>2
    <2>3. First(prior)
      BY <2>2
    <2>4. c = again
      BY <2>1 DEF Classify
    <2>5. Ingested(l, ev).ledger = l /\ Ingested(l, ev).receipt = BuildReceipt(ev, prior, c)
      BY <1>2 DEF Ingested
    <2>6. l[prior].sequence = prior
      BY <2>3, VerifiedByPrefixes DEF Derived
    <2> HIDE DEF prior, c
    <2>7. /\ Ingested(l, ev).receipt = BuildReceipt(ev, prior, again)
          /\ BuildReceipt(ev, prior, again).sequence = prior
          /\ BuildReceipt(ev, prior, again).ev = ev
          /\ BuildReceipt(ev, prior, again).disposition = "TRANSPORT_DUPLICATE"
      BY <2>4, <2>5 DEF BuildReceipt, Classification
    <2>8. VerifyReceipt(l, Ingested(l, ev).receipt)
      BY <2>3, <2>6, <2>7 DEF VerifyReceipt
    <2>9. prior \in 1..(Len(l) + 1)
      BY <2>3
    <2> QED BY <2>5, <2>7, <2>8, <2>9
  <1>3. CASE c.disposition # "TRANSPORT_DUPLICATE"
    <2> DEFINE n == Len(l) + 1
               m == Append(l, e)
               stored == Classification(e.disposition, e.reasons, e.quarantined, e.replaced)
    <2>1. Ingested(l, ev).ledger = m /\ Ingested(l, ev).receipt = BuildReceipt(ev, n, c)
      BY <1>3 DEF Ingested
    <2>2. /\ e.sequence = n /\ e.ev = ev /\ e.disposition = c.disposition
          /\ e.reasons = c.reasons /\ e.quarantined = c.quarantined
      BY DEF BuildEntry
    <2>3. e \in Entry
      <3> HIDE DEF c
      <3> QED BY <1>1, <1>3, BuiltEntry
    <2> HIDE DEF c, e
    <2>4. n \in DOMAIN m /\ m[n] = e /\ n \in 1..(Len(l) + 1)
      <3>1. n \in DOMAIN m /\ m[n] = e
        BY <2>3, AppendedLater
      <3> QED BY <3>1
    <2>5. /\ stored.disposition = c.disposition /\ stored.reasons = c.reasons
          /\ stored.quarantined = c.quarantined
      BY <2>2 DEF Classification
    <2> HIDE DEF stored, n, m
    <2>6. BuildReceipt(ev, n, c) = BuildReceipt(e.ev, e.sequence, stored)
      BY <2>2, <2>5 DEF BuildReceipt
    <2>7. /\ BuildReceipt(ev, n, c).sequence = n /\ BuildReceipt(ev, n, c).ev = ev
          /\ BuildReceipt(ev, n, c).disposition = c.disposition
      BY DEF BuildReceipt
    <2>8. VerifyReceipt(m, BuildReceipt(ev, n, c))
      BY <1>3, <2>4, <2>6, <2>7 DEF VerifyReceipt, stored
    <2> QED BY <2>1, <2>4, <2>7, <2>8
  <1> QED BY <1>2, <1>3

LEMMA ReceiptLater ==
  ASSUME NEW l \in Seq(Entry), NEW e \in Entry, NEW r, VerifyReceipt(l, r)
  PROVE  VerifyReceipt(Append(l, e), r)
  <1> DEFINE m == Append(l, e)
  <1>1. r.sequence \in DOMAIN m /\ m[r.sequence] = l[r.sequence]
    <2>1. r.sequence \in DOMAIN l
      BY DEF VerifyReceipt
    <2> QED BY <2>1, AppendedLater
  <1> HIDE DEF m
  <1>2. VerifyReceipt(m, r)
    BY <1>1 DEF VerifyReceipt
  <1> QED BY <1>2 DEF m
-----------------------------------------------------------------------------
(* The inductive invariant                                                 *)

(* A head that an entry replaced is the head of an appended entry.         *)
ReplacedWasCurrent(l) ==
  \A i \in Appended(l) : l[i].replaced # NoHead =>
    \E j \in Appended(l) : l[j].ev.head = l[i].replaced

LEMMA IngestReplaces ==
  ASSUME NEW l \in Seq(Entry), VerifyLedger(l), ReplacedWasCurrent(l), NEW ev \in Delivery
  PROVE  ReplacedWasCurrent(Ingested(l, ev).ledger)
  <1> DEFINE m == Ingested(l, ev).ledger
  <1>1. CASE m = l
    BY <1>1
  <1>2. ASSUME NEW e \in Entry, m = Append(l, e), e.ev = ev,
               e.disposition = Classify(l, ev).disposition, e.replaced = Classify(l, ev).replaced
        PROVE  ReplacedWasCurrent(m)
    <2>1. /\ DOMAIN m = DOMAIN l \cup {Len(l) + 1} /\ m[Len(l) + 1] = e
          /\ \A i \in DOMAIN l : m[i] = l[i]
          /\ Appended(m) = IF e.disposition = "APPENDED"
                           THEN Appended(l) \cup {Len(l) + 1} ELSE Appended(l)
      BY <1>2, AppendedLater
    <2>2. Appended(l) \subseteq Appended(m) /\ \A i \in Appended(l) : m[i] = l[i]
      BY <2>1 DEF Appended
    <2>3. e.disposition = "APPENDED" /\ e.replaced # NoHead =>
            HasHead(l) /\ e.replaced = CurrentHead(l).ev.head
      <3>1. IsClassification(l, ev, Classify(l, ev))
        BY Classified
      <3> QED BY <1>2, <3>1 DEF IsClassification
    <2> HIDE DEF m
    <2>4. ASSUME NEW i \in Appended(l), m[i].replaced # NoHead
          PROVE  \E j \in Appended(m) : m[j].ev.head = m[i].replaced
      <3>1. PICK j \in Appended(l) : l[j].ev.head = l[i].replaced
        BY <2>2, <2>4 DEF ReplacedWasCurrent
      <3> QED BY <2>2, <3>1
    <2>5. ASSUME e.disposition = "APPENDED", e.replaced # NoHead
          PROVE  \E j \in Appended(m) : m[j].ev.head = e.replaced
      <3>1. Max(Appended(l)) \in Appended(l)
        BY <2>3, <2>5, HeadOfLedger
      <3> QED BY <2>2, <2>3, <2>5, <3>1 DEF CurrentHead
    <2>6. \A i \in Appended(m) : i \in Appended(l) \/ (e.disposition = "APPENDED" /\ m[i] = e)
      BY <2>1
    <2> QED BY <2>4, <2>5, <2>6 DEF ReplacedWasCurrent
  <1> QED BY <1>1, <1>2, IngestVerifies

LEMMA LedgerInitial == LedgerInit => LedgerInv
  <1> SUFFICES ASSUME LedgerInit PROVE LedgerInv
    OBVIOUS
  <1>1. ledger = <<>> /\ receipts = {} /\ DOMAIN ledger = {} /\ ledger \in Seq(Entry)
        /\ Len(ledger) = 0
    BY DEF LedgerInit
  <1>2. VerifyLedger(ledger) /\ Appended(ledger) = {}
    BY <1>1 DEF VerifyLedger, Appended
  <1>3. LedgerTypeOK
    BY <1>1 DEF LedgerTypeOK
  <1> QED BY <1>1, <1>2, <1>3, LedgerAssumption DEF LedgerInv

LEMMA LedgerKeeps == LedgerInv /\ [LedgerNext]_ledgerVars => LedgerInv'
  <1> SUFFICES ASSUME LedgerInv, [LedgerNext]_ledgerVars PROVE LedgerInv'
    OBVIOUS
  <1>0. /\ ledger \in Seq(Entry) /\ Len(ledger) <= MaxEntries /\ VerifyLedger(ledger)
        /\ \A r \in receipts : VerifyReceipt(ledger, r)
        /\ \A r \in receipts : r.sequence \in 1..MaxEntries /\ r.ev \in Deliveries
        /\ ReplacedWasCurrent(ledger)
    BY DEF LedgerInv, LedgerTypeOK, ReplacedWasCurrent
  <1>1. CASE UNCHANGED ledgerVars
    <2>1. ledger' = ledger /\ receipts' = receipts
      BY <1>1 DEF ledgerVars
    <2>2. LedgerTypeOK'
      BY <2>1 DEF LedgerInv, LedgerTypeOK
    <2> QED BY <2>1, <2>2 DEF LedgerInv
  <1>2. ASSUME NEW ev \in Deliveries, Ingest(ev) PROVE LedgerInv'
    <2> DEFINE m == Ingested(ledger, ev).ledger
               receipt == Ingested(ledger, ev).receipt
    <2>1. ledger' = m /\ receipts' = receipts \cup {receipt} /\ Len(ledger) < MaxEntries
      BY <1>2 DEF Ingest
    <2>2. ev \in Delivery /\ MaxEntries \in Nat /\ Len(ledger) \in Nat
      BY <1>0, LedgerAssumption
    <2>3. /\ m \in Seq(Entry) /\ VerifyLedger(m)
          /\ m = ledger \/ \E e \in Entry : m = Append(ledger, e)
      BY <1>0, <2>2, IngestVerifies
    <2>4. ReplacedWasCurrent(m)
      BY <1>0, <2>2, IngestReplaces
    <2>5. VerifyReceipt(m, receipt) /\ receipt.ev = ev /\ receipt.sequence \in 1..(Len(ledger) + 1)
      BY <1>0, <2>2, IngestReceipt
    <2> HIDE DEF m, receipt
    <2>6. Len(m) <= MaxEntries
      BY <1>0, <2>1, <2>2, <2>3
    <2>7. ASSUME NEW r \in receipts PROVE VerifyReceipt(m, r)
      <3>1. VerifyReceipt(ledger, r)
        BY <1>0
      <3>2. CASE m = ledger
        BY <3>1, <3>2
      <3>3. CASE \E e \in Entry : m = Append(ledger, e)
        <4>1. PICK e \in Entry : m = Append(ledger, e)
          BY <3>3
        <4>2. VerifyReceipt(Append(ledger, e), r)
          BY <1>0, <3>1, ReceiptLater
        <4> QED BY <4>1, <4>2
      <3> QED BY <2>3, <3>2, <3>3
    <2>8. \A i \in DOMAIN m : WellFormedEntry(m[i])
      BY <2>3 DEF VerifyLedger
    <2>9. receipt.sequence \in 1..MaxEntries
      BY <2>1, <2>2, <2>5
    <2>10. LedgerTypeOK'
      BY <1>0, <1>2, <2>1, <2>5, <2>8, <2>9 DEF LedgerTypeOK
    <2> QED BY <2>1, <2>3, <2>4, <2>5, <2>6, <2>7, <2>10 DEF LedgerInv, ReplacedWasCurrent
  <1> QED BY <1>1, <1>2 DEF LedgerNext

(* The inductive invariant of the ledger: the file the producer keeps is   *)
(* one verifyContributionIntakeLedgerV1() accepts, and every receipt ever  *)
(* issued verifies against it.                                             *)
THEOREM LedgerInvariant == DeliverySpec => []LedgerInv
  <1>1. DeliveryInit => LedgerInv
    BY LedgerInitial DEF DeliveryInit
  <1>2. LedgerInv /\ [DeliveryNext]_deliveryVars => LedgerInv'
    BY DeliverySteps, LedgerKeeps
  <1> QED BY <1>1, <1>2, PTL DEF DeliverySpec

(* The inductive invariants of the four parts of Delivery together.        *)
THEOREM DeliveryInvariant == DeliverySpec => []DeliveryInv
  <1>1. DeliveryInit => WorkerInv /\ PublicationInv
    BY WorkerInitial, PublicationInitial DEF DeliveryInit
  <1>2. WorkerInv /\ PublicationInv /\ [DeliveryNext]_deliveryVars => (WorkerInv /\ PublicationInv)'
    BY DeliverySteps, WorkerKeeps, PublicationKeeps
  <1>3. WorkerInv /\ PublicationInv /\ GovernanceInv /\ LedgerInv => DeliveryInv
    BY DEF DeliveryInv
  <1> QED BY <1>1, <1>2, <1>3, GovernanceInvariant, LedgerInvariant, PTL DEF DeliverySpec

-----------------------------------------------------------------------------
(* The refinement                                                          *)

(* The current head and the replaced heads of a ledger.                    *)
HeadOf(l) == IF HasHead(l) THEN CurrentHead(l).ev.head ELSE NoHead
PastOf(l) == {l[i].replaced : i \in Appended(l)} \ {NoHead}

(* A delivery leaves the heads, or advances to one the ledger never had.   *)
LEMMA IngestAdvances ==
  ASSUME NEW l \in Seq(Entry), VerifyLedger(l), ReplacedWasCurrent(l), NEW ev \in Delivery
  PROVE  LET m == Ingested(l, ev).ledger
         IN  \/ HeadOf(m) = HeadOf(l) /\ PastOf(m) = PastOf(l)
             \/ \E h \in Heads : /\ h \notin PastOf(l) \cup {HeadOf(l)} /\ HeadOf(m) = h
                                 /\ PastOf(m) = IF HeadOf(l) = NoHead THEN PastOf(l)
                                                ELSE PastOf(l) \cup {HeadOf(l)}
  <1> DEFINE m == Ingested(l, ev).ledger
             Moves == \/ HeadOf(m) = HeadOf(l) /\ PastOf(m) = PastOf(l)
                      \/ \E h \in Heads :
                           /\ h \notin PastOf(l) \cup {HeadOf(l)} /\ HeadOf(m) = h
                           /\ PastOf(m) = IF HeadOf(l) = NoHead THEN PastOf(l)
                                          ELSE PastOf(l) \cup {HeadOf(l)}
  <1>1. CASE m = l
    BY <1>1
  <1>2. ASSUME NEW e \in Entry, m = Append(l, e), e.ev = ev,
               e.disposition = Classify(l, ev).disposition, e.replaced = Classify(l, ev).replaced
        PROVE  Moves
    <2>1. /\ m[Len(l) + 1] = e /\ \A i \in DOMAIN l : m[i] = l[i]
          /\ Appended(m) = IF e.disposition = "APPENDED"
                           THEN Appended(l) \cup {Len(l) + 1} ELSE Appended(l)
      BY <1>2, AppendedLater
    <2>2. IF e.disposition = "APPENDED"
          THEN HasHead(m) /\ CurrentHead(m) = e
          ELSE (HasHead(m) <=> HasHead(l)) /\ (HasHead(l) => CurrentHead(m) = CurrentHead(l))
      BY <1>2, HeadLater
    <2>3. \A i \in Appended(l) : m[i] = l[i]
      BY <2>1 DEF Appended
    <2> HIDE DEF m
    <2>4. CASE e.disposition # "APPENDED"
      <3>1. HeadOf(m) = HeadOf(l)
        BY <2>2, <2>4 DEF HeadOf
      <3>2. PastOf(m) = PastOf(l)
        BY <2>1, <2>3, <2>4 DEF PastOf
      <3> QED BY <3>1, <3>2
    <2>5. CASE e.disposition = "APPENDED"
      <3>1. IF HasHead(l)
            THEN e.replaced = CurrentHead(l).ev.head /\ \A i \in Appended(l) : l[i].ev.head # ev.head
            ELSE e.replaced = NoHead
        <4>1. IsClassification(l, ev, Classify(l, ev))
          BY Classified
        <4> QED BY <1>2, <2>5, <4>1 DEF IsClassification
      <3>2. HeadOf(m) = ev.head /\ ev.head \in Heads
        BY <1>2, <2>2, <2>5 DEF HeadOf, Delivery
      <3>3. PastOf(m) = (PastOf(l) \cup {e.replaced}) \ {NoHead}
        BY <2>1, <2>3, <2>5 DEF PastOf
      <3>4. NoHead \notin Heads
        BY LedgerAssumption
      <3>5. CASE ~HasHead(l)
        <4>1. HeadOf(l) = NoHead /\ PastOf(l) = {}
          BY <3>5 DEF HeadOf, PastOf, HasHead
        <4>2. PastOf(m) = PastOf(l)
          BY <3>1, <3>3, <3>5, <4>1
        <4> QED BY <3>2, <3>4, <4>1, <4>2
      <3>6. CASE HasHead(l)
        <4>1. Max(Appended(l)) \in Appended(l) /\ CurrentHead(l).ev.head \in Heads
          BY <3>6, HeadOfLedger
        <4>2. HeadOf(l) = CurrentHead(l).ev.head /\ HeadOf(l) # NoHead /\ HeadOf(l) # ev.head
          BY <3>1, <3>4, <3>6, <4>1 DEF HeadOf, CurrentHead
        <4>3. ev.head \notin PastOf(l)
          BY <3>1, <3>6 DEF PastOf, ReplacedWasCurrent
        <4>4. NoHead \notin PastOf(l)
          BY DEF PastOf
        <4>5. PastOf(m) = PastOf(l) \cup {HeadOf(l)}
          BY <3>1, <3>3, <3>6, <4>2, <4>4
        <4> QED BY <3>2, <4>2, <4>3, <4>5
      <3> QED BY <3>5, <3>6
    <2> QED BY <2>4, <2>5
  <1>3. Moves
    BY <1>1, <1>2, IngestVerifies
  <1> QED BY <1>3

(* The ledger implements HeadHistory: the head of a contribution advances  *)
(* to heads it never had, and a replaced head never returns, whatever      *)
(* classifyNormalized() is given.                                          *)
THEOREM LedgerRefines == DeliverySpec => ImplementsHeadHistory
  <1>1. LedgerInit => Abstract!HeadInit
    <2>1. ASSUME LedgerInit PROVE Appended(ledger) = {}
      BY <2>1 DEF LedgerInit, Appended
    <2> QED BY <2>1 DEF Abstract!HeadInit, HasHead
  <1>2. LedgerInv /\ [LedgerNext]_ledgerVars => [Abstract!HeadNext]_<<HeadOf(ledger), PastOf(ledger)>>
    <2> SUFFICES ASSUME LedgerInv, [LedgerNext]_ledgerVars
                 PROVE  [Abstract!HeadNext]_<<HeadOf(ledger), PastOf(ledger)>>
      OBVIOUS
    <2>1. CASE UNCHANGED ledgerVars
      <3>1. ledger' = ledger
        BY <2>1 DEF ledgerVars
      <3> QED BY <3>1
    <2>2. ASSUME NEW ev \in Deliveries, Ingest(ev)
          PROVE  [Abstract!HeadNext]_<<HeadOf(ledger), PastOf(ledger)>>
      <3> DEFINE m == Ingested(ledger, ev).ledger
      <3>1. ledger' = m
        BY <2>2 DEF Ingest
      <3>2. ledger \in Seq(Entry) /\ VerifyLedger(ledger) /\ ReplacedWasCurrent(ledger)
            /\ ev \in Delivery
        BY LedgerAssumption DEF LedgerInv, ReplacedWasCurrent
      <3>3. \/ HeadOf(m) = HeadOf(ledger) /\ PastOf(m) = PastOf(ledger)
            \/ \E h \in Heads :
                 /\ h \notin PastOf(ledger) \cup {HeadOf(ledger)} /\ HeadOf(m) = h
                 /\ PastOf(m) = IF HeadOf(ledger) = NoHead THEN PastOf(ledger)
                                ELSE PastOf(ledger) \cup {HeadOf(ledger)}
        BY <3>2, IngestAdvances
      <3> HIDE DEF m
      <3>4. CASE HeadOf(m) = HeadOf(ledger) /\ PastOf(m) = PastOf(ledger)
        BY <3>1, <3>4
      <3>5. CASE \E h \in Heads :
                 /\ h \notin PastOf(ledger) \cup {HeadOf(ledger)} /\ HeadOf(m) = h
                 /\ PastOf(m) = IF HeadOf(ledger) = NoHead THEN PastOf(ledger)
                                ELSE PastOf(ledger) \cup {HeadOf(ledger)}
        BY <3>1, <3>5 DEF Abstract!HeadNext, Abstract!Advance, HeadOf, PastOf
      <3> QED BY <3>3, <3>4, <3>5
    <2> QED BY <2>1, <2>2 DEF LedgerNext
  <1>3. LedgerInv /\ LedgerInv' /\ [DeliveryNext]_deliveryVars
          => [Abstract!HeadNext]_<<IF HasHead(ledger) THEN CurrentHead(ledger).ev.head ELSE NoHead,
                                   {ledger[i].replaced : i \in Appended(ledger)} \ {NoHead}>>
    BY <1>2, DeliverySteps DEF HeadOf, PastOf
  <1>4. DeliveryInit => Abstract!HeadInit
    BY <1>1 DEF DeliveryInit
  <1> QED BY <1>3, <1>4, LedgerInvariant, PTL DEF DeliverySpec, ImplementsHeadHistory, Abstract!HeadSpec

-----------------------------------------------------------------------------
(* The verifier and the producer                                           *)

(* Induction up to a bound, over a set.                                    *)
LEMMA UpTo ==
  ASSUME NEW n \in Nat, NEW S, 0 \in S, \A k \in 1..n : k - 1 \in S => k \in S
  PROVE  0..n \subseteq S
  <1> DEFINE Bad == (0..n) \ S
  <1> SUFFICES ASSUME Bad # {} PROVE FALSE
    OBVIOUS
  <1>1. PICK k \in Bad : \A j \in Bad : k <= j
    <2>1. Bad \in SUBSET Nat
      OBVIOUS
    <2> HIDE DEF Bad
    <2> QED BY <2>1, LeastNatural
  <1>2. k \in 1..n /\ k - 1 \in 0..n /\ ~(k <= k - 1)
    BY <1>1
  <1>3. k - 1 \in S
    BY <1>1, <1>2
  <1> QED BY <1>1, <1>2, <1>3

(* The ledgers that the first k deliveries make.                           *)
Folding(events, n, f) ==
  f = [k \in 0..n |-> IF k = 0 THEN <<>> ELSE Ingested(f[k - 1], events[k]).ledger]

FoldOf(events) == CHOOSE f : Folding(events, Len(events), f)

LEMMA FoldExists ==
  ASSUME NEW events, NEW n \in Nat
  PROVE  \E f : Folding(events, n, f)
  <1> DEFINE S == {k \in 0..n : \E f : Folding(events, k, f)}
  <1>1. 0 \in S
    <2> DEFINE f == [k \in 0..0 |-> <<>>]
    <2>1. Folding(events, 0, f)
      BY DEF Folding
    <2> HIDE DEF f
    <2> QED BY <2>1
  <1>2. ASSUME NEW k \in 1..n, k - 1 \in S PROVE k \in S
    <2>1. PICK f : Folding(events, k - 1, f)
      BY <1>2
    <2> DEFINE g == [j \in 0..k |-> IF j = k THEN Ingested(f[k - 1], events[k]).ledger ELSE f[j]]
    <2>2. \A j \in 0..(k - 1) : g[j] = f[j]
      OBVIOUS
    <2>3. \A j \in 0..(k - 1) :
            f[j] = IF j = 0 THEN <<>> ELSE Ingested(f[j - 1], events[j]).ledger
      BY <2>1 DEF Folding
    <2>4. ASSUME NEW j \in 0..k
          PROVE  g[j] = IF j = 0 THEN <<>> ELSE Ingested(g[j - 1], events[j]).ledger
      <3>1. CASE j = k
        <4>1. k - 1 \in 0..(k - 1) /\ j # 0
          BY <3>1
        <4> QED BY <2>2, <3>1, <4>1
      <3>2. CASE j # k
        <4>1. j \in 0..(k - 1) /\ (j # 0 => j - 1 \in 0..(k - 1))
          BY <3>2
        <4>2. j # 0 => g[j - 1] = f[j - 1]
          BY <2>2, <4>1
        <4>3. g[j] = f[j]
          BY <2>2, <4>1
        <4> HIDE DEF g
        <4> QED BY <2>3, <4>1, <4>2, <4>3
      <3> QED BY <3>1, <3>2
    <2>5. g = [j \in 0..k |-> g[j]]
      OBVIOUS
    <2> HIDE DEF g
    <2>6. Folding(events, k, g)
      BY <2>4, <2>5 DEF Folding
    <2> QED BY <2>6
  <1>3. 0..n \subseteq S
    <2> HIDE DEF S
    <2> QED BY <1>1, <1>2, UpTo
  <1> QED BY <1>3

LEMMA ReplayFolds ==
  ASSUME NEW events \in Seq(Delivery)
  PROVE  /\ Replay(events) = FoldOf(events)[Len(events)]
         /\ FoldOf(events)[0] = <<>>
         /\ \A k \in 1..Len(events) :
              FoldOf(events)[k] = Ingested(FoldOf(events)[k - 1], events[k]).ledger
  <1>1. Len(events) \in Nat
    OBVIOUS
  <1>2. Folding(events, Len(events), FoldOf(events))
    BY <1>1, FoldExists DEF FoldOf
  <1>3. /\ FoldOf(events)[0] = <<>>
        /\ \A k \in 1..Len(events) :
             FoldOf(events)[k] = Ingested(FoldOf(events)[k - 1], events[k]).ledger
    <2>1. \A k \in 0..Len(events) :
            FoldOf(events)[k] = IF k = 0 THEN <<>>
                                ELSE Ingested(FoldOf(events)[k - 1], events[k]).ledger
      BY <1>2 DEF Folding
    <2>2. 0 \in 0..Len(events) /\ \A k \in 1..Len(events) : k \in 0..Len(events) /\ k # 0
      BY <1>1
    <2> QED BY <2>1, <2>2
  <1>4. Replay(events) = FoldOf(events)[Len(events)]
    BY DEF Replay, FoldOf, Folding
  <1> QED BY <1>3, <1>4

(* What a replay makes, the verifier accepts.                              *)
LEMMA ReplayIsVerified ==
  ASSUME NEW events \in Seq(Delivery)
  PROVE  VerifyLedger(Replay(events))
  <1> DEFINE n == Len(events)
             f == FoldOf(events)
             S == {k \in 0..n : f[k] \in Seq(Entry) /\ VerifyLedger(f[k])}
  <1>0. n \in Nat
    OBVIOUS
  <1>1. 0 \in S
    <2>1. f[0] = <<>>
      BY ReplayFolds
    <2>2. f[0] \in Seq(Entry) /\ VerifyLedger(f[0])
      BY <2>1 DEF VerifyLedger
    <2> QED BY <1>0, <2>2
  <1>2. ASSUME NEW k \in 1..n, k - 1 \in S PROVE k \in S
    <2>1. f[k] = Ingested(f[k - 1], events[k]).ledger
      BY <1>2, ReplayFolds
    <2>2. f[k - 1] \in Seq(Entry) /\ VerifyLedger(f[k - 1]) /\ events[k] \in Delivery
      BY <1>2
    <2> HIDE DEF f
    <2>3. f[k] \in Seq(Entry) /\ VerifyLedger(f[k])
      BY <2>1, <2>2, IngestVerifies
    <2> QED BY <1>0, <2>3
  <1>3. 0..n \subseteq S
    <2> HIDE DEF S
    <2> QED BY <1>0, <1>1, <1>2, UpTo
  <1>4. VerifyLedger(f[n])
    BY <1>0, <1>3
  <1> QED BY <1>4, ReplayFolds

(* An entry that its prefix derives is the one ingesting its delivery      *)
(* after that prefix builds.                                               *)
LEMMA DerivedIsIngested ==
  ASSUME NEW l \in Seq(Entry), NEW e, Derived(l, e, Len(l) + 1)
  PROVE  Ingested(l, e.ev).ledger = Append(l, e)
  <1> DEFINE c == Classify(l, e.ev)
             b == BuildEntry(l, e.ev, c)
  <1>1. /\ e \in Entry /\ e.sequence = Len(l) + 1 /\ e.binding = SubmittedIdentityBinding(e.ev)
        /\ c.disposition # "TRANSPORT_DUPLICATE" /\ e.disposition = c.disposition
        /\ e.quarantined = c.quarantined /\ e.replaced = c.replaced /\ e.reasons = c.reasons
    BY DEF Derived, WellFormedEntry, SameClassification
  <1> HIDE DEF c
  <1>2. Ingested(l, e.ev).ledger = Append(l, b)
    BY <1>1 DEF Ingested, c
  <1>3. b = e
    BY <1>1 DEF BuildEntry, Entry
  <1> QED BY <1>2, <1>3

(* A ledger, the producer's or another's, is accepted exactly when the     *)
(* deliveries its entries name make it.                                    *)
LEMMA VerifiesAsReplayed ==
  ASSUME NEW l, NEW n \in Nat, l = [i \in 1..n |-> l[i]], \A i \in 1..n : l[i].ev \in Delivery
  PROVE  VerifyLedger(l) <=> l = Replay([i \in DOMAIN l |-> l[i].ev])
  <1> DEFINE events == [i \in 1..n |-> l[i].ev]
             f == FoldOf(events)
  <1>1. DOMAIN l = 1..n
    OBVIOUS
  <1>2. /\ [i \in DOMAIN l |-> l[i].ev] = events /\ events \in Seq(Delivery) /\ Len(events) = n
        /\ \A i \in 1..n : events[i] = l[i].ev
    BY <1>1
  <1> HIDE DEF events
  <1>3. ASSUME VerifyLedger(l) PROVE l = Replay(events)
    <2>1. \A i \in 1..n : Derived(SubSeq(l, 1, i - 1), l[i], i)
      BY <1>1, <1>3, VerifiedByPrefixes
    <2>2. \A i \in 1..n : l[i] \in Entry
      BY <2>1 DEF Derived, WellFormedEntry
    <2>3. l \in Seq(Entry) /\ Len(l) = n
      <3> DEFINE copy == [i \in 1..n |-> l[i]]
      <3>1. copy \in Seq(Entry) /\ Len(copy) = n
        BY <2>2
      <3>2. l = copy
        OBVIOUS
      <3> HIDE DEF copy
      <3> QED BY <3>1, <3>2
    <2> DEFINE Same(k) == f[k] = SubSeq(l, 1, k)
               S == {k \in 0..n : Same(k)}
    <2>4. 0 \in S
      <3>1. f[0] = <<>>
        BY <1>2, ReplayFolds
      <3>2. SubSeq(l, 1, 0) = <<>>
        BY <2>3
      <3>3. Same(0)
        BY <3>1, <3>2
      <3> HIDE DEF Same
      <3> QED BY <3>3
    <2>5. ASSUME NEW k \in 1..n, k - 1 \in S PROVE k \in S
      <3> DEFINE prefix == SubSeq(l, 1, k - 1)
      <3>1. f[k - 1] = prefix
        BY <2>5
      <3>2. f[k] = Ingested(f[k - 1], l[k].ev).ledger
        BY <1>2, <2>5, ReplayFolds
      <3>3. prefix \in Seq(Entry) /\ Len(prefix) + 1 = k /\ Append(prefix, l[k]) = SubSeq(l, 1, k)
        <4>1. k - 1 \in 0..Len(l) /\ k \in 1..Len(l)
          BY <2>3, <2>5
        <4> QED BY <2>3, <4>1, SMTT(60)
      <3>4. Derived(prefix, l[k], k)
        BY <2>1, <2>5
      <3> HIDE DEF prefix, f
      <3>5. f[k] = Append(prefix, l[k])
        BY <3>1, <3>2, <3>3, <3>4, DerivedIsIngested
      <3>6. Same(k)
        BY <3>3, <3>5
      <3> HIDE DEF Same
      <3> QED BY <2>5, <3>6
    <2>6. 0..n \subseteq S
      <3> HIDE DEF S
      <3> QED BY <2>4, <2>5, UpTo
    <2>7. f[n] = SubSeq(l, 1, n)
      <3>1. Same(n)
        <4> HIDE DEF Same
        <4> QED BY <2>6
      <3> QED BY <3>1
    <2>8. SubSeq(l, 1, n) = l
      BY <2>3
    <2> QED BY <1>2, <2>7, <2>8, ReplayFolds
  <1>4. VerifyLedger(Replay(events))
    BY <1>2, ReplayIsVerified
  <1> QED BY <1>2, <1>3, <1>4, SMTT(60)

(* The candidates of OnlyHistoriesVerify are such ledgers.                 *)
LEMMA CandidatesAreLedgers ==
  ASSUME ledger \in Seq(Entry), NEW l \in Tampered \cup {ledger}
  PROVE  \E n \in Nat : l = [i \in 1..n |-> l[i]] /\ \A i \in 1..n : l[i].ev \in Delivery
  <1> DEFINE n == Len(ledger)
             OfDeliveries(m) == \E k \in Nat : m = [i \in 1..k |-> m[i]]
                                               /\ \A i \in 1..k : m[i].ev \in Delivery
  <1>1. n \in Nat /\ DOMAIN ledger = 1..n /\ ledger = [i \in 1..n |-> ledger[i]]
        /\ \A i \in 1..n : ledger[i] \in Entry
    OBVIOUS
  <1>2. \A i \in 1..n : ledger[i].ev \in Delivery
    BY <1>1 DEF Entry
  <1> HIDE DEF n
  <1>3. ASSUME NEW i \in 1..n, NEW e, e.ev \in Delivery
        PROVE  OfDeliveries([ledger EXCEPT ![i] = e])
    <2> DEFINE m == [ledger EXCEPT ![i] = e]
    <2>1. /\ m = [j \in 1..n |-> m[j]]
          /\ \A j \in 1..n : m[j] = IF j = i THEN e ELSE ledger[j]
      BY <1>1
    <2> HIDE DEF m
    <2>2. \A j \in 1..n : m[j].ev \in Delivery
      BY <1>2, <1>3, <2>1
    <2>3. OfDeliveries(m)
      BY <1>1, <2>1, <2>2
    <2> QED BY <2>3 DEF m
  <1>4. ASSUME NEW i \in 1..n
        PROVE  OfDeliveries([j \in 1..(n - 1) |-> IF j < i THEN ledger[j] ELSE ledger[j + 1]])
    <2> DEFINE m == [j \in 1..(n - 1) |-> IF j < i THEN ledger[j] ELSE ledger[j + 1]]
    <2>1. n - 1 \in Nat /\ m = [j \in 1..(n - 1) |-> m[j]]
      BY <1>1
    <2>2. \A j \in 1..(n - 1) : m[j] = ledger[j] \/ m[j] = ledger[j + 1]
      OBVIOUS
    <2>3. \A j \in 1..(n - 1) : j \in 1..n /\ j + 1 \in 1..n
      BY <1>1
    <2> HIDE DEF m
    <2>4. \A j \in 1..(n - 1) : m[j].ev \in Delivery
      BY <1>2, <2>2, <2>3
    <2>5. OfDeliveries(m)
      BY <2>1, <2>4
    <2> QED BY <2>5 DEF m
  <1>5. OfDeliveries(ledger)
    BY <1>1, <1>2
  <1>6. ASSUME NEW i \in 1..n, NEW e \in Edited(ledger[i])
        PROVE  e.ev \in Delivery
    <2> DEFINE was == ledger[i]
    <2>1. was \in Entry /\ was.ev \in Delivery /\ Deliveries \subseteq Delivery
      BY <1>1, <1>2, LedgerAssumption
    <2> HIDE DEF was
    <2>2. ASSUME NEW edited \in Edited(was) PROVE edited.ev \in Delivery
      BY <2>1 DEF Edited, Entry
    <2> QED BY <2>2 DEF was
  <1>7. \/ l = ledger
        \/ \E i \in 1..n : \E e \in Edited(ledger[i]) : l = [ledger EXCEPT ![i] = e]
        \/ \E i \in 1..n : l = [j \in 1..(n - 1) |-> IF j < i THEN ledger[j] ELSE ledger[j + 1]]
    <2> DEFINE OneEdited(i) == {[ledger EXCEPT ![i] = e] : e \in Edited(ledger[i])}
               Without(i) == [j \in 1..Len(ledger) - 1 |->
                                IF j < i THEN ledger[j] ELSE ledger[j + 1]]
    <2>1. l \in (UNION {OneEdited(i) : i \in DOMAIN ledger}) \cup {Without(i) : i \in DOMAIN ledger}
                  \cup {ledger}
      BY DEF Tampered
    <2>2. ASSUME NEW i, l \in OneEdited(i) PROVE \E e \in Edited(ledger[i]) : l = [ledger EXCEPT ![i] = e]
      BY <2>2
    <2>3. ASSUME NEW i, l = Without(i)
          PROVE  l = [j \in 1..(n - 1) |-> IF j < i THEN ledger[j] ELSE ledger[j + 1]]
      BY <2>3 DEF n
    <2> HIDE DEF OneEdited, Without
    <2>4. \/ l = ledger
          \/ \E i \in 1..n : l \in OneEdited(i)
          \/ \E i \in 1..n : l = Without(i)
      BY <1>1, <2>1
    <2> QED BY <2>2, <2>3, <2>4
  <1>8. OfDeliveries(l)
    <2> HIDE DEF OfDeliveries
    <2> QED BY <1>3, <1>4, <1>5, <1>6, <1>7
  <1> QED BY <1>8

(* The producer and the verifier agree on every ledger that editing one    *)
(* field or dropping one entry makes of a real one, and receipts stay      *)
(* valid: ingestContributionDeliveryV1(), replayContributionIntakeV1() and *)
(* the verify functions of contribution-intake-ledger.ts.                  *)
THEOREM HistoriesVerify == DeliverySpec => []OnlyHistoriesVerify
  <1>1. LedgerInv => OnlyHistoriesVerify
    <2> SUFFICES ASSUME LedgerInv PROVE OnlyHistoriesVerify
      OBVIOUS
    <2>1. ledger \in Seq(Entry) /\ \A r \in receipts : VerifyReceipt(ledger, r)
      BY DEF LedgerInv
    <2>2. ASSUME NEW l \in Tampered \cup {ledger}
          PROVE  VerifyLedger(l) <=> l = Replay([i \in DOMAIN l |-> l[i].ev])
      <3>1. PICK n \in Nat : l = [i \in 1..n |-> l[i]] /\ \A i \in 1..n : l[i].ev \in Delivery
        BY <2>1, CandidatesAreLedgers
      <3> QED BY <3>1, VerifiesAsReplayed
    <2> QED BY <2>1, <2>2 DEF OnlyHistoriesVerify
  <1> QED BY <1>1, LedgerInvariant, PTL
=============================================================================
