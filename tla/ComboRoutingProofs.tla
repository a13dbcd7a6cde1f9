------------------------- MODULE ComboRoutingProofs -------------------------
(***************************************************************************)
(* Proof that least_used spreads requests, for every set of requests, of   *)
(* combos and of edits, and whatever circuits open.  The inductive         *)
(* invariant counts, for each pair of models m and n, the scans under way  *)
(* that look at n and settled on m (Behind): such a scan adds one to m     *)
(* only if it saw m used no more than n, so the count of m stays within    *)
(* the requests that are not among them and what n missed (Spread).        *)
(***************************************************************************)
EXTENDS ComboRouting, SequenceTheorems, FiniteSetTheorems, WellFoundedInduction, TLAPS

(* A non-empty set of naturals has a least member. *)
LEMMA LeastBelow ==
  ASSUME NEW D, D \subseteq Nat, D # {}
  PROVE  \E x \in D : \A y \in D : x <= y
<1>1. PICK x \in D : \A y \in D : ~ (<<y, x>> \in OpToRel(<, Nat))
  BY NatLessThanWellFounded, WFMin
<1>2. ASSUME NEW y \in D PROVE x <= y
  <2>1. <<y, x>> \in OpToRel(<, Nat) <=> <<y, x>> \in {p \in Nat \X Nat : p[1] < p[2]}
    BY Zenon DEF OpToRel
  <2>2. y < x => <<y, x>> \in {p \in Nat \X Nat : p[1] < p[2]}
    OBVIOUS
  <2>3. ~ (y < x)
    BY <1>1, <2>1, <2>2, Zenon
  <2> QED BY <2>3
<1> QED BY <1>2

-----------------------------------------------------------------------------
(* Healthy: the loop of resolveSmart, which keeps models of the combo.     *)
IsHealthy(f, n, models, open) ==
  f = [k \in 0 .. n |-> IF k = 0 THEN <<>>
                        ELSE IF upstreamOpen(models[k], open) THEN f[k - 1]
                        ELSE Append(f[k - 1], models[k])]

LEMMA HealthyAt ==
  ASSUME NEW models, NEW open, NEW n, NEW f, IsHealthy(f, n, models, open), NEW k \in 0 .. n
  PROVE  f[k] = IF k = 0 THEN <<>>
                ELSE IF upstreamOpen(models[k], open) THEN f[k - 1]
                ELSE Append(f[k - 1], models[k])
<1> DEFINE F(j) == IF j = 0 THEN <<>>
                   ELSE IF upstreamOpen(models[j], open) THEN f[j - 1]
                   ELSE Append(f[j - 1], models[j])
<1>1. f = [j \in 0 .. n |-> F(j)]
  BY DEF IsHealthy
<1> HIDE DEF F
<1>2. f[k] = F(k)
  BY <1>1
<1> QED BY <1>2 DEF F

LEMMA HealthyExists ==
  ASSUME NEW models, NEW open, NEW n \in Nat
  PROVE  \E f : IsHealthy(f, n, models, open)
<1> DEFINE D == {m \in Nat : ~ \E f : IsHealthy(f, m, models, open)}
<1> SUFFICES ASSUME D # {} PROVE FALSE
  OBVIOUS
<1>1. PICK m \in D : \A k \in D : m <= k
  <2>1. D \subseteq Nat
    OBVIOUS
  <2> HIDE DEF D
  <2> QED BY <2>1, LeastBelow
<1>2. m \in Nat
  BY <1>1
<1> HIDE DEF D
<1>3. CASE m = 0
  <2>1. IsHealthy([i \in 0 .. 0 |-> <<>>], 0, models, open)
    BY DEF IsHealthy
  <2> QED BY <1>1, <1>3, <2>1 DEF D
<1>4. CASE m > 0
  <2>1. m - 1 \in Nat /\ m - 1 \notin D
    BY <1>1, <1>2, <1>4
  <2>2. PICK f : IsHealthy(f, m - 1, models, open)
    BY <2>1 DEF D
  <2> DEFINE g == [i \in 0 .. m |-> IF i = m THEN (IF upstreamOpen(models[m], open) THEN f[m - 1]
                                                   ELSE Append(f[m - 1], models[m]))
                                    ELSE f[i]]
  <2>3. ASSUME NEW i \in 0 .. m
        PROVE  g[i] = IF i = 0 THEN <<>>
                      ELSE IF upstreamOpen(models[i], open) THEN g[i - 1]
                      ELSE Append(g[i - 1], models[i])
    <3>1. CASE i = 0
      <4>1. 0 \in 0 .. (m - 1) /\ i # m
        BY <1>2, <1>4, <3>1
      <4>2. f[0] = <<>>
        BY <2>2, <4>1, HealthyAt
      <4> QED BY <3>1, <4>1, <4>2
    <3>2. CASE i > 0
      <4>1. i - 1 \in 0 .. m /\ i - 1 # m /\ g[i - 1] = f[i - 1]
        BY <1>2, <3>2
      <4>2. CASE i = m
        BY <3>2, <4>1, <4>2
      <4>3. CASE i # m
        <5>1. i \in 0 .. (m - 1) /\ g[i] = f[i]
          BY <1>2, <4>3
        <5>2. f[i] = IF i = 0 THEN <<>>
                     ELSE IF upstreamOpen(models[i], open) THEN f[i - 1]
                     ELSE Append(f[i - 1], models[i])
          BY <2>2, <5>1, HealthyAt
        <5> HIDE DEF g
        <5> QED BY <3>2, <4>1, <5>1, <5>2
      <4> QED BY <4>2, <4>3
    <3> QED BY <3>1, <3>2
  <2>4. DOMAIN g = 0 .. m /\ g = [i \in 0 .. m |-> g[i]]
    OBVIOUS
  <2> HIDE DEF g
  <2>5. IsHealthy(g, m, models, open)
    BY <2>3, <2>4 DEF IsHealthy
  <2> QED BY <1>1, <2>5 DEF D
<1> QED BY <1>2, <1>3, <1>4

LEMMA HealthyTyped ==
  ASSUME NEW models \in Seq(Models), NEW open, NEW f, IsHealthy(f, Len(models), models, open),
         NEW n \in Nat, n <= Len(models)
  PROVE  f[n] \in Seq(Models)
<1> DEFINE D == {m \in Nat : m <= Len(models) /\ f[m] \notin Seq(Models)}
<1> SUFFICES ASSUME D # {} PROVE FALSE
  OBVIOUS
<1>1. PICK m \in D : \A k \in D : m <= k
  <2>1. D \subseteq Nat
    OBVIOUS
  <2> HIDE DEF D
  <2> QED BY <2>1, LeastBelow
<1>2. m \in Nat /\ m <= Len(models) /\ f[m] \notin Seq(Models)
  BY <1>1
<1>3. Len(models) \in Nat
  OBVIOUS
<1>4. f[m] = IF m = 0 THEN <<>>
             ELSE IF upstreamOpen(models[m], open) THEN f[m - 1]
             ELSE Append(f[m - 1], models[m])
  <2>1. m \in 0 .. Len(models)
    BY <1>2, <1>3
  <2> QED BY <2>1, HealthyAt
<1>5. CASE m = 0
  BY <1>2, <1>4, <1>5
<1>6. CASE m > 0
  <2>1. PICK j \in Nat : m = j + 1 /\ m - 1 = j
    <3>1. m - 1 \in Nat /\ m = (m - 1) + 1
      BY <1>2, <1>6
    <3> QED BY <3>1
  <2>2. f[j] \in Seq(Models)
    <3>1. j \notin D
      <4> HIDE DEF D
      <4>1. ~(m <= j)
        BY <1>2, <2>1
      <4> QED BY <1>1, <4>1
    <3>2. j <= Len(models)
      BY <1>2, <1>3, <2>1
    <3> QED BY <3>1, <3>2
  <2>3. PICK e \in Models : e = models[m]
    BY <1>2, <1>3, <1>6
  <2>4. PICK q \in Seq(Models) : q = f[j]
    BY <2>2
  <2>5. f[m] = q \/ f[m] = Append(q, e)
    BY <1>4, <1>6, <2>1, <2>3, <2>4
  <2>6. Append(q, e) \in Seq(Models)
    OBVIOUS
  <2> QED BY <1>2, <2>5, <2>6
<1> QED BY <1>2, <1>5, <1>6

LEMMA HealthyIsSeq ==
  ASSUME NEW c, c.models \in Seq(Models), NEW open, NEW s, s = Healthy(c, open)
  PROVE  s \in Seq(Models)
<1>1. PICK models \in Seq(Models) : models = c.models
  OBVIOUS
<1>2. Len(models) \in Nat
  OBVIOUS
<1> DEFINE f == CHOOSE g : IsHealthy(g, Len(models), models, open)
<1>3. IsHealthy(f, Len(models), models, open)
  BY <1>2, HealthyExists
<1>4. s = f[Len(models)]
  BY <1>1 DEF Healthy, IsHealthy
<1> HIDE DEF f
<1> QED BY <1>2, <1>3, <1>4, HealthyTyped

-----------------------------------------------------------------------------
(* The scans under way that look at n and settled on m when its count was  *)
(* d or less: each may still add one to m.                                 *)
Behind(p, b, bn, sk, m, n, d) ==
  {r \in Requests : p[r] = "scan" /\ b[r] = m /\ n \notin sk[r] /\ bn[r] <= d}

(* For every d that the count of n has not passed, m stays below d and     *)
(* what n missed by the requests that are not among those scans.           *)
Spread(u, ms, p, b, bn, sk) ==
  \A m, n \in Models : \A d \in Nat :
    u[n] <= d =>
      u[m] + Cardinality(Behind(p, b, bn, sk, m, n, d)) <= d + ms[n] + Cardinality(Requests)

LEMMA BehindFinite ==
  ASSUME NEW p, NEW b, NEW bn, NEW sk, NEW m, NEW n, NEW d
  PROVE  /\ IsFiniteSet(Behind(p, b, bn, sk, m, n, d))
         /\ Cardinality(Behind(p, b, bn, sk, m, n, d)) \in Nat /\ Cardinality(Requests) \in Nat
         /\ Cardinality(Behind(p, b, bn, sk, m, n, d)) <= Cardinality(Requests)
<1>1. IsFiniteSet(Requests) /\ Behind(p, b, bn, sk, m, n, d) \subseteq Requests
  BY RoutingAssumption DEF Behind
<1> QED BY <1>1, FS_Subset, FS_CardinalityType

(* What a step of r leaves to the others, and what it has in hand.         *)
OthersKeep(r, p, b, bn, sk, p1, b1, bn1, sk1) ==
  \A q \in Requests : q # r =>
    (p1[q] = p[q] /\ b1[q] = b[q] /\ bn1[q] = bn[q] /\ sk1[q] = sk[q])

InHand(r, u, p, b, bn, sk, p1, b1, bn1, sk1) ==
  p1[r] = "scan" =>
    \/ bn1[r] = u[b1[r]]
    \/ p[r] = "scan" /\ b1[r] = b[r] /\ bn1[r] = bn[r] /\ sk1[r] = sk[r]

(* r has seen every model its scan looks at, and counts its choice.        *)
SeenAll(r, u, p, b, bn, sk) ==
  /\ p[r] = "scan" /\ b[r] \in Models /\ bn[r] \in Nat
  /\ \A n \in Models : n \in sk[r] \/ bn[r] <= u[n]

Counts(r, u, v, ms, ns, b, bn, sk, p, p1, bn1, sk1) ==
  /\ p1[r] # "scan"
  /\ \A q \in Requests : q # r => (p1[q] = p[q] /\ bn1[q] = bn[q] /\ sk1[q] = sk[q])
  /\ \A x \in Models : v[x] = IF x = b[r] THEN u[x] + 1 ELSE u[x]
  /\ \A x \in Models : ns[x] = IF x \in sk[r] THEN ms[x] + 1 ELSE ms[x]

(* A request that starts, moves on or ends a scan without counting: what   *)
(* it has in hand is a count as it is now, or what it had.                 *)
LEMMA SpreadKept ==
  ASSUME NEW u \in [Models -> Nat], NEW ms \in [Models -> Nat],
         NEW p, NEW b, NEW bn, NEW sk, Spread(u, ms, p, b, bn, sk),
         NEW p1, NEW b1, NEW bn1, NEW sk1, NEW r \in Requests,
         OthersKeep(r, p, b, bn, sk, p1, b1, bn1, sk1),
         InHand(r, u, p, b, bn, sk, p1, b1, bn1, sk1)
  PROVE  Spread(u, ms, p1, b1, bn1, sk1)
<1> SUFFICES ASSUME NEW m \in Models, NEW n \in Models, NEW d \in Nat, u[n] <= d
             PROVE  u[m] + Cardinality(Behind(p1, b1, bn1, sk1, m, n, d))
                      <= d + ms[n] + Cardinality(Requests)
  BY DEF Spread
<1>1. PICK B : B = Behind(p, b, bn, sk, m, n, d)
  OBVIOUS
<1>2. PICK C : C = Behind(p1, b1, bn1, sk1, m, n, d)
  OBVIOUS
<1>3. /\ IsFiniteSet(B) /\ Cardinality(B) \in Nat /\ Cardinality(C) \in Nat
      /\ Cardinality(Requests) \in Nat /\ Cardinality(C) <= Cardinality(Requests)
  BY <1>1, <1>2, BehindFinite
<1>4. u[m] \in Nat /\ u[n] \in Nat /\ ms[n] \in Nat
  OBVIOUS
<1>5. u[m] + Cardinality(B) <= d + ms[n] + Cardinality(Requests)
  BY <1>1 DEF Spread
<1>6. CASE C \subseteq B
  <2>1. Cardinality(C) <= Cardinality(B)
    BY <1>3, <1>6, FS_Subset
  <2> QED BY <1>2, <1>3, <1>4, <1>5, <2>1
<1>7. CASE ~(C \subseteq B)
  <2>1. r \in C /\ r \notin B
    BY <1>1, <1>2, <1>7 DEF Behind, OthersKeep
  <2>2. p1[r] = "scan" /\ b1[r] = m /\ n \notin sk1[r] /\ bn1[r] <= d
    BY <1>2, <2>1 DEF Behind
  <2>3. bn1[r] = u[m]
    BY <1>1, <2>1, <2>2 DEF Behind, InHand
  <2>4. u[m] <= d
    BY <2>2, <2>3
  <2> QED BY <1>2, <1>3, <1>4, <2>4
<1> QED BY <1>6, <1>7

(* The end of a scan: it counts its choice, and the models it did not look *)
(* at miss that use.                                                       *)
LEMMA SpreadBumped ==
  ASSUME NEW u \in [Models -> Nat], NEW ms \in [Models -> Nat],
         NEW p, NEW b, NEW bn, NEW sk, Spread(u, ms, p, b, bn, sk),
         NEW r \in Requests, SeenAll(r, u, p, b, bn, sk),
         NEW p1, NEW bn1, NEW sk1, NEW v, NEW ns,
         Counts(r, u, v, ms, ns, b, bn, sk, p, p1, bn1, sk1)
  PROVE  Spread(v, ns, p1, b, bn1, sk1)
<1> SUFFICES ASSUME NEW m \in Models, NEW n \in Models, NEW d \in Nat, v[n] <= d
             PROVE  v[m] + Cardinality(Behind(p1, b, bn1, sk1, m, n, d))
                      <= d + ns[n] + Cardinality(Requests)
  BY DEF Spread
<1>0. /\ \A x \in Models : v[x] = IF x = b[r] THEN u[x] + 1 ELSE u[x]
      /\ \A x \in Models : ns[x] = IF x \in sk[r] THEN ms[x] + 1 ELSE ms[x]
  BY DEF Counts
<1>1. PICK B : B = Behind(p, b, bn, sk, m, n, d)
  OBVIOUS
<1>2. PICK C : C = Behind(p1, b, bn1, sk1, m, n, d)
  OBVIOUS
<1>3. /\ IsFiniteSet(B) /\ Cardinality(B) \in Nat /\ Cardinality(C) \in Nat
      /\ Cardinality(Requests) \in Nat
  BY <1>1, <1>2, BehindFinite
<1>4. /\ u[m] \in Nat /\ u[n] \in Nat /\ ms[n] \in Nat
      /\ v[m] = (IF m = b[r] THEN u[m] + 1 ELSE u[m]) /\ u[n] <= v[n]
      /\ ns[n] = (IF n \in sk[r] THEN ms[n] + 1 ELSE ms[n])
  BY <1>0
<1>5. u[n] <= d
  <2>1. v[n] \in Nat
    BY <1>0
  <2> QED BY <1>4, <2>1
<1>6. u[m] + Cardinality(B) <= d + ms[n] + Cardinality(Requests)
  BY <1>1, <1>5 DEF Spread
<1>7. C \subseteq B /\ r \notin C
  BY <1>1, <1>2 DEF Behind, Counts
<1>8. Cardinality(C) <= Cardinality(B)
  BY <1>3, <1>7, FS_Subset
<1>9. CASE m # b[r]
  <2>1. v[m] = u[m] /\ ns[n] \in Nat /\ ms[n] <= ns[n]
    BY <1>4, <1>9
  <2> QED BY <1>2, <1>3, <1>4, <1>6, <1>8, <2>1
<1>10. CASE m = b[r] /\ n \in sk[r]
  <2>1. v[m] = u[m] + 1 /\ ns[n] = ms[n] + 1
    BY <1>4, <1>10
  <2> QED BY <1>2, <1>3, <1>4, <1>6, <1>8, <2>1
<1>11. CASE m = b[r] /\ n \notin sk[r]
  <2>1. bn[r] <= u[n] /\ bn[r] \in Nat /\ p[r] = "scan"
    BY <1>11 DEF SeenAll
  <2>2. bn[r] <= d
    BY <1>4, <1>5, <2>1
  <2>3. r \in B
    BY <1>1, <1>11, <2>1, <2>2 DEF Behind
  <2>4. C \subseteq B \ {r}
    BY <1>7
  <2>5. IsFiniteSet(B \ {r}) /\ Cardinality(B \ {r}) = Cardinality(B) - 1
    BY <1>3, <2>3, FS_RemoveElement
  <2>6. Cardinality(C) <= Cardinality(B) - 1
    BY <2>4, <2>5, FS_Subset
  <2>7. v[m] = u[m] + 1 /\ ns[n] = ms[n]
    BY <1>4, <1>11
  <2> QED BY <1>2, <1>3, <1>4, <1>6, <2>6, <2>7
<1> QED BY <1>9, <1>10, <1>11

-----------------------------------------------------------------------------
(* The invariant.                                                          *)

RoutingTypes ==
  /\ combo \in Combos
  /\ usageN \in [Models -> Nat] /\ missed \in [Models -> Nat]
  /\ pc \in [Requests -> {"idle", "scan", "gate", "upstream", "rejected"}]
  /\ list \in [Requests -> Seq(Models)]
  /\ best = [r \in Requests |-> best[r]]
  /\ bestN \in [Requests -> Nat]
  /\ unseen = [r \in Requests |-> unseen[r]]

(* A scan has each model it looks at before it, or found it used at least  *)
(* as often as its choice; the counts have only grown since.               *)
ScansSee ==
  \A r \in Requests : pc[r] = "scan" =>
    /\ best[r] \in Models
    /\ \A n \in Models : n \in unseen[r] \/ n \in Range(list[r]) \/ bestN[r] <= usageN[n]

UsageInv ==
  /\ RoutingTypes /\ ScansSee
  /\ Spread(usageN, missed, pc, best, bestN, unseen)

LEMMA UsageInvSpreads == UsageInv => UsageSpread
<1> SUFFICES ASSUME UsageInv, NEW m \in Models, NEW n \in Models
             PROVE  usageN[m] <= usageN[n] + missed[n] + Cardinality(Requests)
  BY DEF UsageSpread
<1>1. usageN[m] \in Nat /\ usageN[n] \in Nat /\ missed[n] \in Nat
  BY DEF UsageInv, RoutingTypes
<1>2. PICK d \in Nat : d = usageN[n]
  BY <1>1
<1>3. usageN[n] <= d
  BY <1>2
<1>4. usageN[m] + Cardinality(Behind(pc, best, bestN, unseen, m, n, d))
        <= d + missed[n] + Cardinality(Requests)
  BY <1>3 DEF UsageInv, Spread
<1>5. /\ Cardinality(Behind(pc, best, bestN, unseen, m, n, d)) \in Nat
      /\ Cardinality(Requests) \in Nat
  BY BehindFinite
<1> QED BY <1>1, <1>2, <1>4, <1>5

LEMMA InitUsageInv == Init => UsageInv
<1> SUFFICES ASSUME Init PROVE UsageInv
  OBVIOUS
<1>1. RoutingTypes
  BY DEF Init, RoutingTypes
<1>2. ScansSee
  BY DEF Init, ScansSee
<1>3. Spread(usageN, missed, pc, best, bestN, unseen)
  <2> SUFFICES ASSUME NEW m \in Models, NEW n \in Models, NEW d \in Nat
               PROVE  usageN[m] + Cardinality(Behind(pc, best, bestN, unseen, m, n, d))
                        <= d + missed[n] + Cardinality(Requests)
    BY DEF Spread
  <2>1. usageN[m] = 0 /\ missed[n] = 0
    BY DEF Init
  <2>2. /\ Cardinality(Behind(pc, best, bestN, unseen, m, n, d)) \in Nat
        /\ Cardinality(Requests) \in Nat
        /\ Cardinality(Behind(pc, best, bestN, unseen, m, n, d)) <= Cardinality(Requests)
    BY BehindFinite
  <2> QED BY <2>1, <2>2
<1> QED BY <1>1, <1>2, <1>3 DEF UsageInv

(* What a request may do to its own scan without counting.                 *)
LEMMA ScanStep ==
  ASSUME UsageInv, NEW r \in Requests, usageN' = usageN, missed' = missed, RoutingTypes',
         \A q \in Requests : q # r =>
           /\ pc'[q] = pc[q] /\ best'[q] = best[q] /\ bestN'[q] = bestN[q]
           /\ list'[q] = list[q] /\ unseen'[q] = unseen[q],
         pc'[r] = "scan" =>
           /\ \/ bestN'[r] = usageN[best'[r]]
              \/ /\ pc[r] = "scan" /\ best'[r] = best[r] /\ bestN'[r] = bestN[r]
                 /\ unseen'[r] = unseen[r]
           /\ best'[r] \in Models
           /\ \A n \in Models :
                n \in unseen'[r] \/ n \in Range(list'[r]) \/ bestN'[r] <= usageN[n]
  PROVE  UsageInv'
<1>1. ScansSee'
  <2> SUFFICES ASSUME NEW q \in Requests, pc'[q] = "scan"
               PROVE  /\ best'[q] \in Models
                      /\ \A n \in Models :
                           n \in unseen'[q] \/ n \in Range(list'[q]) \/ bestN'[q] <= usageN[n]
    BY DEF ScansSee
  <2>1. CASE q = r
    BY <2>1
  <2>2. CASE q # r
    BY <2>2 DEF UsageInv, ScansSee
  <2> QED BY <2>1, <2>2
<1>2. Spread(usageN, missed, pc', best', bestN', unseen')
  <2>1. /\ usageN \in [Models -> Nat] /\ missed \in [Models -> Nat]
        /\ Spread(usageN, missed, pc, best, bestN, unseen)
    BY DEF UsageInv, RoutingTypes
  <2>2. PICK p1, b1, bn1, sk1 : p1 = pc' /\ b1 = best' /\ bn1 = bestN' /\ sk1 = unseen'
    OBVIOUS
  <2>3. OthersKeep(r, pc, best, bestN, unseen, p1, b1, bn1, sk1)
    BY <2>2 DEF OthersKeep
  <2>4. InHand(r, usageN, pc, best, bestN, unseen, p1, b1, bn1, sk1)
    BY <2>2 DEF InHand
  <2>5. Spread(usageN, missed, p1, b1, bn1, sk1)
    BY <2>1, <2>3, <2>4, SpreadKept
  <2> QED BY <2>2, <2>5
<1>3. Spread(usageN, missed, pc, best, bestN, unseen)'
  BY <1>2
<1> QED BY <1>1, <1>3 DEF UsageInv

LEMMA ChooseKeeps ==
  ASSUME UsageInv, NEW r \in Requests, Choose(r)
  PROVE  UsageInv'
<1>1. PICK m : best' = [best EXCEPT ![r] = m]
  BY DEF Choose
<1>2. /\ pc' = [pc EXCEPT ![r] = "gate"] /\ combo' = combo /\ usageN' = usageN
      /\ list' = list /\ bestN' = bestN /\ unseen' = unseen /\ missed' = missed
  BY DEF Choose
<1>3. RoutingTypes
  BY DEF UsageInv
<1>4. best' = [q \in Requests |-> best'[q]] /\ \A q \in Requests : q # r => best'[q] = best[q]
  <2>1. best = [q \in Requests |-> best[q]]
    BY <1>3 DEF RoutingTypes
  <2> QED BY <1>1, <2>1
<1>5. pc'[r] = "gate" /\ \A q \in Requests : q # r => pc'[q] = pc[q]
  BY <1>2, <1>3 DEF RoutingTypes
<1>6. RoutingTypes'
  BY <1>2, <1>3, <1>4 DEF RoutingTypes
<1> QED BY <1>2, <1>4, <1>5, <1>6, ScanStep

LEMMA HeadTailRange ==
  ASSUME NEW s \in Seq(Models), s # <<>>
  PROVE  /\ Head(s) \in Models /\ Tail(s) \in Seq(Models) /\ Head(s) \in Range(s)
         /\ \A n \in Range(s) : n = Head(s) \/ n \in Range(Tail(s))
<1>1. Len(s) \in Nat /\ Len(s) # 0 /\ Len(Tail(s)) = Len(s) - 1 /\ Tail(s) \in Seq(Models)
  OBVIOUS
<1>2. Head(s) = s[1] /\ 1 \in DOMAIN s /\ s[1] \in Models
  BY <1>1
<1>3. ASSUME NEW n \in Range(s) PROVE n = Head(s) \/ n \in Range(Tail(s))
  <2>1. PICK i \in 1 .. Len(s) : n = s[i]
    BY DEF Range
  <2>2. CASE i = 1
    BY <1>2, <2>1, <2>2
  <2>3. CASE i # 1
    <3>1. i - 1 \in 1 .. Len(Tail(s)) /\ (i - 1) + 1 = i
      BY <1>1, <2>3
    <3>2. Tail(s)[i - 1] = s[i]
      BY <1>1, <3>1
    <3>3. i - 1 \in DOMAIN Tail(s)
      BY <1>1, <3>1
    <3> QED BY <2>1, <3>2, <3>3 DEF Range
  <2> QED BY <2>2, <2>3
<1> QED BY <1>1, <1>2, <1>3 DEF Range

LEMMA StartScanKeeps ==
  ASSUME UsageInv, NEW r \in Requests, StartScan(r)
  PROVE  UsageInv'
<1>1. PICK s : s = Healthy(combo, OpenNow)
  OBVIOUS
<1>2. RoutingTypes
  BY DEF UsageInv
<1>3. s \in Seq(Models)
  <2>1. combo.models \in Seq(Models)
    BY <1>2, RoutingAssumption DEF RoutingTypes
  <2> QED BY <1>1, <2>1, HealthyIsSeq
<1>4. PICK m : m = (IF s = <<>> THEN Head(combo.models) ELSE Head(s))
  OBVIOUS
<1>5. PICK bn, rest, sk, at :
        /\ bn = (IF s = <<>> THEN 0 ELSE usageN[m]) /\ rest = (IF s = <<>> THEN <<>> ELSE Tail(s))
        /\ sk = (IF s = <<>> THEN {} ELSE Models \ Range(s))
        /\ at = (IF s = <<>> THEN "gate" ELSE "scan")
  OBVIOUS
<1>6. /\ best' = [best EXCEPT ![r] = m] /\ bestN' = [bestN EXCEPT ![r] = bn]
      /\ list' = [list EXCEPT ![r] = rest] /\ unseen' = [unseen EXCEPT ![r] = sk]
      /\ pc' = [pc EXCEPT ![r] = at]
  BY <1>1, <1>4, <1>5, Zenon DEF StartScan
<1>7. combo' = combo /\ usageN' = usageN /\ missed' = missed
  BY DEF StartScan
<1>8. s # <<>> => /\ m \in Models /\ rest \in Seq(Models)
                  /\ \A n \in Range(s) : n = m \/ n \in Range(rest)
  BY <1>3, <1>4, <1>5, HeadTailRange
<1>9. bn \in Nat /\ rest \in Seq(Models) /\ at \in {"gate", "scan"}
  <2>1. CASE s = <<>>
    BY <1>3, <1>5, <2>1
  <2>2. CASE s # <<>>
    BY <1>2, <1>5, <1>8, <2>2 DEF RoutingTypes
  <2> QED BY <2>1, <2>2
<1>10. /\ best' = [q \in Requests |-> best'[q]] /\ best'[r] = m
       /\ unseen' = [q \in Requests |-> unseen'[q]] /\ unseen'[r] = sk
       /\ \A q \in Requests : q # r => (best'[q] = best[q] /\ unseen'[q] = unseen[q])
  <2>1. best = [q \in Requests |-> best[q]] /\ unseen = [q \in Requests |-> unseen[q]]
    BY <1>2 DEF RoutingTypes
  <2> QED BY <1>6, <2>1
<1>11. /\ pc'[r] = at /\ bestN'[r] = bn /\ list'[r] = rest
       /\ \A q \in Requests : q # r => /\ pc'[q] = pc[q] /\ bestN'[q] = bestN[q]
                                       /\ list'[q] = list[q]
  BY <1>2, <1>6 DEF RoutingTypes
<1>12. RoutingTypes'
  BY <1>2, <1>6, <1>7, <1>9, <1>10 DEF RoutingTypes
<1>13. ASSUME pc'[r] = "scan"
       PROVE  /\ bestN'[r] = usageN[best'[r]] /\ best'[r] \in Models
              /\ \A n \in Models :
                   n \in unseen'[r] \/ n \in Range(list'[r]) \/ bestN'[r] <= usageN[n]
  <2>1. s # <<>>
    BY <1>5, <1>11, <1>13
  <2>2. bn = usageN[m] /\ sk = Models \ Range(s) /\ m \in Models
    BY <1>5, <1>8, <2>1
  <2>3. usageN[m] <= usageN[m]
    BY <1>2, <2>2 DEF RoutingTypes
  <2> QED BY <1>8, <1>10, <1>11, <2>1, <2>2, <2>3
<1> QED BY <1>7, <1>10, <1>11, <1>12, <1>13, ScanStep

LEMMA ScanKeeps ==
  ASSUME UsageInv, NEW r \in Requests, Scan(r)
  PROVE  UsageInv'
<1>1. RoutingTypes /\ pc[r] = "scan" /\ list[r] # <<>>
  BY DEF UsageInv, Scan
<1>2. PICK s \in Seq(Models) : s = list[r]
  BY <1>1 DEF RoutingTypes
<1>3. PICK m \in Models : m = Head(s)
  BY <1>1, <1>2, HeadTailRange
<1>4. PICK rest \in Seq(Models) : rest = Tail(s)
  BY <1>1, <1>2, HeadTailRange
<1>5. \A n \in Range(s) : n = m \/ n \in Range(rest)
  BY <1>1, <1>2, <1>3, <1>4, HeadTailRange
<1>6. PICK bm, bn : bm = (IF usageN[m] < bestN[r] THEN m ELSE best[r])
                    /\ bn = (IF usageN[m] < bestN[r] THEN usageN[m] ELSE bestN[r])
  OBVIOUS
<1>7. usageN[m] \in Nat /\ bestN[r] \in Nat /\ bn \in Nat /\ bn <= bestN[r] /\ bn <= usageN[m]
  <2>1. usageN[m] \in Nat /\ bestN[r] \in Nat
    BY <1>1 DEF RoutingTypes
  <2> QED BY <1>6, <2>1
<1>8. /\ best' = [best EXCEPT ![r] = bm] /\ bestN' = [bestN EXCEPT ![r] = bn]
      /\ list' = [list EXCEPT ![r] = rest]
      /\ pc' = pc /\ combo' = combo /\ usageN' = usageN /\ unseen' = unseen /\ missed' = missed
  <2>1. best = [q \in Requests |-> best[q]] /\ bestN \in [Requests -> Nat]
    BY <1>1 DEF RoutingTypes
  <2>2. list' = [list EXCEPT ![r] = rest] /\ pc' = pc /\ combo' = combo
        /\ usageN' = usageN /\ unseen' = unseen /\ missed' = missed
    BY <1>2, <1>4 DEF Scan
  <2>3. CASE usageN[m] < bestN[r]
    BY <1>2, <1>3, <1>6, <2>2, <2>3 DEF Scan
  <2>4. CASE ~(usageN[m] < bestN[r])
    <3>1. best' = best /\ bestN' = bestN /\ bm = best[r] /\ bn = bestN[r]
      BY <1>2, <1>3, <1>6, <2>4 DEF Scan
    <3>2. best = [best EXCEPT ![r] = best[r]] /\ bestN = [bestN EXCEPT ![r] = bestN[r]]
      BY <2>1
    <3> QED BY <2>2, <3>1, <3>2
  <2> QED BY <2>3, <2>4
<1>9. /\ best' = [q \in Requests |-> best'[q]] /\ best'[r] = bm
      /\ \A q \in Requests : q # r => best'[q] = best[q]
  <2>1. best = [q \in Requests |-> best[q]]
    BY <1>1 DEF RoutingTypes
  <2> QED BY <1>8, <2>1
<1>10. /\ pc'[r] = "scan" /\ bestN'[r] = bn /\ list'[r] = rest
       /\ \A q \in Requests : q # r => /\ pc'[q] = pc[q] /\ bestN'[q] = bestN[q]
                                       /\ list'[q] = list[q]
  BY <1>1, <1>8 DEF RoutingTypes
<1>11. RoutingTypes'
  BY <1>1, <1>7, <1>8, <1>9 DEF RoutingTypes
<1>12. ASSUME NEW n \in Models PROVE n \in unseen[r] \/ n \in Range(rest) \/ bn <= usageN[n]
  <2>1. n \in unseen[r] \/ n \in Range(s) \/ bestN[r] <= usageN[n]
    BY <1>1, <1>2 DEF UsageInv, ScansSee
  <2>2. usageN[n] \in Nat
    BY <1>1 DEF RoutingTypes
  <2>3. CASE bestN[r] <= usageN[n]
    BY <1>7, <2>2, <2>3
  <2>4. CASE n \in Range(s)
    BY <1>5, <1>7, <2>4
  <2> QED BY <2>1, <2>3, <2>4
<1>13. bm \in Models
  BY <1>1, <1>6 DEF UsageInv, ScansSee
<1>14. \/ bestN'[r] = usageN[best'[r]]
       \/ pc[r] = "scan" /\ best'[r] = best[r] /\ bestN'[r] = bestN[r]
  BY <1>1, <1>6, <1>9, <1>10
<1>15. /\ best'[r] \in Models
       /\ \A n \in Models : n \in unseen'[r] \/ n \in Range(list'[r]) \/ bestN'[r] <= usageN[n]
  <2>1. unseen'[r] = unseen[r]
    BY <1>8
  <2> QED BY <1>9, <1>10, <1>12, <1>13, <2>1
<1> QED BY <1>8, <1>9, <1>10, <1>11, <1>14, <1>15, ScanStep

LEMMA bumpUsageKeeps ==
  ASSUME UsageInv, NEW r \in Requests, bumpUsage(r)
  PROVE  UsageInv'
<1>1. RoutingTypes /\ pc[r] = "scan" /\ list[r] = <<>>
  BY DEF UsageInv, bumpUsage
<1>2. PICK p1, v, ns, bn1, sk1 : /\ p1 = pc' /\ v = usageN' /\ ns = missed' /\ bn1 = bestN'
                                /\ sk1 = unseen'
  OBVIOUS
<1>3. /\ v = [usageN EXCEPT ![best[r]] = @ + 1] /\ p1 = [pc EXCEPT ![r] = "gate"]
      /\ ns = [m \in Models |-> IF m \in unseen[r] THEN missed[m] + 1 ELSE missed[m]]
      /\ bn1 = [bestN EXCEPT ![r] = 0] /\ sk1 = [unseen EXCEPT ![r] = {}]
      /\ combo' = combo /\ list' = list /\ best' = best
  BY <1>2 DEF bumpUsage
<1>4. /\ usageN \in [Models -> Nat] /\ missed \in [Models -> Nat]
      /\ Spread(usageN, missed, pc, best, bestN, unseen)
  BY DEF UsageInv, RoutingTypes
<1>5. best[r] \in Models /\ bestN[r] \in Nat
  BY <1>1 DEF UsageInv, ScansSee, RoutingTypes
<1>6. \A n \in Models : n \in unseen[r] \/ bestN[r] <= usageN[n]
  <2>1. \A n \in Models : n \in unseen[r] \/ n \in Range(list[r]) \/ bestN[r] <= usageN[n]
    BY <1>1 DEF UsageInv, ScansSee
  <2>2. \A n : n \notin Range(list[r])
    BY <1>1 DEF Range
  <2> QED BY <2>1, <2>2
<1>7. p1[r] = "gate" /\ \A q \in Requests : q # r => (p1[q] = pc[q] /\ bn1[q] = bestN[q])
  BY <1>1, <1>3 DEF RoutingTypes
<1>8. sk1 = [q \in Requests |-> sk1[q]] /\ \A q \in Requests : q # r => sk1[q] = unseen[q]
  <2>1. unseen = [q \in Requests |-> unseen[q]]
    BY <1>1 DEF RoutingTypes
  <2> QED BY <1>3, <2>1
<1>9. v \in [Models -> Nat] /\ \A x \in Models : usageN[x] \in Nat /\ v[x] \in Nat /\ usageN[x] <= v[x]
  BY <1>3, <1>4, <1>5
<1>10. ns \in [Models -> Nat]
  <2>1. ASSUME NEW x \in Models PROVE (IF x \in unseen[r] THEN missed[x] + 1 ELSE missed[x]) \in Nat
    BY <1>4
  <2> QED BY <1>3, <2>1
<1>11. Spread(v, ns, p1, best, bn1, sk1)
  <2>1. SeenAll(r, usageN, pc, best, bestN, unseen)
    BY <1>1, <1>5, <1>6 DEF SeenAll
  <2>2. Counts(r, usageN, v, missed, ns, best, bestN, unseen, pc, p1, bn1, sk1)
    BY <1>3, <1>4, <1>5, <1>7, <1>8 DEF Counts
  <2> QED BY <1>4, <2>1, <2>2, SpreadBumped
<1>12. Spread(usageN, missed, pc, best, bestN, unseen)'
  BY <1>2, <1>3, <1>11
<1>13. RoutingTypes'
  <2>1. bn1 \in [Requests -> Nat] /\ p1 \in [Requests -> {"idle", "scan", "gate", "upstream", "rejected"}]
    BY <1>1, <1>3 DEF RoutingTypes
  <2> QED BY <1>1, <1>2, <1>3, <1>8, <1>9, <1>10, <2>1 DEF RoutingTypes
<1>14. ScansSee'
  <2> SUFFICES ASSUME NEW q \in Requests, p1[q] = "scan"
               PROVE  /\ best[q] \in Models
                      /\ \A n \in Models : n \in sk1[q] \/ n \in Range(list[q]) \/ bn1[q] <= v[n]
    BY <1>2, <1>3 DEF ScansSee
  <2>1. q # r /\ pc[q] = "scan" /\ bn1[q] = bestN[q] /\ sk1[q] = unseen[q]
    BY <1>7, <1>8
  <2>2. best[q] \in Models /\ bestN[q] \in Nat
    BY <1>1, <2>1 DEF UsageInv, ScansSee, RoutingTypes
  <2>3. ASSUME NEW n \in Models, n \notin unseen[q], n \notin Range(list[q]) PROVE bestN[q] <= v[n]
    <3>1. bestN[q] <= usageN[n]
      BY <2>1, <2>3 DEF UsageInv, ScansSee
    <3>2. usageN[n] \in Nat /\ v[n] \in Nat /\ usageN[n] <= v[n]
      BY <1>9
    <3> QED BY <2>2, <3>1, <3>2
  <2> QED BY <2>1, <2>2, <2>3
<1> QED BY <1>12, <1>13, <1>14 DEF UsageInv

LEMMA GateKeeps ==
  ASSUME UsageInv, NEW r \in Requests, Gate(r)
  PROVE  UsageInv'
<1>1. PICK x : x = (IF CanRequest(h[U(r)]) THEN "upstream" ELSE "rejected")
  OBVIOUS
<1>2. /\ pc' = [pc EXCEPT ![r] = x] /\ combo' = combo /\ usageN' = usageN /\ missed' = missed
      /\ list' = list /\ best' = best /\ bestN' = bestN /\ unseen' = unseen
  BY <1>1 DEF Gate, scan
<1>3. x \in {"upstream", "rejected"}
  BY <1>1
<1>4. RoutingTypes /\ RoutingTypes'
  BY <1>2, <1>3 DEF UsageInv, RoutingTypes
<1>5. pc'[r] = x /\ \A q \in Requests : q # r => pc'[q] = pc[q]
  BY <1>2, <1>4 DEF RoutingTypes
<1> QED BY <1>2, <1>3, <1>4, <1>5, ScanStep

LEMMA RecordKeeps ==
  ASSUME UsageInv, NEW r \in Requests, Record(r)
  PROVE  UsageInv'
<1>1. /\ pc' = [pc EXCEPT ![r] = "idle"] /\ best' = [best EXCEPT ![r] = NoModel]
      /\ combo' = combo /\ usageN' = usageN /\ missed' = missed
      /\ list' = list /\ bestN' = bestN /\ unseen' = unseen
  BY DEF Record
<1>2. RoutingTypes
  BY DEF UsageInv
<1>3. best' = [q \in Requests |-> best'[q]] /\ \A q \in Requests : q # r => best'[q] = best[q]
  <2>1. best = [q \in Requests |-> best[q]]
    BY <1>2 DEF RoutingTypes
  <2> QED BY <1>1, <2>1
<1>4. pc'[r] = "idle" /\ \A q \in Requests : q # r => pc'[q] = pc[q]
  BY <1>1, <1>2 DEF RoutingTypes
<1>5. RoutingTypes'
  BY <1>1, <1>2, <1>3 DEF RoutingTypes
<1> QED BY <1>1, <1>3, <1>4, <1>5, ScanStep

(* The steps that leave the requests alone.                                *)
LEMMA RequestsAlone ==
  ASSUME UsageInv, combo' \in Combos, UNCHANGED <<usageN, missed, pc, list, best, bestN, unseen>>
  PROVE  UsageInv'
<1>1. RoutingTypes' /\ ScansSee'
  BY DEF UsageInv, RoutingTypes, ScansSee
<1>2. Spread(usageN, missed, pc, best, bestN, unseen)'
  BY DEF UsageInv
<1> QED BY <1>1, <1>2 DEF UsageInv

LEMMA NextUsageInv ==
  ASSUME UsageInv, [Next]_vars
  PROVE  UsageInv'
<1>1. CASE \E r \in Requests : Proceed(r)
  <2>1. PICK r \in Requests : Proceed(r)
    BY <1>1
  <2> QED BY <2>1, ChooseKeeps, StartScanKeeps, ScanKeeps, bumpUsageKeeps, GateKeeps, RecordKeeps
          DEF Proceed
<1>2. combo \in Combos
  BY DEF UsageInv, RoutingTypes
<1>3. CASE \E u \in Upstreams : ActiveCheck(u) \/ Tick(u)
  BY <1>2, <1>3, RequestsAlone DEF ActiveCheck, Tick, scan
<1>4. CASE OutageChanges \/ Reload
  BY <1>2, <1>4, RequestsAlone DEF OutageChanges, Reload, scan
<1>5. CASE UNCHANGED vars
  BY <1>2, <1>5, RequestsAlone DEF vars
<1> QED BY <1>1, <1>3, <1>4, <1>5 DEF Next

(* least_used spreads requests (resolveSmart, usageCount, bumpUsage): for  *)
(* any number of requests, any combos and edits of them, any outages and   *)
(* any interleaving of the scans and bumps, a model is used at most as     *)
(* often as another one, plus the requests, plus the uses counted by scans *)
(* in which the other one was skipped or absent.                           *)
THEOREM UsageSpreadHolds == Spec => []UsageSpread
<1>1. Init => UsageInv
  BY InitUsageInv
<1>2. UsageInv /\ [Next]_vars => UsageInv'
  BY NextUsageInv
<1>3. UsageInv => UsageSpread
  BY UsageInvSpreads
<1> QED BY <1>1, <1>2, <1>3, PTL DEF Spec
=============================================================================
