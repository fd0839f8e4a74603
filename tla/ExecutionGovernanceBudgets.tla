--------------------- MODULE ExecutionGovernanceBudgets ---------------------
(***************************************************************************)
(* The budgets of ExecutionGovernance, for every value of the constants:   *)
(* what a policy has been charged and holds reserved are sums over the     *)
(* executions, and no interleaving of claims and settlements overbooks it. *)
(***************************************************************************)
EXTENDS ExecutionGovernanceSteps, WellFoundedInduction, FiniteSetTheorems

-----------------------------------------------------------------------------
(* Sums over finite sets                                                   *)

\* A nonempty set of naturals has a least element.
LEMMA LeastNatural ==
  ASSUME NEW T \in SUBSET Nat, T # {}
  PROVE  \E m \in T : \A n \in T : m <= n
<1> DEFINE Less == OpToRel(<, Nat)
<1>1. IsWellFoundedOn(Less, Nat)  BY Zenon, NatLessThanWellFounded
<1>2. \A m, n \in Nat : n < m => <<n, m>> \in Less  BY DEF OpToRel
<1> HIDE DEF Less
<1>3. PICK m \in T : \A n \in T : ~(<<n, m>> \in Less)  BY Zenon, <1>1, WFMin
<1>4. \A n \in T : ~(n < m)  BY Zenon, <1>2, <1>3
<1>5. \A n \in T : m <= n  BY <1>4
<1> QED  BY <1>5

\* Induction on naturals, with the set of the numbers that satisfy the claim.
LEMMA NaturalsInSet ==
  ASSUME NEW T, 0 \in T, \A n \in Nat : n \in T => n + 1 \in T
  PROVE  Nat \subseteq T
<1> SUFFICES ASSUME Nat \ T # {}  PROVE FALSE  OBVIOUS
<1>1. PICK m \in Nat \ T : \A n \in Nat \ T : m <= n  BY Zenon, LeastNatural
<1>2. m # 0  BY <1>1
<1>3. m - 1 \in Nat /\ ~(m <= m - 1)  BY <1>1, <1>2
<1>4. m - 1 \in T  BY <1>1, <1>3
<1>5. (m - 1) + 1 \in T  BY <1>3, <1>4
<1> QED  BY <1>1, <1>5

\* The element that the folds of the library take out first.
Elem(s) == CHOOSE x \in s : TRUE

\* Taking it out of a finite set leaves one element less.
LEMMA ElemRemoved ==
  ASSUME NEW s, IsFiniteSet(s), s # {}
  PROVE  /\ Elem(s) \in s
         /\ IsFiniteSet(s \ {Elem(s)})
         /\ Cardinality(s \ {Elem(s)}) = Cardinality(s) - 1
         /\ Cardinality(s) \in Nat /\ Cardinality(s) # 0
<1>1. Elem(s) \in s  BY DEF Elem
<1> QED  BY <1>1, FS_RemoveElement, FS_CardinalityType, FS_EmptySet

\* Induction on the subsets of a finite set, in the order the folds take them.
LEMMA SubsetsInSet ==
  ASSUME NEW S, IsFiniteSet(S), NEW T, {} \in T,
         \A s \in SUBSET S : s # {} /\ s \ {Elem(s)} \in T => s \in T
  PROVE  SUBSET S \subseteq T
<1> DEFINE U == {n \in Nat : \A s \in SUBSET S : Cardinality(s) = n => s \in T}
<1>1. \A s \in SUBSET S : IsFiniteSet(s) /\ Cardinality(s) \in Nat
  BY FS_Subset, FS_CardinalityType
<1>2. 0 \in U  BY Zenon, <1>1, FS_EmptySet
<1>3. ASSUME NEW n \in Nat, n \in U  PROVE n + 1 \in U
  <2> SUFFICES ASSUME NEW s \in SUBSET S, Cardinality(s) = n + 1  PROVE s \in T
    OBVIOUS
  <2>1. s # {}  BY FS_EmptySet
  <2>2. Cardinality(s \ {Elem(s)}) = n  BY <1>1, <2>1, ElemRemoved
  <2>3. s \ {Elem(s)} \in SUBSET S  OBVIOUS
  <2> QED  BY <1>3, <2>1, <2>2, <2>3
<1> HIDE DEF U
<1>4. Nat \subseteq U  BY <1>2, <1>3, NaturalsInSet
<1> QED  BY <1>1, <1>4 DEF U

\* One step of the library's sum over the subsets of S.
SumStep(f, it, s) == IF s = {} THEN 0 ELSE f[Elem(s)] + it[s \ {Elem(s)}]
Sums(f, S) == CHOOSE it : it = [s \in SUBSET S |-> SumStep(f, it, s)]

\* The library's SumFunction is the value of Sums on the whole domain.
LEMMA SumIsSums ==
  ASSUME NEW S, NEW f, DOMAIN f = S
  PROVE  SumFunction(f) = Sums(f, S)[S]
BY Zenon DEF SumFunction, SumFunctionOnSet, FoldFunctionOnSet, MapThenFoldSet, Sums, SumStep, Elem

\* The recursion has a solution, so that Sums satisfies it.
LEMMA SumsExist ==
  ASSUME NEW S, IsFiniteSet(S), NEW f \in [S -> Nat]
  PROVE  \A s \in SUBSET S : Sums(f, S)[s] = SumStep(f, Sums(f, S), s)
<1> DEFINE Upto(n, it) == \A s \in SUBSET S : Cardinality(s) <= n => it[s] = SumStep(f, it, s)
           T == {n \in Nat : \E it \in [SUBSET S -> Nat] : Upto(n, it)}
<1>1. \A s \in SUBSET S : IsFiniteSet(s) /\ Cardinality(s) \in Nat
  BY FS_Subset, FS_CardinalityType
<1>2. 0 \in T
  <2> DEFINE it == [s \in SUBSET S |-> 0]
  <2>1. \A s \in SUBSET S : Cardinality(s) <= 0 => s = {}  BY <1>1, FS_EmptySet
  <2>2. Upto(0, it)  BY <2>1 DEF SumStep
  <2>3. it \in [SUBSET S -> Nat]  OBVIOUS
  <2> HIDE DEF it, Upto
  <2> QED  BY <2>2, <2>3
<1>3. ASSUME NEW n \in Nat, n \in T  PROVE n + 1 \in T
  <2>1. PICK it \in [SUBSET S -> Nat] : Upto(n, it)  BY Zenon, <1>3
  <2> DEFINE jt == [s \in SUBSET S |-> SumStep(f, it, s)]
  <2>2. \A s \in SUBSET S : Cardinality(s) <= n => jt[s] = it[s]  BY <2>1
  <2>3. ASSUME NEW s \in SUBSET S, Cardinality(s) <= n + 1  PROVE jt[s] = SumStep(f, jt, s)
    <3>1. CASE s = {}  BY <3>1 DEF SumStep
    <3>2. CASE s # {}
      <4>1. s \ {Elem(s)} \in SUBSET S /\ Cardinality(s \ {Elem(s)}) <= n
        BY <1>1, <2>3, <3>2, ElemRemoved
      <4>2. jt[s \ {Elem(s)}] = it[s \ {Elem(s)}]  BY Zenon, <2>2, <4>1
      <4> QED  BY <3>2, <4>2 DEF SumStep
    <3> QED  BY <3>1, <3>2
  <2>4. Upto(n + 1, jt)  BY Zenon, <2>3
  <2>5. \A s \in SUBSET S : SumStep(f, it, s) \in Nat
    <3> SUFFICES ASSUME NEW s \in SUBSET S, s # {}  PROVE SumStep(f, it, s) \in Nat
      BY DEF SumStep
    <3>1. Elem(s) \in S /\ s \ {Elem(s)} \in SUBSET S  BY Zenon, <1>1, ElemRemoved
    <3> QED  BY <3>1 DEF SumStep
  <2>6. jt \in [SUBSET S -> Nat]  BY <2>5
  <2> HIDE DEF jt, Upto
  <2> QED  BY <2>4, <2>6
<1> HIDE DEF T
<1>4. Nat \subseteq T  BY <1>2, <1>3, NaturalsInSet
<1>5. Cardinality(S) \in Nat /\ \A s \in SUBSET S : Cardinality(s) <= Cardinality(S)
  BY <1>1, FS_CardinalityType, FS_Subset
<1>6. PICK it \in [SUBSET S -> Nat] : Upto(Cardinality(S), it)
  BY Zenon, <1>4, <1>5 DEF T
<1>7. it = [s \in SUBSET S |-> SumStep(f, it, s)]  BY <1>5, <1>6
<1>8. Sums(f, S) = [s \in SUBSET S |-> SumStep(f, Sums(f, S), s)]
  BY Zenon, <1>7 DEF Sums
<1> QED  BY <1>8

\* One step of the sum of a subset that is not empty.
LEMMA SumsUnfold ==
  ASSUME NEW S, IsFiniteSet(S), NEW f \in [S -> Nat]
  PROVE  /\ Sums(f, S)[{}] = 0
         /\ \A s \in SUBSET S : s # {} =>
              /\ Elem(s) \in s /\ Elem(s) \in S
              /\ Sums(f, S)[s] = f[Elem(s)] + Sums(f, S)[s \ {Elem(s)}]
<1>1. \A s \in SUBSET S : s # {} => Elem(s) \in s  BY DEF Elem
<1> QED  BY <1>1, SumsExist DEF SumStep

\* A sum of naturals is a natural.
LEMMA SumType ==
  ASSUME NEW S, IsFiniteSet(S), NEW f \in [S -> Nat]
  PROVE  SumFunction(f) \in Nat /\ \A s \in SUBSET S : Sums(f, S)[s] \in Nat
<1> DEFINE T == {s \in SUBSET S : Sums(f, S)[s] \in Nat}
<1>1. {} \in T  BY SumsUnfold
<1>2. ASSUME NEW s \in SUBSET S, s # {}, s \ {Elem(s)} \in T  PROVE s \in T
  <2>1. f[Elem(s)] \in Nat /\ Sums(f, S)[s] = f[Elem(s)] + Sums(f, S)[s \ {Elem(s)}]
    BY <1>2, SumsUnfold
  <2> QED  BY <1>2, <2>1
<1> HIDE DEF T
<1>3. SUBSET S \subseteq T  BY <1>1, <1>2, SubsetsInSet
<1> QED  BY <1>3, SumIsSums DEF T

\* Sums are added term by term.
LEMMA SumAdds ==
  ASSUME NEW S, IsFiniteSet(S), NEW f \in [S -> Nat], NEW g \in [S -> Nat], NEW h \in [S -> Nat],
         \A x \in S : h[x] = f[x] + g[x]
  PROVE  SumFunction(h) = SumFunction(f) + SumFunction(g)
<1> DEFINE T == {s \in SUBSET S : Sums(h, S)[s] = Sums(f, S)[s] + Sums(g, S)[s]}
<1>1. {} \in T  BY SumsUnfold
<1>2. ASSUME NEW s \in SUBSET S, s # {}, s \ {Elem(s)} \in T  PROVE s \in T
  <2> DEFINE x == Elem(s)
             t == s \ {x}
  <2>1. x \in S /\ t \in SUBSET S  BY <1>2, SumsUnfold
  <2>2. /\ Sums(f, S)[s] = f[x] + Sums(f, S)[t]
        /\ Sums(g, S)[s] = g[x] + Sums(g, S)[t]
        /\ Sums(h, S)[s] = h[x] + Sums(h, S)[t]
    BY <1>2, SumsUnfold
  <2>3. Sums(f, S)[t] \in Nat /\ Sums(g, S)[t] \in Nat  BY <2>1, SumType
  <2>4. h[x] = f[x] + g[x] /\ f[x] \in Nat /\ g[x] \in Nat  BY <2>1
  <2>5. Sums(h, S)[t] = Sums(f, S)[t] + Sums(g, S)[t]  BY <1>2
  <2> HIDE DEF x, t
  <2>6. Sums(h, S)[s] = Sums(f, S)[s] + Sums(g, S)[s]  BY <2>2, <2>3, <2>4, <2>5
  <2> QED  BY <2>6
<1> HIDE DEF T
<1>3. SUBSET S \subseteq T  BY <1>1, <1>2, SubsetsInSet
<1> QED  BY <1>3, SumIsSums DEF T

\* A sum whose terms are all zero but one is that term.
LEMMA SumOfOne ==
  ASSUME NEW S, IsFiniteSet(S), NEW f \in [S -> Nat], NEW x \in S,
         \A y \in S \ {x} : f[y] = 0
  PROVE  SumFunction(f) = f[x]
<1> DEFINE T == {s \in SUBSET S : Sums(f, S)[s] = IF x \in s THEN f[x] ELSE 0}
<1>1. {} \in T  BY SumsUnfold
<1>2. ASSUME NEW s \in SUBSET S, s # {}, s \ {Elem(s)} \in T  PROVE s \in T
  <2> DEFINE y == Elem(s)
             t == s \ {y}
  <2>1. y \in s /\ y \in S /\ Sums(f, S)[s] = f[y] + Sums(f, S)[t]  BY <1>2, SumsUnfold
  <2>2. Sums(f, S)[t] = IF x \in t THEN f[x] ELSE 0  BY <1>2
  <2>3. x \in s <=> x \in t \/ x = y  BY <2>1
  <2>4. x = y => x \notin t  OBVIOUS
  <2>5. y # x => f[y] = 0  BY <2>1
  <2>6. f[x] \in Nat /\ f[y] \in Nat  BY <2>1
  <2> HIDE DEF y, t
  <2>7. Sums(f, S)[s] = IF x \in s THEN f[x] ELSE 0
    BY <2>1, <2>2, <2>3, <2>4, <2>5, <2>6
  <2> QED  BY <2>7
<1> HIDE DEF T
<1>3. SUBSET S \subseteq T  BY <1>1, <1>2, SubsetsInSet
<1> QED  BY <1>3, SumIsSums DEF T

\* The empty sum.
LEMMA SumOfNone ==
  ASSUME NEW f \in [{} -> Nat]
  PROVE  SumFunction(f) = 0
<1>1. IsFiniteSet({}) /\ DOMAIN f = {}  BY FS_EmptySet
<1>2. Sums(f, {})[{}] = 0  BY Zenon, <1>1, SumsUnfold
<1>3. SumFunction(f) = Sums(f, {})[{}]  BY <1>1, SumIsSums
<1> QED  BY <1>2, <1>3

\* Larger terms make a larger sum.
LEMMA SumGrows ==
  ASSUME NEW S, IsFiniteSet(S), NEW f \in [S -> Nat], NEW g \in [S -> Nat],
         \A x \in S : f[x] <= g[x]
  PROVE  SumFunction(f) <= SumFunction(g)
<1> DEFINE d == [x \in S |-> g[x] - f[x]]
<1>1. d \in [S -> Nat] /\ \A x \in S : g[x] = f[x] + d[x]  OBVIOUS
<1> HIDE DEF d
<1>2. SumFunction(g) = SumFunction(f) + SumFunction(d)  BY <1>1, SumAdds
<1>3. SumFunction(f) \in Nat /\ SumFunction(d) \in Nat  BY <1>1, SumType
<1> QED  BY <1>2, <1>3

\* The sum over one element.
LEMMA SumOfSingleton ==
  ASSUME NEW x, NEW f \in [{x} -> Nat]
  PROVE  SumFunction(f) = f[x]
<1>1. IsFiniteSet({x})  BY FS_Singleton
<1> QED  BY <1>1, SumOfOne

\* A sum of zeros.
LEMMA SumOfZeros ==
  ASSUME NEW S, IsFiniteSet(S), NEW f \in [S -> Nat], \A x \in S : f[x] = 0
  PROVE  SumFunction(f) = 0
<1> DEFINE n == SumFunction(f)
<1>1. n = n + n  BY SumAdds
<1>2. n \in Nat  BY SumType
<1> HIDE DEF n
<1>3. n = 0  BY <1>1, <1>2
<1> QED  BY <1>3 DEF n

\* A sum in which one term, zero before, becomes c.
LEMMA SumRaised ==
  ASSUME NEW S, IsFiniteSet(S), NEW f \in [S -> Nat], NEW g \in [S -> Nat], NEW x \in S,
         f[x] = 0, \A y \in S \ {x} : g[y] = f[y]
  PROVE  SumFunction(g) = SumFunction(f) + g[x]
<1> DEFINE d == [y \in S |-> IF y = x THEN g[x] ELSE 0]
<1>1. /\ d \in [S -> Nat] /\ d[x] = g[x] /\ \A y \in S \ {x} : d[y] = 0
      /\ \A y \in S : g[y] = f[y] + d[y]
  OBVIOUS
<1> HIDE DEF d
<1>2. SumFunction(g) = SumFunction(f) + SumFunction(d)  BY <1>1, SumAdds
<1>3. SumFunction(d) = d[x]  BY <1>1, SumOfOne
<1> QED  BY <1>1, <1>2, <1>3

-----------------------------------------------------------------------------
(* Budgets                                                                 *)

\* What a policy was charged for an execution in the present period, what it holds
\* back for it, and what the executor reported above its ceiling.
Paid(k, b) == SumFunction([i \in DOMAIN usage[k][b] |-> PeriodCost(usage[k][b][i])])
Held(k, b) == IF resv[k][b] = "reserved" THEN Amount(k) ELSE 0
Above(k, b) == SumFunction([i \in DOMAIN usage[k][b] |-> Excess(k, PeriodCost(usage[k][b][i]))])

\* The part of the claim's ceiling that still counts against the limit: all of it until
\* the run ends, then what the run cost, as far as the ceiling covers it.
Committed(k, b) ==
  CASE resv[k][b] = "reserved" -> Amount(k)
    [] resv[k][b] = "settled"  -> PeriodCost(usage[k][b][1]) - Excess(k, PeriodCost(usage[k][b][1]))
    [] OTHER                   -> 0

Commitments(b) == [k \in Keys |-> Committed(k, b)]

\* The commitments of a policy stay within its limit, whatever the executors report.
WithinLimit == \A b \in Budgets : SumFunction(Commitments(b)) <= Limit[b]

\* A period starts no earlier when time goes on.
LEMMA PeriodMoves ==
  ASSUME NEW t \in Nat
  PROVE  period_start(t) \in Nat /\ period_start(t) <= period_start(t + 1)
<1>1. Period \in Nat /\ Period > 0  BY ConstantsAssumption
<1> DEFINE x == t \div Period
           y == (t + 1) \div Period
<1>2. x \in Nat /\ x * Period <= t /\ t < (x + 1) * Period  BY <1>1
<1>3. y \in Nat /\ t + 1 < (y + 1) * Period  BY <1>1
<1> HIDE DEF x, y
<1>4. ~(y < x)
  <2>1. SUFFICES ASSUME y + 1 <= x  PROVE FALSE  BY <1>2, <1>3
  <2>2. (y + 1) * Period <= x * Period  BY <1>1, <1>2, <1>3, <2>1
  <2>3. (y + 1) * Period \in Nat /\ x * Period \in Nat  BY <1>1, <1>2, <1>3
  <2> QED  BY <1>2, <1>3, <2>2, <2>3
<1>5. x * Period <= y * Period  BY <1>1, <1>2, <1>3, <1>4
<1>6. x * Period \in Nat  BY <1>1, <1>2
<1> QED  BY <1>5, <1>6 DEF x, y, period_start

\* The usage row of a settled reservation, and its share within the ceiling.
LEMMA UsageRowType ==
  ASSUME IndInv, NEW k \in Keys, NEW b \in Budgets, resv[k][b] = "settled"
  PROVE  /\ DOMAIN usage[k][b] = {1}
         /\ usage[k][b][1] \in UsageRow
         /\ PeriodCost(usage[k][b][1]) \in Nat
         /\ Amount(k) \in Nat
         /\ Excess(k, PeriodCost(usage[k][b][1])) \in Nat
         /\ Excess(k, PeriodCost(usage[k][b][1])) <= PeriodCost(usage[k][b][1])
         /\ PeriodCost(usage[k][b][1]) - Excess(k, PeriodCost(usage[k][b][1])) <= Amount(k)
<1> DEFINE c == PeriodCost(usage[k][b][1])
<1>0. usage[k][b] \in Seq(UsageRow)  BY DEF IndInv, TypeOK
<1>1. Len(usage[k][b]) = 1  BY Zenon DEF IndInv, MoneyFollowsRuns
<1>2. DOMAIN usage[k][b] = {1} /\ usage[k][b][1] \in UsageRow  BY <1>0, <1>1
<1>3. now \in Nat  BY DEF IndInv, TypeOK
<1>4. c \in Nat  BY <1>2, <1>3 DEF PeriodCost, UsageRow
<1>5. lease[k].state # "none"  BY DEF IndInv, MoneyFollowsRuns
<1>6. Amount(k) \in Nat  BY <1>5, AmountType DEF IndInv
<1> HIDE DEF c
<1>7. /\ Excess(k, c) \in Nat /\ Excess(k, c) <= c
      /\ c - Excess(k, c) <= Amount(k)
  BY <1>4, <1>6 DEF Excess
<1> QED  BY <1>2, <1>4, <1>6, <1>7 DEF c

\* What was paid and is held is what is committed and what was reported above it.
LEMMA Shares ==
  ASSUME IndInv, NEW k \in Keys, NEW b \in Budgets
  PROVE  /\ Paid(k, b) \in Nat /\ Held(k, b) \in Nat
         /\ Above(k, b) \in Nat /\ Committed(k, b) \in Nat
         /\ Paid(k, b) + Held(k, b) = Committed(k, b) + Above(k, b)
<1> DEFINE c == PeriodCost(usage[k][b][1])
           f == [i \in DOMAIN usage[k][b] |-> PeriodCost(usage[k][b][i])]
           g == [i \in DOMAIN usage[k][b] |-> Excess(k, PeriodCost(usage[k][b][i]))]
<1>0. Paid(k, b) = SumFunction(f) /\ Above(k, b) = SumFunction(g)  BY DEF Paid, Above
<1>1. resv[k][b] \in {"none", "reserved", "settled"}  BY DEF IndInv, TypeOK
<1>2. CASE resv[k][b] = "settled"
  <2>1. /\ DOMAIN usage[k][b] = {1} /\ c \in Nat
        /\ Excess(k, c) \in Nat /\ Excess(k, c) <= c
    BY <1>2, UsageRowType
  <2>2. f \in [{1} -> Nat] /\ g \in [{1} -> Nat] /\ f[1] = c /\ g[1] = Excess(k, c)
    BY <2>1
  <2> HIDE DEF f, g, c
  <2>3. SumFunction(f) = f[1] /\ SumFunction(g) = g[1]  BY <2>2, SumOfSingleton
  <2>4. Held(k, b) = 0 /\ Committed(k, b) = c - Excess(k, c)  BY <1>2 DEF Held, Committed, c
  <2> QED  BY <1>0, <2>1, <2>2, <2>3, <2>4
<1>3. CASE resv[k][b] # "settled"
  <2>0. usage[k][b] \in Seq(UsageRow)  BY DEF IndInv, TypeOK
  <2>1. Len(usage[k][b]) = 0  BY <1>3 DEF IndInv, MoneyFollowsRuns
  <2>2. DOMAIN usage[k][b] = {}  BY <2>0, <2>1
  <2>3. f \in [{} -> Nat] /\ g \in [{} -> Nat]  BY <2>2
  <2> HIDE DEF f, g
  <2>4. SumFunction(f) = 0 /\ SumFunction(g) = 0  BY Zenon, <2>3, SumOfNone
  <2>5. Held(k, b) = Committed(k, b)  BY <1>3 DEF Held, Committed
  <2>6. Held(k, b) \in Nat
    <3>1. CASE resv[k][b] = "reserved"
      <4>1. lease[k].state # "none"  BY <3>1 DEF IndInv, MoneyFollowsRuns
      <4> QED  BY <3>1, <4>1, AmountType DEF Held, IndInv
    <3> QED  BY <3>1 DEF Held
  <2> QED  BY <1>0, <2>4, <2>5, <2>6
<1> QED  BY <1>2, <1>3

\* So for the sums of a policy.
LEMMA ShareSums ==
  ASSUME IndInv, NEW b \in Budgets
  PROVE  /\ Consumed(b) \in Nat /\ Reserved(b) \in Nat /\ Overrun(b) \in Nat
         /\ SumFunction(Commitments(b)) \in Nat
         /\ Consumed(b) + Reserved(b) = SumFunction(Commitments(b)) + Overrun(b)
<1> DEFINE paid == [k \in Keys |-> Paid(k, b)]
           held == [k \in Keys |-> Held(k, b)]
           above == [k \in Keys |-> Above(k, b)]
           all == [k \in Keys |-> Paid(k, b) + Held(k, b)]
<1>1. /\ paid \in [Keys -> Nat] /\ held \in [Keys -> Nat] /\ above \in [Keys -> Nat]
      /\ all \in [Keys -> Nat] /\ Commitments(b) \in [Keys -> Nat]
      /\ \A k \in Keys : all[k] = paid[k] + held[k] /\ all[k] = Commitments(b)[k] + above[k]
  BY Shares DEF Commitments
<1>2. /\ Consumed(b) = SumFunction(paid) /\ Reserved(b) = SumFunction(held)
      /\ Overrun(b) = SumFunction(above)
  BY Zenon DEF Consumed, Reserved, Overrun, Paid, Held, Above
<1> HIDE DEF paid, held, above, all
<1>3. SumFunction(all) = SumFunction(paid) + SumFunction(held)  BY <1>1, SumAdds, FiniteKeys
<1>4. SumFunction(all) = SumFunction(Commitments(b)) + SumFunction(above)
  BY <1>1, SumAdds, FiniteKeys
<1>5. /\ SumFunction(paid) \in Nat /\ SumFunction(held) \in Nat /\ SumFunction(above) \in Nat
      /\ SumFunction(Commitments(b)) \in Nat
  BY <1>1, SumType, FiniteKeys
<1> QED  BY <1>2, <1>3, <1>4, <1>5

\* The clock moves by one tick at a time.
LEMMA ClockMoves ==
  ASSUME TypeOK, [Next]_vars
  PROVE  now' \in {now, now + 1}
<1>1. ASSUME NEW p \in Procs, \/ ClaimBlocked(p) \/ ClaimAwaitsApproval(p) \/ ClaimGranted(p)
                              \/ WorkMoved(p) \/ Dispatch(p) \/ MarkUncertain(p)
      PROVE  now' = now
  BY Zenon, <1>1 DEF ClaimBlocked, ClaimAwaitsApproval, ClaimGranted, WorkMoved, Dispatch,
                     MarkUncertain
<1>2. ASSUME NEW p \in Procs, Conclusion(p)  PROVE now' = now
  BY <1>2 DEF Conclusion, Conclude
<1>3. ASSUME NEW k \in Keys, Recover(k) \/ \E action \in ControlActions : RequestControl(k, action)
      PROVE  now' = now
  BY Zenon, <1>3 DEF Recover, RequestControl
<1>4. ASSUME \/ \E w \in Works, accepted \in BOOLEAN : Review(w, accepted)
             \/ \E ap \in Approvals, approved \in BOOLEAN : ResolveApproval(ap, approved)
      PROVE  now' = now
  BY Zenon, <1>4 DEF Review, ResolveApproval
<1>5. CASE Quiet  BY <1>5 DEF Quiet
<1> QED  BY Zenon, StepShapes, <1>1, <1>2, <1>3, <1>4, <1>5

\* A commitment that no step writes can only shrink, when its usage leaves the period.
LEMMA CommitmentAges ==
  ASSUME IndInv, now' \in {now, now + 1}, NEW k \in Keys, NEW b \in Budgets,
         lease[k].state # "none" => lease'[k].intent = lease[k].intent,
         resv'[k][b] = resv[k][b], usage'[k] = usage[k]
  PROVE  Committed(k, b)' <= Committed(k, b)
<1>1. resv[k][b] \in {"none", "reserved", "settled"}  BY DEF IndInv, TypeOK
<1>2. resv[k][b] # "none" => Amount(k)' = Amount(k)
  BY DEF IndInv, MoneyFollowsRuns, Amount
<1>3. CASE resv[k][b] = "none"  BY <1>3 DEF Committed
<1>4. CASE resv[k][b] = "reserved"
  <2>1. Committed(k, b) = Amount(k) /\ Committed(k, b)' = Amount(k)  BY <1>2, <1>4 DEF Committed
  <2>2. Committed(k, b) \in Nat  BY Shares
  <2> QED  BY <2>1, <2>2
<1>5. CASE resv[k][b] = "settled"
  <2> DEFINE u == usage[k][b][1]
             c == PeriodCost(u)
             d == IF u.at >= period_start(now') THEN u.cost ELSE 0
             a == Amount(k)
  <2>1. u \in UsageRow /\ a \in Nat /\ c \in Nat  BY <1>5, UsageRowType
  <2>2. u.at \in Nat /\ u.cost \in Nat  BY <2>1 DEF UsageRow
  <2>3. now \in Nat  BY DEF IndInv, TypeOK
  <2>4. /\ period_start(now) \in Nat /\ period_start(now') \in Nat
        /\ period_start(now) <= period_start(now')
    BY SMTT(30), <2>3, PeriodMoves
  <2>5. d \in Nat /\ d <= c  BY SMTT(30), <2>2, <2>4 DEF PeriodCost
  <2>6. Committed(k, b) = IF c > a THEN c - (c - a) ELSE c - 0
    BY <1>5 DEF Committed, Excess
  <2>7. Committed(k, b)' = IF d > a THEN d - (d - a) ELSE d - 0
    BY <1>2, <1>5 DEF Committed, Excess, PeriodCost
  <2> HIDE DEF c, d, a
  <2> QED  BY <2>1, <2>5, <2>6, <2>7
<1> QED  BY <1>1, <1>3, <1>4, <1>5

\* The same in the next state.
LEMMA CommitmentsNext ==
  (IndInv => \A k \in Keys, b \in Budgets :
     /\ Committed(k, b) \in Nat
     /\ resv[k][b] = "settled" => Committed(k, b) <= Amount(k))'
<1>1. IndInv => \A k \in Keys, b \in Budgets :
        /\ Committed(k, b) \in Nat
        /\ resv[k][b] = "settled" => Committed(k, b) <= Amount(k)
  <2> SUFFICES ASSUME IndInv, NEW k \in Keys, NEW b \in Budgets
               PROVE  /\ Committed(k, b) \in Nat
                      /\ resv[k][b] = "settled" => Committed(k, b) <= Amount(k)
    OBVIOUS
  <2>1. Committed(k, b) \in Nat  BY Shares
  <2>2. ASSUME resv[k][b] = "settled"  PROVE Committed(k, b) <= Amount(k)
    BY <2>2, UsageRowType DEF Committed
  <2> QED  BY <2>1, <2>2
<1> QED  BY <1>1, PTL

\* A settlement charges at most what was committed.
LEMMA CommitmentSettles ==
  ASSUME IndInv, IndInv', NEW k \in Keys, Settled(k), NEW b \in Budgets
  PROVE  Committed(k, b)' <= Committed(k, b)
<1>1. resv[k][b] \in {"none", "reserved", "settled"}  BY DEF IndInv, TypeOK
<1>2. /\ resv[k][b] # "settled"
      /\ resv'[k][b] = IF resv[k][b] = "reserved" THEN "settled" ELSE resv[k][b]
  BY DEF Settled, Charged
<1>3. CASE resv[k][b] = "none"  BY <1>2, <1>3 DEF Committed
<1>4. CASE resv[k][b] = "reserved"
  <2>1. Amount(k)' = Amount(k)  BY DEF Settled, Amount
  <2>2. resv'[k][b] = "settled"  BY <1>2, <1>4
  <2>3. Committed(k, b)' <= Amount(k)'  BY <2>2, CommitmentsNext
  <2>4. Committed(k, b) = Amount(k)  BY <1>4 DEF Committed
  <2> QED  BY <2>1, <2>3, <2>4
<1> QED  BY <1>1, <1>2, <1>3, <1>4

\* A granted claim commits its ceiling with every selected policy, which had room for
\* it, and with no other.
LEMMA CommitmentGrows ==
  ASSUME IndInv, IndInv', WithinLimit, NEW p \in Procs, ClaimGranted(p), NEW b \in Budgets
  PROVE  SumFunction(Commitments(b))' <= Limit[b]
<1> DEFINE k == proc[p].key
           i == proc[p].intent
           f == Commitments(b)
           g == Commitments(b)'
<1>1. /\ k \in Keys /\ i \in Intent /\ lease[k].state = "none" /\ lease'[k].intent = i
      /\ OthersKept(k) /\ usage' = usage
  BY Zenon, GrantedEffect DEF IndInv
<1>2. Affordable(i) /\ resv'[k][b] = IF b \in Selected(i) THEN "reserved" ELSE "none"
  BY Zenon, GrantedItem DEF IndInv
<1>3. now' = now  BY Zenon DEF ClaimGranted
<1>4. f \in [Keys -> Nat]  BY Shares DEF Commitments
<1>5. g \in [Keys -> Nat]  BY CommitmentsNext DEF Commitments
<1>6. Limit[b] \in Nat /\ Ceiling[i.cfg] \in Nat  BY <1>1, ConstantsAssumption DEF Intent
<1>7. resv[k][b] = "none"  BY <1>1 DEF IndInv, MoneyFollowsRuns
<1> HIDE DEF k, i
<1>8. f[k] = 0  BY <1>1, <1>7 DEF Commitments, Committed
<1>9. \A j \in Keys \ {k} : g[j] = f[j]
  BY <1>1, <1>3 DEF OthersKept, Commitments, Committed, Amount, Excess, PeriodCost
<1>10. g[k] = IF b \in Selected(i) THEN Ceiling[i.cfg] ELSE 0
  BY <1>1, <1>2 DEF Commitments, Committed, Amount
<1>11. SumFunction(f) <= Limit[b]  BY DEF WithinLimit
<1> HIDE DEF f, g
<1>12. SumFunction(g) = SumFunction(f) + g[k]
  BY <1>1, <1>4, <1>5, <1>8, <1>9, SumRaised, FiniteKeys
<1>13. SumFunction(f) \in Nat  BY <1>4, SumType, FiniteKeys
<1>14. CASE b \notin Selected(i)  BY <1>10, <1>11, <1>12, <1>13, <1>14 DEF g
<1>15. CASE b \in Selected(i)
  <2>1. Consumed(b) + Reserved(b) + Ceiling[i.cfg] <= Limit[b]  BY <1>2, <1>15 DEF Affordable
  <2>2. /\ Consumed(b) \in Nat /\ Reserved(b) \in Nat /\ Overrun(b) \in Nat
        /\ Consumed(b) + Reserved(b) = SumFunction(f) + Overrun(b)
    BY ShareSums DEF f
  <2>3. SumFunction(g) <= Limit[b]
    BY <1>6, <1>10, <1>12, <1>13, <1>15, <2>1, <2>2
  <2> QED  BY <2>3 DEF g
<1> QED  BY <1>14, <1>15

\* WithinLimit is kept by every step.
LEMMA LimitStep ==
  ASSUME IndInv, IndInv', WithinLimit, [Next]_vars
  PROVE  WithinLimit'
<1>1. SUFFICES ASSUME NEW b \in Budgets  PROVE SumFunction(Commitments(b))' <= Limit[b]
  BY DEF WithinLimit
<1>2. now' \in {now, now + 1}  BY ClockMoves DEF IndInv
<1>3. ASSUME NEW p \in Procs, ClaimGranted(p)  PROVE SumFunction(Commitments(b))' <= Limit[b]
  BY Zenon, <1>3, CommitmentGrows
<1>4. CASE LeasesKept \/ \E k \in Keys : Settled(k)
  <2>1. ASSUME NEW k \in Keys  PROVE Committed(k, b)' <= Committed(k, b)
    <3>1. CASE LeasesKept
      <4>1. lease[k].state # "none" => lease'[k].intent = lease[k].intent
        BY IntentsStay
      <4>2. resv'[k][b] = resv[k][b] /\ usage'[k] = usage[k]  BY <3>1 DEF LeasesKept
      <4> QED  BY <1>2, <4>1, <4>2, CommitmentAges
    <3>2. ASSUME NEW j \in Keys, Settled(j), j # k  PROVE Committed(k, b)' <= Committed(k, b)
      <4>1. lease'[k] = lease[k] /\ resv'[k] = resv[k] /\ usage'[k] = usage[k]
        BY Zenon, <3>2 DEF Settled, OthersKept
      <4> QED  BY <1>2, <4>1, CommitmentAges
    <3>3. CASE Settled(k)  BY <3>3, CommitmentSettles
    <3> QED  BY Zenon, <1>4, <3>1, <3>2, <3>3
  <2> DEFINE f == Commitments(b)
             g == Commitments(b)'
  <2>2. f \in [Keys -> Nat]  BY Shares DEF Commitments
  <2>3. g \in [Keys -> Nat]  BY CommitmentsNext DEF Commitments
  <2>4. \A k \in Keys : g[k] <= f[k]  BY <2>1 DEF Commitments
  <2>5. SumFunction(f) <= Limit[b]  BY DEF WithinLimit
  <2> HIDE DEF f, g
  <2>6. SumFunction(g) <= SumFunction(f)  BY <2>2, <2>3, <2>4, SumGrows, FiniteKeys
  <2>7. SumFunction(g) \in Nat /\ SumFunction(f) \in Nat  BY <2>2, <2>3, SumType, FiniteKeys
  <2>8. Limit[b] \in Nat  BY ConstantsAssumption
  <2>9. SumFunction(g) <= Limit[b]  BY <2>5, <2>6, <2>7, <2>8
  <2> QED  BY <2>9 DEF g
<1> QED  BY Zenon, RowShapes, <1>3, <1>4

\* Nothing is committed initially.
LEMMA InitWithinLimit == Init => WithinLimit
<1> SUFFICES ASSUME Init, NEW b \in Budgets  PROVE SumFunction(Commitments(b)) <= Limit[b]
  BY DEF WithinLimit
<1>1. /\ Commitments(b) \in [Keys -> Nat]
      /\ \A k \in Keys : Commitments(b)[k] = 0
  BY DEF Init, Commitments, Committed
<1>2. SumFunction(Commitments(b)) = 0  BY <1>1, SumOfZeros, FiniteKeys
<1>3. Limit[b] \in Nat  BY ConstantsAssumption
<1> QED  BY <1>2, <1>3

\* Concurrent claims never overbook a policy: what it was charged in its period and
\* what it holds reserved exceed its limit at most by what executors reported above
\* their ceilings.
THEOREM BudgetsAreKept == Spec => []BudgetBound
<1>1. IndInv /\ WithinLimit => BudgetBound
  <2> SUFFICES ASSUME IndInv, WithinLimit, NEW b \in Budgets
               PROVE  Consumed(b) + Reserved(b) <= Limit[b] + Overrun(b)
    BY DEF BudgetBound
  <2>1. SumFunction(Commitments(b)) <= Limit[b]  BY DEF WithinLimit
  <2>2. Limit[b] \in Nat  BY ConstantsAssumption
  <2> QED  BY <2>1, <2>2, ShareSums
<1>2. IndInv /\ IndInv' /\ WithinLimit /\ [Next]_vars => WithinLimit'  BY LimitStep
<1> QED  BY <1>1, <1>2, InitWithinLimit, Invariance, PTL DEF Spec
=============================================================================
