---- MODULE CollectionProofs ----
(***************************************************************************)
(* Theorems about Collection, for every section plan, every set of pieces  *)
(* of evidence and every bound.                                            *)
(***************************************************************************)
EXTENDS Collection, FiniteSetTheorems, WellFoundedInduction, TLAPS

\* Every run of a tool leaves a record, and no record is ever dropped, so that the
\* budget check, which looks at the records, bounds the runs.
BudgetInv ==
    /\ setting \in Settings
    /\ records \in Nat /\ called \in Nat
    /\ called <= records
    /\ called <= MaxToolCalls

LEMMA SeedsCount == ASSUME setting \in Settings PROVE setting.seeds \in Nat
BY SettingsAssumption

LEMMA BudgetIsPositive == MaxToolCalls \in Nat \ {0}
BY BoundsAssumption

LEMMA BudgetInit == Init => BudgetInv
<1> SUFFICES ASSUME Init PROVE BudgetInv
  OBVIOUS
<1>1. setting \in Settings /\ records = 0 /\ called = 0
  BY DEF Init
<1> QED BY <1>1, BudgetIsPositive DEF BudgetInv

\* Of the stages, the collector alone touches records and calls.
LEMMA BudgetStep == BudgetInv /\ [Next]_vars => BudgetInv'
<1> SUFFICES ASSUME BudgetInv, [Next]_vars PROVE BudgetInv'
  OBVIOUS
<1> USE DEF BudgetInv
<1>1. CASE Plan
  BY <1>1 DEF Plan, collecting
<1>2. CASE Begin
  <2>1. setting' = setting /\ called' = called /\ records' = records + setting.seeds
    BY <1>2 DEF Begin, BeginFrom, planning
  <2> QED BY <2>1, SeedsCount
<1>3. CASE RunTool
  BY <1>3, BudgetIsPositive DEF RunTool, planning
<1>4. CASE ExhaustBudget
  BY <1>4 DEF ExhaustBudget, EndCollection, planning
<1>5. CASE EndRound
  <2>1. UNCHANGED <<setting, records, called>>
    BY <1>5 DEF EndRound, EndCollection, planning
  <2> QED BY <2>1
<1>6. CASE Criticise
  BY <1>6 DEF Criticise, collecting
<1>7. CASE RecordRetry
  BY <1>7 DEF RecordRetry, collecting
<1>8. CASE Report
  BY <1>8 DEF Report, planning, collecting
<1>9. CASE Done \/ UNCHANGED vars
  BY <1>9 DEF Done, vars, planning, collecting
<1> QED BY <1>1, <1>2, <1>3, <1>4, <1>5, <1>6, <1>7, <1>8, <1>9 DEF Next

\* In a whole run, through all rounds and retries, the tools are run for at most
\* MaxToolCalls work items (the budget of execute_subtasks).
THEOREM BudgetHolds == Spec => []CallsWithinBudget
<1>1. BudgetInv => CallsWithinBudget
  BY DEF BudgetInv, CallsWithinBudget
<1> QED BY <1>1, BudgetInit, BudgetStep, PTL DEF Spec
----------------------------------------------------------------------------
(***************************************************************************)
(* The selection of the pool.  Both caps of it keep the first of a ranking *)
(* and drop the rest, so what is proved of rankings holds for the items of *)
(* a section, for the whole pool and for the items of one type.            *)
(***************************************************************************)

\* Where the members of a set are given numbers, one of them has the least.
LEMMA LeastNumber ==
    ASSUME NEW S, S # {}, NEW f, \A x \in S : f[x] \in Nat
    PROVE  \E x \in S : \A y \in S : f[x] <= f[y]
<1> DEFINE T == {f[x] : x \in S}
<1>1. T \subseteq Nat /\ T # {} OBVIOUS
<1>2. \E n \in T : \A m \in T : <<m, n>> \notin OpToRel(<, Nat)
  BY <1>1, NatLessThanWellFounded, WFMin
<1>3. PICK n \in T : \A m \in T : <<m, n>> \notin OpToRel(<, Nat) BY <1>2
<1>4. \A m \in T : ~(m < n)
  <2> SUFFICES ASSUME NEW m \in T, m < n PROVE FALSE OBVIOUS
  <2>1. m \in Nat /\ n \in Nat BY <1>1
  <2>2. <<m, n>> \in Nat \X Nat /\ <<m, n>>[1] < <<m, n>>[2] BY <2>1
  <2>3. <<m, n>> \in OpToRel(<, Nat) BY <2>2 DEF OpToRel
  <2>4. QED BY <1>3, <2>3
<1>5. PICK x \in S : n = f[x] OBVIOUS
<1>6. \A y \in S : f[x] <= f[y]
  <2> SUFFICES ASSUME NEW y \in S PROVE f[x] <= f[y] OBVIOUS
  <2>1. f[y] \in T /\ f[y] \in Nat /\ f[x] \in Nat OBVIOUS
  <2>2. ~(f[y] < f[x]) BY <1>4, <1>5, <2>1
  <2>3. QED BY <2>1, <2>2
<1>7. QED BY <1>6

\* B gives for each member of X those that come before it, in a strict total order.
IsRanking(X, B) ==
    /\ IsFiniteSet(X)
    /\ B \in [X -> SUBSET X]
    /\ \A e \in X : e \notin B[e]
    /\ \A e, f \in X : e = f \/ e \in B[f] \/ f \in B[e]
    /\ \A e, f \in X : e \in B[f] => B[e] \subseteq B[f]

First(X, B, n) == {e \in X : Cardinality(B[e]) < n}

\* Who comes before another has fewer before it.
LEMMA RankingCounts ==
    ASSUME NEW X, NEW B, IsRanking(X, B)
    PROVE  /\ \A e \in X : IsFiniteSet(B[e]) /\ Cardinality(B[e]) \in Nat
           /\ \A e, f \in X : e \in B[f] => Cardinality(B[e]) < Cardinality(B[f])
<1>1. \A e \in X : B[e] \in SUBSET X BY DEF IsRanking
<1>2. ASSUME NEW e \in X PROVE IsFiniteSet(B[e]) /\ Cardinality(B[e]) \in Nat
  BY <1>1, FS_Subset, FS_CardinalityType DEF IsRanking
<1>3. ASSUME NEW e \in X, NEW f \in X, e \in B[f]
      PROVE  Cardinality(B[e]) < Cardinality(B[f])
  <2>1. B[e] \in SUBSET B[f] /\ B[e] # B[f] BY <1>3 DEF IsRanking
  <2>2. Cardinality(B[e]) <= Cardinality(B[f]) /\ Cardinality(B[e]) # Cardinality(B[f])
    BY <1>2, <2>1, FS_Subset
  <2>3. QED BY <1>2, <2>2
<1>4. QED BY <1>2, <1>3

\* The first n of a ranking are n, or all there are.
LEMMA FirstOfRanking ==
    ASSUME NEW X, NEW B, IsRanking(X, B), NEW n \in Nat
    PROVE  LET T == First(X, B, n)
           IN  /\ T \in SUBSET X /\ IsFiniteSet(T) /\ Cardinality(T) \in Nat
               /\ Cardinality(T) <= n
               /\ T # X => Cardinality(T) = n
<1> DEFINE T == First(X, B, n)
<1>1. T \in SUBSET X /\ IsFiniteSet(X) BY DEF IsRanking, First
<1>2. IsFiniteSet(T) /\ Cardinality(T) \in Nat BY <1>1, FS_Subset, FS_CardinalityType
<1>3. /\ \A e \in X : IsFiniteSet(B[e]) /\ Cardinality(B[e]) \in Nat
      /\ \A e, f \in X : e \in B[f] => Cardinality(B[e]) < Cardinality(B[f])
  BY RankingCounts
<1>4. /\ \A e \in X : e \in T <=> Cardinality(B[e]) < n BY DEF First
<1>5. /\ \A e, f \in X : e = f \/ e \in B[f] \/ f \in B[e]
      /\ \A e \in X : B[e] \in SUBSET X
  BY DEF IsRanking
<1> HIDE DEF T
<1>6. Cardinality(T) <= n
  <2>1. CASE T = {} BY <2>1, FS_EmptySet
  <2>2. CASE T # {}
    <3> DEFINE g == [e \in X |-> Cardinality(X) - Cardinality(B[e])]
    <3>1. \A e \in X : g[e] \in Nat
      <4>1. \A e \in X : Cardinality(B[e]) <= Cardinality(X) BY <1>1, <1>5, FS_Subset
      <4>2. Cardinality(X) \in Nat BY <1>1, FS_CardinalityType
      <4>3. QED BY <1>3, <4>1, <4>2
    <3>2. \A e, f \in X : g[e] <= g[f] => Cardinality(B[f]) <= Cardinality(B[e])
      <4>1. Cardinality(X) \in Nat BY <1>1, FS_CardinalityType
      <4>2. QED BY <1>3, <4>1
    <3> HIDE DEF g
    <3>3. PICK t \in T : \A e \in T : g[t] <= g[e] BY <1>1, <2>2, <3>1, LeastNumber
    <3>4. T \in SUBSET (B[t] \cup {t})
      <4> SUFFICES ASSUME NEW e \in T, e # t, e \notin B[t] PROVE FALSE OBVIOUS
      <4>1. e \in X /\ t \in X BY <1>1
      <4>2. Cardinality(B[t]) < Cardinality(B[e]) BY <1>3, <1>5, <4>1
      <4>3. Cardinality(B[e]) <= Cardinality(B[t]) BY <3>2, <3>3, <4>1
      <4>4. QED BY <1>3, <4>1, <4>2, <4>3
    <3>5. /\ IsFiniteSet(B[t] \cup {t})
          /\ Cardinality(B[t] \cup {t}) <= Cardinality(B[t]) + 1
      <4>1. t \in X /\ IsFiniteSet(B[t]) /\ Cardinality(B[t]) \in Nat BY <1>1, <1>3
      <4>2. /\ IsFiniteSet(B[t] \cup {t})
            /\ Cardinality(B[t] \cup {t}) =
                  IF t \in B[t] THEN Cardinality(B[t]) ELSE Cardinality(B[t]) + 1
        BY <4>1, FS_AddElement
      <4>3. QED BY <4>1, <4>2
    <3>6. Cardinality(T) <= Cardinality(B[t] \cup {t}) BY <3>4, <3>5, FS_Subset
    <3>7. Cardinality(B[t] \cup {t}) \in Nat BY <3>5, FS_CardinalityType
    <3>8. Cardinality(B[t]) < n /\ Cardinality(B[t]) \in Nat BY <1>1, <1>3, <1>4
    <3>9. QED BY <1>2, <3>5, <3>6, <3>7, <3>8
  <2>3. QED BY <2>1, <2>2
<1>7. ASSUME T # X PROVE Cardinality(T) = n
  <2> DEFINE h == [e \in X |-> Cardinality(B[e])]
             R == X \ T
  <2>1. R # {} /\ R \subseteq X /\ \A e \in R : h[e] \in Nat BY <1>1, <1>3, <1>7
  <2>2. PICK e \in R : \A f \in R : h[e] <= h[f] BY <2>1, LeastNumber
  <2>3. T = B[e]
    <3>1. ASSUME NEW f \in B[e] PROVE f \in T
      <4>1. f \in X /\ e \in X BY <1>5, <2>1
      <4>2. Cardinality(B[f]) < Cardinality(B[e]) BY <1>3, <4>1
      <4>3. ~(Cardinality(B[e]) <= Cardinality(B[f])) BY <1>3, <4>1, <4>2
      <4>4. f \notin R BY <2>2, <4>1, <4>3
      <4>5. QED BY <4>1, <4>4
    <3>2. ASSUME NEW f \in T PROVE f \in B[e]
      <4>1. f \in X /\ e \in X /\ e # f /\ e \notin T BY <1>1, <2>1
      <4>2. Cardinality(B[f]) < n /\ ~(Cardinality(B[e]) < n) BY <1>4, <4>1
      <4>3. e \notin B[f] BY <1>3, <4>1, <4>2
      <4>4. QED BY <1>5, <4>1, <4>3
    <3>3. QED BY <3>1, <3>2
  <2>4. ~(Cardinality(T) < n) BY <1>4, <2>1, <2>3
  <2>5. QED BY <1>2, <1>6, <2>4
<1>8. QED BY <1>1, <1>2, <1>6, <1>7 DEF T

----------------------------------------------------------------------------
\* Better is a strict total order of the evidence.
LEMMA BetterIsOrder ==
    /\ \A e, f \in Evidence : e = f \/ Better(e, f) \/ Better(f, e)
    /\ \A e \in Evidence : ~Better(e, e)
    /\ \A e, f, g \in Evidence : Better(e, f) /\ Better(f, g) => Better(e, g)
BY EvidenceAssumption DEF Better

\* So is the order in which the budget of a run is spent: what the sections keep, then the extras.
LEMMA SelectionRanks ==
    ASSUME NEW C \in SUBSET Evidence
    PROVE  \E B : /\ IsRanking(SectionCapped(C) \cup Extras(C), B)
                  /\ Selected(C) = First(SectionCapped(C) \cup Extras(C), B, MaxEvidence)
<1> DEFINE K == SectionCapped(C)
           E == Extras(C)
           X == K \cup E
           B == [e \in X |-> IF e \in K THEN {f \in K : Better(f, e)}
                             ELSE K \cup {f \in E : Better(f, e)}]
<1>1. Selected(C) = {e \in X : Cardinality(IF e \in K THEN {f \in K : Better(f, e)}
                                           ELSE K \cup {f \in E : Better(f, e)}) < MaxEvidence}
  BY DEF Selected
<1>2. Selected(C) = First(X, B, MaxEvidence) BY <1>1 DEF First
<1>3. K \in SUBSET Evidence /\ E \in SUBSET Evidence /\ K \cap E = {}
  BY DEF SectionCapped, Extras
<1> HIDE DEF K, E
<1>4. IsFiniteSet(X) BY <1>3, FS_Subset, EvidenceAssumption
<1>5. B \in [X -> SUBSET X] OBVIOUS
<1>6. \A e \in X : e \notin B[e] BY <1>3, BetterIsOrder
<1>7. \A e, f \in X : e = f \/ e \in B[f] \/ f \in B[e] BY <1>3, BetterIsOrder
<1>8. ASSUME NEW e \in X, NEW f \in X, e \in B[f], NEW g \in B[e] PROVE g \in B[f]
  <2>1. e \in Evidence /\ f \in Evidence /\ g \in Evidence BY <1>3, <1>5
  <2>2. Better(g, e) /\ Better(e, f) => Better(g, f) BY <2>1, BetterIsOrder
  <2>3. CASE f \in K BY <1>8, <2>2, <2>3
  <2>4. CASE f \notin K
    <3>1. CASE e \in K BY <1>8, <2>4, <3>1
    <3>2. CASE e \notin K BY <1>3, <1>8, <2>2, <2>4, <3>2
    <3>3. QED BY <3>1, <3>2
  <2>5. QED BY <2>3, <2>4
<1> HIDE DEF B
<1>9. IsRanking(X, B) BY <1>4, <1>5, <1>6, <1>7, <1>8 DEF IsRanking
<1>10. QED BY <1>2, <1>9 DEF K, E

\* The budget of the run is kept; and unless it is used up, nothing more is dropped.
LEMMA SelectionFills ==
    ASSUME NEW C \in SUBSET Evidence
    PROVE  /\ Selected(C) \in SUBSET C /\ IsFiniteSet(Selected(C))
           /\ Cardinality(Selected(C)) <= MaxEvidence
           /\ Cardinality(Selected(C)) # MaxEvidence =>
                 Selected(C) = SectionCapped(C) \cup Extras(C)
<1> DEFINE X == SectionCapped(C) \cup Extras(C)
<1>1. PICK B : IsRanking(X, B) /\ Selected(C) = First(X, B, MaxEvidence) BY SelectionRanks
<1>2. X \in SUBSET C BY DEF SectionCapped, Extras
<1> HIDE DEF X
<1>3. MaxEvidence \in Nat BY BoundsAssumption
<1>4. LET T == First(X, B, MaxEvidence)
      IN  /\ T \in SUBSET X /\ IsFiniteSet(T) /\ Cardinality(T) <= MaxEvidence
          /\ T # X => Cardinality(T) = MaxEvidence
  BY <1>1, <1>3, FirstOfRanking
<1>5. QED BY <1>1, <1>2, <1>4 DEF X

\* Of each type there is something left, unless the budget of the run is used up.
LEMMA SelectionIsDiverse ==
    ASSUME NEW C \in SUBSET Evidence, NEW e \in C,
           Cardinality(Selected(C)) # MaxEvidence
    PROVE  \E f \in Selected(C) : f.type = e.type
<1>1. Selected(C) = SectionCapped(C) \cup Extras(C) BY SelectionFills
<1>2. CASE \E f \in SectionCapped(C) : f.type = e.type BY <1>1, <1>2
<1>3. CASE \A f \in SectionCapped(C) : f.type # e.type
  <2> DEFINE S == {f \in C : f.type = e.type}
             before == [f \in S |-> Cardinality({g \in S : Better(g, f)})]
  <2>1. IsFiniteSet(S) /\ S # {} /\ S \subseteq Evidence BY FS_Subset, EvidenceAssumption
  <2>2. \A f \in S : before[f] \in Nat
    <3>1. \A f \in S : {g \in S : Better(g, f)} \in SUBSET S OBVIOUS
    <3>2. \A f \in S : IsFiniteSet({g \in S : Better(g, f)}) BY <2>1, <3>1, FS_Subset
    <3>3. QED BY <3>2, FS_CardinalityType
  <2>3. PICK f \in S : \A g \in S : before[f] <= before[g] BY <2>1, <2>2, LeastNumber
  <2>4. \A g \in S : ~Better(g, f)
    <3> SUFFICES ASSUME NEW g \in S, Better(g, f) PROVE FALSE OBVIOUS
    <3> DEFINE G == {h \in S : Better(h, g)}
               F == {h \in S : Better(h, f)}
    <3>1. G \in SUBSET F /\ g \in F /\ g \notin G BY <2>1, BetterIsOrder
    <3>2. F \in SUBSET S /\ before[g] = Cardinality(G) /\ before[f] = Cardinality(F) OBVIOUS
    <3> HIDE DEF F, G
    <3>3. IsFiniteSet(F) BY <2>1, <3>2, FS_Subset
    <3>4. Cardinality(G) <= Cardinality(F) /\ Cardinality(G) # Cardinality(F)
      BY <3>1, <3>3, FS_Subset
    <3>5. before[f] <= before[g] /\ before[f] \in Nat /\ before[g] \in Nat BY <2>2, <2>3
    <3> HIDE DEF before
    <3>6. QED BY <3>2, <3>4, <3>5
  <2>5. f \in C /\ f.type = e.type OBVIOUS
  <2>6. f \in Extras(C) BY <1>3, <2>4, <2>5 DEF Extras
  <2>7. QED BY <1>1, <2>5, <2>6
<1>4. QED BY <1>2, <1>3

\* What is not selected is outdone: by a full pool, or by its section's fill of better items.
LEMMA SelectionIsBest ==
    ASSUME NEW C \in SUBSET Evidence, NEW e \in C, e \notin Selected(C),
           Cardinality(Selected(C)) # MaxEvidence
    PROVE  Cardinality({f \in Selected(C) : f.section = e.section /\ Better(f, e)})
              >= Budget[e.section]
<1> DEFINE G == {f \in OfSection(C, e.section) : Better(f, e)}
           B == [f \in G |-> {g \in G : Better(g, f)}]
           n == Budget[e.section]
           T == First(G, B, n)
<1>1. Selected(C) = SectionCapped(C) \cup Extras(C) BY SelectionFills
<1>2. n \in Nat BY SectionsAssumption, EvidenceAssumption
<1>3. G \in SUBSET Evidence /\ IsFiniteSet(G) BY FS_Subset, EvidenceAssumption DEF OfSection
<1>4. IsRanking(G, B)
  <2>1. \A f \in G : f \notin B[f] BY <1>3, BetterIsOrder
  <2>2. \A f, g \in G : f = g \/ f \in B[g] \/ g \in B[f] BY <1>3, BetterIsOrder
  <2>3. \A f, g \in G : f \in B[g] => B[f] \subseteq B[g] BY <1>3, BetterIsOrder
  <2>4. B \in [G -> SUBSET G] OBVIOUS
  <2> HIDE DEF G, B
  <2>5. QED BY <1>3, <2>1, <2>2, <2>3, <2>4 DEF IsRanking
<1>5. \A f \in G : B[f] = {g \in OfSection(C, f.section) : Better(g, f)}
  <2> SUFFICES ASSUME NEW f \in G
               PROVE  B[f] = {g \in OfSection(C, f.section) : Better(g, f)}
    OBVIOUS
  <2>1. f.section = e.section /\ Better(f, e) /\ f \in Evidence BY DEF OfSection
  <2>2. \A g \in OfSection(C, e.section) : g \in Evidence BY DEF OfSection
  <2>3. \A g \in OfSection(C, e.section) : Better(g, f) => Better(g, e)
    BY <2>1, <2>2, BetterIsOrder
  <2>4. QED BY <2>1, <2>3
<1>6. T \subseteq SectionCapped(C)
  <2> SUFFICES ASSUME NEW f \in T PROVE f \in SectionCapped(C) OBVIOUS
  <2>1. f \in G /\ Cardinality(B[f]) < n BY DEF First
  <2>2. f \in C /\ f.section = e.section BY <2>1 DEF OfSection
  <2>3. Cardinality({g \in OfSection(C, f.section) : Better(g, f)}) < Budget[f.section]
    BY <1>5, <2>1, <2>2
  <2>4. QED BY <2>2, <2>3 DEF SectionCapped
<1>7. Cardinality(G) >= n
  <2>1. e \in C /\ e \notin SectionCapped(C) BY <1>1
  <2>2. ~(Cardinality(G) < n) BY <2>1 DEF SectionCapped
  <2>3. Cardinality(G) \in Nat BY <1>3, FS_CardinalityType
  <2> HIDE DEF G, n
  <2>4. QED BY <1>2, <2>2, <2>3
<1>8. \A f \in G : f \in C /\ f.section = e.section /\ Better(f, e) BY DEF OfSection
<1> DEFINE R == {f \in Selected(C) : f.section = e.section /\ Better(f, e)}
<1> HIDE DEF G, B, n
<1>9. T \in SUBSET G /\ IsFiniteSet(T) /\ (T # G => Cardinality(T) = n)
  BY <1>2, <1>4, FirstOfRanking
<1>10. Cardinality(T) >= n
  <2>1. CASE T = G BY <1>7, <2>1
  <2>2. CASE T # G
    <3>1. Cardinality(T) = n BY <1>9, <2>2
    <3>2. QED BY <1>2, <3>1
  <2>3. QED BY <2>1, <2>2
<1>11. T \in SUBSET R BY <1>1, <1>6, <1>8, <1>9
<1>12. IsFiniteSet(R)
  <2>1. IsFiniteSet(Selected(C)) /\ R \in SUBSET Selected(C) BY SelectionFills
  <2>2. QED BY <2>1, FS_Subset
<1> HIDE DEF R, T
<1>13. Cardinality(T) <= Cardinality(R) /\ Cardinality(T) \in Nat /\ Cardinality(R) \in Nat
  BY <1>9, <1>11, <1>12, FS_Subset, FS_CardinalityType
<1>14. Cardinality(R) >= n BY <1>2, <1>10, <1>13
<1>15. QED BY <1>14 DEF R, n
----------------------------------------------------------------------------
\* What the pool is at each stage: on its way into a collection it is part of what is
\* collected, and what leaves the collector is a selection.
PoolInv ==
    /\ setting \in Settings /\ iterations \in Nat
    /\ pool \in SUBSET Evidence /\ collected \in SUBSET Evidence
    /\ node \in {"planner", "start"} /\ iterations = 0 => pool = {}
    /\ node = "collector" => pool \subseteq collected
    /\ node \in {"critic", "route", "reporter"} => pool = Selected(collected)

LEMMA PoolInit == Init => PoolInv
<1> SUFFICES ASSUME Init PROVE PoolInv
  OBVIOUS
<1>1. setting \in Settings /\ iterations = 0 /\ pool = {} /\ collected = {} /\ node = "planner"
  BY DEF Init
<1>2. QED BY <1>1 DEF PoolInv

LEMMA MergedIsEvidence ==
    ASSUME NEW C \in SUBSET Evidence, NEW K \in SUBSET Evidence
    PROVE  Merged(C, K) \in SUBSET Evidence /\ C \subseteq Merged(C, K)
BY DEF Merged

LEMMA PoolStep == PoolInv /\ [Next]_vars => PoolInv'
<1> SUFFICES ASSUME PoolInv, [Next]_vars PROVE PoolInv'
  OBVIOUS
<1>0. Selected(collected) \in SUBSET collected BY SelectionFills DEF PoolInv
<1>1. CASE Plan
  BY <1>1 DEF Plan, collecting, PoolInv
<1>2. CASE Begin
  <2>1. PICK answer \in setting.answers : collected' = Merged(ExistingEvidence, answer)
    BY <1>2 DEF Begin, BeginFrom
  <2>2. answer \in SUBSET Evidence BY SettingsAssumption DEF PoolInv
  <2>3. ExistingEvidence \in SUBSET Evidence /\ pool \subseteq ExistingEvidence
    BY <1>2 DEF ExistingEvidence, Begin, BeginFrom, PoolInv
  <2>4. collected' \in SUBSET Evidence /\ pool \subseteq collected'
    BY <2>1, <2>2, <2>3, MergedIsEvidence
  <2>5. node' = "collector" /\ UNCHANGED <<setting, iterations, pool>>
    BY <1>2 DEF Begin, BeginFrom, planning
  <2>6. QED BY <2>4, <2>5 DEF PoolInv
<1>3. CASE RunTool
  <2>1. PICK K \in Kept : collected' = Merged(collected, K) BY <1>3 DEF RunTool
  <2>2. K \in SUBSET Evidence BY DEF Kept
  <2>3. collected' \in SUBSET Evidence /\ collected \subseteq collected'
    BY <2>1, <2>2, MergedIsEvidence DEF PoolInv
  <2>4. node = "collector" /\ UNCHANGED <<node, setting, iterations, pool>>
    BY <1>3 DEF RunTool, planning
  <2>5. QED BY <2>3, <2>4 DEF PoolInv
<1>4. CASE ExhaustBudget \/ EndRound
  <2>1. /\ node = "collector" /\ node' \in {"collector", "critic"}
        /\ pool' = Selected(collected)
        /\ UNCHANGED <<setting, iterations, collected>>
    BY <1>4 DEF ExhaustBudget, EndRound, EndCollection, planning
  <2>2. Selected(collected)' = Selected(collected)
    BY <2>1 DEF Selected, SectionCapped, Extras, OfSection
  <2>3. QED BY <1>0, <2>1, <2>2 DEF PoolInv
<1>5. CASE Criticise \/ RecordRetry \/ Report \/ Done \/ UNCHANGED vars
  <2>1. UNCHANGED <<setting, pool, collected>>
    BY <1>5 DEF Criticise, RecordRetry, Report, Done, vars, planning, collecting
  <2>2. Selected(collected)' = Selected(collected)
    BY <2>1 DEF Selected, SectionCapped, Extras, OfSection
  <2>3. \/ /\ node \in {"critic", "route"} /\ node' \in {"route", "reporter"}
           /\ iterations' = iterations
        \/ node' = "planner" /\ iterations' \in Nat \ {0}
        \/ UNCHANGED <<node, iterations>>
    <3>1. CASE Criticise BY <3>1 DEF Criticise
    <3>2. CASE RecordRetry
      <4>1. /\ node' = "planner" /\ iterations < MaxRetries
            /\ iterations' = IF iterations < MaxRetries THEN iterations + 1 ELSE MaxRetries
        BY <3>2 DEF RecordRetry, MayRetry
      <4>2. iterations \in Nat /\ MaxRetries \in Nat BY BoundsAssumption DEF PoolInv
      <4>3. QED BY <4>1, <4>2
    <3>3. CASE Report BY <3>3 DEF Report, planning
    <3>4. CASE Done \/ UNCHANGED vars BY <3>4 DEF Done, vars, planning
    <3>5. QED BY <1>5, <3>1, <3>2, <3>3, <3>4
  <2>4. QED BY <2>1, <2>2, <2>3 DEF PoolInv
<1>6. QED BY <1>1, <1>2, <1>3, <1>4, <1>5 DEF Next

LEMMA PoolInvariance == Spec => []PoolInv
BY PoolInit, PoolStep, PTL DEF Spec

\* The pool that leaves the collector is within the budget of the run, and no type of
\* source is lost unless that budget is used up (_cap_evidence_pool,
\* _preserve_source_type_diversity).
THEOREM DiverseSources == Spec => []SourcesStayDiverse
<1>1. PoolInv => SourcesStayDiverse
  <2> SUFFICES ASSUME PoolInv, node \in {"critic", "route", "reporter"}
               PROVE  /\ Cardinality(pool) <= MaxEvidence
                      /\ \A e \in collected : \/ \E f \in pool : f.type = e.type
                                              \/ Cardinality(pool) = MaxEvidence
    BY DEF SourcesStayDiverse
  <2>1. pool = Selected(collected) /\ collected \in SUBSET Evidence BY DEF PoolInv
  <2>2. QED BY <2>1, SelectionFills, SelectionIsDiverse
<1>2. QED BY <1>1, PoolInvariance, PTL

\* However often collection is repeated, an item leaves the pool only for a full pool or
\* for its section's fill of better items (_cap_evidence_by_section_budget).
THEOREM OutdoneEvidence == Spec => EvidenceIsOutdone
<1> DEFINE Outdone == \A e \in pool \ pool' :
              \/ Cardinality(pool') = MaxEvidence
              \/ Cardinality({f \in pool' : f.section = e.section /\ Better(f, e)})
                    >= Budget[e.section]
<1>1. ASSUME PoolInv, [Next]_vars PROVE [Outdone]_vars
  <2>1. CASE ExhaustBudget \/ EndRound
    <3>1. node = "collector" /\ pool' = Selected(collected)
      BY <2>1 DEF ExhaustBudget, EndRound
    <3>2. pool \subseteq collected /\ collected \in SUBSET Evidence BY <1>1, <3>1 DEF PoolInv
    <3>3. QED BY <3>1, <3>2, SelectionIsBest
  <2>2. CASE ~(ExhaustBudget \/ EndRound)
    <3>1. pool' = pool
      BY <1>1, <2>2 DEF Next, Plan, Begin, BeginFrom, RunTool, Criticise, RecordRetry, Report,
                        Done, vars, collecting
    <3>2. QED BY <3>1
  <2>3. QED BY <2>1, <2>2
<1>2. QED BY <1>1, PoolInvariance, PTL DEF Spec, EvidenceIsOutdone
----------------------------------------------------------------------------
(***************************************************************************)
(* Sets put in order, and sequences with elements left out.                *)
(***************************************************************************)

\* The members of X in the order of the counts B gives.
InOrderOf(order, X, B) ==
    order = [n \in 1..Cardinality(X) |-> CHOOSE x \in X : Cardinality(B[x]) = n - 1]

\* A set in the order of a ranking has each member once, in the place of its count.
LEMMA RankingOrder ==
    ASSUME NEW X, NEW B, IsRanking(X, B),
           NEW order, InOrderOf(order, X, B)
    PROVE  /\ Cardinality(X) \in Nat /\ DOMAIN order = 1..Cardinality(X)
           /\ \A n \in 1..Cardinality(X) : order[n] \in X /\ Cardinality(B[order[n]]) = n - 1
           /\ \A x \in X : /\ Cardinality(B[x]) + 1 \in 1..Cardinality(X)
                           /\ order[Cardinality(B[x]) + 1] = x
<1> DEFINE N == Cardinality(X)
           Before(x) == Cardinality(B[x])
<1>1. IsFiniteSet(X) /\ N \in Nat BY FS_CardinalityType DEF IsRanking
<1>2. /\ \A x \in X : Before(x) \in Nat
      /\ \A x, y \in X : x \in B[y] => Before(x) < Before(y)
  BY RankingCounts
<1>3. \A x, y \in X : x = y \/ x \in B[y] \/ y \in B[x] BY DEF IsRanking
<1>4. \A x \in X : B[x] \in SUBSET X /\ x \notin B[x] BY DEF IsRanking
<1>5. \A x \in X : Before(x) < N
  <2> SUFFICES ASSUME NEW x \in X PROVE Cardinality(B[x]) < N OBVIOUS
  <2>1. Cardinality(B[x]) <= Cardinality(X) /\ Cardinality(B[x]) # Cardinality(X)
    BY <1>1, <1>4, FS_Subset
  <2>2. QED BY <1>1, <1>2, <2>1
<1>6. ASSUME NEW n \in 1..N PROVE \E x \in X : Before(x) = n - 1
  <2> DEFINE S == First(X, B, n - 1)
             T == First(X, B, n)
  <2>1. n \in Nat /\ n - 1 \in Nat BY <1>1
  <2>2. S \in SUBSET X /\ Cardinality(S) <= n - 1 /\ Cardinality(S) \in Nat
    BY <2>1, FirstOfRanking
  <2>3. T # X => Cardinality(T) = n BY <2>1, FirstOfRanking
  <2>4. \A x \in X : (x \in S <=> Before(x) < n - 1) /\ (x \in T <=> Before(x) < n)
    BY DEF First
  <2>5. T \in SUBSET X BY DEF First
  <2> HIDE DEF S, T, Before
  <2>6. Cardinality(T) >= n BY <1>1, <2>1, <2>3
  <2>7. S # T BY <2>1, <2>2, <2>6
  <2>8. PICK x \in X : x \in T /\ x \notin S
    <3>1. \A x \in X : x \in S => x \in T BY <1>2, <2>1, <2>4
    <3>2. QED BY <2>2, <2>5, <2>7, <3>1
  <2>9. QED BY <1>2, <2>1, <2>4, <2>8
<1>7. order = [n \in 1..N |-> CHOOSE x \in X : Before(x) = n - 1] BY DEF InOrderOf
<1> HIDE DEF N, Before
<1>8. \A n \in 1..N : order[n] \in X /\ Before(order[n]) = n - 1 BY <1>6, <1>7
<1>9. ASSUME NEW x \in X PROVE Before(x) + 1 \in 1..N /\ order[Before(x) + 1] = x
  <2>1. Before(x) + 1 \in 1..N /\ (Before(x) + 1) - 1 = Before(x) BY <1>1, <1>2, <1>5
  <2>2. order[Before(x) + 1] \in X /\ Before(order[Before(x) + 1]) = Before(x)
    BY <1>8, <2>1
  <2>3. \A y, z \in X : y \in B[z] => Before(y) # Before(z) BY <1>2
  <2>4. QED BY <1>3, <2>1, <2>2, <2>3
<1>10. DOMAIN order = 1..N BY <1>7
<1>11. QED BY <1>1, <1>8, <1>9, <1>10 DEF N, Before

\* Induction up to a bound, for a set of numbers.
LEMMA UpToBound ==
    ASSUME NEW m \in Nat, NEW Good, 0 \in Good, \A n \in 1..m : n - 1 \in Good => n \in Good
    PROVE  \A n \in 0..m : n \in Good
<1> DEFINE Bad == (0..m) \ Good
           f == [n \in Bad |-> n]
<1> SUFFICES ASSUME Bad # {} PROVE FALSE OBVIOUS
<1>1. \A n \in Bad : f[n] = n /\ f[n] \in Nat /\ n # 0 /\ n \in 1..m OBVIOUS
<1>2. \A n \in Bad : n - 1 \in Bad
  <2> SUFFICES ASSUME NEW n \in Bad PROVE n - 1 \in Bad OBVIOUS
  <2>1. n \in 1..m /\ n \notin Good /\ n - 1 \in 0..m BY <1>1
  <2>2. QED BY <2>1
<1> HIDE DEF Bad, f
<1>3. PICK n \in Bad : \A k \in Bad : f[n] <= f[k] BY <1>1, LeastNumber
<1>4. n - 1 \in Bad /\ n \in 1..m BY <1>1, <1>2
<1>5. n <= n - 1 BY <1>1, <1>3, <1>4
<1>6. QED BY <1>4, <1>5

\* t has the elements of seq that are in S: its n-th is that at the n-th of their places.
IsSelection(t, seq, S, k, order) ==
    /\ k \in Nat /\ t = [n \in 1..k |-> seq[order[n]]]
    /\ \A n \in 1..k : /\ order[n] \in 1..Len(seq) /\ seq[order[n]] \in S /\ n <= order[n]
                       /\ \A j \in 1..n - 1 : order[j] < order[n]
    /\ \A i \in 1..Len(seq) : seq[i] \in S => \E n \in 1..k : order[n] = i

\* Those is a filter: it keeps what is in the set, in order.
LEMMA ThoseSelected ==
    ASSUME NEW T, NEW seq \in Seq(T), NEW S
    PROVE  \E k, order : IsSelection(Those(seq, S), seq, S, k, order)
<1> DEFINE m == Len(seq)
           X == {i \in 1..m : seq[i] \in S}
           B == [i \in X |-> {j \in X : j < i}]
           k == Cardinality(X)
           order == [n \in 1..k |-> CHOOSE i \in X : Cardinality(B[i]) = n - 1]
           upto(n) == Cardinality({j \in X : j <= n})
           e(n) == [i \in 1..upto(n) |-> seq[order[i]]]
           Value(f, n) == IF n = 0 THEN <<>>
                          ELSE IF seq[n] \in S THEN Append(f[n - 1], seq[n]) ELSE f[n - 1]
           Is(f) == f = [n \in 0..m |-> Value(f, n)]
<1>1. m \in Nat /\ \A i \in 1..m : seq[i] \in T OBVIOUS
<1>2. X \in SUBSET (1..m) /\ \A i \in 1..m : i \in X <=> seq[i] \in S OBVIOUS
<1>3. IsFiniteSet(1..m) /\ Cardinality(1..m) = m BY <1>1, FS_Interval
<1>4. \A i \in X : B[i] = {j \in X : j < i} OBVIOUS
<1> HIDE DEF m
<1>0. \A i \in X : i \in Nat /\ 1 <= i /\ i <= m BY <1>1, <1>2
<1>5. B \in [X -> SUBSET X] OBVIOUS
<1> HIDE DEF X
<1>6. IsFiniteSet(X) BY <1>2, <1>3, FS_Subset
<1>7. IsRanking(X, B)
  <2>1. \A i \in X : i \in Nat BY <1>1, <1>2
  <2>2. \A i \in X : i \notin B[i] BY <1>4, <2>1
  <2>3. \A i, j \in X : i = j \/ i \in B[j] \/ j \in B[i] BY <1>4, <2>1
  <2>4. \A i, j \in X : i \in B[j] => B[i] \subseteq B[j] BY <1>4, <2>1
  <2> HIDE DEF B
  <2>5. QED BY <1>5, <1>6, <2>2, <2>3, <2>4 DEF IsRanking
<1>8. /\ k \in Nat
      /\ \A n \in 1..k : order[n] \in X /\ Cardinality(B[order[n]]) = n - 1
      /\ \A i \in X : Cardinality(B[i]) + 1 \in 1..k /\ order[Cardinality(B[i]) + 1] = i
  <2>1. InOrderOf(order, X, B) BY DEF InOrderOf
  <2> HIDE DEF B, order
  <2>2. QED BY <1>7, <2>1, RankingOrder DEF k
<1>9. /\ \A i \in X : Cardinality(B[i]) \in Nat
      /\ \A i, j \in X : i \in B[j] => Cardinality(B[i]) < Cardinality(B[j])
  <2> HIDE DEF B
  <2>1. QED BY <1>7, RankingCounts
<1> HIDE DEF B, order, k
<1>10. /\ upto(0) = 0 /\ upto(m) = k
       /\ \A n \in 1..m : /\ upto(n - 1) \in Nat
                          /\ n \notin X => upto(n) = upto(n - 1)
                          /\ n \in X => upto(n) = upto(n - 1) + 1 /\ order[upto(n)] = n
  <2>1. upto(0) = 0
    <3>1. {j \in X : j <= 0} = {} BY <1>0
    <3>2. QED BY <3>1, FS_EmptySet
  <2>2. upto(m) = k
    <3>1. {j \in X : j <= m} = X BY <1>0
    <3>2. QED BY <3>1 DEF k
  <2>3. ASSUME NEW n \in 1..m
        PROVE  /\ upto(n - 1) \in Nat
               /\ n \notin X => upto(n) = upto(n - 1)
               /\ n \in X => upto(n) = upto(n - 1) + 1 /\ order[upto(n)] = n
    <3> DEFINE A == {j \in X : j <= n - 1}
               C == {j \in X : j <= n}
    <3>1. A \in SUBSET X /\ n \notin A /\ C = IF n \in X THEN A \cup {n} ELSE A
      <4>1. n \in Nat /\ 1 <= n BY <1>1
      <4>2. \A j \in X : j <= n <=> j <= n - 1 \/ j = n BY <1>0, <4>1
      <4>3. ~(n <= n - 1) BY <4>1
      <4>4. QED BY <4>2, <4>3
    <3>2. n \in X => A = B[n]
      <4>1. \A j \in X : j <= n - 1 <=> j < n BY <1>0, <1>1
      <4>2. QED BY <1>4, <4>1
    <3> HIDE DEF A, C
    <3>3. IsFiniteSet(A) /\ Cardinality(A) \in Nat
      BY <1>6, <3>1, FS_Subset, FS_CardinalityType
    <3>4. Cardinality(A \cup {n}) = Cardinality(A) + 1 BY <3>1, <3>3, FS_AddElement
    <3>5. n \in X => order[Cardinality(A) + 1] = n BY <1>8, <3>2
    <3>6. QED BY <3>1, <3>3, <3>4, <3>5 DEF A, C
  <2>4. QED BY <2>1, <2>2, <2>3
<1>11. \A n \in 0..m : upto(n) \in Nat /\ upto(n) <= k
  <2> SUFFICES ASSUME NEW n \in 0..m PROVE upto(n) \in Nat /\ upto(n) <= k OBVIOUS
  <2>1. {j \in X : j <= n} \in SUBSET X OBVIOUS
  <2>2. QED BY <1>6, <2>1, FS_Subset, FS_CardinalityType DEF k
<1> HIDE DEF upto
<1>12. ASSUME NEW n \in 0..m
       PROVE  e(n) \in Seq(T) /\ Len(e(n)) = upto(n)
  <2>1. \A i \in 1..upto(n) : seq[order[i]] \in T
    <3>1. \A i \in 1..upto(n) : i \in 1..k BY <1>8, <1>11
    <3>2. QED BY <1>1, <1>2, <1>8, <3>1
  <2>2. QED BY <1>11, <2>1
<1>13. e(0) = <<>> BY <1>10
<1>14. ASSUME NEW n \in 1..m
       PROVE  e(n) = IF seq[n] \in S THEN Append(e(n - 1), seq[n]) ELSE e(n - 1)
  <2>1. CASE seq[n] \notin S BY <1>2, <1>10, <2>1
  <2>2. CASE seq[n] \in S
    <3> DEFINE c == upto(n - 1)
               s == e(n - 1)
    <3>1. c \in Nat /\ upto(n) = c + 1 /\ order[c + 1] = n BY <1>2, <1>10, <2>2
    <3>2. s \in Seq(T) /\ Len(s) = c /\ \A i \in 1..c : s[i] = seq[order[i]]
      <4>1. n - 1 \in 0..m BY <1>1
      <4>2. QED BY <1>12, <4>1
    <3>3. e(n) = [i \in 1..c + 1 |-> seq[order[i]]] BY <3>1
    <3> HIDE DEF c, s, e
    <3>4. Append(s, seq[n]) = [i \in 1..c + 1 |-> IF i <= c THEN s[i] ELSE seq[n]]
      BY <1>1, <3>1, <3>2
    <3>5. \A i \in 1..c + 1 : (IF i <= c THEN s[i] ELSE seq[n]) = seq[order[i]]
      <4>1. \A i \in 1..c + 1 : i \in 1..c \/ i = c + 1 BY <3>1
      <4>2. ~(c + 1 <= c) /\ \A i \in 1..c : i <= c BY <3>1
      <4>3. QED BY <3>1, <3>2, <4>1, <4>2
    <3>6. e(n) = Append(s, seq[n]) BY <3>3, <3>4, <3>5
    <3>7. QED BY <2>2, <3>6 DEF s
  <2>3. QED BY <2>1, <2>2
<1> DEFINE E == [n \in 0..m |-> e(n)]
<1>15. Is(E)
  <2>1. ASSUME NEW n \in 0..m PROVE e(n) = Value(E, n)
    <3>1. CASE n = 0 BY <1>13, <3>1
    <3>2. CASE n # 0
      <4>1. n \in 1..m /\ n - 1 \in 0..m BY <1>1, <3>2
      <4>2. E[n - 1] = e(n - 1) BY <4>1
      <4> HIDE DEF e, E
      <4>3. QED BY <1>14, <3>2, <4>1, <4>2
    <3>3. QED BY <3>1, <3>2
  <2> HIDE DEF Value, e
  <2>2. QED BY <2>1
<1>16. Those(seq, S) = (CHOOSE g : Is(g))[m] BY Zenon DEF Those, m
<1> HIDE DEF E
<1>17. \E g : Is(g) /\ Those(seq, S) = g[m]
  <2> HIDE DEF Is
  <2>1. QED BY <1>15, <1>16
<1>18. PICK g : Is(g) /\ Those(seq, S) = g[m] BY <1>17
<1>19. \A n \in 0..m : g[n] = Value(g, n)
  <2> HIDE DEF Value
  <2>1. QED BY <1>18
<1>20. g[m] = e(m)
  <2> DEFINE Good == {n \in 0..m : g[n] = e(n)}
  <2>1. 0 \in Good
    <3>1. 0 \in 0..m BY <1>1
    <3>2. g[0] = <<>> BY <1>19, <3>1, Zenon
    <3>3. QED BY <1>13, <3>1, <3>2
  <2>2. ASSUME NEW n \in 1..m, n - 1 \in Good PROVE n \in Good
    <3>1. n \in 0..m /\ n # 0 /\ g[n - 1] = e(n - 1) BY <1>1, <2>2
    <3>2. g[n] = IF seq[n] \in S THEN Append(g[n - 1], seq[n]) ELSE g[n - 1]
      BY <1>19, <3>1, Zenon
    <3> HIDE DEF e
    <3>3. QED BY <1>14, <3>1, <3>2
  <2> HIDE DEF Good
  <2>3. \A n \in 0..m : n \in Good BY <1>1, <2>1, <2>2, UpToBound
  <2>4. QED BY <1>1, <2>3 DEF Good
<1>21. Those(seq, S) = [n \in 1..k |-> seq[order[n]]]
  <2> HIDE DEF Is
  <2>1. QED BY <1>10, <1>18, <1>20
<1>22. ASSUME NEW n \in 1..k
       PROVE  /\ order[n] \in 1..m /\ seq[order[n]] \in S /\ n <= order[n]
              /\ \A j \in 1..n - 1 : order[j] < order[n]
  <2>1. order[n] \in X /\ order[n] \in 1..m /\ seq[order[n]] \in S BY <1>2, <1>8
  <2>2. n <= order[n]
    <3>1. B[order[n]] \in SUBSET (1..order[n] - 1)
      <4>1. order[n] \in Nat /\ \A j \in X : j < order[n] => j \in 1..order[n] - 1
        BY <1>0, <2>1
      <4>2. QED BY <1>4, <2>1, <4>1
    <3>2. IsFiniteSet(1..order[n] - 1) /\ Cardinality(1..order[n] - 1) = order[n] - 1
      <4>1. /\ order[n] - 1 \in Int /\ 1 \in Int
            /\ (1 > order[n] - 1 => order[n] - 1 = 0) /\ order[n] - 1 - 1 + 1 = order[n] - 1
        BY <1>0, <2>1
      <4>2. QED BY <4>1, FS_Interval
    <3>3. Cardinality(B[order[n]]) <= order[n] - 1 BY <3>1, <3>2, FS_Subset
    <3>4. n - 1 <= order[n] - 1 /\ n \in Nat /\ order[n] \in Nat BY <1>0, <1>8, <2>1, <3>3
    <3>5. QED BY <3>4
  <2>3. ASSUME NEW j \in 1..n - 1 PROVE order[j] < order[n]
    <3>1. j \in 1..k /\ j < n BY <1>8
    <3>2. /\ order[j] \in X /\ order[j] \in Nat /\ order[n] \in Nat
          /\ Cardinality(B[order[j]]) = j - 1 /\ Cardinality(B[order[n]]) = n - 1
      BY <1>0, <1>8, <2>1, <3>1
    <3>3. order[n] \notin B[order[j]] /\ order[n] # order[j]
      <4>1. j \in Nat /\ n \in Nat /\ j - 1 < n - 1 /\ j - 1 # n - 1 BY <1>8, <3>1
      <4>2. ~(n - 1 < j - 1) BY <4>1
      <4>3. QED BY <1>9, <2>1, <3>2, <4>1, <4>2
    <3>4. ~(order[n] < order[j]) BY <1>4, <2>1, <3>2, <3>3
    <3>5. QED BY <3>2, <3>3, <3>4
  <2>4. QED BY <2>1, <2>2, <2>3
<1>23. \A i \in 1..m : seq[i] \in S => \E n \in 1..k : order[n] = i BY <1>2, <1>8
<1>24. IsSelection(Those(seq, S), seq, S, k, order)
  BY <1>8, <1>21, <1>22, <1>23 DEF IsSelection, m
<1>25. QED BY <1>24
----------------------------------------------------------------------------
(***************************************************************************)
(* The strategies for what is wanted: a slot for each copy of each want,   *)
(* the slots in order.                                                     *)
(***************************************************************************)

\* A list of things wanted, each of finitely many types.
IsWants(wants, m) ==
    m \in Nat /\ DOMAIN wants = 1..m /\ \A i \in 1..m : IsFiniteSet(wants[i].types)

\* There is at least one slot for each.
LEMMA CopiesCount ==
    ASSUME NEW types, IsFiniteSet(types)
    PROVE  Copies(types) \in Nat /\ Copies(types) >= 1
<1>1. Cardinality(types) \in Nat /\ (Cardinality(types) = 0 <=> types = {})
  BY FS_CardinalityType, FS_EmptySet
<1>2. QED BY <1>1 DEF Copies

\* Each want has a first slot, and there are only so many slots.
LEMMA SlotsCount ==
    ASSUME NEW m, NEW wants, IsWants(wants, m)
    PROVE  /\ IsFiniteSet(Slots(wants)) /\ Slots(wants) \in SUBSET (Nat \X Nat)
           /\ \A p \in Slots(wants) : p[1] \in 1..m /\ p[2] \in 1..Copies(wants[p[1]].types)
           /\ \A i \in 1..m : \A j \in 1..Copies(wants[i].types) : <<i, j>> \in Slots(wants)
           /\ \A i \in 1..m : <<i, 1>> \in Slots(wants)
<1> DEFINE C(i) == Copies(wants[i].types)
           Row(i) == {i} \X (1..C(i))
           Rows == {Row(i) : i \in 1..m}
           f == [i \in 1..m |-> Row(i)]
<1>1. m \in Nat /\ \A i \in 1..m : C(i) \in Nat /\ C(i) >= 1 BY CopiesCount DEF IsWants
<1>2. Slots(wants) = UNION Rows BY DEF Slots, IsWants
<1> HIDE DEF C
<1>3. \A i \in 1..m : IsFiniteSet(Row(i))
  <2> SUFFICES ASSUME NEW i \in 1..m PROVE IsFiniteSet({i} \X (1..C(i))) OBVIOUS
  <2>1. IsFiniteSet({i}) BY FS_Singleton
  <2>2. IsFiniteSet(1..C(i))
    <3>1. 1 \in Int /\ C(i) \in Int BY <1>1
    <3>2. QED BY <3>1, FS_Interval
  <2>3. QED BY <2>1, <2>2, FS_Product
<1>4. f \in Surjection(1..m, Rows)
  <2> HIDE DEF Row
  <2>1. f \in [1..m -> Rows] /\ \A R \in Rows : \E i \in 1..m : f[i] = R OBVIOUS
  <2> HIDE DEF f, Rows
  <2>2. QED BY <2>1 DEF Surjection
<1>5. IsFiniteSet(Rows)
  <2>1. IsFiniteSet(1..m)
    <3>1. 1 \in Int /\ m \in Int BY <1>1
    <3>2. QED BY <3>1, FS_Interval
  <2> HIDE DEF f, Rows
  <2>2. QED BY <1>4, <2>1, FS_Surjection
<1>6. IsFiniteSet(UNION Rows)
  <2>1. \A R \in Rows : IsFiniteSet(R) BY <1>3
  <2> HIDE DEF Rows
  <2>2. QED BY <1>5, <2>1, FS_UNION
<1>7. \A p \in UNION Rows : p[1] \in 1..m /\ p[2] \in 1..C(p[1]) /\ p = <<p[1], p[2]>>
  <2> SUFFICES ASSUME NEW i \in 1..m, NEW p \in Row(i)
               PROVE p[1] \in 1..m /\ p[2] \in 1..C(p[1]) /\ p = <<p[1], p[2]>>
    OBVIOUS
  <2>1. QED OBVIOUS
<1>8. ASSUME NEW i \in 1..m, NEW j \in 1..C(i) PROVE <<i, j>> \in UNION Rows
  <2>1. <<i, j>> \in Row(i) OBVIOUS
  <2>2. Row(i) \in Rows OBVIOUS
  <2> HIDE DEF Row, Rows
  <2>3. QED BY <2>1, <2>2
<1> HIDE DEF Rows
<1>9. \A p \in UNION Rows : p \in Nat \X Nat
  <2> SUFFICES ASSUME NEW p \in UNION Rows PROVE p \in Nat \X Nat OBVIOUS
  <2>1. p[1] \in Nat /\ p[2] \in Nat /\ p = <<p[1], p[2]>> BY <1>1, <1>7
  <2>2. QED BY <2>1
<1>10. \A i \in 1..m : 1 \in 1..C(i) BY <1>1
<1>11. QED BY <1>2, <1>6, <1>7, <1>8, <1>9, <1>10 DEF C

\* Slots are in order: by want, and then by number.
LEMMA SlotsRanked ==
    ASSUME NEW m, NEW wants, IsWants(wants, m), NEW B,
           B = [p \in Slots(wants) |->
                   {q \in Slots(wants) : q[1] < p[1] \/ (q[1] = p[1] /\ q[2] < p[2])}]
    PROVE  IsRanking(Slots(wants), B)
<1> DEFINE X == Slots(wants)
<1>1. IsFiniteSet(X) /\ X \in SUBSET (Nat \X Nat) BY SlotsCount
<1>2. \A p \in X : p[1] \in Nat /\ p[2] \in Nat /\ p = <<p[1], p[2]>> BY <1>1
<1>3. \A p \in X : B[p] = {q \in X : q[1] < p[1] \/ (q[1] = p[1] /\ q[2] < p[2])} OBVIOUS
<1>4. B \in [X -> SUBSET X] OBVIOUS
<1> HIDE DEF X
<1>5. \A p \in X : p \notin B[p] BY <1>2, <1>3
<1>6. \A p, q \in X : p = q \/ p \in B[q] \/ q \in B[p]
  <2> SUFFICES ASSUME NEW p \in X, NEW q \in X, p \notin B[q], q \notin B[p] PROVE p = q
    OBVIOUS
  <2>1. p[1] = q[1] /\ p[2] = q[2] BY <1>2, <1>3
  <2>2. QED BY <1>2, <2>1
<1>7. \A p, q \in X : p \in B[q] => B[p] \subseteq B[q]
  <2> SUFFICES ASSUME NEW p \in X, NEW q \in X, p \in B[q], NEW o \in B[p] PROVE o \in B[q]
    OBVIOUS
  <2>1. o \in X BY <1>3
  <2>2. QED BY <1>2, <1>3, <2>1
<1>8. QED BY <1>1, <1>4, <1>5, <1>6, <1>7 DEF IsRanking, X

\* There is a strategy for each want, behind those for the wants before it, and
\* all are for the round.
LEMMA StrategiesParts ==
    ASSUME NEW m, NEW wants, IsWants(wants, m), NEW r
    PROVE  /\ \E k \in Nat : DOMAIN StrategiesFor(r, wants) = 1..k
           /\ \A n \in DOMAIN StrategiesFor(r, wants) : StrategiesFor(r, wants)[n].round = r
           /\ \A i \in 1..m : \E n \in DOMAIN StrategiesFor(r, wants) :
                 /\ StrategiesFor(r, wants)[n].about = wants[i].about
                 /\ n = Cardinality(Until(wants, i))
<1> DEFINE X == Slots(wants)
           B == [p \in X |-> {q \in X : q[1] < p[1] \/ (q[1] = p[1] /\ q[2] < p[2])}]
           N == Cardinality(X)
           At(n) == CHOOSE p \in X :
               Cardinality({q \in X : q[1] < p[1] \/ (q[1] = p[1] /\ q[2] < p[2])}) = n - 1
           Ranks(n) == CHOOSE p \in X : Cardinality(B[p]) = n - 1
           order == [n \in 1..N |-> At(n)]
           s == StrategiesFor(r, wants)
<1>1. IsRanking(X, B) BY SlotsRanked
<1>2. InOrderOf(order, X, B)
  <2>1. \A n : At(n) = Ranks(n)
    <3>1. \A p \in X : B[p] = {q \in X : q[1] < p[1] \/ (q[1] = p[1] /\ q[2] < p[2])} OBVIOUS
    <3> HIDE DEF B, X
    <3>2. QED BY <3>1
  <2>2. order = [n \in 1..N |-> Ranks(n)]
    <3> HIDE DEF At, Ranks
    <3>1. QED BY <2>1
  <2> HIDE DEF B, X, order
  <2>3. QED BY <2>2 DEF InOrderOf
<1>3. /\ N \in Nat /\ DOMAIN order = 1..N
      /\ \A p \in X : Cardinality(B[p]) + 1 \in 1..N /\ order[Cardinality(B[p]) + 1] = p
  <2> HIDE DEF B, X, order
  <2>1. QED BY <1>1, <1>2, RankingOrder
<1>4. s = [n \in DOMAIN order |-> Strategy(r, wants[order[n][1]].about)]
  BY Zenon DEF StrategiesFor, Ranked
<1> HIDE DEF order, s, B
<1>5. \A n \in 1..N : s[n].round = r /\ s[n].about = wants[order[n][1]].about
  BY <1>3, <1>4 DEF Strategy
<1>6. ASSUME NEW i \in 1..m
      PROVE  \E n \in 1..N : s[n].about = wants[i].about /\ n = Cardinality(Until(wants, i))
  <2> DEFINE A == {p \in X : p[1] < i}
             n == Cardinality(B[<<i, 1>>]) + 1
  <2>1. <<i, 1>> \in X /\ i \in Nat
    <3>1. <<i, 1>> \in X BY SlotsCount
    <3>2. m \in Nat BY DEF IsWants
    <3>3. QED BY <3>1, <3>2
  <2>2. B[<<i, 1>>] = A
    <3>1. \A p \in X : p[1] \in Nat /\ p[2] \in Nat /\ p[2] >= 1
      <4> SUFFICES ASSUME NEW p \in X PROVE p[1] \in Nat /\ p[2] \in Nat /\ p[2] >= 1 OBVIOUS
      <4>1. p \in Nat \X Nat /\ p[1] \in 1..m /\ p[2] \in 1..Copies(wants[p[1]].types)
        BY SlotsCount
      <4>2. QED BY <4>1
    <3> HIDE DEF X
    <3>2. B[<<i, 1>>] = {q \in X : q[1] < <<i, 1>>[1] \/ (q[1] = <<i, 1>>[1] /\ q[2] < <<i, 1>>[2])}
      BY <2>1 DEF B
    <3>3. QED BY <3>1, <3>2
  <2>3. n \in 1..N /\ order[n] = <<i, 1>> BY <1>3, <2>1
  <2>4. s[n].about = wants[i].about BY <1>5, <2>3
  <2>5. n = Cardinality(Until(wants, i))
    <3>1. A \in SUBSET X /\ IsFiniteSet(X) /\ <<i, 1>> \notin A BY <2>1, SlotsCount
    <3>2. Until(wants, i) = A \cup {<<i, 1>>} BY DEF Until
    <3> HIDE DEF A, X
    <3>3. IsFiniteSet(A) BY <3>1, FS_Subset
    <3>4. QED BY <2>2, <3>1, <3>2, <3>3, FS_AddElement
  <2> HIDE DEF n
  <2>6. QED BY <2>3, <2>4, <2>5
<1>7. DOMAIN s = 1..N BY <1>3, <1>4
<1> HIDE DEF N
<1>8. QED BY <1>3, <1>5, <1>6, <1>7 DEF s
----------------------------------------------------------------------------
(***************************************************************************)
(* What a retry is asked for, and whether it gets to it.                   *)
(***************************************************************************)

IsList(s) == s \in Seq(ToSet(s))

\* What can be planned for: a list of requests, each for finitely many types.
IsRequests(gaps) == IsList(gaps) /\ \A i \in DOMAIN gaps : IsFiniteSet(gaps[i].types)

\* Lists, and functions on an initial segment, are the same.
LEMMA ListParts ==
    ASSUME NEW s, IsList(s)
    PROVE  /\ Len(s) \in Nat /\ DOMAIN s = 1..Len(s)
           /\ \A i \in 1..Len(s) : s[i] \in ToSet(s)
           /\ s # <<>> => Len(s) > 0
<1>1. s \in Seq(ToSet(s)) BY DEF IsList
<1>2. DOMAIN s = 1..Len(s) /\ Len(s) \in Nat BY <1>1
<1>3. \A i \in 1..Len(s) : s[i] \in ToSet(s) BY <1>2 DEF ToSet
<1> HIDE DEF IsList
<1>4. s # <<>> => Len(s) > 0
  <2> DEFINE T == ToSet(s)
  <2>1. s \in Seq(T) BY <1>1
  <2> HIDE DEF T
  <2>2. QED BY <2>1
<1>5. QED BY <1>2, <1>3, <1>4

LEMMA FunctionIsList ==
    ASSUME NEW s, NEW k \in Nat, NEW T, s \in [1..k -> T]
    PROVE  IsList(s) /\ DOMAIN s = 1..k /\ Len(s) = k
<1>1. DOMAIN s = 1..k /\ s = [i \in 1..k |-> s[i]] /\ s \in Seq(T) OBVIOUS
<1>2. \A i \in 1..k : s[i] \in ToSet(s) BY <1>1 DEF ToSet
<1> DEFINE R == ToSet(s)
<1> HIDE DEF R
<1>3. s \in Seq(R) BY <1>1, <1>2 DEF R
<1>4. Len(s) = k BY <1>1
<1>5. QED BY <1>1, <1>3, <1>4 DEF IsList, R

\* What is kept of a list is a list, of elements of it.
LEMMA SelectionIsList ==
    ASSUME NEW seq, IsList(seq), NEW S
    PROVE  \E k, order : /\ IsSelection(Those(seq, S), seq, S, k, order)
                         /\ k \in Nat /\ DOMAIN Those(seq, S) = 1..k /\ IsList(Those(seq, S))
<1> DEFINE t == Those(seq, S)
<1>1. PICK k, order : IsSelection(t, seq, S, k, order) BY ThoseSelected DEF IsList
<1>2. /\ k \in Nat /\ t = [n \in 1..k |-> seq[order[n]]]
      /\ \A n \in 1..k : order[n] \in 1..Len(seq)
  BY <1>1 DEF IsSelection
<1>3. \A n \in 1..k : seq[order[n]] \in ToSet(seq) BY <1>2, ListParts
<1>4. t \in [1..k -> ToSet(seq)] BY <1>2, <1>3
<1> HIDE DEF t
<1>5. IsList(t) /\ DOMAIN t = 1..k BY <1>2, <1>4, FunctionIsList
<1>6. QED BY <1>1, <1>2, <1>5 DEF t

\* The plan as a list; what else can be asked about is no section.
LEMMA SectionsList ==
    /\ Len(Sections) \in Nat /\ 1 \in DOMAIN Sections /\ DOMAIN Sections = 1..Len(Sections)
    /\ IsList(Sections)
    /\ \A i \in 1..Len(Sections) : Sections[i] \in Section
    /\ \A s \in Section : IsFiniteSet(Required[s]) /\ s \notin {"entity", "claim", "weak"}
<1> DEFINE T == STRING \ {"entity", "claim", "weak"}
           m == Len(Sections)
<1>1. Sections \in Seq(T) /\ Sections # <<>> BY SectionsAssumption
<1>2. \A s \in T : s \notin {"entity", "claim", "weak"} OBVIOUS
<1> HIDE DEF T
<1>3. m \in Nat /\ m > 0 /\ DOMAIN Sections = 1..m /\ Sections \in [1..m -> T] BY <1>1
<1>4. IsList(Sections)
  <2> HIDE DEF m
  <2>1. QED BY <1>3, FunctionIsList
<1> HIDE DEF m
<1>5. \A i \in 1..m : Sections[i] \in Section /\ Sections[i] \in T BY <1>3 DEF Section
<1>6. \A s \in Section : s \notin {"entity", "claim", "weak"} BY <1>2, <1>3 DEF Section
<1>7. \A s \in Section : IsFiniteSet(Required[s]) BY SectionsAssumption
<1>8. 1 \in 1..m BY <1>3
<1>9. QED BY <1>3, <1>4, <1>5, <1>6, <1>7, <1>8 DEF m

\* The gaps of the sections, and then what is doubtful, can be planned for ...
LEMMA GapsAreRequests ==
    ASSUME NEW P, NEW doubts
    PROVE  IsRequests([i \in DOMAIN Insufficient(P) |-> SectionGap(Insufficient(P)[i], P)]
                      \o Those(<<EntityGap, ClaimGap, WeakGap>>, doubts))
<1> DEFINE missing == Insufficient(P)
           others == <<EntityGap, ClaimGap, WeakGap>>
           doubtful == Those(others, doubts)
           A == [i \in DOMAIN missing |-> SectionGap(missing[i], P)]
           gaps == A \o doubtful
<1>1. PICK k, order : /\ IsSelection(missing, Sections, {s \in Section : ~Sufficient(P, s)},
                                     k, order)
                      /\ k \in Nat /\ DOMAIN missing = 1..k
  BY SectionsList, SelectionIsList DEF Insufficient
<1>2. \A n \in 1..k : missing[n] = Sections[order[n]] /\ order[n] \in 1..Len(Sections)
  BY <1>1 DEF IsSelection
<1>3. IsList(others) /\ DOMAIN others = 1..3
      /\ \A i \in 1..3 : others[i] \in {EntityGap, ClaimGap, WeakGap}
  <2>1. others \in [1..3 -> {EntityGap, ClaimGap, WeakGap}] /\ 3 \in Nat OBVIOUS
  <2> HIDE DEF others
  <2>2. QED BY <2>1, FunctionIsList
<1>4. PICK l, o : /\ IsSelection(doubtful, others, doubts, l, o)
                  /\ l \in Nat /\ DOMAIN doubtful = 1..l
  <2> HIDE DEF others
  <2>1. QED BY <1>3, SelectionIsList
<1>5. \A n \in 1..l : doubtful[n] \in {EntityGap, ClaimGap, WeakGap}
  <2> HIDE DEF doubtful
  <2>1. Len(others) = 3 OBVIOUS
  <2> HIDE DEF others
  <2>2. \A n \in 1..l : doubtful[n] = others[o[n]] /\ o[n] \in 1..Len(others)
    BY <1>4 DEF IsSelection
  <2>3. QED BY <1>3, <2>1, <2>2
<1>6. \A g \in {EntityGap, ClaimGap, WeakGap} : IsFiniteSet(g.types)
  <2>1. \A g \in {EntityGap, ClaimGap, WeakGap} :
           g.types = {"official_site"} \cup {"docs"} \/ g.types = {"official_site"}
    BY DEF EntityGap, ClaimGap, WeakGap
  <2>2. IsFiniteSet({"official_site"}) BY FS_Singleton
  <2>3. IsFiniteSet({"official_site"} \cup {"docs"}) BY <2>2, FS_AddElement
  <2>4. QED BY <2>1, <2>2, <2>3
<1>7. \A n \in 1..k : A[n].types \subseteq Required[Sections[order[n]]]
  BY <1>1, <1>2, SectionsList DEF SectionGap, Missing
<1>8. \A n \in 1..k : IsFiniteSet(A[n].types)
  <2> SUFFICES ASSUME NEW n \in 1..k PROVE IsFiniteSet(A[n].types) OBVIOUS
  <2> HIDE DEF A
  <2>1. A[n].types \in SUBSET Required[Sections[order[n]]] BY <1>7
  <2>2. IsFiniteSet(Required[Sections[order[n]]]) BY <1>2, SectionsList
  <2>3. QED BY <2>1, <2>2, FS_Subset
<1>9. IsList(A) /\ IsList(doubtful) /\ DOMAIN A = 1..k /\ DOMAIN doubtful = 1..l
  <2>1. A \in [1..k -> {A[n] : n \in 1..k}] BY <1>1
  <2>2. doubtful \in [1..l -> {doubtful[n] : n \in 1..l}] BY <1>4 DEF IsSelection
  <2> HIDE DEF A, doubtful
  <2>3. QED BY <1>1, <1>4, <2>1, <2>2, FunctionIsList
<1> HIDE DEF A, doubtful, others, missing
<1> DEFINE T == {A[n] : n \in 1..k} \cup {doubtful[n] : n \in 1..l}
<1>10. /\ DOMAIN gaps = 1..k + l /\ gaps \in Seq(T)
       /\ \A n \in 1..k : gaps[n] = A[n]
       /\ \A n \in 1..k + l : n \notin 1..k => n - k \in 1..l /\ gaps[n] = doubtful[n - k]
  <2>1. A \in Seq(ToSet(A)) /\ doubtful \in Seq(ToSet(doubtful)) BY <1>9 DEF IsList
  <2>2. ToSet(A) \subseteq T /\ ToSet(doubtful) \subseteq T BY <1>9 DEF ToSet
  <2> HIDE DEF T
  <2>3. A \in Seq(T) /\ doubtful \in Seq(T) /\ Len(A) = k /\ Len(doubtful) = l
    BY <1>1, <1>4, <1>9, <2>1, <2>2
  <2>4. QED BY <1>1, <1>4, <2>3
<1> HIDE DEF gaps
<1>11. IsList(gaps)
  <2> HIDE DEF T
  <2>1. gaps \in [1..Len(gaps) -> T] /\ Len(gaps) \in Nat BY <1>10
  <2>2. QED BY <2>1, FunctionIsList
<1>12. \A n \in DOMAIN gaps : IsFiniteSet(gaps[n].types) BY <1>5, <1>6, <1>8, <1>10
<1>13. QED BY <1>11, <1>12 DEF IsRequests, gaps, A, doubtful, others, missing

\* ... and so can those of them that are requested.
LEMMA FewerRequests ==
    ASSUME NEW gaps, IsRequests(gaps), NEW S
    PROVE  IsRequests(Those(gaps, S))
<1> DEFINE t == Those(gaps, S)
<1>1. PICK k, order : /\ IsSelection(t, gaps, S, k, order)
                      /\ k \in Nat /\ DOMAIN t = 1..k /\ IsList(t)
  BY SelectionIsList DEF IsRequests
<1>2. \A n \in 1..k : t[n] = gaps[order[n]] /\ order[n] \in 1..Len(gaps)
  <2> HIDE DEF t
  <2>1. QED BY <1>1 DEF IsSelection
<1>3. DOMAIN gaps = 1..Len(gaps) BY ListParts DEF IsRequests
<1> HIDE DEF t
<1>4. \A n \in DOMAIN t : IsFiniteSet(t[n].types) BY <1>1, <1>2, <1>3 DEF IsRequests
<1>5. QED BY <1>1, <1>4 DEF IsRequests, t

\* The strategies of a retry are due in one round, and those that are wanted
\* first are among the ones it has room for.
Planned ==
    /\ IsList(strategies)
    /\ \A n \in DOMAIN strategies : strategies[n].round = iterations + 1
    /\ \A i \in Fitting : \E n \in DOMAIN strategies \cap 1..StrategiesPerRound :
             strategies[n].about = requests[i].about

\* What is wanted has been asked about, or is among what is left to do.
Pursued(about) ==
    \/ \E a \in asked : a.about = about
    \/ \E n \in DOMAIN todo : \E a \in todo[n] : a.about = about

\* What the planner makes of the requests is as Planned says.
LEMMA PlanOfRetry ==
    ASSUME IsRequests(requests), requests # <<>>,
           NEW r, NEW s, s = StrategiesFor(r, requests)
    PROVE  /\ IsList(s)
           /\ \A n \in DOMAIN s : s[n].round = r
           /\ \A i \in Fitting : \E n \in DOMAIN s \cap 1..StrategiesPerRound :
                 s[n].about = requests[i].about
<1>1. IsWants(requests, Len(requests)) /\ DOMAIN requests = 1..Len(requests)
  BY ListParts DEF IsRequests, IsWants
<1>2. /\ \E k \in Nat : DOMAIN s = 1..k
      /\ \A n \in DOMAIN s : s[n].round = r
      /\ \A i \in 1..Len(requests) : \E n \in DOMAIN s :
            s[n].about = requests[i].about /\ n = Cardinality(Until(requests, i))
  BY <1>1, StrategiesParts
<1>3. PICK k \in Nat : DOMAIN s = 1..k BY <1>2
<1>4. IsList(s)
  <2>1. \E order : s = [n \in DOMAIN order |-> Strategy(r, requests[order[n][1]].about)]
    BY DEF StrategiesFor
  <2>2. s \in [1..k -> {s[n] : n \in 1..k}] BY <1>3, <2>1
  <2>3. QED BY <1>3, <2>2, FunctionIsList
<1>5. ASSUME NEW i \in Fitting
      PROVE  \E n \in DOMAIN s \cap 1..StrategiesPerRound : s[n].about = requests[i].about
  <2>1. PICK n \in DOMAIN s :
           s[n].about = requests[i].about /\ n = Cardinality(Until(requests, i))
    BY <1>1, <1>2, <1>5 DEF Fitting
  <2>2. n <= StrategiesPerRound BY <1>5, <2>1 DEF Fitting
  <2>3. n \in 1..StrategiesPerRound BY <1>3, <2>2, BoundsAssumption
  <2>4. QED BY <2>1, <2>3
<1>6. QED BY <1>2, <1>4, <1>5

\* A round has a list of things to do ...
LEMMA WorkIsList ==
    ASSUME IsList(strategies), NEW r, NEW P
    PROVE  IsList(WorkItems(r, P))
<1> DEFINE w == WorkItems(r, P)
           due == Due(r)
<1>1. PICK k \in Nat : DOMAIN due = 1..k
  <2>1. \E k, order : /\ IsSelection(due, strategies, {s \in ToSet(strategies) : s.round = r},
                                     k, order)
                      /\ k \in Nat /\ DOMAIN due = 1..k /\ IsList(due)
    BY SelectionIsList DEF Due
  <2> HIDE DEF due
  <2>2. QED BY <2>1
<1>2. CASE due = <<>>
  <2>1. w = [i \in 1..Tools |-> Hints(r, P)] BY <1>2 DEF WorkItems
  <2>2. Tools \in Nat /\ w \in [1..Tools -> {Hints(r, P)}]
    <3>1. Tools \in Nat BY BoundsAssumption
    <3>2. QED BY <2>1, <3>1
  <2> HIDE DEF w
  <2>3. IsList(w) BY <2>2, FunctionIsList
  <2>4. QED BY <2>3 DEF w
<1>3. CASE due # <<>>
  <2>1. w = [i \in DOMAIN due \cap 1..StrategiesPerRound |-> {due[i]}]
    BY <1>3 DEF WorkItems
  <2>2. PICK l \in Nat : DOMAIN due \cap 1..StrategiesPerRound = 1..l
    <3>1. StrategiesPerRound \in Nat BY BoundsAssumption
    <3>2. \/ (1..k) \cap (1..StrategiesPerRound) = 1..k
          \/ (1..k) \cap (1..StrategiesPerRound) = 1..StrategiesPerRound
      BY <1>1, <3>1
    <3>3. QED BY <1>1, <3>1, <3>2
  <2> HIDE DEF due
  <2>3. w \in [1..l -> {{due[i]} : i \in 1..l}] BY <2>1, <2>2
  <2> HIDE DEF w
  <2>4. IsList(w) BY <2>3, FunctionIsList
  <2>5. QED BY <2>4 DEF w
<1>4. QED BY <1>2, <1>3

\* ... and in the round of its strategies what there is room for is on it.
LEMMA WorkOfRetry ==
    ASSUME Planned, NEW P, NEW i \in Fitting
    PROVE  \E n \in DOMAIN WorkItems(iterations + 1, P) :
              \E a \in WorkItems(iterations + 1, P)[n] : a.about = requests[i].about
<1> DEFINE due == Due(iterations + 1)
           S == {s \in ToSet(strategies) : s.round = iterations + 1}
<1>1. PICK p \in DOMAIN strategies \cap 1..StrategiesPerRound :
         strategies[p].about = requests[i].about
  BY DEF Planned
<1>2. IsList(strategies) /\ strategies[p].round = iterations + 1 BY <1>1 DEF Planned
<1>3. p \in 1..Len(strategies) /\ strategies[p] \in S BY <1>1, <1>2, ListParts
<1>4. PICK k, order : IsSelection(due, strategies, S, k, order) /\ k \in Nat /\ DOMAIN due = 1..k
  BY <1>2, SelectionIsList DEF Due
<1> HIDE DEF S, due
<1>5. PICK n \in 1..k : order[n] = p /\ due[n] = strategies[p] /\ n <= p
  BY <1>3, <1>4 DEF IsSelection
<1>6. n \in DOMAIN due /\ n \in 1..StrategiesPerRound BY <1>1, <1>4, <1>5, BoundsAssumption
<1>7. due # <<>> BY <1>6
<1>8. WorkItems(iterations + 1, P) = [j \in DOMAIN due \cap 1..StrategiesPerRound |-> {due[j]}]
  BY <1>7 DEF WorkItems, due
<1>9. n \in DOMAIN WorkItems(iterations + 1, P) /\ due[n] \in WorkItems(iterations + 1, P)[n]
  BY <1>6, <1>8
<1>10. QED BY <1>1, <1>5, <1>9

\* A round of a retry that is not the one of its strategies ends the collection only if all
\* sections are covered, all fetches have failed or, after the first, nothing new was found.
LEMMA OtherRoundOfRetry ==
    ASSUME Planned, round # iterations + 1, NEW P, Reasons(P) # <<>>
    PROVE  \/ Reasons(P)[1][1] = "sufficient" /\ AllSufficient(P)
           \/ Reasons(P)[1][1] = "network_failed" /\ heard = {TRUE}
           \/ Reasons(P)[1][1] = "no_new_evidence" /\ round > 1
<1> DEFINE A == AllSufficient(P)
           N == heard = {TRUE}
           X == HasStrategies /\ ~HasLaterStrategies
           U == X /\ P # {} /\ \A e \in P : ~e.verified
           F == round > 1 /\ P \subseteq pool
           all == <<<<"sufficient", A>>, <<"network_failed", N>>, <<"no_verified_evidence", U>>,
                    <<"query_strategy_exhausted", X>>, <<"no_new_evidence", F>>>>
           t == Reasons(P)
<1>1. ~HasStrategies BY DEF Planned, HasStrategies
<1>2. t = Those(all, STRING \X {TRUE}) BY Zenon DEF Reasons
<1>3. U = FALSE /\ X = FALSE BY <1>1
<1> HIDE DEF A, N, U, X, F
<1>4. /\ IsList(all) /\ Len(all) = 5
      /\ all[1][1] = "sufficient" /\ all[1][2] = A
      /\ all[2][1] = "network_failed" /\ all[2][2] = N
      /\ all[3][2] = FALSE /\ all[4][2] = FALSE
      /\ all[5][1] = "no_new_evidence" /\ all[5][2] = F
  <2>1. 5 \in Nat /\ all \in [1..5 -> {<<"sufficient", A>>, <<"network_failed", N>>,
                 <<"no_verified_evidence", U>>, <<"query_strategy_exhausted", X>>,
                 <<"no_new_evidence", F>>}]
    OBVIOUS
  <2>2. /\ all[1][1] = "sufficient" /\ all[1][2] = A
        /\ all[2][1] = "network_failed" /\ all[2][2] = N
        /\ all[3][2] = U /\ all[4][2] = X
        /\ all[5][1] = "no_new_evidence" /\ all[5][2] = F
    OBVIOUS
  <2> HIDE DEF all
  <2>3. IsList(all) /\ Len(all) = 5 BY <2>1, FunctionIsList
  <2>4. QED BY <1>3, <2>2, <2>3
<1> HIDE DEF all, t
<1>5. PICK k, order : IsSelection(t, all, STRING \X {TRUE}, k, order)
                      /\ k \in Nat /\ DOMAIN t = 1..k /\ IsList(t)
  BY <1>2, <1>4, SelectionIsList
<1>6. 1 \in 1..k
  <2>1. t # <<>> BY DEF t
  <2>2. Len(t) \in Nat /\ Len(t) > 0 /\ DOMAIN t = 1..Len(t) BY <1>5, <2>1, ListParts
  <2>3. 1 \in DOMAIN t BY <2>2
  <2>4. QED BY <1>5, <2>3
<1>7. t[1] = all[order[1]] /\ order[1] \in 1..5 /\ all[order[1]] \in STRING \X {TRUE}
  BY <1>4, <1>5, <1>6 DEF IsSelection
<1>8. order[1] \in {1, 2, 5}
  <2>1. order[1] \in {1, 2, 3, 4, 5} BY <1>7
  <2>2. all[order[1]][2] = TRUE BY <1>7
  <2>3. QED BY <1>4, <2>1, <2>2
<1>9. CASE order[1] = 1
  <2>1. all[1][2] = TRUE BY <1>7, <1>9
  <2>2. A BY <1>4, <2>1
  <2>3. QED BY <1>4, <1>7, <1>9, <2>2 DEF A, t
<1>10. CASE order[1] = 2
  <2>1. all[2][2] = TRUE BY <1>7, <1>10
  <2>2. N BY <1>4, <2>1
  <2>3. QED BY <1>4, <1>7, <1>10, <2>2 DEF N, t
<1>11. CASE order[1] = 5
  <2>1. all[5][2] = TRUE BY <1>7, <1>11
  <2>2. round > 1 BY <1>4, <2>1 DEF F
  <2>3. QED BY <1>4, <1>7, <1>11, <2>2 DEF t
<1>12. QED BY <1>8, <1>9, <1>10, <1>11

\* What a retry was asked for stays ahead of it: in its plan, in what it still does or in
\* what it has asked.
AllPursued == \A i \in Fitting : Pursued(requests[i].about)
Retrying == iterations > 0 /\ requests # <<>>

\* The requests can be planned for when they are, the plan has what they ask for, and from
\* the round of the strategies on the queries, asked or to be, have it.
FollowInv ==
    /\ iterations \in 0..MaxRetries
    /\ node = "route" \/ iterations > 0 => IsRequests(requests)
    /\ Retrying /\ node \in {"start", "collector"} => Planned
    /\ Retrying /\ node = "collector" =>
          /\ round \in Nat \ {0} /\ IsList(todo)
          /\ round > iterations => AllPursued
    /\ FollowedWhenDue

LEMMA FittingKept == ASSUME requests' = requests PROVE Fitting' = Fitting
BY DEF Fitting

LEMMA FollowInit == Init => FollowInv
<1> SUFFICES ASSUME Init PROVE FollowInv OBVIOUS
<1>1. iterations = 0 /\ node = "planner" BY DEF Init
<1>2. MaxRetries \in Nat BY BoundsAssumption
<1>3. QED BY <1>1, <1>2 DEF FollowInv, Retrying, FollowedWhenDue

\* Outside the collector there is nothing to keep but the requests.
LEMMA Elsewhere ==
    ASSUME FollowInv, UNCHANGED <<iterations, requests>>,
           node' \notin {"start", "collector", "critic"},
           node' = "route" => node = "route"
    PROVE  FollowInv'
BY DEF FollowInv, FollowedWhenDue

LEMMA FollowPlan == ASSUME FollowInv, Plan PROVE FollowInv'
<1>1. /\ node' = "start" /\ iterations' = iterations /\ requests' = requests
      /\ strategies' = Strategies(iterations + 1)
  BY DEF Plan
<1>2. ASSUME Retrying PROVE Planned'
  <2>1. requests # <<>> /\ IsRequests(requests)
    BY <1>2 DEF FollowInv, Retrying
  <2>2. strategies' = StrategiesFor(iterations + 1, requests)
    <3>1. iterations + 1 > 1 BY <1>2 DEF FollowInv, Retrying
    <3>2. QED BY <1>1, <2>1, <3>1, Zenon DEF Strategies
  <2>3. QED BY <1>1, <2>1, <2>2, PlanOfRetry, FittingKept DEF Planned
<1>3. Retrying' => Retrying BY <1>1 DEF Retrying
<1>4. QED BY <1>1, <1>2, <1>3 DEF FollowInv, FollowedWhenDue

LEMMA FollowBegin == ASSUME FollowInv, Begin PROVE FollowInv'
<1>1. /\ node = "start" /\ node' = "collector" /\ round' = 1 /\ todo' = WorkItems(1, pool)
      /\ UNCHANGED <<iterations, requests, strategies>>
  BY DEF Begin, BeginFrom, planning
<1>2. Retrying' => Retrying BY <1>1 DEF Retrying
<1>3. Retrying => Planned' /\ IsList(strategies) BY <1>1, FittingKept DEF FollowInv, Planned
<1>4. Retrying => IsList(todo') BY <1>1, <1>3, WorkIsList
<1>5. Retrying => ~(round' > iterations) BY <1>1 DEF FollowInv, Retrying
<1>6. QED BY <1>1, <1>2, <1>3, <1>4, <1>5 DEF FollowInv, FollowedWhenDue

\* What is left of a list without its head.
LEMMA TailParts ==
    ASSUME NEW T, NEW s \in Seq(T), s # <<>>
    PROVE  /\ DOMAIN s = 1..Len(s) /\ Head(s) = s[1]
           /\ Tail(s) \in [1..Len(s) - 1 -> T]
           /\ \A n \in 1..Len(s) - 1 : Tail(s)[n] = s[n + 1]
<1>1. Len(s) \in Nat /\ DOMAIN s = 1..Len(s) /\ Len(s) # 0 OBVIOUS
<1>2. Head(s) = s[1] BY <1>1
<1>3. Tail(s) \in Seq(T) /\ Len(Tail(s)) = Len(s) - 1 BY <1>1
<1>4. Tail(s) \in [1..Len(s) - 1 -> T]
  <2> DEFINE t == Tail(s)
  <2>1. t \in Seq(T) /\ Len(t) = Len(s) - 1 BY <1>3
  <2> HIDE DEF t
  <2>2. t \in [1..Len(t) -> T] BY <2>1
  <2>3. QED BY <2>1, <2>2 DEF t
<1>5. \A n \in 1..Len(s) - 1 : Tail(s)[n] = s[n + 1] BY <1>1
<1>6. QED BY <1>1, <1>2, <1>4, <1>5

LEMMA FollowRunTool == ASSUME FollowInv, RunTool PROVE FollowInv'
<1>1. /\ node = "collector" /\ node' = "collector" /\ todo # <<>>
      /\ asked' = asked \cup Head(todo) /\ todo' = Tail(todo)
      /\ UNCHANGED <<iterations, requests, strategies, round>>
  BY DEF RunTool, planning
<1>2. Retrying' => Retrying BY <1>1 DEF Retrying
<1>3. Retrying => Planned' BY <1>1, FittingKept DEF FollowInv, Planned
<1>4. ASSUME Retrying
      PROVE  /\ IsList(todo')
             /\ \A about : Pursued(about) =>
                   \/ \E a \in asked' : a.about = about
                   \/ \E n \in DOMAIN todo' : \E a \in todo'[n] : a.about = about
  <2> DEFINE T == ToSet(todo)
  <2>1. IsList(todo) BY <1>1, <1>4 DEF FollowInv
  <2>2. todo \in Seq(T) /\ todo # <<>> /\ Len(todo) \in Nat /\ Len(todo) > 0
    BY <1>1, <2>1, ListParts DEF IsList
  <2> HIDE DEF T
  <2>3. /\ DOMAIN todo = 1..Len(todo) /\ Head(todo) = todo[1]
        /\ Tail(todo) \in [1..Len(todo) - 1 -> T]
        /\ \A n \in 1..Len(todo) - 1 : Tail(todo)[n] = todo[n + 1]
    BY <2>2, TailParts
  <2>4. IsList(todo')
    <3>1. Len(todo) - 1 \in Nat /\ todo' \in [1..Len(todo) - 1 -> T] BY <1>1, <2>3
    <3>2. QED BY <3>1, FunctionIsList
  <2>5. ASSUME NEW about, Pursued(about)
        PROVE  \/ \E a \in asked' : a.about = about
               \/ \E n \in DOMAIN todo' : \E a \in todo'[n] : a.about = about
    <3>1. CASE \E a \in asked : a.about = about BY <1>1, <3>1
    <3>2. ASSUME NEW n \in DOMAIN todo, NEW a \in todo[n], a.about = about, n = 1
          PROVE  \E b \in asked' : b.about = about
      BY <1>1, <2>3, <3>2
    <3>3. ASSUME NEW n \in DOMAIN todo, NEW a \in todo[n], a.about = about, n # 1
          PROVE  \E k \in DOMAIN todo' : \E b \in todo'[k] : b.about = about
      <4>1. n - 1 \in 1..Len(todo) - 1 /\ n - 1 + 1 = n BY <2>2, <2>3, <3>3
      <4>2. n - 1 \in DOMAIN todo' /\ todo'[n - 1] = todo[n] BY <1>1, <2>3, <4>1
      <4>3. QED BY <3>3, <4>2
    <3>4. QED BY <2>5, <3>1, <3>2, <3>3 DEF Pursued
  <2>6. QED BY <2>4, <2>5
<1>5. Retrying /\ round > iterations => AllPursued'
  <2> SUFFICES ASSUME Retrying, round > iterations, NEW i \in Fitting
               PROVE  \/ \E a \in asked' : a.about = requests[i].about
                      \/ \E n \in DOMAIN todo' : \E a \in todo'[n] : a.about = requests[i].about
    BY <1>1, FittingKept DEF AllPursued, Pursued
  <2>1. Pursued(requests[i].about) BY <1>1 DEF FollowInv, AllPursued
  <2>2. QED BY <1>4, <2>1
<1>6. QED BY <1>1, <1>2, <1>3, <1>4, <1>5 DEF FollowInv, FollowedWhenDue

LEMMA FollowExhaust == ASSUME FollowInv, ExhaustBudget PROVE FollowInv'
<1>1. /\ node = "collector" /\ node' = "critic" /\ stop' = "tool_budget_exhausted"
      /\ UNCHANGED <<iterations, requests>>
  BY DEF ExhaustBudget, EndCollection, planning
<1>2. QED BY <1>1 DEF FollowInv, FollowedWhenDue

\* Before the round of its strategies the collection of a retry ends only for the reasons
\* excepted, and after it with nothing left to do.
LEMMA FollowEndRound == ASSUME FollowInv, EndRound PROVE FollowInv'
<1>1. /\ node = "collector" /\ todo = <<>>
      /\ UNCHANGED <<iterations, requests, strategies, asked>>
  BY DEF EndRound, EndCollection, planning
<1>2. /\ Retrying => Planned /\ round \in Nat \ {0} /\ (round > iterations => AllPursued)
      /\ iterations \in Nat /\ iterations <= MaxRetries
  BY <1>1, BoundsAssumption DEF FollowInv
<1>3. ASSUME Retrying, round > iterations,
             NEW i \in Fitting
      PROVE  \E a \in asked : a.about = requests[i].about
  <2>1. Pursued(requests[i].about) BY <1>2, <1>3 DEF AllPursued
  <2>2. DOMAIN todo = {} BY <1>1
  <2>3. QED BY <2>1, <2>2 DEF Pursued
<1>4. ASSUME NEW reason, EndCollection(reason),
             Retrying /\ ~(round > iterations) =>
                 \/ reason = "sufficient" /\ AllSufficient(pool')
                 \/ reason = "network_failed" /\ heard = {TRUE}
                 \/ reason = "no_new_evidence" /\ round > 1
                 \/ reason = "max_rounds" /\ round = MaxRounds
      PROVE  FollowInv'
  <2>1. node' = "critic" /\ stop' = reason /\ round' = round /\ heard' = heard
    BY <1>4 DEF EndCollection
  <2>2. SUFFICES ASSUME Retrying, ~EndsBeforeDue', NEW i \in Fitting
                 PROVE  \E a \in asked : a.about = requests[i].about
    <3>1. ~Retrying => ~(iterations > 0) \/ Fitting = {} BY DEF Retrying, Fitting
    <3>2. QED BY <1>1, <1>2, <2>1, <3>1, FittingKept DEF FollowInv, FollowedWhenDue
  <2>3. CASE ~(round > iterations)
    <3>1. round \in Nat /\ round <= iterations BY <1>2, <2>2, <2>3
    <3>2. EndsBeforeDue'
      <4>1. AllSufficient(pool)' = AllSufficient(pool')
        BY DEF AllSufficient, Sufficient, OfSection, Missing
      <4>2. reason = "no_new_evidence" /\ round > 1 => iterations > 1 BY <1>2, <3>1
      <4>3. round = MaxRounds => MaxRounds <= iterations BY <3>1
      <4>4. QED BY <1>1, <1>4, <2>1, <2>2, <2>3, <3>1, <4>1, <4>2, <4>3 DEF EndsBeforeDue
    <3>3. QED BY <2>2, <3>2
  <2>4. CASE round > iterations BY <1>3, <2>2, <2>4
  <2>5. QED BY <2>3, <2>4
<1>5. CASE Reasons(pool') # <<>> /\ EndCollection(Reasons(pool')[1][1])
  <2>1. ASSUME Retrying, ~(round > iterations)
        PROVE  \/ Reasons(pool')[1][1] = "sufficient" /\ AllSufficient(pool')
               \/ Reasons(pool')[1][1] = "network_failed" /\ heard = {TRUE}
               \/ Reasons(pool')[1][1] = "no_new_evidence" /\ round > 1
    <3>1. round # iterations + 1 BY <1>2, <2>1
    <3>2. QED BY <1>2, <1>5, <2>1, <3>1, OtherRoundOfRetry
  <2>2. QED BY <1>4, <1>5, <2>1
<1>6. CASE round = MaxRounds /\ EndCollection("max_rounds")
  BY <1>4, <1>6
<1>7. CASE round' = round + 1 /\ todo' = WorkItems(round + 1, pool') /\ node' = node
  <2>1. Retrying' => Retrying BY <1>1 DEF Retrying
  <2>2. Retrying => Planned' BY <1>1, <1>2, FittingKept DEF Planned
  <2>3. Retrying => round' \in Nat \ {0} BY <1>2, <1>7
  <2>4. Retrying => IsList(todo') BY <1>2, <1>7, WorkIsList DEF Planned
  <2>5. Retrying /\ round' > iterations => AllPursued'
    <3> SUFFICES ASSUME Retrying, round' > iterations,
                        NEW i \in Fitting
                 PROVE  \/ \E a \in asked : a.about = requests[i].about
                        \/ \E n \in DOMAIN todo' : \E a \in todo'[n] : a.about = requests[i].about
      BY <1>1, FittingKept DEF AllPursued, Pursued
    <3>1. CASE round = iterations
      <4>1. todo' = WorkItems(iterations + 1, pool') BY <1>7, <3>1
      <4>2. QED BY <1>2, <4>1, WorkOfRetry
    <3>2. CASE round # iterations
      <4>1. round > iterations BY <1>2, <1>7, <3>2
      <4>2. QED BY <1>3, <4>1
    <3>3. QED BY <3>1, <3>2
  <2>6. QED BY <1>1, <1>7, <2>1, <2>2, <2>3, <2>4, <2>5 DEF FollowInv, FollowedWhenDue
<1>8. QED BY <1>5, <1>6, <1>7 DEF EndRound

LEMMA FollowCriticise == ASSUME FollowInv, Criticise PROVE FollowInv'
<1>1. /\ node' = "route" /\ iterations' = iterations BY DEF Criticise
<1>2. IsRequests(requests')
  <2>1. PICK doubts \in SUBSET {EntityGap, ClaimGap, WeakGap} :
           requests' = Requests([i \in DOMAIN Insufficient(pool) |->
                                    SectionGap(Insufficient(pool)[i], pool)]
                                \o Those(<<EntityGap, ClaimGap, WeakGap>>, doubts))
    BY Zenon DEF Criticise
  <2> DEFINE gaps == [i \in DOMAIN Insufficient(pool) |-> SectionGap(Insufficient(pool)[i], pool)]
                     \o Those(<<EntityGap, ClaimGap, WeakGap>>, doubts)
  <2>2. IsRequests(gaps) BY GapsAreRequests
  <2> HIDE DEF gaps
  <2>3. IsRequests(Requests(gaps)) BY <2>2, FewerRequests DEF Requests
  <2>4. QED BY <2>1, <2>3 DEF gaps
<1>3. IsRequests(requests)' BY <1>2
<1>4. QED BY <1>1, <1>3 DEF FollowInv, FollowedWhenDue

LEMMA FollowRetry == ASSUME FollowInv, RecordRetry PROVE FollowInv'
<1>1. /\ node = "route" /\ node' = "planner" /\ requests' = requests
      /\ iterations < MaxRetries
      /\ iterations' = iterations + 1
  BY DEF RecordRetry, MayRetry
<1>2. iterations' \in 0..MaxRetries
  <2>1. MaxRetries \in Nat BY BoundsAssumption
  <2>2. QED BY <1>1, <2>1 DEF FollowInv
<1>3. IsRequests(requests)' BY <1>1 DEF FollowInv
<1>4. QED BY <1>1, <1>2, <1>3 DEF FollowInv, FollowedWhenDue

LEMMA FollowStep == FollowInv /\ [Next]_vars => FollowInv'
<1> SUFFICES ASSUME FollowInv, [Next]_vars PROVE FollowInv'
  OBVIOUS
<1>1. CASE Report
  BY <1>1, Elsewhere DEF Report, planning
<1>2. CASE Done \/ UNCHANGED vars
  <2>1. UNCHANGED <<node, iterations, requests, strategies, round, todo, stop, heard, asked,
                  pool>>
    BY <1>2 DEF Done, vars, planning, collecting
  <2>2. /\ Planned' = Planned /\ IsList(todo)' = IsList(todo) /\ AllPursued' = AllPursued
        /\ Retrying' = Retrying /\ IsRequests(requests)' = IsRequests(requests)
        /\ FollowedWhenDue' = FollowedWhenDue
    BY <2>1, FittingKept DEF Planned, AllPursued, Pursued, Retrying, FollowedWhenDue,
                             EndsBeforeDue, AllSufficient, Sufficient, OfSection, Missing
  <2>3. QED BY <2>1, <2>2 DEF FollowInv
<1>3. QED BY <1>1, <1>2, FollowPlan, FollowBegin, FollowRunTool, FollowExhaust, FollowEndRound,
             FollowCriticise, FollowRetry DEF Next

LEMMA FollowInvariance == Spec => []FollowInv
BY FollowInit, FollowStep, PTL DEF Spec

\* Whatever the bounds of a run are, a retry asks about everything the critique requested that
\* a round has room for, unless its calls are used up or it ends before the round of its
\* strategies: because all is covered, its fetches fail, nothing new is found in the first of
\* two rounds before that one, or there are no more rounds than retries
\* (_build_replan_query_strategies, _cap_query_strategies, _collection_stop_reason).
THEOREM GapsFollowed == Spec => []FollowedWhenDue
<1>1. FollowInv => FollowedWhenDue
  BY DEF FollowInv
<1> QED BY <1>1, FollowInvariance, PTL
====
