---- MODULE ReportingProofs ----
(***************************************************************************)
(* The safety properties of Reporting, for all evidence, plans, answers of *)
(* models, settings and bounds.                                            *)
(*                                                                         *)
(*  - BudgetInv: a call is only open if it was begun below the budget.     *)
(*  - GroundInv: an analysis rests on the verified evidence there is.      *)
(*  - SupportInv: the critic has judged the findings in their order, and   *)
(*    each of them before there is a report.                               *)
(*  - ReportInv: what the reporter or a reviewer writes cites what may be  *)
(*    cited and has the sections it must have, and what the program writes *)
(*    claims what it may and must claim.                                   *)
(*                                                                         *)
(* They hold together: to know what a report may claim, the last needs the *)
(* ones before it.                                                         *)
(***************************************************************************)
EXTENDS Reporting, FiniteSetTheorems, SequenceTheorems, WellFoundedInduction, TLAPS
----------------------------------------------------------------------------
(* The budget of tokens *)

\* The stages whose calls are recorded in the log.
Recording == {"filter", "analyse", "write", "review"}

\* Nobody asks a model before there is evidence or after the review.
OpenInStage == call.open => at \in Recording \cup {"criticise"}

\* A call that is still open at such a stage was begun below the budget, and nothing is
\* recorded while it is open; so only the answer to it can lead out of the budget.
OpenBelowBudget == call.open /\ at \in Recording => tokens < MaxTokens

\* What the log has exceeds the budget by less than one answer.
OverByOneAnswer == tokens < MaxTokens \/ \E c \in Costs : tokens < MaxTokens + c

BudgetInv ==
    /\ tokens \in Nat
    /\ DOMAIN call = {"left", "attempt", "open"}
    /\ OpenInStage
    /\ OpenBelowBudget
    /\ OverByOneAnswer

\* No call is open and nothing is recorded.
LEMMA BudgetInit == Init => BudgetInv
  BY CountsAssumption DEF Init, BudgetInv, OpenInStage, OpenBelowBudget, OverByOneAnswer, NoCall, Recording

\* An answer that is recorded was asked for below the budget.
LEMMA RecordedAnswer ==
    ASSUME BudgetInv, call.open, at \in Recording,
           NEW cost \in Costs, Records(cost), Hangup
    PROVE  BudgetInv'
  <1>1. tokens \in Nat /\ tokens < MaxTokens /\ cost \in Nat /\ MaxTokens \in Nat
    BY CountsAssumption DEF BudgetInv, OpenBelowBudget
  <1>2. tokens' = tokens + cost /\ call' = NoCall
    BY DEF Records, Hangup
  <1> QED BY <1>1, <1>2 DEF BudgetInv, OpenInStage, OpenBelowBudget, OverByOneAnswer, NoCall

\* A call ends of which nothing is recorded.
LEMMA NothingRecorded ==
    ASSUME BudgetInv, UNCHANGED tokens, Hangup
    PROVE  BudgetInv'
  BY DEF BudgetInv, OpenInStage, OpenBelowBudget, OverByOneAnswer, Hangup, NoCall

\* No call is open, before and after.
LEMMA NothingOpen ==
    ASSUME BudgetInv, UNCHANGED <<tokens, call>>, ~call.open
    PROVE  BudgetInv'
  BY DEF BudgetInv, OpenInStage, OpenBelowBudget, OverByOneAnswer

\* A call is begun, below the budget or at a stage that the budget does not cover.
LEMMA CallBegun ==
    ASSUME BudgetInv, UNCHANGED tokens, NEW first, CallWith(first),
           at' \in Recording \cup {"criticise"}, MayCall \/ at' = "criticise"
    PROVE  BudgetInv'
  BY DEF Recording, BudgetInv, OpenInStage, OpenBelowBudget, OverByOneAnswer, MayCall, CallWith

\* Every step: the stages ask, answers and failures come, calls are tried again.
LEMMA BudgetStep == BudgetInv /\ [Next]_vars => BudgetInv'
  <1> SUFFICES ASSUME BudgetInv, [Next]_vars PROVE BudgetInv'
    OBVIOUS
  <1>1. CASE TryAgain
    BY <1>1 DEF TryAgain, BudgetInv, OpenInStage, OpenBelowBudget, OverByOneAnswer
  <1>2. CASE TryNext
    BY <1>2 DEF TryNext, BudgetInv, OpenInStage, OpenBelowBudget, OverByOneAnswer
  <1>3. CASE Collect
    BY <1>3 DEF Collect, BudgetInv, OpenInStage, OpenBelowBudget, OverByOneAnswer, Recording
  <1>4. CASE AskRelevance
    BY <1>4, CallBegun, NothingOpen DEF AskRelevance, Waiting, Recording
  <1>5. CASE RelevanceAnswered
    <2>1. Asking("filter") /\ Hangup
      BY <1>5 DEF RelevanceAnswered
    <2>2. UNCHANGED tokens \/ \E cost \in Costs : Records(cost)
      BY <1>5 DEF RelevanceAnswered
    <2> QED BY <2>1, <2>2, RecordedAnswer, NothingRecorded DEF Asking, Recording
  <1>6. CASE Analyse
    BY <1>6, CallBegun, NothingOpen DEF Analyse, Waiting, NewClient, Recording
  <1>7. CASE AnalysisAnswered
    <2>1. Asking("analyse") /\ Hangup
      BY <1>7 DEF AnalysisAnswered
    <2>2. UNCHANGED tokens \/ \E cost \in Costs : Records(cost)
      BY <1>7 DEF AnalysisAnswered
    <2> QED BY <2>1, <2>2, RecordedAnswer, NothingRecorded DEF Asking, Recording
  <1>8. CASE Judge
    <2>1. UNCHANGED tokens /\ ~call.open /\ at' = "criticise"
      BY <1>8 DEF Judge, Waiting
    <2>2. UNCHANGED call \/ \E first \in Nat \cup {model} : CallWith(first)
      BY <1>8 DEF Judge
    <2> QED BY <2>1, <2>2, CallBegun, NothingOpen
  <1>9. CASE JudgeAnswered
    BY <1>9, NothingRecorded DEF JudgeAnswered
  <1>10. CASE Criticise
    BY <1>10, NothingOpen DEF Criticise, Waiting
  <1>11. CASE Write
    BY <1>11, CallBegun, NothingOpen DEF Write, Waiting, NewClient, Recording
  <1>12. CASE Written
    <2>1. Asking("write") /\ Hangup
      BY <1>12 DEF Written
    <2>2. UNCHANGED tokens \/ \E cost \in Costs : Records(cost)
      BY <1>12 DEF Written
    <2> QED BY <2>1, <2>2, RecordedAnswer, NothingRecorded DEF Asking, Recording
  <1>13. CASE Review
    BY <1>13, CallBegun, NothingOpen DEF Review, Waiting, NewClient, Recording
  <1>14. CASE ReviewAnswered
    <2>1. Asking("review") /\ Hangup
      BY <1>14 DEF ReviewAnswered
    <2>2. UNCHANGED tokens \/ \E cost \in Costs : Records(cost)
      BY <1>14 DEF ReviewAnswered
    <2> QED BY <2>1, <2>2, RecordedAnswer, NothingRecorded DEF Asking, Recording
  <1>15. CASE Diagnose
    BY <1>15 DEF Diagnose, BudgetInv, OpenInStage, OpenBelowBudget, OverByOneAnswer, Recording
  <1>16. CASE UNCHANGED vars
    BY <1>16 DEF vars, BudgetInv, OpenInStage, OpenBelowBudget, OverByOneAnswer
  <1> QED
    BY <1>1, <1>2, <1>3, <1>4, <1>5, <1>6, <1>7, <1>8, <1>9, <1>10, <1>11, <1>12,
       <1>13, <1>14, <1>15, <1>16 DEF Next

\* The invariant implies the bound.
LEMMA BudgetSuffices == BudgetInv => TokensWithinBudget
  <1> SUFFICES ASSUME BudgetInv, NEW cost \in Costs, \A c \in Costs : c <= cost
               PROVE  tokens < MaxTokens + cost
    BY DEF TokensWithinBudget
  <1>1. tokens \in Nat /\ MaxTokens \in Nat /\ Costs \subseteq Nat
    BY CountsAssumption DEF BudgetInv
  <1> QED BY <1>1 DEF BudgetInv, OverByOneAnswer

\* The log of calls exceeds the budget of tokens by less than one answer, for every
\* budget, every client with its retries and fallbacks, every number of rounds and of
\* review passes, and whatever the models say.
THEOREM BudgetOfTokens == Spec => []TokensWithinBudget
  <1>1. BudgetInv => TokensWithinBudget
    BY BudgetSuffices
  <1> QED BY BudgetInit, BudgetStep, <1>1, PTL DEF Spec
----------------------------------------------------------------------------
(* Sequences *)

\* Induction up to a bound, for a set of numbers.
LEMMA UpToBound ==
    ASSUME NEW m \in Nat, NEW Good, 0 \in Good, \A n \in 1..m : n - 1 \in Good => n \in Good
    PROVE  \A n \in 0..m : n \in Good
  <1> DEFINE Bad == (0..m) \ Good
  <1> SUFFICES ASSUME Bad # {} PROVE FALSE
    OBVIOUS
  <1>1. Bad \subseteq Nat
    OBVIOUS
  <1> HIDE DEF Bad
  <1>2. PICK n \in Bad : \A k \in Bad : <<k, n>> \notin OpToRel(<, Nat)
    BY <1>1, NatLessThanWellFounded, WFMin
  <1>3. n \in Nat /\ n # 0 /\ n \in 1..m /\ n \notin Good
    BY DEF Bad
  <1>4. n - 1 \notin Bad
    <2> SUFFICES ASSUME n - 1 \in Bad PROVE FALSE
      OBVIOUS
    <2>1. <<n - 1, n>> \in Nat \X Nat /\ <<n - 1, n>>[1] < <<n - 1, n>>[2]
      BY <1>3
    <2>2. <<n - 1, n>> \in OpToRel(<, Nat)
      BY <2>1 DEF OpToRel
    <2> QED BY <1>2, <2>2
  <1>5. n - 1 \in Good
    BY <1>3, <1>4 DEF Bad
  <1> QED BY <1>3, <1>5

\* A function that is defined by recursion on the numbers up to a bound.
IsStep(step, m, T) == \A n \in 1..m : \A x \in T : step[<<n, x>>] \in T
IsRecursive(f, base, step, m, T) ==
    /\ f[0] = base
    /\ \A n \in 0..m : f[n] \in T
    /\ \A n \in 1..m : f[n] = step[<<n, f[n - 1]>>]

\* There is one.
LEMMA Recursion ==
    ASSUME NEW m \in Nat, NEW T, NEW base \in T, NEW step, IsStep(step, m, T)
    PROVE  \E f : IsRecursive(f, base, step, m, T)
  <1> DEFINE Recursive(k, f) == f[0] = base /\ \A n \in 1..k : f[n] = step[<<n, f[n - 1]>>]
             Good == {k \in 0..m : \E f \in [0..k -> T] : Recursive(k, f)}
  <1>1. 0 \in Good
    <2> DEFINE f == [n \in 0..0 |-> base]
    <2>1. f \in [0..0 -> T] /\ Recursive(0, f) /\ 0 \in 0..m
      OBVIOUS
    <2> QED BY <2>1
  <1>2. ASSUME NEW k \in 1..m, k - 1 \in Good PROVE k \in Good
    <2>1. PICK f \in [0..(k - 1) -> T] : Recursive(k - 1, f)
      BY <1>2
    <2> DEFINE g == [n \in 0..k |-> IF n < k THEN f[n] ELSE step[<<k, f[k - 1]>>]]
    <2>2. k \in Nat /\ k > 0 /\ k - 1 \in 0..(k - 1) /\ k \in 0..m
      OBVIOUS
    <2>3. f[k - 1] \in T
      BY <2>2
    <2>4. step[<<k, f[k - 1]>>] \in T
      BY <2>3 DEF IsStep
    <2>5. g \in [0..k -> T]
      <3>1. ASSUME NEW n \in 0..k, n < k PROVE f[n] \in T
        BY <2>2, <3>1
      <3> QED BY <2>4, <3>1
    <2>6. g[0] = base
      BY <2>1, <2>2
    <2>7. ASSUME NEW n \in 1..k PROVE g[n] = step[<<n, g[n - 1]>>]
      <3>1. n - 1 \in 0..k /\ n - 1 < k /\ n \in 0..k
        BY <2>2
      <3>2. g[n - 1] = f[n - 1]
        BY <3>1
      <3>3. CASE n < k
        <4>1. n \in 1..(k - 1)
          BY <2>2, <3>3
        <4>2. f[n] = step[<<n, f[n - 1]>>]
          BY <2>1, <4>1
        <4> QED BY <3>1, <3>2, <3>3, <4>2
      <3>4. CASE n = k
        BY <2>2, <3>1, <3>2, <3>4
      <3>5. n < k \/ n = k
        BY <2>2
      <3> HIDE DEF g
      <3> QED BY <3>3, <3>4, <3>5
    <2> HIDE DEF g
    <2>8. Recursive(k, g)
      BY <2>6, <2>7
    <2> QED BY <2>2, <2>5, <2>8
  <1> HIDE DEF Good
  <1>3. \A k \in 0..m : k \in Good
    BY <1>1, <1>2, UpToBound
  <1>4. m \in Good
    BY <1>3
  <1>5. PICK f \in [0..m -> T] : Recursive(m, f)
    BY <1>4 DEF Good
  <1>6. \A n \in 0..m : f[n] \in T
    OBVIOUS
  <1> QED BY <1>5, <1>6 DEF IsRecursive

\* What those of a sequence are is built up along it.
IsFilter(f, seq, S, T) ==
    /\ Those(seq, S) = f[Len(seq)]
    /\ f[0] = <<>>
    /\ \A n \in 0..Len(seq) : f[n] \in Seq(T)
    /\ \A n \in 1..Len(seq) :
          /\ seq[n] \in S => f[n] = Append(f[n - 1], seq[n])
          /\ seq[n] \notin S => f[n] = f[n - 1]

\* Those is a filter: it keeps what is in the set, in order.
LEMMA Filtering ==
    ASSUME NEW T, NEW seq \in Seq(T), NEW S
    PROVE  \E f : IsFilter(f, seq, S, T)
  <1> DEFINE m == Len(seq)
             R == Seq(T)
             step == [p \in (1..m) \X R |->
                         IF seq[p[1]] \in S THEN Append(p[2], seq[p[1]]) ELSE p[2]]
             Value(f, n) == IF n = 0 THEN <<>>
                            ELSE IF seq[n] \in S THEN Append(f[n - 1], seq[n]) ELSE f[n - 1]
             Is(f) == f = [n \in 0..m |-> Value(f, n)]
  <1>1. m \in Nat /\ \A n \in 1..m : seq[n] \in T
    OBVIOUS
  <1>2. <<>> \in R /\ step \in [(1..m) \X R -> R]
    BY <1>1
  <1>3. \A n \in 1..m, s \in R :
           step[<<n, s>>] = IF seq[n] \in S THEN Append(s, seq[n]) ELSE s
    OBVIOUS
  <1> HIDE DEF step
  <1>4. PICK e : IsRecursive(e, <<>>, step, m, R)
    <2>1. IsStep(step, m, R)
      BY <1>2 DEF IsStep
    <2> HIDE DEF m, R
    <2> QED BY <1>1, <1>2, <2>1, Recursion
  <1> DEFINE f == [n \in 0..m |-> e[n]]
  <1>5. /\ \A n \in 0..m : f[n] \in R
        /\ f[0] = <<>> /\ \A n \in 1..m : f[n] = step[<<n, f[n - 1]>>]
    <2> HIDE DEF R
    <2>1. \A n \in 1..m : n \in 0..m /\ n - 1 \in 0..m
      BY <1>1
    <2> QED BY <1>1, <1>4, <2>1 DEF IsRecursive
  <1> HIDE DEF m, R
  <1>6. ASSUME NEW n \in 1..m
        PROVE  f[n] = IF seq[n] \in S THEN Append(f[n - 1], seq[n]) ELSE f[n - 1]
    <2>1. n - 1 \in 0..m
      BY <1>1
    <2>2. f[n - 1] \in R
      BY <1>5, <2>1
    <2> QED BY <1>3, <1>5, <2>2
  <1> HIDE DEF R
  <1>7. ASSUME NEW n \in 0..m PROVE f[n] = Value(f, n)
    <2>1. CASE n = 0
      BY <1>5, <2>1
    <2>2. CASE n # 0
      <3>1. n \in 1..m
        BY <1>1, <2>2
      <3> QED BY <1>6, <2>2, <3>1
    <2> QED BY <2>1, <2>2
  <1>8. Those(seq, S) = (CHOOSE g : Is(g))[m]
    BY Zenon DEF Those, m
  <1>9. Is(f)
    <2> HIDE DEF Value
    <2> QED BY <1>7
  <1>10. \E g : Is(g) /\ Those(seq, S) = g[m]
    <2> HIDE DEF Is
    <2> QED BY <1>8, <1>9
  <1>11. PICK g : Is(g) /\ Those(seq, S) = g[m]
    BY <1>10
  <1>12. \A n \in 0..m : g[n] = Value(g, n)
    <2> HIDE DEF Value
    <2> QED BY <1>11
  <1>13. g[0] = <<>>
    <2>1. 0 \in 0..m
      BY <1>1
    <2> QED BY <1>12, <2>1, Zenon
  <1>14. ASSUME NEW n \in 1..m
         PROVE  /\ seq[n] \in S => g[n] = Append(g[n - 1], seq[n])
                /\ seq[n] \notin S => g[n] = g[n - 1]
    <2>1. n \in 0..m /\ n # 0
      BY <1>1
    <2>2. g[n] = IF seq[n] \in S THEN Append(g[n - 1], seq[n]) ELSE g[n - 1]
      BY <1>12, <2>1, Zenon
    <2> QED BY <2>2, Zenon
  <1>15. \A n \in 0..m : g[n] \in R
    <2> DEFINE Good == {n \in 0..m : g[n] \in R}
    <2>1. 0 \in Good
      BY <1>1, <1>2, <1>13
    <2>2. ASSUME NEW n \in 1..m, n - 1 \in Good PROVE n \in Good
      <3>1. n \in 0..m /\ g[n - 1] \in Seq(T) /\ seq[n] \in T
        BY <1>1, <2>2 DEF R
      <3>2. g[n] \in Seq(T)
        <4>1. Append(g[n - 1], seq[n]) \in Seq(T)
          BY <3>1
        <4> QED BY <1>14, <3>1, <4>1
      <3> QED BY <3>1, <3>2 DEF R
    <2> HIDE DEF Good
    <2>3. \A n \in 0..m : n \in Good
      BY <1>1, <2>1, <2>2, UpToBound
    <2> QED BY <2>3 DEF Good
  <1> QED BY <1>11, <1>13, <1>14, <1>15 DEF m, R, IsFilter

\* The elements of a sequence with one more.
LEMMA ToSetAppend ==
    ASSUME NEW T, NEW seq \in Seq(T), NEW e \in T
    PROVE  ToSet(Append(seq, e)) = ToSet(seq) \cup {e}
  <1>1. /\ Append(seq, e) \in Seq(T) /\ Len(Append(seq, e)) = Len(seq) + 1
        /\ \A i \in 1..Len(seq) : Append(seq, e)[i] = seq[i]
        /\ Append(seq, e)[Len(seq) + 1] = e
    OBVIOUS
  <1>2. DOMAIN seq = 1..Len(seq) /\ DOMAIN Append(seq, e) = 1..(Len(seq) + 1) /\ Len(seq) \in Nat
    OBVIOUS
  <1> HIDE DEF Append
  <1> QED BY <1>1, <1>2 DEF ToSet

\* The elements of a sequence.
LEMMA ToSetParts ==
    ASSUME NEW T, NEW seq \in Seq(T)
    PROVE  /\ ToSet(seq) \subseteq T /\ seq \in Seq(ToSet(seq))
           /\ \A i \in 1..Len(seq) : seq[i] \in ToSet(seq)
           /\ \A e \in ToSet(seq) : \E i \in 1..Len(seq) : seq[i] = e
           /\ seq = <<>> <=> ToSet(seq) = {}
  <1>1. DOMAIN seq = 1..Len(seq) /\ Len(seq) \in Nat
    OBVIOUS
  <1>2. seq \in Seq(ToSet(seq))
    <2>1. \A i \in 1..Len(seq) : seq[i] \in ToSet(seq)
      BY <1>1 DEF ToSet
    <2> QED BY <1>1, <2>1
  <1>3. seq = <<>> <=> ToSet(seq) = {}
    BY <1>1, <1>2 DEF ToSet
  <1> QED BY <1>1, <1>2, <1>3 DEF ToSet

\* Those are the ones that are in both, and none of them twice if none is in the sequence.
LEMMA ThoseParts ==
    ASSUME NEW T, NEW seq \in Seq(T), NEW S
    PROVE  /\ Those(seq, S) \in Seq(T)
           /\ ToSet(Those(seq, S)) = ToSet(seq) \cap S
           /\ IsInjective(seq) => IsInjective(Those(seq, S))
  <1> DEFINE Before(n) == {seq[i] : i \in 1..n}
  <1>0. PICK f : IsFilter(f, seq, S, T)
    BY Filtering
  <1>1. /\ Those(seq, S) = f[Len(seq)]
        /\ f[0] = <<>>
        /\ \A n \in 0..Len(seq) : f[n] \in Seq(T)
        /\ \A n \in 1..Len(seq) :
              /\ seq[n] \in S => f[n] = Append(f[n - 1], seq[n])
              /\ seq[n] \notin S => f[n] = f[n - 1]
    BY <1>0 DEF IsFilter
  <1>2. Len(seq) \in Nat /\ DOMAIN seq = 1..Len(seq) /\ \A n \in 1..Len(seq) : seq[n] \in T
    OBVIOUS
  <1> DEFINE Good == {n \in 0..Len(seq) :
                         /\ ToSet(f[n]) = Before(n) \cap S
                         /\ IsInjective(seq) => IsInjective(f[n])}
  <1>3. 0 \in Good
    <2>1. ToSet(<<>>) = {} /\ IsInjective(<<>>)
      BY DEF ToSet, IsInjective
    <2>2. Before(0) = {} /\ 0 \in 0..Len(seq)
      BY <1>2
    <2> QED BY <1>1, <2>1, <2>2
  <1>4. ASSUME NEW n \in 1..Len(seq), n - 1 \in Good PROVE n \in Good
    <2> DEFINE s == f[n - 1]
    <2>1. /\ n - 1 \in 0..Len(seq) /\ n \in 0..Len(seq) /\ seq[n] \in T
          /\ s \in Seq(T) /\ ToSet(s) = Before(n - 1) \cap S
          /\ IsInjective(seq) => IsInjective(s)
      BY <1>1, <1>2, <1>4
    <2>2. Before(n) = Before(n - 1) \cup {seq[n]}
      <3>1. 1..n = 1..(n - 1) \cup {n}
        BY <1>2
      <3> QED BY <3>1
    <2> HIDE DEF s, Before
    <2>3. CASE seq[n] \notin S
      <3>1. f[n] = s
        BY <1>1, <2>3 DEF s
      <3>2. ToSet(f[n]) = Before(n) \cap S
        BY <2>1, <2>2, <2>3, <3>1
      <3> QED BY <2>1, <3>1, <3>2
    <2>4. CASE seq[n] \in S
      <3>1. f[n] = Append(s, seq[n])
        BY <1>1, <2>4 DEF s
      <3>2. ToSet(f[n]) = ToSet(s) \cup {seq[n]}
        BY <2>1, <3>1, ToSetAppend
      <3>3. ToSet(f[n]) = Before(n) \cap S
        BY <2>1, <2>2, <2>4, <3>2
      <3>4. ASSUME IsInjective(seq) PROVE IsInjective(f[n])
        <4>1. seq[n] \notin ToSet(s)
          <5>1. \A i \in 1..(n - 1) : seq[i] # seq[n]
            BY <1>2, <3>4 DEF IsInjective
          <5> QED BY <2>1, <5>1 DEF Before
        <4>2. /\ Len(s) \in Nat /\ DOMAIN s = 1..Len(s) /\ DOMAIN f[n] = 1..(Len(s) + 1)
              /\ \A i \in 1..Len(s) : f[n][i] = s[i]
              /\ f[n][Len(s) + 1] = seq[n]
          BY <2>1, <3>1
        <4>3. \A i \in 1..Len(s) : s[i] # seq[n]
          BY <4>1, <4>2 DEF ToSet
        <4>4. \A i, j \in 1..Len(s) : s[i] = s[j] => i = j
          BY <2>1, <3>4, <4>2 DEF IsInjective
        <4>5. ASSUME NEW i \in 1..(Len(s) + 1), NEW j \in 1..(Len(s) + 1), f[n][i] = f[n][j]
              PROVE  i = j
          <5>1. \A k \in 1..(Len(s) + 1) : k = Len(s) + 1 \/ k \in 1..Len(s)
            BY <4>2
          <5> QED BY <4>2, <4>3, <4>4, <4>5, <5>1
        <4> QED BY <4>2, <4>5 DEF IsInjective
      <3> QED BY <2>1, <3>3, <3>4
    <2> QED BY <2>3, <2>4
  <1> HIDE DEF Good
  <1>5. \A n \in 0..Len(seq) : n \in Good
    BY <1>2, <1>3, <1>4, UpToBound
  <1>6. Len(seq) \in Good /\ Len(seq) \in 0..Len(seq)
    BY <1>2, <1>5
  <1>7. Before(Len(seq)) = ToSet(seq)
    BY <1>2 DEF ToSet
  <1> HIDE DEF Before
  <1> QED BY <1>1, <1>6, <1>7 DEF Good

\* The elements of two sequences in a row.
LEMMA ConcatParts ==
    ASSUME NEW T, NEW s \in Seq(T), NEW t \in Seq(T)
    PROVE  s \o t \in Seq(T) /\ ToSet(s \o t) = ToSet(s) \cup ToSet(t)
  <1>1. /\ s \o t \in Seq(T) /\ Len(s \o t) = Len(s) + Len(t)
        /\ \A i \in 1..(Len(s) + Len(t)) : (s \o t)[i] = IF i <= Len(s) THEN s[i] ELSE t[i - Len(s)]
    BY ConcatProperties
  <1>2. Len(s) \in Nat /\ Len(t) \in Nat /\ DOMAIN s = 1..Len(s) /\ DOMAIN t = 1..Len(t)
    OBVIOUS
  <1>3. DOMAIN (s \o t) = 1..(Len(s) + Len(t))
    BY <1>1
  <1> DEFINE u == s \o t
  <1>4. /\ \A i \in 1..Len(s) : u[i] = s[i] /\ i \in 1..(Len(s) + Len(t))
        /\ \A i \in 1..Len(t) : u[Len(s) + i] = t[i] /\ Len(s) + i \in 1..(Len(s) + Len(t))
        /\ \A i \in 1..(Len(s) + Len(t)) :
              (i \in 1..Len(s) /\ u[i] = s[i]) \/ (i - Len(s) \in 1..Len(t) /\ u[i] = t[i - Len(s)])
    BY <1>1, <1>2
  <1>5. DOMAIN u = 1..(Len(s) + Len(t))
    BY <1>3
  <1> HIDE DEF u
  <1>6. ToSet(u) = ToSet(s) \cup ToSet(t)
    <2>1. ASSUME NEW i \in 1..Len(s) PROVE s[i] \in ToSet(u)
      BY <1>4, <1>5, <2>1 DEF ToSet
    <2>2. ASSUME NEW i \in 1..Len(t) PROVE t[i] \in ToSet(u)
      <3>1. Len(s) + i \in DOMAIN u /\ u[Len(s) + i] = t[i]
        BY <1>4, <1>5, <2>2
      <3> QED BY <3>1 DEF ToSet
    <2>3. ASSUME NEW i \in 1..(Len(s) + Len(t)) PROVE u[i] \in ToSet(s) \cup ToSet(t)
      <3>1. CASE i \in 1..Len(s) /\ u[i] = s[i]
        BY <1>2, <3>1 DEF ToSet
      <3>2. CASE i - Len(s) \in 1..Len(t) /\ u[i] = t[i - Len(s)]
        BY <1>2, <3>2 DEF ToSet
      <3> QED BY <1>4, <2>3, <3>1, <3>2
    <2> QED BY <1>2, <1>5, <2>1, <2>2, <2>3 DEF ToSet
  <1> QED BY <1>1, <1>6 DEF u

\* The first of a sequence: some, if it has any.
LEMMA UptoParts ==
    ASSUME NEW T, NEW seq \in Seq(T), NEW n \in Nat
    PROVE  /\ Upto(n, seq) \in Seq(T)
           /\ ToSet(Upto(n, seq)) \subseteq ToSet(seq)
           /\ n > 0 /\ seq # <<>> => Upto(n, seq) # <<>>
  <1> DEFINE u == Upto(n, seq)
             k == IF n <= Len(seq) THEN n ELSE Len(seq)
  <1>1. DOMAIN seq = 1..Len(seq) /\ Len(seq) \in Nat
    OBVIOUS
  <1>2. k \in Nat /\ DOMAIN seq \cap 1..n = 1..k /\ 1..k \subseteq 1..Len(seq)
    BY <1>1
  <1>3. u = [i \in 1..k |-> seq[i]]
    BY <1>2 DEF Upto
  <1>4. u \in Seq(T) /\ DOMAIN u = 1..k /\ \A i \in 1..k : u[i] = seq[i]
    BY <1>1, <1>2, <1>3
  <1>5. n > 0 /\ seq # <<>> => u # <<>>
    BY <1>1, <1>2, <1>4
  <1> HIDE DEF u
  <1>6. ToSet(u) \subseteq ToSet(seq)
    BY <1>1, <1>2, <1>4 DEF ToSet
  <1> QED BY <1>4, <1>5, <1>6 DEF u

\* Those with a score, best first: a sequence of what there is.
LEMMA BestParts ==
    ASSUME NEW T, NEW items \in Seq(T), NEW excluded, NEW score, NEW limit \in Nat
    PROVE  /\ Best(items, excluded, score, limit) \in Seq(T)
           /\ ToSet(Best(items, excluded, score, limit)) \subseteq ToSet(items)
  <1> DEFINE m == Len(items)
             U == ToSet(items)
             R == Seq(U)
             Lower(e) == {other \in ToSet(items) : score[other] < score[e]}
             Insert(s, e) == Without(s, Lower(e)) \o <<e>> \o Those(s, Lower(e))
             step == [p \in (1..m) \X R |->
                         IF score[items[p[1]]] = 0 \/ items[p[1]] \in excluded THEN p[2]
                         ELSE Insert(p[2], items[p[1]])]
             Value(f, n) == IF n = 0 THEN <<>>
                            ELSE IF score[items[n]] = 0 \/ items[n] \in excluded THEN f[n - 1]
                            ELSE Insert(f[n - 1], items[n])
             Is(f) == f = [n \in 0..m |-> Value(f, n)]
  <1>1. m \in Nat /\ (\A n \in 1..m : items[n] \in U) /\ items \in Seq(U) /\ U \subseteq T
    BY ToSetParts
  <1>2. ASSUME NEW s \in R, NEW e \in U PROVE Insert(s, e) \in R
    <2> HIDE DEF U
    <2> DEFINE L == Lower(e)
    <2> HIDE DEF Lower
    <2>1. Without(s, L) \in Seq(U) /\ Those(s, L) \in Seq(U)
      BY ThoseParts DEF Without
    <2>2. <<e>> \in Seq(U)
      OBVIOUS
    <2> HIDE DEF L
    <2> QED BY <2>1, <2>2, ConcatParts DEF L
  <1> HIDE DEF U, Lower, Insert
  <1>3. <<>> \in R
    OBVIOUS
  <1> HIDE DEF R
  <1>4. ASSUME NEW n \in 1..m, NEW s \in R
        PROVE  /\ step[<<n, s>>] = IF score[items[n]] = 0 \/ items[n] \in excluded THEN s
                                  ELSE Insert(s, items[n])
               /\ step[<<n, s>>] \in R
    BY <1>1, <1>2
  <1> HIDE DEF step, m
  <1>5. IsStep(step, m, R)
    BY <1>4 DEF IsStep
  <1>6. PICK e : IsRecursive(e, <<>>, step, m, R)
    BY <1>1, <1>3, <1>5, Recursion
  <1> DEFINE f == [n \in 0..m |-> e[n]]
  <1>7. /\ \A n \in 0..m : f[n] \in R
        /\ f[0] = <<>> /\ \A n \in 1..m : f[n] = step[<<n, f[n - 1]>>]
    <2>1. \A n \in 1..m : n \in 0..m /\ n - 1 \in 0..m
      BY <1>1
    <2> QED BY <1>1, <1>6, <2>1 DEF IsRecursive
  <1>8. ASSUME NEW n \in 0..m PROVE f[n] = Value(f, n)
    <2>1. CASE n = 0
      BY <1>7, <2>1
    <2>2. CASE n # 0
      <3>1. n \in 1..m /\ n - 1 \in 0..m
        BY <1>1, <2>2
      <3>2. f[n - 1] \in R /\ f[n] = step[<<n, f[n - 1]>>]
        BY <1>7, <3>1
      <3> HIDE DEF f
      <3> QED BY <1>4, <2>2, <3>1, <3>2
    <2> QED BY <2>1, <2>2
  <1>9. Best(items, excluded, score, limit) = Upto(limit, (CHOOSE g : Is(g))[m])
    BY Zenon DEF Best, m, Lower, Insert
  <1>10. Is(f)
    <2> HIDE DEF Value
    <2> QED BY <1>8
  <1>11. PICK g : Is(g) /\ Best(items, excluded, score, limit) = Upto(limit, g[m])
    <2> HIDE DEF Is
    <2> QED BY <1>9, <1>10
  <1>12. \A n \in 0..m : g[n] = Value(g, n)
    <2> HIDE DEF Value
    <2> QED BY <1>11
  <1> DEFINE Good == {n \in 0..m : g[n] \in R}
  <1>13. 0 \in Good
    <2>1. 0 \in 0..m
      BY <1>1
    <2>2. g[0] = <<>>
      BY <1>12, <2>1, Zenon
    <2> QED BY <1>3, <2>1, <2>2
  <1>14. ASSUME NEW n \in 1..m, n - 1 \in Good PROVE n \in Good
    <2>1. n \in 0..m /\ n # 0 /\ g[n - 1] \in R /\ items[n] \in U
      BY <1>1, <1>14
    <2>2. g[n] = g[n - 1] \/ g[n] = Insert(g[n - 1], items[n])
      BY <1>12, <2>1, Zenon
    <2>3. Insert(g[n - 1], items[n]) \in R
      BY <1>2, <2>1
    <2> QED BY <2>1, <2>2, <2>3
  <1> HIDE DEF Good
  <1>15. \A n \in 0..m : n \in Good
    BY <1>1, <1>13, <1>14, UpToBound
  <1>16. g[m] \in Seq(U)
    BY <1>1, <1>15 DEF Good, R
  <1>17. Upto(limit, g[m]) \in Seq(U)
    BY <1>16, UptoParts
  <1>18. Seq(U) \subseteq Seq(T)
    BY <1>1, SeqMonotonic
  <1>19. ToSet(Upto(limit, g[m])) \subseteq U
    BY <1>17, ToSetParts
  <1> QED BY <1>11, <1>17, <1>18, <1>19 DEF U

\* Of the places up to a bound that are in a set, one is the first.
LEMMA FirstOf ==
    ASSUME NEW m \in Nat, NEW P, NEW p \in P, P \subseteq 1..m
    PROVE  \E i \in P : \A j \in 1..(i - 1) : j \notin P
  <1> SUFFICES ASSUME \A i \in P : \E j \in 1..(i - 1) : j \in P
               PROVE  FALSE
    OBVIOUS
  <1> DEFINE Good == {n \in 0..m : \A j \in 1..n : j \notin P}
  <1>1. 0 \in Good
    OBVIOUS
  <1>2. ASSUME NEW n \in 1..m, n - 1 \in Good PROVE n \in Good
    <2>1. n \in 0..m /\ \A j \in 1..(n - 1) : j \notin P
      BY <1>2
    <2>2. n \notin P
      BY <2>1
    <2>3. \A j \in 1..n : j = n \/ j \in 1..(n - 1)
      OBVIOUS
    <2> QED BY <2>1, <2>2, <2>3
  <1> HIDE DEF Good
  <1>3. \A n \in 0..m : n \in Good
    BY <1>1, <1>2, UpToBound
  <1>4. m \in Good /\ p \in 1..m
    BY <1>3
  <1> QED BY <1>4 DEF Good

\* The first that is not empty is one of them, if there is one.
LEMMA FirstNonEmptyParts ==
    ASSUME NEW T, NEW options \in Seq(T), NEW o \in ToSet(options), o # <<>>
    PROVE  FirstNonEmpty(options) \in ToSet(options) /\ FirstNonEmpty(options) # <<>>
  <1> DEFINE P == {i \in 1..Len(options) : options[i] # <<>>}
             First(i) == options[i] # <<>> /\ \A j \in 1..(i - 1) : options[j] = <<>>
  <1>1. DOMAIN options = 1..Len(options) /\ Len(options) \in Nat
    OBVIOUS
  <1>2. PICK p \in 1..Len(options) : options[p] = o
    BY <1>1, ToSetParts
  <1>3. p \in P /\ P \subseteq 1..Len(options)
    BY <1>2
  <1>4. PICK i \in P : \A j \in 1..(i - 1) : j \notin P
    <2> HIDE DEF P
    <2> QED BY <1>1, <1>3, FirstOf
  <1>5. i \in DOMAIN options /\ First(i)
    <2>1. \A j \in 1..(i - 1) : j \in 1..Len(options)
      BY <1>1
    <2> QED BY <1>1, <1>4, <2>1
  <1> DEFINE c == CHOOSE k \in DOMAIN options : First(k)
  <1>6. c \in DOMAIN options /\ First(c)
    <2> HIDE DEF First
    <2> QED BY <1>5
  <1>7. FirstNonEmpty(options) = options[c]
    BY Zenon DEF FirstNonEmpty
  <1> HIDE DEF c
  <1> QED BY <1>6, <1>7 DEF ToSet

\* What is drawn from evidence that there is: two findings, each of which cites some of it.
LEMMA DrawnFromParts ==
    ASSUME NEW T, NEW items \in Seq(T), items # <<>>
    PROVE  \E a, b \in Seq(T) :
              /\ DrawnFrom(items) = <<Finding("positioning", a), Finding("repositories", b)>>
              /\ a # <<>> /\ b # <<>> /\ ToSet(a) \cup ToSet(b) \subseteq ToSet(items)
  <1> DEFINE U == {s \in Seq(T) : ToSet(s) \subseteq ToSet(items)}
             best == Best(items, {}, Positioning, 2)
             first == <<best, Upto(1, items)>>
             a == FirstNonEmpty(first)
             x == Best(items, ToSet(best), Repository, 3)
             y == Upto(2, Without(items, ToSet(a)))
             z == Upto(1, a)
             second == <<x, y, z>>
             b == FirstNonEmpty(second)
  <1>1. best \in U /\ x \in U
    BY BestParts
  <1>2. \A s \in U : Upto(1, s) \in U /\ Upto(2, s) \in U
    BY UptoParts
  <1>3. items \in U
    OBVIOUS
  <1> HIDE DEF best, x, U
  <1>4. first \in Seq(U) /\ ToSet(first) = {best, Upto(1, items)}
    BY <1>1, <1>2, <1>3 DEF ToSet
  <1>5. Upto(1, items) # <<>>
    BY UptoParts
  <1> HIDE DEF first
  <1>6. a \in U /\ a # <<>>
    BY <1>1, <1>2, <1>3, <1>4, <1>5, FirstNonEmptyParts
  <1> HIDE DEF a
  <1>7. Without(items, ToSet(a)) \in U
    BY ThoseParts DEF Without, U
  <1>8. y \in U /\ z \in U
    BY <1>2, <1>6, <1>7
  <1>9. z # <<>>
    BY <1>6, UptoParts DEF U
  <1> HIDE DEF y, z
  <1>10. second \in Seq(U) /\ ToSet(second) = {x, y, z}
    BY <1>1, <1>8 DEF ToSet
  <1> HIDE DEF second
  <1>11. b \in U /\ b # <<>>
    BY <1>1, <1>8, <1>9, <1>10, FirstNonEmptyParts
  <1>12. DrawnFrom(items) = <<Finding("positioning", a), Finding("repositories", b)>>
    BY DEF DrawnFrom, best, a, b, x, y, z, first, second
  <1> HIDE DEF b
  <1> QED BY <1>6, <1>11, <1>12 DEF U
----------------------------------------------------------------------------
(* Analyses *)

\* Some evidence is cited, and only evidence that is known.
Rests(cites, known) == cites \in Seq(Evidence) /\ cites # <<>> /\ ToSet(cites) \subseteq known
RestsOn(cited, known) ==
    /\ cited \in Seq(ToSet(cited))
    /\ \A c \in ToSet(cited) : Rests(c.cites, known)

\* An analysis that rests on what is known, and claims nothing without a finding.
Sound(result, known) ==
    /\ RestsOn(result.findings, known)
    /\ RestsOn(result.claims, known)
    /\ result.matrix \in Seq({row \in Seq(Evidence) : Rests(row, known)})
    /\ result.findings = <<>> => result.claims = <<>>

Known == ToSet(pool) \cap Verified

\* The verified evidence, in order, is what is known.
LEMMA VerifiedParts ==
    ASSUME NEW seq \in Seq(Evidence)
    PROVE  /\ VerifiedIn(seq) \in Seq(Evidence)
           /\ ToSet(VerifiedIn(seq)) = ToSet(seq) \cap Verified
           /\ IsInjective(seq) => IsInjective(VerifiedIn(seq))
  BY ThoseParts DEF VerifiedIn

\* What is not empty has an element.
LEMMA SomeElement ==
    ASSUME NEW T, NEW seq \in Seq(T)
    PROVE  seq # <<>> <=> ToSet(seq) # {}
  BY ToSetParts

\* What is grounded rests on what is known.
LEMMA GroundedRests ==
    ASSUME pool \in Seq(Evidence), NEW cites \in Seq(Evidence)
    PROVE  Grounded(cites) <=> Rests(cites, Known)
  BY VerifiedParts DEF Grounded, Rests, Known

\* The elements of a sequence made from another one.
Mapped(seq, image) == [i \in DOMAIN seq |-> image[seq[i]]]

\* The elements of a sequence that is mapped.
LEMMA MappedParts ==
    ASSUME NEW T, NEW U, NEW seq \in Seq(T), NEW image, \A e \in T : image[e] \in U
    PROVE  Mapped(seq, image) \in Seq(U) /\ ToSet(Mapped(seq, image)) = {image[e] : e \in ToSet(seq)}
  <1> DEFINE mapped == Mapped(seq, image)
  <1>1. DOMAIN seq = 1..Len(seq) /\ Len(seq) \in Nat /\ \A i \in 1..Len(seq) : seq[i] \in T
    OBVIOUS
  <1>2. mapped \in Seq(U) /\ DOMAIN mapped = DOMAIN seq
    BY <1>1 DEF Mapped
  <1>3. ToSet(mapped) = {image[e] : e \in ToSet(seq)}
    <2>1. \A i \in DOMAIN seq : mapped[i] = image[seq[i]]
      BY DEF Mapped
    <2> HIDE DEF mapped
    <2> QED BY <1>2, <2>1 DEF ToSet
  <1> QED BY <1>2, <1>3

\* The findings drawn from what is known.
LEMMA DrawnFindings ==
    ASSUME NEW items \in Seq(Evidence), items # <<>>
    PROVE  DrawnFrom(items) # <<>> /\ RestsOn(DrawnFrom(items), ToSet(items))
  <1>1. PICK a, b \in Seq(Evidence) :
              /\ DrawnFrom(items) = <<Finding("positioning", a), Finding("repositories", b)>>
              /\ a # <<>> /\ b # <<>> /\ ToSet(a) \cup ToSet(b) \subseteq ToSet(items)
    BY DrawnFromParts
  <1> DEFINE f == Finding("positioning", a)
             g == Finding("repositories", b)
  <1>2. f.cites = a /\ g.cites = b
    BY DEF Finding
  <1>3. DrawnFrom(items) = <<f, g>>
    BY <1>1
  <1> HIDE DEF f, g
  <1>4. <<f, g>> \in Seq({f, g}) /\ ToSet(<<f, g>>) = {f, g} /\ <<f, g>> # <<>>
    BY DEF ToSet
  <1> QED BY <1>1, <1>2, <1>3, <1>4 DEF RestsOn, Rests

\* The claims made of findings that rest on what is known say what these say.
LEMMA ClaimsParts ==
    ASSUME pool \in Seq(Evidence), NEW findings, RestsOn(findings, Known)
    PROVE  /\ RestsOn(ClaimsOf(findings), Known)
           /\ {c.claim : c \in ToSet(ClaimsOf(findings))} = {f.title : f \in ToSet(findings)}
  <1> DEFINE F == ToSet(findings)
             C == {f \in F : ToSet(f.cites) \cap Known # {}}
             cited == Those(findings, C)
             image == [f \in F |-> [claim |-> f.title, cites |-> Those(f.cites, Known)]]
             images == {image[f] : f \in F}
             mapped == Mapped(cited, image)
  <1>1. /\ findings \in Seq(F) /\ ToSet(findings) = F
        /\ \A f \in F : f.cites \in Seq(Evidence) /\ f.cites # <<>> /\ ToSet(f.cites) \subseteq Known
    BY DEF RestsOn, Rests
  <1>2. \A f \in F : ToSet(f.cites) # {}
    BY <1>1, SomeElement
  <1>3. C = F
    BY <1>1, <1>2
  <1>4. cited \in Seq(F) /\ ToSet(cited) = F
    <2> HIDE DEF C, F
    <2>1. cited \in Seq(F) /\ ToSet(cited) = ToSet(findings) \cap C
      BY <1>1, ThoseParts
    <2> QED BY <1>1, <1>3, <2>1
  <1>5. ClaimsOf(findings) = mapped
    <2>1. \A i \in DOMAIN cited : cited[i] \in F
      BY <1>4
    <2>2. ClaimsOf(findings) = [i \in DOMAIN cited |-> [claim |-> cited[i].title,
                                                 cites |-> Those(cited[i].cites, Known)]]
      BY DEF ClaimsOf, Known
    <2> HIDE DEF cited, F
    <2> QED BY <2>1, <2>2 DEF Mapped
  <1> HIDE DEF cited, F
  <1>6. ASSUME NEW f \in F
        PROVE  image[f].claim = f.title /\ Rests(image[f].cites, Known)
    <2>1. /\ Those(f.cites, Known) \in Seq(Evidence)
          /\ ToSet(Those(f.cites, Known)) = ToSet(f.cites) \cap Known
      BY <1>1, ThoseParts
    <2>2. ToSet(Those(f.cites, Known)) # {} /\ ToSet(Those(f.cites, Known)) \subseteq Known
      BY <1>1, <1>2, <2>1
    <2>3. Those(f.cites, Known) # <<>>
      BY <2>1, <2>2, SomeElement
    <2>4. image[f].claim = f.title /\ image[f].cites = Those(f.cites, Known)
      OBVIOUS
    <2> HIDE DEF image
    <2> QED BY <2>1, <2>2, <2>3, <2>4 DEF Rests
  <1>7. \A f \in F : image[f] \in images
    OBVIOUS
  <1> HIDE DEF image
  <1>8. mapped \in Seq(images) /\ ToSet(mapped) = {image[f] : f \in F}
    <2> HIDE DEF images
    <2> QED BY <1>4, <1>7, MappedParts
  <1> HIDE DEF mapped
  <1>9. RestsOn(mapped, Known)
    BY <1>6, <1>8 DEF RestsOn
  <1>10. {c.claim : c \in ToSet(mapped)} = {f.title : f \in F}
    BY <1>6, <1>8
  <1> QED BY <1>5, <1>9, <1>10 DEF F

\* Each row of the matrix cites some of the evidence it is made of.
LEMMA MatrixParts ==
    ASSUME NEW items \in Seq(Evidence), items # <<>>
    PROVE  MatrixOf(items) \in Seq({row \in Seq(Evidence) : Rests(row, ToSet(items))})
  <1> DEFINE U == {s \in Seq(Evidence) : ToSet(s) \subseteq ToSet(items)}
             Of(mentions) == Upto(3, Those(items, mentions))
             all == [p \in DOMAIN Mentions |-> Of(Mentions[p])]
             rows == Without(all, {<<>>})
  <1>1. ASSUME NEW mentions PROVE Of(mentions) \in U
    <2>1. Those(items, mentions) \in Seq(Evidence) /\ ToSet(Those(items, mentions)) \subseteq ToSet(items)
      BY ThoseParts
    <2> QED BY <2>1, UptoParts
  <1>2. Upto(3, items) \in U \ {<<>>}
    <2>1. 3 \in Nat /\ 3 > 0
      OBVIOUS
    <2>2. Upto(3, items) \in Seq(Evidence) /\ ToSet(Upto(3, items)) \subseteq ToSet(items)
      BY UptoParts
    <2>3. Upto(3, items) # <<>>
      BY <2>1, UptoParts
    <2> QED BY <2>2, <2>3
  <1> HIDE DEF Of, U
  <1>3. all \in Seq(U)
    <2>1. DOMAIN Mentions = 1..Len(Mentions) /\ Len(Mentions) \in Nat
      BY EvidenceAssumption
    <2> QED BY <1>1, <2>1
  <1> HIDE DEF all
  <1> DEFINE V == U \ {<<>>}
  <1>4. rows \in Seq(V)
    <2>1. rows \in Seq(U) /\ ToSet(rows) = ToSet(all) \cap (ToSet(all) \ {<<>>})
      BY <1>3, ThoseParts DEF Without
    <2>2. ToSet(rows) \subseteq V /\ rows \in Seq(ToSet(rows))
      BY <1>3, <2>1, ToSetParts
    <2> QED BY <2>2, SeqMonotonic
  <1>5. MatrixOf(items) = IF rows = <<>> THEN <<Upto(3, items)>> ELSE rows
    BY DEF MatrixOf, rows, all, Of
  <1> HIDE DEF rows
  <1>6. MatrixOf(items) \in Seq(V)
    <2>1. CASE rows = <<>>
      <3> DEFINE u == Upto(3, items)
      <3>1. u \in V /\ MatrixOf(items) = <<u>>
        BY <1>2, <1>5, <2>1
      <3> HIDE DEF u, V
      <3> QED BY <3>1
    <2>2. CASE rows # <<>>
      BY <1>4, <1>5, <2>2
    <2> QED BY <2>1, <2>2
  <1>7. V = {row \in Seq(Evidence) : Rests(row, ToSet(items))}
    BY DEF U, Rests
  <1> QED BY <1>6, <1>7

\* What the program concludes from the evidence is sound.
LEMMA DeterministicSound ==
    ASSUME pool \in Seq(Evidence), Deterministic
    PROVE  at' = "criticise" /\ support' = <<>> /\ Sound(analysis', Known)
  <1>1. CASE VerifiedIn(pool) = <<>> /\ Analysed(NoAnalysis)
    <2>1. RestsOn(<<>>, Known)
      BY DEF RestsOn, ToSet
    <2>2. <<>> \in Seq({row \in Seq(Evidence) : Rests(row, Known)})
      OBVIOUS
    <2> QED BY <1>1, <2>1, <2>2 DEF Analysed, NoAnalysis, Sound
  <1>2. ASSUME NEW items, items = VerifiedIn(pool), items # <<>>,
               NEW findings, findings = DrawnFrom(items),
               Analysed([findings |-> findings, claims |-> ClaimsOf(findings),
                         matrix |-> MatrixOf(items)])
        PROVE  at' = "criticise" /\ support' = <<>> /\ Sound(analysis', Known)
    <2>1. items \in Seq(Evidence) /\ ToSet(items) = Known
      BY <1>2, VerifiedParts DEF Known
    <2>2. findings # <<>> /\ RestsOn(findings, Known)
      BY <1>2, <2>1, DrawnFindings
    <2>3. RestsOn(ClaimsOf(findings), Known)
      BY <2>2, ClaimsParts
    <2>4. MatrixOf(items) \in Seq({row \in Seq(Evidence) : Rests(row, Known)})
      BY <1>2, <2>1, MatrixParts
    <2> QED BY <1>2, <2>2, <2>3, <2>4 DEF Analysed, Sound
  <1> QED BY <1>1, <1>2 DEF Deterministic

\* What a model concludes is sound if it parses.
LEMMA ParsedSound ==
    ASSUME pool \in Seq(Evidence), NEW answer \in Analyses \cup {NoFindings}, Parses(answer)
    PROVE  Sound(Parsed(answer), Known)
  <1>1. answer \in Analyses /\ answer.findings # <<>>
    BY DEF Parses, NoFindings
  <1>2. RestsOn(answer.findings, Known)
    <2>1. answer.findings \in Seq(FindingForm)
      BY <1>1, FormAssumption
    <2>2. answer.findings \in Seq(ToSet(answer.findings)) /\ ToSet(answer.findings) \subseteq FindingForm
      BY <2>1, ToSetParts
    <2>3. ASSUME NEW f \in ToSet(answer.findings) PROVE Rests(f.cites, Known)
      <3>1. f.cites \in Seq(Evidence) /\ Grounded(f.cites)
        BY <2>2 DEF Parses, FindingForm
      <3> QED BY <3>1, GroundedRests
    <2> QED BY <2>2, <2>3 DEF RestsOn
  <1>3. RestsOn(Parsed(answer).claims, Known)
    <2>1. CASE "claims" \in DOMAIN answer
      <3>1. answer.claims \in Seq(ClaimForm)
        BY <1>1, <2>1, FormAssumption
      <3>2. answer.claims \in Seq(ToSet(answer.claims)) /\ ToSet(answer.claims) \subseteq ClaimForm
        BY <3>1, ToSetParts
      <3>3. ASSUME NEW c \in ToSet(answer.claims) PROVE Rests(c.cites, Known)
        <4>1. c.cites \in Seq(Evidence) /\ Grounded(c.cites)
          BY <2>1, <3>2 DEF Parses, ClaimForm
        <4> QED BY <4>1, GroundedRests
      <3> QED BY <2>1, <3>2, <3>3 DEF RestsOn, Parsed
    <2>2. CASE "claims" \notin DOMAIN answer
      BY <1>2, <2>2, ClaimsParts DEF Parsed
    <2> QED BY <2>1, <2>2
  <1>4. Parsed(answer).matrix \in Seq({row \in Seq(Evidence) : Rests(row, Known)})
    <2>1. CASE "matrix" \in DOMAIN answer
      <3> DEFINE R == {row \in Seq(Evidence) : Rests(row, Known)}
      <3>1. answer.matrix \in Seq(Seq(Evidence))
        BY <1>1, <2>1, FormAssumption
      <3>2. answer.matrix \in Seq(ToSet(answer.matrix)) /\ ToSet(answer.matrix) \subseteq Seq(Evidence)
        BY <3>1, ToSetParts
      <3>3. ToSet(answer.matrix) \subseteq R
        BY <2>1, <3>2, GroundedRests DEF Parses
      <3> HIDE DEF R
      <3>4. answer.matrix \in Seq(R)
        BY <3>2, <3>3, SeqMonotonic
      <3> QED BY <2>1, <3>4 DEF Parsed, R
    <2>2. CASE "matrix" \notin DOMAIN answer
      <3> DEFINE items == VerifiedIn(pool)
      <3>1. items \in Seq(Evidence) /\ ToSet(items) = Known
        BY VerifiedParts DEF Known
      <3>2. items # <<>>
        <4>1. PICK f \in ToSet(answer.findings) : Rests(f.cites, Known)
          BY <1>1, <1>2, SomeElement DEF RestsOn
        <4>2. ToSet(f.cites) # {} /\ ToSet(f.cites) \subseteq Known
          BY <4>1, SomeElement DEF Rests
        <4> QED BY <3>1, <4>2, SomeElement
      <3> HIDE DEF items
      <3>3. MatrixOf(items) \in Seq({row \in Seq(Evidence) : Rests(row, Known)})
        BY <3>1, <3>2, MatrixParts
      <3> QED BY <2>2, <3>3 DEF Parsed, items
    <2> QED BY <2>1, <2>2
  <1> QED BY <1>1, <1>2, <1>3, <1>4 DEF Sound, Parsed

\* The stages at which there is an analysis of the evidence there is.
Concluded == {"criticise", "write", "review", "diagnose", "done"}

GroundInv ==
    /\ setting \in Settings
    /\ pool \in Seq(Evidence) /\ todo \in Seq(Evidence)
    /\ Asking("filter") => todo # <<>>
    /\ at \in Concluded => Sound(analysis, Known)

\* There is no analysis before there is evidence.
LEMMA GroundInit == Init => GroundInv
  BY DEF Init, GroundInv, Concluded, Asking

\* A stage that takes analysis and evidence as they are.
LEMMA GroundKept ==
    ASSUME GroundInv, UNCHANGED <<setting, pool, todo, analysis>>,
           at' \in Concluded => at \in Concluded, Asking("filter")' => Asking("filter")
    PROVE  GroundInv'
  BY DEF GroundInv, Known

\* An analysis is made of the evidence there is.
LEMMA GroundAnalysed ==
    ASSUME GroundInv, UNCHANGED <<setting, pool, todo>>, at' = "criticise", Sound(analysis', Known)
    PROVE  GroundInv'
  BY DEF GroundInv, Known, Asking

\* Only the analyst changes the analysis, and only before it the evidence changes.
LEMMA GroundStep == BudgetInv /\ GroundInv /\ [Next]_vars => GroundInv'
  <1> SUFFICES ASSUME BudgetInv, GroundInv, [Next]_vars PROVE GroundInv'
    OBVIOUS
  <1>0. /\ pool \in Seq(Evidence) /\ todo \in Seq(Evidence) /\ setting \in Settings
        /\ DOMAIN call = {"left", "attempt", "open"}
    BY DEF GroundInv, BudgetInv
  <1>1. CASE TryAgain
    <2>1. UNCHANGED <<setting, at, pool, todo, analysis>> /\ call'.open = call.open
      BY <1>0, <1>1 DEF TryAgain, results
    <2> QED BY <2>1, GroundKept DEF Asking
  <1>2. CASE TryNext
    <2>1. UNCHANGED <<setting, at, pool, todo, analysis>> /\ call'.open = call.open
      BY <1>0, <1>2 DEF TryNext, results
    <2> QED BY <2>1, GroundKept DEF Asking
  <1>3. CASE Collect
    <2>1. \A evidence \in Pools : evidence \in Seq(Evidence) /\ VerifiedIn(evidence) \in Seq(Evidence)
      BY EvidenceAssumption, VerifiedParts
    <2>2. setting.relevance \in {"off", "deterministic", "llm"}
      BY <1>0, SettingsAssumption
    <2>3. PICK evidence \in Pools :
             CASE setting.relevance = "off" -> pool' = evidence /\ todo' = <<>>
               [] setting.relevance = "deterministic" ->
                     pool' = VerifiedIn(evidence) /\ todo' = <<>>
               [] setting.relevance = "llm" -> pool' = <<>> /\ todo' = evidence
      BY <1>3 DEF Collect
    <2>4. pool' \in Seq(Evidence) /\ todo' \in Seq(Evidence)
      <3>1. evidence \in Seq(Evidence) /\ VerifiedIn(evidence) \in Seq(Evidence) /\ <<>> \in Seq(Evidence)
        BY <2>1
      <3>2. CASE setting.relevance = "off"
        BY <2>3, <3>1, <3>2
      <3>3. CASE setting.relevance = "deterministic"
        BY <2>3, <3>1, <3>3
      <3>4. CASE setting.relevance = "llm"
        BY <2>3, <3>1, <3>4
      <3> QED BY <2>2, <3>2, <3>3, <3>4
    <2>5. at' = "filter" /\ setting' = setting /\ ~call'.open
      BY <1>3 DEF Collect, BudgetInv, OpenInStage, Recording
    <2> QED BY <1>0, <2>4, <2>5 DEF GroundInv, Concluded, Asking
  <1>4. CASE AskRelevance
    <2>1. /\ at = "filter" /\ UNCHANGED <<setting, at, pool>> /\ todo # <<>>
          /\ todo' = todo \/ (todo' = Tail(todo) /\ ~call'.open)
      BY <1>4 DEF AskRelevance, Waiting, results
    <2>2. todo' \in Seq(Evidence)
      BY <1>0, <2>1
    <2> QED BY <1>0, <2>1, <2>2 DEF GroundInv, Concluded, Asking
  <1>5. CASE RelevanceAnswered
    <2>1. /\ at' = "filter" /\ setting' = setting /\ todo' = Tail(todo) /\ ~call'.open
          /\ pool' \in {pool, Append(pool, Head(todo))} /\ todo # <<>>
      BY <1>5 DEF RelevanceAnswered, Asking, Hangup, NoCall, GroundInv
    <2>2. todo' \in Seq(Evidence) /\ Head(todo) \in Evidence
      BY <1>0, <2>1
    <2>3. pool' \in Seq(Evidence)
      BY <1>0, <2>1, <2>2
    <2> QED BY <1>0, <2>1, <2>2, <2>3 DEF GroundInv, Concluded, Asking
  <1>6. CASE Analyse
    <2>1. UNCHANGED <<setting, pool, todo>>
      BY <1>6 DEF Analyse
    <2>2. CASE Deterministic
      BY <1>0, <2>1, <2>2, DeterministicSound, GroundAnalysed
    <2>3. CASE at' = "analyse" /\ UNCHANGED analysis
      BY <2>1, <2>3, GroundKept DEF Concluded, Asking
    <2> QED BY <1>6, <2>2, <2>3 DEF Analyse
  <1>7. CASE AnalysisAnswered
    <2>1. UNCHANGED <<setting, pool, todo>>
      BY <1>7 DEF AnalysisAnswered
    <2>2. CASE Deterministic
      BY <1>0, <2>1, <2>2, DeterministicSound, GroundAnalysed
    <2>3. ASSUME NEW answer \in Analyses \cup {NoFindings}, Parses(answer), Analysed(Parsed(answer))
          PROVE  GroundInv'
      <3>1. Sound(Parsed(answer), Known)
        BY <1>0, <2>3, ParsedSound
      <3>2. at' = "criticise" /\ analysis' = Parsed(answer)
        BY <2>3 DEF Analysed
      <3> QED BY <2>1, <3>1, <3>2, GroundAnalysed
    <2> QED BY <1>7, <2>2, <2>3 DEF AnalysisAnswered
  <1>8. CASE Judge
    BY <1>8, GroundKept DEF Judge, Waiting, Asking
  <1>9. CASE JudgeAnswered
    BY <1>9, GroundKept DEF JudgeAnswered, Asking, Concluded
  <1>10. CASE Criticise
    BY <1>10, GroundKept DEF Criticise, Waiting, Asking, Concluded, results
  <1>11. CASE Write
    <2>1. UNCHANGED <<setting, pool, todo, analysis>> /\ at = "write" /\ at' \in {"write", "review"}
      BY <1>11 DEF Write, Waiting, Writes
    <2> QED BY <2>1, GroundKept DEF Asking, Concluded
  <1>12. CASE Written
    <2>1. /\ UNCHANGED <<setting, pool, todo, analysis>> /\ at = "write"
          /\ at' \in {"write", "review", "failed"}
      BY <1>12 DEF Written, Asking, Writes
    <2> QED BY <2>1, GroundKept DEF Asking, Concluded
  <1>13. CASE Review
    BY <1>13, GroundKept DEF Review, Reviewed, Waiting, Asking, Concluded, results
  <1>14. CASE ReviewAnswered
    BY <1>14, GroundKept DEF ReviewAnswered, Reviewed, Asking, Concluded
  <1>15. CASE Diagnose
    BY <1>15, GroundKept DEF Diagnose, Asking, Concluded
  <1>16. CASE UNCHANGED vars
    BY <1>16, GroundKept DEF vars, results, Asking
  <1> QED
    BY <1>1, <1>2, <1>3, <1>4, <1>5, <1>6, <1>7, <1>8, <1>9, <1>10, <1>11, <1>12,
       <1>13, <1>14, <1>15, <1>16 DEF Next

\* All that is concluded from a sound analysis is grounded.
LEMMA GroundSuffices == GroundInv => ConclusionsAreGrounded
  <1> SUFFICES ASSUME GroundInv, at \in Concluded PROVE Weak = {}
    BY DEF ConclusionsAreGrounded, Concluded
  <1>1. pool \in Seq(Evidence) /\ Sound(analysis, Known)
    BY DEF GroundInv
  <1> DEFINE U == {cites \in Seq(Evidence) : Rests(cites, Known)}
             OfFindings == [i \in DOMAIN analysis.findings |-> analysis.findings[i].cites]
             OfClaims == [i \in DOMAIN analysis.claims |-> analysis.claims[i].cites]
  <1>2. ASSUME NEW seq, RestsOn(seq, Known)
        PROVE  [i \in DOMAIN seq |-> seq[i].cites] \in Seq(U)
    <2>1. seq \in Seq(ToSet(seq)) /\ \A c \in ToSet(seq) : c.cites \in U
      BY <1>2 DEF RestsOn, Rests
    <2> HIDE DEF U
    <2> QED BY <2>1
  <1>3. OfFindings \in Seq(U) /\ OfClaims \in Seq(U) /\ analysis.matrix \in Seq(U)
    BY <1>1, <1>2 DEF Sound
  <1>4. Conclusions = OfFindings \o analysis.matrix \o OfClaims
    BY DEF Conclusions
  <1> HIDE DEF U, OfFindings, OfClaims
  <1>5. Conclusions \in Seq(U)
    BY <1>3, <1>4
  <1>6. \A i \in DOMAIN Conclusions : Grounded(Conclusions[i])
    <2>1. \A i \in DOMAIN Conclusions : Conclusions[i] \in U
      BY <1>5
    <2> QED BY <1>1, <2>1, GroundedRests DEF U
  <1> QED BY <1>6 DEF Weak
----------------------------------------------------------------------------
(* Sections *)

\* The first section of one of the names.
LEMMA FindParts ==
    ASSUME NEW T, NEW body \in Seq(T), NEW names
    PROVE  \/ names \cap Names(body) = {} /\ Find(body, names) = 0
           \/ /\ names \cap Names(body) # {}
              /\ Find(body, names) \in 1..Len(body)
              /\ body[Find(body, names)].name \in names
              /\ \A j \in 1..(Find(body, names) - 1) : body[j].name \notin names
  <1> DEFINE P == {i \in 1..Len(body) : body[i].name \in names}
             First(i) == body[i].name \in names /\ \A j \in 1..(i - 1) : body[j].name \notin names
             c == CHOOSE i \in DOMAIN body : First(i)
  <1>1. DOMAIN body = 1..Len(body) /\ Len(body) \in Nat
    OBVIOUS
  <1>2. CASE names \cap Names(body) = {}
    BY <1>2 DEF Find
  <1>3. CASE names \cap Names(body) # {}
    <2>1. PICK s \in ToSet(body) : s.name \in names
      BY <1>3 DEF Names
    <2>2. PICK p \in 1..Len(body) : body[p] = s
      BY ToSetParts
    <2>3. p \in P /\ P \subseteq 1..Len(body)
      BY <2>1, <2>2
    <2>4. PICK i \in P : \A j \in 1..(i - 1) : j \notin P
      <3> HIDE DEF P
      <3> QED BY <1>1, <2>3, FirstOf
    <2>5. i \in DOMAIN body /\ First(i)
      <3>1. \A j \in 1..(i - 1) : j \in 1..Len(body)
        BY <1>1
      <3> QED BY <1>1, <2>4, <3>1
    <2>6. c \in DOMAIN body /\ First(c)
      <3> HIDE DEF First
      <3> QED BY <2>5
    <2>7. Find(body, names) = c
      BY <1>3, Zenon DEF Find
    <2> HIDE DEF c
    <2> QED BY <1>1, <1>3, <2>6, <2>7
  <1> QED BY <1>2, <1>3

\* The sections of two bodies in a row.
LEMMA NamesConcat ==
    ASSUME NEW T, NEW s \in Seq(T), NEW t \in Seq(T)
    PROVE  Names(s \o t) = Names(s) \cup Names(t)
  <1>1. ToSet(s \o t) = ToSet(s) \cup ToSet(t)
    BY ConcatParts
  <1> QED BY <1>1 DEF Names

\* The elements of a part of a sequence.
LEMMA SubSeqParts ==
    ASSUME NEW T, NEW seq \in Seq(T), NEW m \in Nat \ {0}, NEW n \in 0..Len(seq)
    PROVE  SubSeq(seq, m, n) \in Seq(T) /\ ToSet(SubSeq(seq, m, n)) \subseteq {seq[i] : i \in m..n}
  <1> DEFINE part == SubSeq(seq, m, n)
  <1>1. m \in Int /\ n \in Int /\ Len(seq) \in Nat /\ \A i \in m..n : seq[i] \in {seq[j] : j \in m..n}
    OBVIOUS
  <1>2. part \in Seq({seq[j] : j \in m..n})
    BY <1>1, SubSeqProperties
  <1>3. {seq[j] : j \in m..n} \subseteq T
    BY <1>1
  <1>4. part \in Seq(T)
    BY <1>2, <1>3, SeqMonotonic
  <1>5. ToSet(part) \subseteq {seq[j] : j \in m..n}
    <2> DEFINE U == {seq[j] : j \in m..n}
    <2> HIDE DEF part, U
    <2>1. part \in Seq(U)
      BY <1>2 DEF U
    <2> QED BY <2>1, ToSetParts DEF U
  <1> QED BY <1>4, <1>5

\* What is cut off begins with the first section of one of the names.
LEMMA CutAtParts ==
    ASSUME NEW T, NEW body \in Seq(T), NEW names
    PROVE  /\ CutAt(body, names) \in Seq(T)
           /\ ToSet(CutAt(body, names)) \subseteq ToSet(body)
           /\ names \cap Names(CutAt(body, names)) = {}
  <1>1. CASE names \cap Names(body) = {}
    BY <1>1 DEF CutAt
  <1>2. CASE names \cap Names(body) # {}
    <2> DEFINE k == Find(body, names)
               cut == SubSeq(body, 1, k - 1)
    <2>1. k \in 1..Len(body) /\ \A j \in 1..(k - 1) : body[j].name \notin names
      BY <1>2, FindParts
    <2> HIDE DEF k
    <2>2. k - 1 \in 0..Len(body) /\ 1 \in Nat \ {0}
      BY <2>1
    <2>3. cut \in Seq(T) /\ ToSet(cut) \subseteq {body[i] : i \in 1..(k - 1)}
      BY <2>2, SubSeqParts
    <2>4. \A i \in 1..(k - 1) : body[i] \in ToSet(body)
      BY <2>1, ToSetParts
    <2>5. CutAt(body, names) = cut
      BY <1>2 DEF CutAt, k
    <2> HIDE DEF cut
    <2> QED BY <2>1, <2>3, <2>4, <2>5 DEF Names
  <1> QED BY <1>1, <1>2

Texts == {Text(name) : name \in ToSet(Required)}

\* What is completed is what there was, the required sections and nothing else.
LEMMA CompleteParts ==
    ASSUME NEW T, NEW body \in Seq(T), Texts \subseteq T, NEW withAnalysis \in BOOLEAN
    PROVE  /\ Complete(body, withAnalysis) \in Seq(T)
           /\ ToSet(body) \subseteq ToSet(Complete(body, withAnalysis))
           /\ withAnalysis => ToSet(Required) \subseteq Names(Complete(body, withAnalysis))
           /\ ToSet(Required) \ {"analysis"} \subseteq Names(Complete(body, withAnalysis))
  <1> DEFINE Missing(name) == IF name \in Names(body) THEN <<>> ELSE <<Text(name)>>
             Placed(name) ==
                 <<IF name \in Names(body) THEN body[Find(body, {name})] ELSE Text(name)>>
             moved == {Find(body, {name}) : name \in {"summary", "findings", "landscape",
                                                      "trend", "risks", "outlook"}}
             rest == Without([i \in DOMAIN body |-> i], moved)
             kept == [i \in DOMAIN rest |-> body[rest[i]]]
             analysed == IF withAnalysis THEN Missing("analysis") ELSE <<>>
  <1>1. DOMAIN body = 1..Len(body) /\ Len(body) \in Nat
    OBVIOUS
  <1>2. \A name \in ToSet(Required) : Text(name) \in T /\ Text(name).name = name
    BY DEF Texts, Text, Section
  <1>3. ToSet(Required) = {"summary", "background", "findings", "analysis",
                           "landscape", "trend", "risks", "outlook"}
    BY DEF Required, ToSet
  <1>4. ASSUME NEW name \in ToSet(Required)
        PROVE  /\ Placed(name) \in Seq(T) /\ Names(Placed(name)) = {name}
               /\ name \in Names(body) => body[Find(body, {name})] \in ToSet(Placed(name))
    <2> DEFINE s == IF name \in Names(body) THEN body[Find(body, {name})] ELSE Text(name)
    <2>1. s \in T /\ s.name = name
      BY <1>2, FindParts
    <2> HIDE DEF s
    <2>2. <<s>> \in Seq(T) /\ Names(<<s>>) = {name} /\ s \in ToSet(<<s>>)
      BY <2>1 DEF Names, ToSet
    <2>3. name \in Names(body) => body[Find(body, {name})] = s
      BY DEF s
    <2> QED BY <2>2, <2>3 DEF s
  <1>5. ASSUME NEW name \in ToSet(Required)
        PROVE  Missing(name) \in Seq(T) /\ (name \in Names(body) \/ name \in Names(Missing(name)))
    <2> DEFINE t == Text(name)
    <2>1. t \in T /\ t.name = name
      BY <1>2
    <2> HIDE DEF t
    <2>2. <<t>> \in Seq(T) /\ Names(<<t>>) = {name}
      BY <2>1 DEF Names, ToSet
    <2> QED BY <2>2 DEF t
  <1> HIDE DEF Missing, Placed
  <1>6. kept \in Seq(T)
    <2>1. [i \in DOMAIN body |-> i] \in Seq(DOMAIN body)
      BY <1>1
    <2>2. rest \in Seq(DOMAIN body)
      BY <2>1, ThoseParts DEF Without
    <2> HIDE DEF rest
    <2> QED BY <1>1, <2>2
  <1>21. ASSUME NEW p \in 1..Len(body), p \notin moved
         PROVE  body[p] \in ToSet(kept)
    <2> DEFINE ids == [i \in DOMAIN body |-> i]
    <2>3. ids \in Seq(DOMAIN body) /\ p \in ToSet(ids)
      BY <1>1 DEF ToSet
    <2>4. rest \in Seq(DOMAIN body) /\ ToSet(rest) = ToSet(ids) \cap (ToSet(ids) \ moved)
      BY <2>3, ThoseParts DEF Without
    <2> HIDE DEF rest, ids, moved
    <2>5. PICK j \in 1..Len(rest) : rest[j] = p
      BY <1>21, <2>3, <2>4, ToSetParts
    <2>6. j \in DOMAIN rest
      BY <2>4, <2>5
    <2> QED BY <2>5, <2>6 DEF ToSet
  <1>22. ASSUME NEW p \in moved, p \in 1..Len(body)
         PROVE  \E name \in ToSet(Required) : body[p] \in ToSet(Placed(name))
                                              /\ name \notin {"background", "analysis"}
    <2>1. PICK name \in {"summary", "findings", "landscape", "trend", "risks", "outlook"} :
             p = Find(body, {name})
      OBVIOUS
    <2>2. p # 0
      BY <1>1, <1>22
    <2>3. name \in Names(body)
      BY <2>1, <2>2, FindParts
    <2>4. name \in ToSet(Required) /\ name \notin {"background", "analysis"}
      BY <1>3
    <2> HIDE DEF moved
    <2> QED BY <1>4, <2>1, <2>3, <2>4
  <1>7. ASSUME NEW name \in {"background", "analysis"}, name \in Names(body)
        PROVE  name \in Names(kept)
    <2>1. PICK p \in 1..Len(body) : body[p].name = name
      BY <1>7, ToSetParts DEF Names
    <2>2. p \notin moved
      <3>1. SUFFICES ASSUME NEW other \in {"summary", "findings", "landscape",
                                          "trend", "risks", "outlook"},
                            p = Find(body, {other})
                     PROVE  FALSE
        OBVIOUS
      <3>2. p # 0
        BY <1>1, <2>1
      <3>3. body[p].name \in {other}
        BY <3>1, <3>2, FindParts
      <3> QED BY <1>7, <2>1, <3>3
    <2>6. body[p] \in ToSet(kept)
      BY <1>21, <2>2
    <2> HIDE DEF kept
    <2> QED BY <2>1, <2>6 DEF Names
  <1> HIDE DEF moved, rest, kept
  <1> DEFINE u1 == Placed("summary") \o Missing("background")
             u2 == u1 \o Placed("findings")
             u3 == u2 \o analysed
             u4 == u3 \o kept
             u5 == u4 \o Placed("landscape")
             u6 == u5 \o Placed("trend")
             u7 == u6 \o Placed("risks")
             u8 == u7 \o Placed("outlook")
  <1>8. Complete(body, withAnalysis) = u8
    BY DEF Complete, Missing, Placed, moved, rest, kept
  <1>9. analysed \in Seq(T) /\ (withAnalysis => "analysis" \in Names(body) \cup Names(analysed))
    BY <1>3, <1>5
  <1> HIDE DEF analysed
  <1>10. /\ u1 \in Seq(T) /\ Names(u1) = {"summary"} \cup Names(Missing("background"))
         /\ ToSet(Placed("summary")) \subseteq ToSet(u1)
    <2>1. "summary" \in ToSet(Required) /\ "background" \in ToSet(Required)
      BY <1>3
    <2>2. /\ Placed("summary") \in Seq(T) /\ Missing("background") \in Seq(T)
          /\ Names(Placed("summary")) = {"summary"}
      BY <1>4, <1>5, <2>1
    <2> QED BY <2>2, ConcatParts, NamesConcat
  <1> HIDE DEF u1
  <1>11. /\ u2 \in Seq(T) /\ Names(u2) = Names(u1) \cup {"findings"}
         /\ ToSet(u2) = ToSet(u1) \cup ToSet(Placed("findings"))
    BY <1>3, <1>4, <1>10, ConcatParts, NamesConcat
  <1> HIDE DEF u2
  <1>12. /\ u3 \in Seq(T) /\ Names(u3) = Names(u2) \cup Names(analysed)
         /\ ToSet(u3) = ToSet(u2) \cup ToSet(analysed)
    BY <1>9, <1>11, ConcatParts, NamesConcat
  <1> HIDE DEF u3
  <1>13. /\ u4 \in Seq(T) /\ Names(u4) = Names(u3) \cup Names(kept)
         /\ ToSet(u4) = ToSet(u3) \cup ToSet(kept)
    BY <1>6, <1>12, ConcatParts, NamesConcat
  <1> HIDE DEF u4
  <1>14. /\ u5 \in Seq(T) /\ Names(u5) = Names(u4) \cup {"landscape"}
         /\ ToSet(u5) = ToSet(u4) \cup ToSet(Placed("landscape"))
    BY <1>3, <1>4, <1>13, ConcatParts, NamesConcat
  <1> HIDE DEF u5
  <1>15. /\ u6 \in Seq(T) /\ Names(u6) = Names(u5) \cup {"trend"}
         /\ ToSet(u6) = ToSet(u5) \cup ToSet(Placed("trend"))
    BY <1>3, <1>4, <1>14, ConcatParts, NamesConcat
  <1> HIDE DEF u6
  <1>16. /\ u7 \in Seq(T) /\ Names(u7) = Names(u6) \cup {"risks"}
         /\ ToSet(u7) = ToSet(u6) \cup ToSet(Placed("risks"))
    BY <1>3, <1>4, <1>15, ConcatParts, NamesConcat
  <1> HIDE DEF u7
  <1>17. /\ u8 \in Seq(T) /\ Names(u8) = Names(u7) \cup {"outlook"}
         /\ ToSet(u8) = ToSet(u7) \cup ToSet(Placed("outlook"))
    BY <1>3, <1>4, <1>16, ConcatParts, NamesConcat
  <1> HIDE DEF u8
  <1>18. "background" \in Names(u8)
    BY <1>3, <1>5, <1>7, <1>10, <1>11, <1>12, <1>13, <1>14, <1>15, <1>16, <1>17
  <1>19. withAnalysis => "analysis" \in Names(u8)
    BY <1>7, <1>9, <1>12, <1>13, <1>14, <1>15, <1>16, <1>17
  <1>20. {"summary", "findings", "landscape", "trend", "risks", "outlook"} \subseteq Names(u8)
    BY <1>10, <1>11, <1>12, <1>13, <1>14, <1>15, <1>16, <1>17
  <1>23. ToSet(body) \subseteq ToSet(u8)
    <2>1. /\ ToSet(kept) \subseteq ToSet(u8)
          /\ \A name \in ToSet(Required) \ {"background", "analysis"} :
                ToSet(Placed(name)) \subseteq ToSet(u8)
      BY <1>3, <1>10, <1>11, <1>12, <1>13, <1>14, <1>15, <1>16, <1>17
    <2>2. ASSUME NEW x \in ToSet(body) PROVE x \in ToSet(u8)
      <3>1. PICK p \in 1..Len(body) : body[p] = x
        BY ToSetParts
      <3>2. CASE p \notin moved
        BY <1>21, <2>1, <3>1, <3>2
      <3>3. CASE p \in moved
        BY <1>22, <2>1, <3>1, <3>3
      <3> QED BY <3>2, <3>3
    <2> QED BY <2>2
  <1> QED BY <1>3, <1>8, <1>17, <1>18, <1>19, <1>20, <1>23
----------------------------------------------------------------------------
(* Citations and claims *)

\* The references are the verified evidence, and each has its number.
LEMMA ReferencesParts ==
    ASSUME pool \in Seq(Evidence)
    PROVE  /\ References \in Seq(Evidence) /\ ToSet(References) = Known
           /\ DOMAIN Listed = DOMAIN References
           /\ \A i \in DOMAIN References : Listed[i] = Number(References[i])
  BY VerifiedParts DEF References, Known, Listed

\* What is numbered is listed, and evidence that is known is numbered.
LEMMA NumbersParts ==
    ASSUME pool \in Seq(Evidence), NEW cites
    PROVE  /\ Numbers(cites) \subseteq ToSet(Listed)
           /\ Rests(cites, Known) => Numbers(cites) # {}
  <1>1. ASSUME NEW e \in ToSet(References) PROVE Number(e) \in ToSet(Listed)
    <2>1. PICK i \in DOMAIN References : References[i] = e
      BY DEF ToSet
    <2>2. i \in DOMAIN Listed /\ Listed[i] = Number(e)
      BY <2>1, ReferencesParts
    <2> QED BY <2>2 DEF ToSet
  <1>2. Numbers(cites) \subseteq ToSet(Listed)
    BY <1>1 DEF Numbers
  <1>3. ASSUME Rests(cites, Known) PROVE Numbers(cites) # {}
    <2>1. cites \in Seq(Evidence) /\ cites # <<>> /\ ToSet(cites) \subseteq ToSet(References)
      BY <1>3, ReferencesParts DEF Rests
    <2>2. ToSet(cites) # {}
      BY <2>1, SomeElement
    <2> QED BY <2>1, <2>2 DEF Numbers
  <1> QED BY <1>2, <1>3

\* Evidence that is there once has the number of its place.
LEMMA NumberIsPlace ==
    ASSUME pool \in Seq(Evidence), IsInjective(pool)
    PROVE  \A i \in DOMAIN Listed : Listed[i] = i
  <1>1. IsInjective(References)
    BY VerifiedParts DEF References
  <1>2. ASSUME NEW i \in DOMAIN References PROVE Number(References[i]) = i
    <2> DEFINE Is(k) == /\ References[k] = References[i]
                        /\ \A j \in DOMAIN References : References[j] = References[i] => j <= k
    <2>1. DOMAIN References \subseteq Nat
      BY ReferencesParts
    <2>2. \A k \in DOMAIN References : References[k] = References[i] => k = i
      BY <1>1 DEF IsInjective
    <2>3. Is(i)
      BY <2>1, <2>2
    <2>4. Number(References[i]) = CHOOSE k \in DOMAIN References : Is(k)
      BY DEF Number
    <2> DEFINE c == CHOOSE k \in DOMAIN References : Is(k)
    <2>5. c \in DOMAIN References /\ Is(c)
      <3> HIDE DEF Is
      <3> QED BY <2>3
    <2> HIDE DEF c
    <2> QED BY <2>2, <2>4, <2>5 DEF c
  <1> QED BY <1>2, ReferencesParts

\* What the critic has found supported, and what a section may present.
Supported == {j.claim : j \in {j \in ToSet(support) : j.status = "supported"}}
Presentable(s) == s.cites \subseteq ToSet(Listed) /\ s.claims \subseteq Supported
IsBody(body) == body \in Seq(ToSet(body)) /\ \A s \in ToSet(body) : Presentable(s)
Citing(body) == body \in Seq(ToSet(body)) /\ \A s \in ToSet(body) : s.cites \subseteq ToSet(Listed)
Plain(body) == "diagnosis" \notin Names(body)

\* The judgements are those of the findings, in order.
IsJudged ==
    /\ support \in Seq(ToSet(support)) /\ Len(support) <= Len(analysis.findings)
    /\ \A i \in 1..Len(support) : support[i].claim = analysis.findings[i].title

\* A section of text alone cites nothing and claims nothing.
LEMMA PresentableText ==
    ASSUME NEW name
    PROVE  Presentable(Text(name)) /\ Text(name).name = name /\ Text(name).claims = {}
  BY DEF Presentable, Text, Section

\* A body of what is presentable.
LEMMA BodyOf ==
    ASSUME NEW T, NEW body \in Seq(T), \A s \in T : Presentable(s)
    PROVE  IsBody(body)
  BY ToSetParts DEF IsBody

\* Two bodies in a row are one.
LEMMA BodyConcat ==
    ASSUME NEW s, NEW t, IsBody(s), IsBody(t)
    PROVE  IsBody(s \o t) /\ (Plain(s) /\ Plain(t) => Plain(s \o t))
           /\ Names(s \o t) = Names(s) \cup Names(t) /\ ToSet(s \o t) = ToSet(s) \cup ToSet(t)
  <1> DEFINE T == ToSet(s) \cup ToSet(t)
  <1>1. s \in Seq(T) /\ t \in Seq(T) /\ \A e \in T : Presentable(e)
    <2>1. ToSet(s) \subseteq T /\ ToSet(t) \subseteq T
      OBVIOUS
    <2> QED BY <2>1, SeqMonotonic DEF IsBody
  <1> HIDE DEF T
  <1>2. s \o t \in Seq(T) /\ ToSet(s \o t) = ToSet(s) \cup ToSet(t)
    BY <1>1, ConcatParts
  <1>3. Names(s \o t) = Names(s) \cup Names(t)
    BY <1>2 DEF Names
  <1>4. IsBody(s \o t)
    BY <1>1, <1>2, BodyOf
  <1> QED BY <1>2, <1>3, <1>4 DEF Plain

\* The claims that are stated.
LEMMA StatedParts ==
    ASSUME pool \in Seq(Evidence), NEW claims, claims \in Seq(ToSet(claims))
    PROVE  /\ Stated(claims) \in Seq(ToSet(claims))
           /\ \A c \in ToSet(Stated(claims)) : c \in ToSet(claims) /\ IsSupported(c.claim)
           /\ RestsOn(claims, Known) =>
                 \A c \in ToSet(claims) : IsSupported(c.claim) => c \in ToSet(Stated(claims))
  <1> DEFINE C == {c \in ToSet(claims) : IsSupported(c.claim) /\ Numbers(c.cites) # {}}
  <1>1. Stated(claims) = Those(claims, C)
    BY DEF Stated
  <1>2. Stated(claims) \in Seq(ToSet(claims)) /\ ToSet(Stated(claims)) = ToSet(claims) \cap C
    <2> HIDE DEF C
    <2> QED BY <1>1, ThoseParts
  <1>3. RestsOn(claims, Known) => \A c \in ToSet(claims) : Numbers(c.cites) # {}
    BY NumbersParts DEF RestsOn
  <1> QED BY <1>2, <1>3

\* To state some of what may be stated is presentable.
LEMMA StatingParts ==
    ASSUME pool \in Seq(Evidence), NEW name, NEW claims, \A c \in ToSet(claims) : IsSupported(c.claim),
           support = <<>> => ToSet(claims) = {}
    PROVE  /\ Presentable(Stating(name, claims))
           /\ Stating(name, claims).name = name
           /\ Stating(name, claims).claims = {c.claim : c \in ToSet(claims)}
  <1>1. UNION {Numbers(c.cites) : c \in ToSet(claims)} \subseteq ToSet(Listed)
    BY NumbersParts
  <1>2. \A c \in ToSet(claims) : c.claim \in Supported
    BY DEF IsSupported, Supported
  <1> QED BY <1>1, <1>2 DEF Presentable, Stating, Section
----------------------------------------------------------------------------
(* Reports *)

\* A body of one section.
LEMMA OneSection ==
    ASSUME NEW s, Presentable(s)
    PROVE  IsBody(<<s>>) /\ ToSet(<<s>>) = {s} /\ Names(<<s>>) = {s.name}
  <1>1. ToSet(<<s>>) = {s} /\ <<s>> \in Seq({s})
    BY DEF ToSet
  <1>2. IsBody(<<s>>)
    BY <1>1 DEF IsBody
  <1> QED BY <1>1, <1>2 DEF Names

\* What is completed stays presentable.
LEMMA CompleteBody ==
    ASSUME NEW body, IsBody(body), NEW withAnalysis \in BOOLEAN
    PROVE  /\ IsBody(Complete(body, withAnalysis))
           /\ Plain(body) => Plain(Complete(body, withAnalysis))
           /\ ToSet(body) \subseteq ToSet(Complete(body, withAnalysis))
           /\ withAnalysis => ToSet(Required) \subseteq Names(Complete(body, withAnalysis))
           /\ ToSet(Required) \ {"analysis"} \subseteq Names(Complete(body, withAnalysis))
  <1> DEFINE T == ToSet(body) \cup Texts
             complete == Complete(body, withAnalysis)
  <1>1. body \in Seq(T) /\ Texts \subseteq T /\ \A s \in T : Presentable(s)
    <2>1. body \in Seq(ToSet(body)) /\ ToSet(body) \subseteq T
      BY DEF IsBody
    <2>2. body \in Seq(T)
      <3> HIDE DEF T
      <3> QED BY <2>1, SeqMonotonic
    <2> QED BY <2>2, PresentableText DEF IsBody, Texts
  <1>2. Plain(body) => \A s \in T : s.name # "diagnosis"
    <2>1. \A name \in ToSet(Required) : name # "diagnosis"
      BY DEF Required, ToSet
    <2> QED BY <2>1, PresentableText DEF Plain, Names, Texts
  <1> HIDE DEF T
  <1>3. /\ complete \in Seq(T) /\ ToSet(body) \subseteq ToSet(complete)
        /\ withAnalysis => ToSet(Required) \subseteq Names(complete)
        /\ ToSet(Required) \ {"analysis"} \subseteq Names(complete)
    BY <1>1, CompleteParts
  <1> HIDE DEF complete
  <1>4. ToSet(complete) \subseteq T
    BY <1>3, ToSetParts
  <1>5. IsBody(complete)
    BY <1>1, <1>3, BodyOf
  <1>6. Plain(body) => Plain(complete)
    BY <1>2, <1>4 DEF Plain, Names
  <1> QED BY <1>3, <1>5, <1>6 DEF complete

\* The program's matrix cites what is listed.
LEMMA MatrixBody ==
    ASSUME pool \in Seq(Evidence)
    PROVE  IsBody(MatrixSection) /\ Names(MatrixSection) \subseteq {"matrix"}
  <1> DEFINE rows == {Numbers(row) : row \in ToSet(analysis.matrix)} \ {{}}
             s == [Section("matrix", UNION rows, {}) EXCEPT !.rows = rows]
  <1>1. UNION rows \subseteq ToSet(Listed)
    BY NumbersParts
  <1>2. MatrixSection = IF rows = {} THEN <<>> ELSE <<s>>
    BY DEF MatrixSection
  <1> HIDE DEF rows
  <1>3. Presentable(s) /\ s.name = "matrix"
    BY <1>1 DEF Presentable, Section
  <1> HIDE DEF s
  <1>4. IsBody(<<s>>) /\ ToSet(<<s>>) = {s} /\ Names(<<s>>) = {s.name}
    BY <1>3, OneSection
  <1>5. IsBody(<<>>) /\ ToSet(<<>>) = {} /\ Names(<<>>) = {}
    BY DEF IsBody, ToSet, Names
  <1> QED BY <1>2, <1>3, <1>4, <1>5

\* The last sections cite nothing and claim nothing.
LEMMA SupportBody == IsBody(SupportSection) /\ Names(SupportSection) \subseteq {"support"}
  <1> DEFINE s == Text("support")
  <1>1. Presentable(s) /\ s.name = "support"
    BY PresentableText
  <1>2. SupportSection \in {<<>>, <<s>>}
    BY DEF SupportSection
  <1> HIDE DEF s
  <1>3. IsBody(<<s>>) /\ Names(<<s>>) = {"support"}
    BY <1>1, OneSection
  <1>4. IsBody(<<>>) /\ Names(<<>>) = {}
    BY DEF IsBody, ToSet, Names
  <1> QED BY <1>2, <1>3, <1>4

\* Nor does the section on the critic.
LEMMA CriticBody == IsBody(<<Text("critic")>>) /\ Names(<<Text("critic")>>) = {"critic"}
  <1> DEFINE s == Text("critic")
  <1>1. Presentable(s) /\ s.name = "critic"
    BY PresentableText
  <1> HIDE DEF s
  <1>2. IsBody(<<s>>) /\ Names(<<s>>) = {"critic"}
    BY <1>1, OneSection
  <1> QED BY <1>2 DEF s

\* What the reporter goes by: a sound analysis, of which each finding has been judged.
Reportable ==
    /\ setting \in Settings /\ pool \in Seq(Evidence)
    /\ Sound(analysis, Known)
    /\ IsJudged /\ Len(support) = Len(analysis.findings)

\* Nothing is supported and nothing can be claimed if there is no finding.
LEMMA NothingFound ==
    ASSUME Reportable
    PROVE  /\ support = <<>> <=> analysis.findings = <<>>
           /\ support = <<>> => analysis.claims = <<>>
           /\ Supported \subseteq {f.title : f \in ToSet(analysis.findings)}
  <1>1. /\ analysis.findings \in Seq(ToSet(analysis.findings)) /\ support \in Seq(ToSet(support))
        /\ Len(support) = Len(analysis.findings)
        /\ \A i \in 1..Len(support) : support[i].claim = analysis.findings[i].title
    BY DEF Reportable, Sound, RestsOn, IsJudged
  <1>2. support = <<>> <=> analysis.findings = <<>>
    BY <1>1
  <1>3. ASSUME NEW j \in ToSet(support) PROVE \E f \in ToSet(analysis.findings) : j.claim = f.title
    <2>1. PICK i \in 1..Len(support) : support[i] = j
      BY <1>1, ToSetParts
    <2>2. analysis.findings[i] \in ToSet(analysis.findings) /\ j.claim = analysis.findings[i].title
      BY <1>1, <2>1, ToSetParts
    <2> QED BY <2>2
  <1>4. Supported \subseteq {f.title : f \in ToSet(analysis.findings)}
    BY <1>3 DEF Supported
  <1> QED BY <1>2, <1>4 DEF Reportable, Sound

\* The findings as claims.
LEMMA AsClaimsParts ==
    ASSUME NEW findings, findings \in Seq(ToSet(findings))
    PROVE  /\ AsClaims(findings) \in Seq(ToSet(AsClaims(findings)))
           /\ findings = <<>> => AsClaims(findings) = <<>>
           /\ \A c \in ToSet(AsClaims(findings)) :
                 \E f \in ToSet(findings) : c.claim = f.title /\ c.cites = f.cites
           /\ \A f \in ToSet(findings) : \E c \in ToSet(AsClaims(findings)) : c.claim = f.title
  <1> DEFINE claims == AsClaims(findings)
  <1>1. DOMAIN findings = 1..Len(findings) /\ Len(findings) \in Nat
    OBVIOUS
  <1>2. claims = [i \in 1..Len(findings) |-> [claim |-> findings[i].title, cites |-> findings[i].cites]]
    BY <1>1 DEF AsClaims
  <1>3. DOMAIN claims = 1..Len(findings) /\ claims = [i \in 1..Len(findings) |-> claims[i]]
    BY <1>2
  <1>4. \A i \in 1..Len(findings) :
           claims[i].claim = findings[i].title /\ claims[i].cites = findings[i].cites
    BY <1>2
  <1> HIDE DEF claims
  <1>5. \A i \in 1..Len(findings) : claims[i] \in ToSet(claims) /\ findings[i] \in ToSet(findings)
    BY <1>1, <1>3 DEF ToSet
  <1>6. claims \in Seq(ToSet(claims))
    BY <1>1, <1>3, <1>5
  <1>7. findings = <<>> => claims = <<>>
    BY <1>1, <1>3, <1>6
  <1>8. ASSUME NEW c \in ToSet(claims)
        PROVE  \E f \in ToSet(findings) : c.claim = f.title /\ c.cites = f.cites
    <2>1. PICK i \in 1..Len(findings) : claims[i] = c
      BY <1>3 DEF ToSet
    <2> QED BY <1>4, <1>5, <2>1
  <1>9. ASSUME NEW f \in ToSet(findings) PROVE \E c \in ToSet(claims) : c.claim = f.title
    <2>1. PICK i \in 1..Len(findings) : findings[i] = f
      BY <1>1 DEF ToSet
    <2> QED BY <1>4, <1>5, <2>1
  <1> QED BY <1>6, <1>7, <1>8, <1>9 DEF claims

\* So they rest on what the findings rest on.
LEMMA AsClaimsRest ==
    ASSUME NEW findings, NEW known, RestsOn(findings, known)
    PROVE  RestsOn(AsClaims(findings), known)
  BY AsClaimsParts DEF RestsOn

\* What is supported and claimed, on evidence that is known, is stated.
LEMMA StatesSupported ==
    ASSUME pool \in Seq(Evidence), NEW claims, RestsOn(claims, Known), NEW title \in Supported,
           NEW c \in ToSet(claims), c.claim = title, NEW name
    PROVE  title \in Stating(name, Stated(claims)).claims
  <1>1. claims \in Seq(ToSet(claims))
    BY DEF RestsOn
  <1>2. IsSupported(c.claim)
    BY DEF IsSupported, Supported
  <1>3. c \in ToSet(Stated(claims))
    BY <1>1, <1>2, StatedParts
  <1>4. Stating(name, Stated(claims)).claims = {d.claim : d \in ToSet(Stated(claims))}
    BY DEF Stating, Section
  <1> QED BY <1>3, <1>4

\* A section of what may be stated of a sequence of claims.
LEMMA StatingStated ==
    ASSUME Reportable, NEW name, NEW claims, claims \in Seq(ToSet(claims)),
           analysis.findings = <<>> => claims = <<>>
    PROVE  /\ Presentable(Stating(name, Stated(claims)))
           /\ Presentable(Stating(name, Upto(2, Stated(claims))))
           /\ Stating(name, Stated(claims)).name = name
           /\ Stating(name, Upto(2, Stated(claims))).name = name
  <1> DEFINE stated == Stated(claims)
             first == Upto(2, stated)
  <1>1. pool \in Seq(Evidence)
    BY DEF Reportable
  <1>2. /\ stated \in Seq(ToSet(claims))
        /\ \A c \in ToSet(stated) : c \in ToSet(claims) /\ IsSupported(c.claim)
    BY <1>1, StatedParts
  <1>3. support = <<>> => ToSet(claims) = {}
    BY NothingFound, SomeElement
  <1> HIDE DEF stated
  <1>4. ToSet(first) \subseteq ToSet(stated)
    <2>1. 2 \in Nat
      OBVIOUS
    <2> QED BY <1>2, <2>1, UptoParts
  <1> HIDE DEF first
  <1>5. Presentable(Stating(name, stated)) /\ Stating(name, stated).name = name
    BY <1>1, <1>2, <1>3, StatingParts
  <1>6. Presentable(Stating(name, first)) /\ Stating(name, first).name = name
    BY <1>1, <1>2, <1>3, <1>4, StatingParts
  <1> QED BY <1>5, <1>6 DEF stated, first

\* The report of the program without a plan has all the sections there must be.
LEMMA StandardBodyParts ==
    ASSUME Reportable
    PROVE  /\ IsBody(StandardBody) /\ Plain(StandardBody)
           /\ ToSet(Required) \subseteq Names(StandardBody)
           /\ analysis.claims # <<>> => Stating("findings", Stated(analysis.claims)) \in ToSet(StandardBody)
           /\ analysis.claims = <<>> =>
                 Stating("findings", Stated(AsClaims(analysis.findings))) \in ToSet(StandardBody)
  <1> DEFINE claims == IF analysis.claims # <<>> THEN analysis.claims ELSE AsClaims(analysis.findings)
             risky == {c \in ToSet(analysis.claims) : IsSupported(c.claim)}
             s1 == Stating("summary", Upto(2, Stated(claims)))
             s2 == Text("background")
             s3 == Stating("findings", Stated(claims))
             s4 == Stating("analysis", Stated(claims))
             s5 == Text("landscape")
             s6 == Text("trend")
             s7 == Section("risks", {}, {c.claim : c \in risky})
             s8 == Text("outlook")
             all == {s1, s2, s3, s4, s5, s6, s7, s8}
  <1>1. claims \in Seq(ToSet(claims)) /\ (analysis.findings = <<>> => claims = <<>>)
    BY AsClaimsParts, NothingFound DEF Reportable, Sound, RestsOn
  <1>11. /\ analysis.claims # <<>> => s3 = Stating("findings", Stated(analysis.claims))
         /\ analysis.claims = <<>> => s3 = Stating("findings", Stated(AsClaims(analysis.findings)))
    OBVIOUS
  <1> HIDE DEF claims
  <1>2. /\ Presentable(s1) /\ s1.name = "summary" /\ Presentable(s3) /\ s3.name = "findings"
        /\ Presentable(s4) /\ s4.name = "analysis"
    BY <1>1, StatingStated
  <1>3. /\ Presentable(s2) /\ s2.name = "background" /\ Presentable(s5) /\ s5.name = "landscape"
        /\ Presentable(s6) /\ s6.name = "trend" /\ Presentable(s8) /\ s8.name = "outlook"
    BY PresentableText
  <1>4. Presentable(s7) /\ s7.name = "risks"
    <2>1. support = <<>> => risky = {}
      BY NothingFound DEF ToSet
    <2>2. \A c \in risky : c.claim \in Supported
      BY <2>1 DEF IsSupported, Supported
    <2> QED BY <2>2 DEF Presentable, Section
  <1>5. StandardBody = <<s1, s2, s3, s4, s5, s6, s7, s8>>
    BY DEF StandardBody, claims
  <1> HIDE DEF s1, s2, s3, s4, s5, s6, s7, s8
  <1>6. StandardBody \in Seq(all) /\ ToSet(StandardBody) = all
    BY <1>5 DEF ToSet
  <1>7. \A s \in all : Presentable(s)
    BY <1>2, <1>3, <1>4
  <1>8. Names(StandardBody) = {"summary", "background", "findings", "analysis",
                               "landscape", "trend", "risks", "outlook"}
    BY <1>2, <1>3, <1>4, <1>6 DEF Names
  <1>12. s3 \in ToSet(StandardBody)
    BY <1>6
  <1> HIDE DEF all
  <1>9. IsBody(StandardBody)
    BY <1>6, <1>7, BodyOf
  <1>10. ToSet(Required) = {"summary", "background", "findings", "analysis",
                            "landscape", "trend", "risks", "outlook"}
    BY DEF Required, ToSet
  <1> QED BY <1>8, <1>9, <1>10, <1>11, <1>12 DEF Plain

\* So has the one without claims of the analysis, but for that of the plan.
LEMMA PlannedBodyParts ==
    ASSUME Reportable
    PROVE  /\ IsBody(PlannedBody) /\ Plain(PlannedBody)
           /\ \A title \in Supported :
                 \/ title \in UNION {s.claims : s \in ToSet(PlannedBody)}
                 \/ \A f \in ToSet(analysis.findings) :
                       f.title = title => Place(f) \notin {s.id : s \in ToSet(Planned)}
  <1> DEFINE sections == Planned
             Of(id) == Those(analysis.findings, {f \in ToSet(analysis.findings) : Place(f) = id})
             section(i) == Stating(sections[i].name, Stated(AsClaims(Of(sections[i].id))))
             all == {section(i) : i \in DOMAIN sections}
  <1>1. setting.plan \in Seq(ToSet(setting.plan)) /\ \A s \in ToSet(setting.plan) : s.name # "diagnosis"
    <2> DEFINE P == [id : STRING, name : STRING \ {"diagnosis"}]
    <2>1. setting.plan \in Seq(P)
      BY SettingsAssumption, FormAssumption DEF Reportable
    <2>2. \A s \in P : s.name # "diagnosis"
      OBVIOUS
    <2> HIDE DEF P
    <2> QED BY <2>1, <2>2, ToSetParts
  <1>2. sections \in Seq(ToSet(setting.plan))
    BY <1>1, ThoseParts DEF Planned
  <1>3. ASSUME NEW id
        PROVE  LET claims == AsClaims(Of(id))
               IN  claims \in Seq(ToSet(claims)) /\ (analysis.findings = <<>> => claims = <<>>)
    <2> DEFINE some == Of(id)
    <2>1. analysis.findings \in Seq(ToSet(analysis.findings))
      BY DEF Reportable, Sound, RestsOn
    <2>2. some \in Seq(ToSet(analysis.findings)) /\ ToSet(some) \subseteq ToSet(analysis.findings)
      BY <2>1, ThoseParts
    <2> HIDE DEF some
    <2>3. some \in Seq(ToSet(some)) /\ (ToSet(some) = {} => some = <<>>)
      BY <2>2, ToSetParts
    <2>4. analysis.findings = <<>> => ToSet(analysis.findings) = {}
      BY DEF ToSet
    <2>5. analysis.findings = <<>> => some = <<>>
      BY <2>2, <2>3, <2>4
    <2>6. AsClaims(some) \in Seq(ToSet(AsClaims(some))) /\ (some = <<>> => AsClaims(some) = <<>>)
      BY <2>3, AsClaimsParts
    <2> QED BY <2>5, <2>6 DEF some
  <1>10. ASSUME NEW title \in Supported, NEW f \in ToSet(analysis.findings), f.title = title,
                NEW p \in ToSet(sections), Place(f) = p.id
         PROVE  title \in UNION {s.claims : s \in all}
    <2> DEFINE some == Of(p.id)
    <2>1. RestsOn(analysis.findings, Known) /\ pool \in Seq(Evidence)
      BY DEF Reportable, Sound
    <2>2. /\ some \in Seq(ToSet(analysis.findings)) /\ ToSet(some) \subseteq ToSet(analysis.findings)
          /\ f \in ToSet(some)
      <3>1. analysis.findings \in Seq(ToSet(analysis.findings))
        BY <2>1 DEF RestsOn
      <3>2. f \in {g \in ToSet(analysis.findings) : Place(g) = p.id}
        BY <1>10
      <3> QED BY <3>1, <3>2, ThoseParts
    <2> HIDE DEF some
    <2>3. RestsOn(some, Known)
      BY <2>1, <2>2, ToSetParts DEF RestsOn
    <2>4. some \in Seq(ToSet(some)) /\ RestsOn(AsClaims(some), Known)
      BY <2>3, AsClaimsRest DEF RestsOn
    <2>5. PICK c \in ToSet(AsClaims(some)) : c.claim = title
      BY <1>10, <2>2, <2>4, AsClaimsParts
    <2>6. title \in Stating(p.name, Stated(AsClaims(some))).claims
      BY <2>1, <2>4, <2>5, StatesSupported
    <2>7. PICK i \in DOMAIN sections : sections[i] = p
      BY <1>10 DEF ToSet
    <2>8. section(i) = Stating(p.name, Stated(AsClaims(some))) /\ section(i) \in all
      BY <2>7 DEF some
    <2> HIDE DEF section, all
    <2> QED BY <2>6, <2>8
  <1> HIDE DEF Of
  <1>4. ASSUME NEW i \in DOMAIN sections
        PROVE  Presentable(section(i)) /\ section(i).name = sections[i].name
    <2> DEFINE claims == AsClaims(Of(sections[i].id))
    <2>1. claims \in Seq(ToSet(claims)) /\ (analysis.findings = <<>> => claims = <<>>)
      BY <1>3
    <2> HIDE DEF claims
    <2>2. /\ Presentable(Stating(sections[i].name, Stated(claims)))
          /\ Stating(sections[i].name, Stated(claims)).name = sections[i].name
      BY <2>1, StatingStated
    <2> QED BY <2>2 DEF claims
  <1>5. PlannedBody = [i \in DOMAIN sections |-> section(i)]
    BY DEF PlannedBody, Of, section
  <1>6. PlannedBody \in Seq(all)
    <2>1. DOMAIN sections = 1..Len(sections) /\ Len(sections) \in Nat
      BY <1>2
    <2>2. \A i \in DOMAIN sections : section(i) \in all
      OBVIOUS
    <2> HIDE DEF section, all, sections
    <2> QED BY <1>5, <2>1, <2>2
  <1> HIDE DEF section
  <1>7. \A s \in all : Presentable(s) /\ s.name # "diagnosis"
    <2>1. \A i \in DOMAIN sections : sections[i].name # "diagnosis"
      BY <1>1, <1>2
    <2> QED BY <1>4, <2>1
  <1> HIDE DEF all
  <1>8. IsBody(PlannedBody)
    BY <1>6, <1>7, BodyOf
  <1>9. ToSet(PlannedBody) = all
    <2>1. \A i \in DOMAIN sections : PlannedBody[i] = section(i)
      BY <1>5
    <2>2. DOMAIN PlannedBody = DOMAIN sections
      BY <1>5
    <2> HIDE DEF sections
    <2> QED BY <2>1, <2>2 DEF ToSet, all
  <1>11. ASSUME NEW title \in Supported, title \notin UNION {s.claims : s \in ToSet(PlannedBody)},
                NEW f \in ToSet(analysis.findings), f.title = title
         PROVE  Place(f) \notin {s.id : s \in ToSet(Planned)}
    BY <1>9, <1>10, <1>11
  <1> QED BY <1>7, <1>8, <1>9, <1>11 DEF Plain, Names

\* What a report must have: one to a plan that states claims has its findings alone.
HasSections(author, names) ==
    /\ author = "model" \/ setting.plan = <<>> => ToSet(Required) \subseteq names
    /\ analysis.claims = <<>> => ToSet(Required) \ {"analysis"} \subseteq names
    /\ author = "program" /\ setting.plan # <<>> /\ analysis.claims # <<>> =>
          ToSet(Required) \cap names = {"findings"}
StatesAll(body) ==
    \A title \in Supported : title \in UNION {s.claims : s \in ToSet(body)} \/ LeftOut(title)

\* More in a body does not make it state less.
LEMMA StatesMore ==
    ASSUME NEW body, NEW more, StatesAll(body), ToSet(body) \subseteq ToSet(more)
    PROVE  StatesAll(more)
  BY DEF StatesAll

\* The body of the program's report has what it must have and states what it has to.
LEMMA DeterministicBodyParts ==
    ASSUME Reportable
    PROVE  /\ IsBody(DeterministicBody) /\ Plain(DeterministicBody)
           /\ setting.plan # <<>> /\ analysis.claims # <<>> => Names(DeterministicBody) = {"findings"}
           /\ setting.plan = <<>> \/ analysis.claims = <<>> =>
                 ToSet(Required) \ {"analysis"} \subseteq Names(DeterministicBody)
           /\ setting.plan = <<>> => ToSet(Required) \subseteq Names(DeterministicBody)
           /\ StatesAll(DeterministicBody)
  <1> DEFINE s == Stating("findings", Stated(analysis.claims))
             t == Stating("findings", Stated(AsClaims(analysis.findings)))
             complete == Complete(PlannedBody, FALSE)
  <1>1. /\ pool \in Seq(Evidence) /\ RestsOn(analysis.findings, Known) /\ RestsOn(analysis.claims, Known)
        /\ analysis.claims \in Seq(ToSet(analysis.claims))
        /\ analysis.findings \in Seq(ToSet(analysis.findings))
    BY DEF Reportable, Sound, RestsOn
  <1>2. Presentable(s) /\ s.name = "findings"
    BY <1>1, NothingFound, StatingStated
  <1>3. ASSUME NEW title \in Supported, ~LeftOut(title), analysis.claims # <<>>
        PROVE  title \in s.claims
    <2>1. PICK c \in ToSet(analysis.claims) : c.claim = title
      BY <1>3 DEF LeftOut
    <2> QED BY <1>1, <2>1, StatesSupported
  <1>4. ASSUME NEW title \in Supported PROVE title \in t.claims
    <2>1. PICK f \in ToSet(analysis.findings) : f.title = title
      BY NothingFound
    <2>2. PICK c \in ToSet(AsClaims(analysis.findings)) : c.claim = title
      BY <1>1, <2>1, AsClaimsParts
    <2>3. RestsOn(AsClaims(analysis.findings), Known)
      BY <1>1, AsClaimsRest
    <2> QED BY <1>1, <2>2, <2>3, StatesSupported
  <1>5. IsBody(ClaimsBody) /\ Names(ClaimsBody) = {"findings"} /\ s \in ToSet(ClaimsBody)
    <2>1. ClaimsBody = <<s>>
      BY DEF ClaimsBody
    <2> HIDE DEF s
    <2>2. IsBody(<<s>>) /\ Names(<<s>>) = {s.name} /\ s \in ToSet(<<s>>)
      BY <1>2, OneSection
    <2> QED BY <1>2, <2>1, <2>2
  <1>6. /\ IsBody(PlannedBody) /\ IsBody(complete) /\ Plain(complete)
        /\ ToSet(Required) \ {"analysis"} \subseteq Names(complete)
        /\ ToSet(PlannedBody) \subseteq ToSet(complete)
    BY PlannedBodyParts, CompleteBody
  <1>7. CASE setting.plan = <<>>
    <2>1. DeterministicBody = StandardBody
      BY <1>7 DEF DeterministicBody
    <2>2. /\ analysis.claims # <<>> => s \in ToSet(StandardBody)
          /\ analysis.claims = <<>> => t \in ToSet(StandardBody)
      BY StandardBodyParts
    <2> HIDE DEF s, t
    <2>3. StatesAll(StandardBody)
      BY <1>3, <1>4, <2>2 DEF StatesAll
    <2> QED BY <1>7, <2>1, <2>3, StandardBodyParts
  <1>8. CASE setting.plan # <<>> /\ analysis.claims # <<>>
    <2>1. DeterministicBody = ClaimsBody
      BY <1>8 DEF DeterministicBody
    <2> HIDE DEF s
    <2>2. StatesAll(ClaimsBody)
      BY <1>3, <1>5, <1>8 DEF StatesAll
    <2>3. Plain(ClaimsBody)
      BY <1>5 DEF Plain
    <2> QED BY <1>5, <1>8, <2>1, <2>2, <2>3
  <1>9. CASE setting.plan # <<>> /\ analysis.claims = <<>>
    <2>1. DeterministicBody = complete
      BY <1>9 DEF DeterministicBody
    <2> HIDE DEF complete
    <2>2. StatesAll(PlannedBody)
      BY <1>9, PlannedBodyParts DEF StatesAll, LeftOut
    <2>3. StatesAll(complete)
      BY <1>6, <2>2, StatesMore
    <2> QED BY <1>6, <1>9, <2>1, <2>3
  <1> QED BY <1>7, <1>8, <1>9

\* So has its report, by what is added to the body.
LEMMA DeterministicParts ==
    ASSUME Reportable
    PROVE  LET body == DeterministicReport.body
           IN  /\ IsBody(body) /\ Plain(body) /\ HasSections("program", Names(body)) /\ StatesAll(body)
  <1> DEFINE core == DeterministicBody
             u1 == core \o MatrixSection
             u2 == u1 \o <<Text("critic")>>
             u3 == u2 \o SupportSection
  <1>1. pool \in Seq(Evidence) /\ IsBody(core)
    BY DeterministicBodyParts DEF Reportable
  <1> HIDE DEF core
  <1>2. IsBody(u1) /\ ToSet(core) \subseteq ToSet(u1) /\ Names(u1) = Names(core) \cup Names(MatrixSection)
    BY <1>1, MatrixBody, BodyConcat
  <1> HIDE DEF u1
  <1>3. IsBody(u2) /\ ToSet(u1) \subseteq ToSet(u2) /\ Names(u2) = Names(u1) \cup {"critic"}
    BY <1>2, CriticBody, BodyConcat
  <1> HIDE DEF u2
  <1>4. IsBody(u3) /\ ToSet(u2) \subseteq ToSet(u3) /\ Names(u3) = Names(u2) \cup Names(SupportSection)
    BY <1>3, SupportBody, BodyConcat
  <1>5. DeterministicReport.body = u3
    BY DEF DeterministicReport, Report, u1, u2, core
  <1> HIDE DEF u3
  <1>6. /\ ToSet(core) \subseteq ToSet(u3) /\ Names(core) \subseteq Names(u3)
        /\ Names(u3) \subseteq Names(core) \cup {"matrix", "critic", "support"}
    BY <1>1, <1>2, <1>3, <1>4, MatrixBody, SupportBody
  <1>7. StatesAll(u3)
    BY <1>6, DeterministicBodyParts, StatesMore DEF core
  <1>8. Plain(u3)
    BY <1>6, DeterministicBodyParts DEF Plain, core
  <1>9. HasSections("program", Names(u3))
    <2>1. ToSet(Required) = {"summary", "background", "findings", "analysis",
                             "landscape", "trend", "risks", "outlook"}
      BY DEF Required, ToSet
    <2> QED BY <1>6, <2>1, DeterministicBodyParts DEF HasSections, core
  <1> QED BY <1>4, <1>5, <1>7, <1>8, <1>9
----------------------------------------------------------------------------
(* The bodies of a model's reports *)

\* A body of any sections, whatever they cite and claim.
HasParts(body) == body \in Seq(ToSet(body))

DraftForm == [name : STRING, cites : SUBSET Nat, claims : SUBSET STRING, rows : SUBSET SUBSET Nat]

\* A sequence is one of its elements.
LEMMA PartsOf ==
    ASSUME NEW T, NEW body \in Seq(T)
    PROVE  HasParts(body)
  BY ToSetParts DEF HasParts

\* Headings in either language are the same, and none is that of a diagnosis.
LEMMA NormalizedParts ==
    ASSUME NEW body \in Seq(DraftForm)
    PROVE  HasParts(Normalized(body)) /\ (Plain(body) => Plain(Normalized(body)))
  <1> DEFINE local(s) == [s EXCEPT !.name = Localized(@)]
             all == {local(s) : s \in ToSet(body)}
  <1>1. ToSet(body) \subseteq DraftForm /\ \A i \in DOMAIN body : body[i] \in ToSet(body)
    BY ToSetParts
  <1>2. ASSUME NEW s \in ToSet(body)
        PROVE  local(s).name = Localized(s.name)
    <2>1. s \in DraftForm
      BY <1>1
    <2> QED BY <2>1 DEF DraftForm
  <1>3. \A name : Localized(name) = "diagnosis" => name = "diagnosis"
    BY DEF Localized
  <1>4. Normalized(body) = [i \in DOMAIN body |-> local(body[i])]
    BY DEF Normalized
  <1> HIDE DEF local
  <1>5. Normalized(body) \in Seq(all)
    <2>1. DOMAIN body = 1..Len(body) /\ Len(body) \in Nat
      OBVIOUS
    <2>2. \A i \in DOMAIN body : local(body[i]) \in all
      BY <1>1
    <2> HIDE DEF all
    <2> QED BY <1>4, <2>1, <2>2
  <1>7. Plain(body) => \A s \in all : s.name # "diagnosis"
    BY <1>2, <1>3 DEF Plain, Names
  <1> HIDE DEF all
  <1>8. HasParts(Normalized(body))
    BY <1>5, PartsOf
  <1>9. ToSet(Normalized(body)) \subseteq all
    BY <1>5, ToSetParts
  <1> QED BY <1>7, <1>8, <1>9 DEF Plain, Names

\* The matrix of the program may be put among them.
LEMMA WithMatrixParts ==
    ASSUME pool \in Seq(Evidence), NEW body, HasParts(body)
    PROVE  HasParts(WithMatrix(body))
  <1> DEFINE T == ToSet(body) \cup ToSet(MatrixSection)
             given == Find(body, {"matrix"})
             kept == IF given = 0 \/ RowsCite(body[given]) THEN body ELSE RemoveAt(body, given)
             found == Find(kept, {"findings"})
             place == IF found = 0 THEN Len(kept) ELSE found
             first == SubSeq(kept, 1, place)
             last == SubSeq(kept, place + 1, Len(kept))
             both == first \o MatrixSection
  <1>1. body \in Seq(T) /\ MatrixSection \in Seq(T)
    <2>1. ToSet(body) \subseteq T /\ ToSet(MatrixSection) \subseteq T
      OBVIOUS
    <2>2. body \in Seq(ToSet(body)) /\ MatrixSection \in Seq(ToSet(MatrixSection))
      BY MatrixBody DEF HasParts, IsBody
    <2>3. body \in Seq(T) /\ MatrixSection \in Seq(T)
      <3> HIDE DEF T
      <3> QED BY <2>1, <2>2, SeqMonotonic
    <2> QED BY <2>3
  <1> HIDE DEF T
  <1>2. kept \in Seq(T)
    <2>1. CASE given = 0 \/ RowsCite(body[given])
      BY <1>1, <2>1
    <2>2. CASE ~(given = 0 \/ RowsCite(body[given]))
      <3> DEFINE before == SubSeq(body, 1, given - 1)
                 after == SubSeq(body, given + 1, Len(body))
      <3>1. given \in 1..Len(body) /\ Len(body) \in Nat
        BY <1>1, <2>2, FindParts
      <3>2. kept = before \o after
        BY <2>2 DEF RemoveAt
      <3> HIDE DEF given
      <3>3. /\ given - 1 \in 0..Len(body) /\ Len(body) \in 0..Len(body)
            /\ 1 \in Nat \ {0} /\ given + 1 \in Nat \ {0}
        BY <3>1
      <3>4. before \in Seq(T) /\ after \in Seq(T)
        BY <1>1, <3>3, SubSeqParts
      <3> HIDE DEF before, after, kept
      <3> QED BY <3>2, <3>4, ConcatParts
    <2> QED BY <2>1, <2>2
  <1> HIDE DEF kept
  <1>3. place \in 0..Len(kept) /\ Len(kept) \in 0..Len(kept)
    <2>1. found \in 0..Len(kept) /\ Len(kept) \in Nat
      BY <1>2, FindParts
    <2> HIDE DEF found
    <2> QED BY <2>1
  <1> HIDE DEF place
  <1>4. 1 \in Nat \ {0} /\ place + 1 \in Nat \ {0}
    BY <1>3
  <1>5. first \in Seq(T) /\ last \in Seq(T)
    BY <1>2, <1>3, <1>4, SubSeqParts
  <1> HIDE DEF first, last
  <1>6. both \in Seq(T)
    BY <1>1, <1>5, ConcatParts
  <1> HIDE DEF both
  <1>7. both \o last \in Seq(T)
    BY <1>5, <1>6, ConcatParts
  <1>8. WithMatrix(body) = IF "matrix" \in Names(kept) THEN kept ELSE both \o last
    BY DEF WithMatrix, kept, found, place, first, last, both, given
  <1>9. WithMatrix(body) \in Seq(T)
    BY <1>2, <1>7, <1>8
  <1> QED BY <1>9, PartsOf

\* Completed with the analysis, they lack no required section.
LEMMA CompleteHasParts ==
    ASSUME NEW body, HasParts(body)
    PROVE  LET complete == Complete(body, TRUE)
           IN  /\ HasParts(complete) /\ ToSet(Required) \subseteq Names(complete)
               /\ Plain(body) => Plain(complete)
  <1> DEFINE T == ToSet(body) \cup Texts
             complete == Complete(body, TRUE)
  <1>1. body \in Seq(T) /\ Texts \subseteq T
    <2>1. body \in Seq(ToSet(body)) /\ ToSet(body) \subseteq T
      BY DEF HasParts
    <2>2. body \in Seq(T)
      <3> HIDE DEF T
      <3> QED BY <2>1, SeqMonotonic
    <2> QED BY <2>2
  <1>2. Plain(body) => \A s \in T : s.name # "diagnosis"
    <2>1. \A name \in ToSet(Required) : name # "diagnosis"
      BY DEF Required, ToSet
    <2> QED BY <2>1, PresentableText DEF Plain, Names, Texts
  <1> HIDE DEF T
  <1>3. TRUE \in BOOLEAN
    OBVIOUS
  <1>4. complete \in Seq(T) /\ ToSet(Required) \subseteq Names(complete)
    BY <1>1, <1>3, CompleteParts
  <1> HIDE DEF complete
  <1>5. HasParts(complete) /\ ToSet(complete) \subseteq T
    BY <1>4, PartsOf, ToSetParts
  <1> QED BY <1>2, <1>4, <1>5 DEF Plain, Names, complete

\* What the model writes may have a diagnosis, what it reviews has none; both have the
\* required sections.
LEMMA WrittenParts ==
    ASSUME pool \in Seq(Evidence), NEW draft \in Drafts \cup {NoDraft}
    PROVE  /\ HasParts(WrittenBody(draft))
           /\ ToSet(Required) \subseteq Names(WrittenBody(draft))
  <1> DEFINE cut == WithoutReferences(draft)
             normal == Normalized(cut)
             matrix == WithMatrix(normal)
  <1>1. draft \in Seq(DraftForm)
    <2>1. NoDraft \in Seq(DraftForm)
      BY DEF NoDraft
    <2>2. Drafts \subseteq Seq(DraftForm)
      BY FormAssumption DEF DraftForm
    <2> QED BY <2>1, <2>2
  <1>2. cut \in Seq(DraftForm)
    BY <1>1, CutAtParts DEF WithoutReferences
  <1> HIDE DEF cut
  <1>3. HasParts(normal)
    BY <1>2, NormalizedParts
  <1> HIDE DEF normal
  <1>4. HasParts(matrix)
    BY <1>3, WithMatrixParts
  <1> HIDE DEF matrix
  <1>5. HasParts(Complete(matrix, TRUE)) /\ ToSet(Required) \subseteq Names(Complete(matrix, TRUE))
    BY <1>4, CompleteHasParts
  <1> QED BY <1>5 DEF WrittenBody, cut, normal, matrix

\* From a review a diagnosis is cut off before its headings are normalized.
LEMMA ReviewedParts ==
    ASSUME NEW draft \in Drafts
    PROVE  /\ HasParts(ReviewedBody(draft)) /\ Plain(ReviewedBody(draft))
           /\ ToSet(Required) \subseteq Names(ReviewedBody(draft))
  <1> DEFINE cut == WithoutReferences(draft)
             plain == WithoutDiagnosis(cut)
             normal == Normalized(plain)
  <1>1. draft \in Seq(DraftForm)
    BY FormAssumption DEF DraftForm
  <1>2. cut \in Seq(DraftForm)
    BY <1>1, CutAtParts DEF WithoutReferences
  <1> HIDE DEF cut
  <1>3. plain \in Seq(DraftForm) /\ Plain(plain)
    <2>1. plain \in Seq(DraftForm) /\ {"diagnosis"} \cap Names(plain) = {}
      BY <1>2, CutAtParts DEF WithoutDiagnosis
    <2> QED BY <2>1 DEF Plain
  <1> HIDE DEF plain
  <1>4. HasParts(normal) /\ Plain(normal)
    BY <1>3, NormalizedParts
  <1> HIDE DEF normal
  <1>5. /\ HasParts(Complete(normal, TRUE)) /\ ToSet(Required) \subseteq Names(Complete(normal, TRUE))
        /\ Plain(Complete(normal, TRUE))
    BY <1>4, CompleteHasParts
  <1> QED BY <1>5 DEF ReviewedBody, cut, plain, normal

\* Such a body cites what is listed if it is valid.
LEMMA ValidBody ==
    ASSUME NEW body, HasParts(body), IsValid(body)
    PROVE  Citing(body)
  BY DEF HasParts, IsValid, Citing

\* Two of them in a row are one.
LEMMA CitingConcat ==
    ASSUME NEW s, NEW t, Citing(s), Citing(t)
    PROVE  Citing(s \o t) /\ Names(s \o t) = Names(s) \cup Names(t)
  <1> DEFINE T == ToSet(s) \cup ToSet(t)
  <1>1. s \in Seq(T) /\ t \in Seq(T) /\ \A e \in T : e.cites \subseteq ToSet(Listed)
    <2>1. ToSet(s) \subseteq T /\ ToSet(t) \subseteq T
      OBVIOUS
    <2> QED BY <2>1, SeqMonotonic DEF Citing
  <1> HIDE DEF T
  <1>2. s \o t \in Seq(T) /\ ToSet(s \o t) = ToSet(s) \cup ToSet(t)
    BY <1>1, ConcatParts
  <1>3. s \o t \in Seq(ToSet(s \o t)) /\ ToSet(s \o t) \subseteq T
    BY <1>2, ToSetParts
  <1> QED BY <1>1, <1>2, <1>3 DEF Citing, Names

\* What the program adds to a valid body cites nothing.
LEMMA WrittenReportParts ==
    ASSUME NEW body, Citing(body)
    PROVE  Citing(WrittenReport(body).body) /\ Names(body) \subseteq Names(WrittenReport(body).body)
  <1> DEFINE critic == IF "critic" \in Names(body) THEN <<>> ELSE <<Text("critic")>>
             u == body \o critic
  <1>1. Citing(critic) /\ Citing(SupportSection)
    <2>1. Citing(<<>>)
      BY DEF Citing, ToSet
    <2>2. Citing(<<Text("critic")>>) /\ Citing(SupportSection)
      BY CriticBody, SupportBody DEF IsBody, Citing, Presentable
    <2> QED BY <2>1, <2>2
  <1> HIDE DEF critic
  <1>2. Citing(u) /\ Names(body) \subseteq Names(u)
    BY <1>1, CitingConcat
  <1> HIDE DEF u
  <1>3. Citing(u \o SupportSection) /\ Names(u) \subseteq Names(u \o SupportSection)
    BY <1>1, <1>2, CitingConcat
  <1> QED BY <1>2, <1>3 DEF WrittenReport, Report, u, critic
----------------------------------------------------------------------------
(* The critic has judged each finding before there is a report *)

SupportInv ==
    /\ at \in Concluded => IsJudged
    /\ Asking("criticise") => Len(support) < Len(analysis.findings)
    /\ at \in Concluded \ {"criticise"} => Len(support) = Len(analysis.findings)
    /\ Asking("write") => setting.reporter = "llm"
    /\ Asking("review") => setting.review = "llm"

\* Nothing has been judged, and nobody is asked.
LEMMA SupportInit == Init => SupportInv
  BY DEF Init, SupportInv, Concluded, Asking

\* A stage that takes findings and judgements as they are.
LEMMA SupportKept ==
    ASSUME SupportInv, UNCHANGED <<setting, analysis, support>>,
           at' \in Concluded => at \in Concluded,
           at' \in Concluded \ {"criticise"} => at \in Concluded \ {"criticise"},
           Asking("criticise")' => Asking("criticise"),
           Asking("write")' => Asking("write"), Asking("review")' => Asking("review")
    PROVE  SupportInv'
  BY DEF SupportInv, IsJudged

\* A new analysis has not been judged.
LEMMA SupportAnalysed ==
    ASSUME at' = "criticise", support' = <<>>, ~call'.open, Sound(analysis', Known)
    PROVE  SupportInv'
  <1>1. analysis'.findings \in Seq(ToSet(analysis'.findings))
    BY DEF Sound, RestsOn
  <1>2. support' \in Seq(ToSet(support')) /\ Len(support') = 0 /\ Len(analysis'.findings) \in Nat
    BY <1>1
  <1> QED BY <1>2 DEF SupportInv, IsJudged, Asking, Concluded

\* A judgement is one of the next finding.
LEMMA SupportAppend ==
    ASSUME IsJudged, analysis.findings \in Seq(ToSet(analysis.findings)),
           Len(support) < Len(analysis.findings), NEW status,
           support' = Append(support, Judgement(JudgedNow, status)), UNCHANGED analysis,
           at' = "criticise", ~call'.open
    PROVE  SupportInv'
  <1> DEFINE j == Judgement(JudgedNow, status)
             T == ToSet(support) \cup {j}
  <1>1. j.claim = analysis.findings[Len(support) + 1].title
    BY DEF Judgement, JudgedNow, Judged
  <1>2. support \in Seq(T) /\ j \in T /\ support' = Append(support, j)
    <2>1. support \in Seq(ToSet(support)) /\ ToSet(support) \subseteq T
      BY DEF IsJudged
    <2>2. support \in Seq(T)
      <3> HIDE DEF T
      <3> QED BY <2>1, SeqMonotonic
    <2> QED BY <2>2
  <1> HIDE DEF j, T
  <1>3. /\ support' \in Seq(T) /\ Len(support') = Len(support) + 1
        /\ \A i \in 1..Len(support) : support'[i] = support[i]
        /\ support'[Len(support) + 1] = j
    BY <1>2
  <1>4. Len(support) \in Nat /\ Len(analysis.findings) \in Nat
    BY <1>2
  <1>5. \A i \in 1..Len(support') : support'[i].claim = analysis.findings[i].title
    BY <1>1, <1>3, <1>4 DEF IsJudged
  <1>6. support' \in Seq(ToSet(support')) /\ Len(support') <= Len(analysis.findings)
    <2>1. support' \in Seq(ToSet(support'))
      BY <1>3, ToSetParts
    <2>2. Len(support') <= Len(analysis.findings)
      BY <1>3, <1>4
    <2> QED BY <2>1, <2>2
  <1> QED BY <1>5, <1>6 DEF SupportInv, IsJudged, Asking, Concluded

\* Judgements are made in the order of the findings, one for each.
LEMMA SupportStep == BudgetInv /\ GroundInv /\ SupportInv /\ [Next]_vars => SupportInv'
  <1> SUFFICES ASSUME BudgetInv, GroundInv, SupportInv, [Next]_vars PROVE SupportInv'
    OBVIOUS
  <1>0. /\ pool \in Seq(Evidence) /\ DOMAIN call = {"left", "attempt", "open"}
        /\ at \in Concluded => analysis.findings \in Seq(ToSet(analysis.findings))
    BY DEF GroundInv, BudgetInv, Sound, RestsOn
  <1>1. CASE TryAgain
    <2>1. UNCHANGED <<setting, at, analysis, support>> /\ call'.open = call.open
      BY <1>0, <1>1 DEF TryAgain, results
    <2> QED BY <2>1, SupportKept DEF Asking
  <1>2. CASE TryNext
    <2>1. UNCHANGED <<setting, at, analysis, support>> /\ call'.open = call.open
      BY <1>0, <1>2 DEF TryNext, results
    <2> QED BY <2>1, SupportKept DEF Asking
  <1>3. CASE Collect
    <2>1. at' = "filter" /\ UNCHANGED <<setting, analysis, support>>
      BY <1>3 DEF Collect
    <2> QED BY <2>1 DEF SupportInv, Concluded, Asking
  <1>4. CASE AskRelevance
    <2>1. at' = "filter" /\ UNCHANGED <<setting, analysis, support>>
      BY <1>4 DEF AskRelevance, Waiting, results
    <2> QED BY <2>1 DEF SupportInv, Concluded, Asking
  <1>5. CASE RelevanceAnswered
    <2>1. at' = "filter" /\ UNCHANGED <<setting, analysis, support>>
      BY <1>5 DEF RelevanceAnswered, Asking
    <2> QED BY <2>1 DEF SupportInv, Concluded, Asking
  <1>6. CASE Analyse
    <2>1. CASE Deterministic /\ UNCHANGED call
      <3>1. at' = "criticise" /\ support' = <<>> /\ Sound(analysis', Known)
        BY <1>0, <2>1, DeterministicSound
      <3>2. ~call'.open
        BY <1>6, <2>1 DEF Analyse, Waiting
      <3> QED BY <3>1, <3>2, SupportAnalysed
    <2>2. CASE at' = "analyse"
      BY <2>2 DEF SupportInv, Concluded, Asking
    <2> QED BY <1>6, <2>1, <2>2 DEF Analyse
  <1>7. CASE AnalysisAnswered
    <2>1. ~call'.open
      BY <1>7 DEF AnalysisAnswered, Hangup, NoCall
    <2>2. CASE Deterministic
      <3>1. at' = "criticise" /\ support' = <<>> /\ Sound(analysis', Known)
        BY <1>0, <2>2, DeterministicSound
      <3> QED BY <2>1, <3>1, SupportAnalysed
    <2>3. ASSUME NEW answer \in Analyses \cup {NoFindings}, Parses(answer), Analysed(Parsed(answer))
          PROVE  SupportInv'
      <3>1. Sound(Parsed(answer), Known)
        BY <1>0, <2>3, ParsedSound
      <3>2. at' = "criticise" /\ analysis' = Parsed(answer) /\ support' = <<>>
        BY <2>3 DEF Analysed
      <3> QED BY <2>1, <3>1, <3>2, SupportAnalysed
    <2> QED BY <1>7, <2>2, <2>3 DEF AnalysisAnswered
  <1>8. CASE Judge
    <2>1. /\ at = "criticise" /\ ~call.open /\ Len(support) < Len(analysis.findings)
          /\ at' = at /\ UNCHANGED <<setting, analysis>>
      BY <1>8 DEF Judge, Waiting, Judged
    <2>2. CASE UNCHANGED support
      BY <2>1, <2>2 DEF SupportInv, IsJudged, Concluded, Asking
    <2>3. CASE /\ UNCHANGED call
               /\ support' = Append(support, Judgement(JudgedNow, Lexical(JudgedNow, Cited(JudgedNow))))
      <3>1. IsJudged /\ ~call'.open
        BY <2>1, <2>3 DEF SupportInv, Concluded
      <3> QED BY <1>0, <2>1, <2>3, <3>1, SupportAppend DEF Concluded
    <2> QED BY <1>8, <2>2, <2>3 DEF Judge
  <1>9. CASE JudgeAnswered
    <2>1. /\ at = "criticise" /\ Len(support) < Len(analysis.findings) /\ ~call'.open
          /\ UNCHANGED <<setting, analysis>> /\ IsJudged
      BY <1>9 DEF JudgeAnswered, Asking, SupportInv, Hangup, NoCall, Concluded
    <2>2. CASE at' = "failed"
      BY <2>2 DEF SupportInv, Concluded, Asking
    <2>3. ASSUME NEW status, support' = Append(support, Judgement(JudgedNow, status)), UNCHANGED at
          PROVE  SupportInv'
      BY <1>0, <2>1, <2>3, SupportAppend DEF Concluded
    <2> QED BY <1>9, <2>2, <2>3 DEF JudgeAnswered
  <1>10. CASE Criticise
    <2>1. /\ at = "criticise" /\ ~call.open /\ Len(support) = Len(analysis.findings)
          /\ at' \in {"write", "collect"} /\ UNCHANGED <<setting, analysis, support, call>>
      BY <1>10 DEF Criticise, Waiting, Judged, results
    <2> QED BY <2>1 DEF SupportInv, IsJudged, Concluded, Asking
  <1>11. CASE Write
    <2>1. UNCHANGED <<setting, analysis, support>> /\ at = "write" /\ at' \in {"write", "review"}
      BY <1>11 DEF Write, Waiting, Writes
    <2>2. Asking("write")' => setting.reporter = "llm"
      BY <1>11, <2>1 DEF Write, Waiting, Writes, Asking
    <2>3. Asking("review")' => ~call'.open
      BY <1>11, <2>1 DEF Write, Waiting, Writes, Asking
    <2> QED BY <2>1, <2>2, <2>3 DEF SupportInv, IsJudged, Asking, Concluded
  <1>12. CASE Written
    <2>1. /\ UNCHANGED <<setting, analysis, support>> /\ at = "write" /\ ~call'.open
          /\ at' \in {"review", "failed"}
      BY <1>12 DEF Written, Asking, Writes, Hangup, NoCall
    <2> QED BY <2>1, SupportKept DEF Asking, Concluded
  <1>13. CASE Review
    <2>1. UNCHANGED <<setting, analysis, support>> /\ at = "review" /\ at' \in {"review", "diagnose"}
      BY <1>13 DEF Review, Waiting, Reviewed, results
    <2>2. Asking("review")' => setting.review = "llm"
      BY <1>13, <2>1 DEF Review, Waiting, Reviewed, Asking
    <2> QED BY <2>1, <2>2 DEF SupportInv, IsJudged, Asking, Concluded
  <1>14. CASE ReviewAnswered
    <2>1. /\ UNCHANGED <<setting, analysis, support>> /\ at = "review" /\ ~call'.open
          /\ at' \in {"review", "diagnose"}
      BY <1>14 DEF ReviewAnswered, Asking, Reviewed, Hangup, NoCall
    <2> QED BY <2>1, SupportKept DEF Asking, Concluded
  <1>15. CASE Diagnose
    BY <1>15, SupportKept DEF Diagnose, Asking, Concluded
  <1>16. CASE UNCHANGED vars
    BY <1>16, SupportKept DEF vars, results, Asking
  <1> QED
    BY <1>1, <1>2, <1>3, <1>4, <1>5, <1>6, <1>7, <1>8, <1>9, <1>10, <1>11, <1>12,
       <1>13, <1>14, <1>15, <1>16 DEF Next
----------------------------------------------------------------------------
(* The report, from the reporter to the diagnosis *)

\* What may become the body of a report.
Publishable(author, body) ==
    /\ Citing(body) /\ HasSections(author, Names(body))
    /\ ~Plain(body) => author = "model" /\ setting.reporter = "llm"
    /\ author = "program" => IsBody(body) /\ StatesAll(body)

Reported ==
    /\ report = Report(report.author, report.body, Listed)
    /\ Publishable(report.author, report.body)
Diagnosed ==
    /\ Citing(report.body)
    /\ report.author = "program" => IsBody(report.body) /\ StatesAll(report.body)
    /\ report.cut => setting.reporter = "llm"
    /\ ~report.cut =>
          /\ report.references = Listed
          /\ report.author = "model" \/ setting.plan = <<>> => report.missing = {}
          /\ analysis.claims = <<>> => report.missing \subseteq {"analysis"}
          /\ report.author = "program" /\ setting.plan # <<>> /\ analysis.claims # <<>> =>
                report.missing = ToSet(Required) \ {"findings"}

ReportInv ==
    /\ at \in {"review", "diagnose"} => Reported
    /\ at = "done" => Diagnosed

\* There is no report.
LEMMA ReportInit == Init => ReportInv
  BY DEF Init, ReportInv

\* What a report is made from does not change once it is written.
LEMMA ReportFrame ==
    ASSUME UNCHANGED <<setting, pool, analysis, support>>
    PROVE  /\ Listed' = Listed
           /\ \A body : /\ Citing(body)' <=> Citing(body)
                        /\ IsBody(body)' <=> IsBody(body)
                        /\ StatesAll(body)' <=> StatesAll(body)
           /\ \A author, names : HasSections(author, names)' <=> HasSections(author, names)
  <1>1. Listed' = Listed
    BY SMT DEF References, VerifiedIn, Listed, Number
  <1>2. Supported' = Supported
    BY DEF Supported
  <1>3. \A title : LeftOut(title)' <=> LeftOut(title)
    <2>1. \A f : Place(f)' = Place(f)
      BY SMT DEF Place, References, VerifiedIn
    <2>2. Planned' = Planned
      BY DEF Planned
    <2> QED BY <2>1, <2>2 DEF LeftOut
  <1>4. ASSUME NEW body
        PROVE  /\ Citing(body)' <=> Citing(body)
               /\ IsBody(body)' <=> IsBody(body)
               /\ StatesAll(body)' <=> StatesAll(body)
    BY <1>1, <1>2, <1>3 DEF Citing, IsBody, Presentable, StatesAll
  <1>5. \A author, names : HasSections(author, names)' <=> HasSections(author, names)
    BY DEF HasSections
  <1> QED BY <1>1, <1>4, <1>5

\* A report of a body that may be published.
LEMMA ReportedNext ==
    ASSUME UNCHANGED <<setting, pool, analysis, support>>, NEW author, NEW body,
           Publishable(author, body), report' = Report(author, body, Listed)
    PROVE  Reported'
  <1>1. /\ report'.author = author /\ report'.body = body
        /\ report' = Report(report'.author, report'.body, Listed)
    BY DEF Report
  <1> QED BY <1>1, ReportFrame DEF Reported, Publishable

\* A stage that takes the report as it is.
LEMMA ReportKept ==
    ASSUME ReportInv, UNCHANGED <<setting, pool, analysis, support, report>>,
           at' \in {"review", "diagnose"} => at \in {"review", "diagnose"}, at' = "done" => at = "done"
    PROVE  ReportInv'
  <1>1. CASE at' \in {"review", "diagnose"}
    <2>1. /\ Publishable(report.author, report.body)
          /\ report' = Report(report.author, report.body, Listed)
      BY <1>1 DEF ReportInv, Reported
    <2>2. Reported'
      BY <2>1, ReportedNext
    <2> QED BY <1>1, <2>2 DEF ReportInv
  <1>2. CASE at' = "done"
    <2>1. Diagnosed
      BY <1>2 DEF ReportInv
    <2>2. Diagnosed'
      BY <2>1, ReportFrame DEF Diagnosed
    <2> QED BY <1>2, <2>2 DEF ReportInv
  <1> QED BY <1>1, <1>2 DEF ReportInv

\* The program's report may be published.
LEMMA DeterministicPublishable ==
    ASSUME Reportable
    PROVE  /\ Publishable("program", DeterministicReport.body)
           /\ DeterministicReport = Report("program", DeterministicReport.body, Listed)
  <1>1. DeterministicReport = Report("program", DeterministicReport.body, Listed)
    BY DEF DeterministicReport, Report
  <1>2. Citing(DeterministicReport.body)
    BY DeterministicParts DEF IsBody, Presentable, Citing
  <1> QED BY <1>1, <1>2, DeterministicParts DEF Publishable

\* So may that of a model, or of its review, whatever it claims.
LEMMA ModelPublishable ==
    ASSUME NEW body, Citing(body), ToSet(Required) \subseteq Names(body),
           ~Plain(body) => setting.reporter = "llm"
    PROVE  Publishable("model", body)
  BY DEF Publishable, HasSections

\* The diagnosis changes nothing before it, unless the model has written one.
LEMMA DiagnoseStep ==
    ASSUME Reported, Diagnose
    PROVE  Diagnosed'
  <1> DEFINE body == WithoutDiagnosis(report.body)
             text == Text("diagnosis")
             diagnosed == "diagnosis" \in Names(report.body)
             whole == Append(body, text)
             program == report.author = "program"
  <1>1. Publishable(report.author, report.body) /\ report.references = Listed
    BY DEF Reported, Report
  <1>2. /\ UNCHANGED <<setting, pool, analysis, support>>
        /\ report'.body = whole /\ report'.cut = diagnosed /\ report'.author = report.author
        /\ report'.references = IF diagnosed THEN <<>> ELSE report.references
        /\ report'.missing = ToSet(Required) \ Names(body)
    BY DEF Diagnose
  <1>3. /\ report.body \in Seq(ToSet(report.body))
        /\ \A s \in ToSet(report.body) : s.cites \subseteq ToSet(Listed)
        /\ program => \A s \in ToSet(report.body) : Presentable(s)
    BY <1>1 DEF Publishable, Citing, IsBody
  <1>4. body \in Seq(ToSet(report.body)) /\ ToSet(body) \subseteq ToSet(report.body)
    BY <1>3, CutAtParts DEF WithoutDiagnosis
  <1>5. ~diagnosed => body = report.body
    BY DEF WithoutDiagnosis, CutAt
  <1> HIDE DEF body
  <1>6. Presentable(text)
    BY PresentableText
  <1> HIDE DEF text
  <1> DEFINE T == ToSet(report.body) \cup {text}
  <1>7. /\ whole \in Seq(T) /\ ToSet(body) \subseteq ToSet(whole)
        /\ \A s \in T : s.cites \subseteq ToSet(Listed)
        /\ program => \A s \in T : Presentable(s)
    <2>1. ToSet(report.body) \subseteq T /\ text \in T
      OBVIOUS
    <2>2. body \in Seq(T)
      <3> HIDE DEF T
      <3> QED BY <1>4, <2>1, SeqMonotonic
    <2>3. whole \in Seq(T)
      BY <2>1, <2>2
    <2>4. ToSet(body) \subseteq ToSet(whole)
      <3> HIDE DEF T
      <3>1. DOMAIN body \subseteq DOMAIN whole /\ \A i \in DOMAIN body : whole[i] = body[i]
        BY <2>2
      <3> QED BY <3>1 DEF ToSet
    <2> QED BY <1>3, <1>6, <2>3, <2>4 DEF Presentable
  <1> HIDE DEF T, whole
  <1>8. Citing(whole) /\ (program => IsBody(whole))
    BY <1>7, ToSetParts DEF Citing, IsBody
  <1>9. program => StatesAll(whole)
    <2>1. program => ~diagnosed
      BY <1>1 DEF Publishable, Plain
    <2>2. program => StatesAll(body)
      BY <1>1, <1>5, <2>1 DEF Publishable
    <2> QED BY <1>7, <2>2, StatesMore
  <1>10. diagnosed => setting.reporter = "llm"
    BY <1>1 DEF Publishable, Plain
  <1>11. ASSUME ~diagnosed
         PROVE  /\ report'.references = Listed
                /\ report.author = "model" \/ setting.plan = <<>> => report'.missing = {}
                /\ analysis.claims = <<>> => report'.missing \subseteq {"analysis"}
                /\ program /\ setting.plan # <<>> /\ analysis.claims # <<>> =>
                      report'.missing = ToSet(Required) \ {"findings"}
    <2>1. HasSections(report.author, Names(body))
      BY <1>1, <1>5, <1>11 DEF Publishable
    <2> QED BY <1>1, <1>2, <1>11, <2>1 DEF HasSections
  <1> HIDE DEF diagnosed
  <1> QED BY <1>2, <1>8, <1>9, <1>10, <1>11, ReportFrame DEF Diagnosed

\* A report is written from a sound and judged analysis, and until the run ends none of
\* what it is made from changes.
LEMMA ReportStep == GroundInv /\ SupportInv /\ ReportInv /\ [Next]_vars => ReportInv'
  <1> SUFFICES ASSUME GroundInv, SupportInv, ReportInv, [Next]_vars PROVE ReportInv'
    OBVIOUS
  <1>0. at \in {"write", "review", "diagnose"} => Reportable
    BY DEF GroundInv, SupportInv, Concluded, Reportable
  <1>1. CASE TryAgain
    BY <1>1, ReportKept DEF TryAgain, results
  <1>2. CASE TryNext
    BY <1>2, ReportKept DEF TryNext, results
  <1>3. CASE Collect
    BY <1>3 DEF Collect, ReportInv
  <1>4. CASE AskRelevance
    BY <1>4 DEF AskRelevance, Waiting, ReportInv
  <1>5. CASE RelevanceAnswered
    BY <1>5 DEF RelevanceAnswered, Asking, ReportInv
  <1>6. CASE Analyse
    <2>1. at' \in {"analyse", "criticise"}
      BY <1>6 DEF Analyse, Deterministic, Analysed
    <2> QED BY <2>1 DEF ReportInv
  <1>7. CASE AnalysisAnswered
    <2>1. at' = "criticise"
      BY <1>7 DEF AnalysisAnswered, Deterministic, Analysed
    <2> QED BY <2>1 DEF ReportInv
  <1>8. CASE Judge
    BY <1>8 DEF Judge, Waiting, ReportInv
  <1>9. CASE JudgeAnswered
    BY <1>9 DEF JudgeAnswered, Asking, ReportInv
  <1>10. CASE Criticise
    <2>1. at' \in {"write", "collect"}
      BY <1>10 DEF Criticise
    <2> QED BY <2>1 DEF ReportInv
  <1>11. CASE Write
    <2>1. at = "write" /\ UNCHANGED <<setting, pool, analysis, support>>
      BY <1>11 DEF Write, Waiting
    <2>2. CASE at' = at
      BY <2>1, <2>2 DEF ReportInv
    <2>3. CASE Writes(DeterministicReport)
      <3>1. /\ Publishable("program", DeterministicReport.body) /\ at' = "review"
            /\ report' = Report("program", DeterministicReport.body, Listed)
        BY <1>0, <2>1, <2>3, DeterministicPublishable DEF Writes
      <3>2. Reported'
        BY <2>1, <3>1, ReportedNext
      <3> QED BY <3>1, <3>2 DEF ReportInv
    <2> QED BY <1>11, <2>2, <2>3 DEF Write
  <1>12. CASE Written
    <2>1. at = "write" /\ UNCHANGED <<setting, pool, analysis, support>> /\ setting.reporter = "llm"
      BY <1>12 DEF Written, Asking, SupportInv
    <2>2. CASE at' = "failed"
      BY <2>2 DEF ReportInv
    <2>3. CASE Writes(DeterministicReport)
      <3>1. /\ Publishable("program", DeterministicReport.body) /\ at' = "review"
            /\ report' = Report("program", DeterministicReport.body, Listed)
        BY <1>0, <2>1, <2>3, DeterministicPublishable DEF Writes
      <3>2. Reported'
        BY <2>1, <3>1, ReportedNext
      <3> QED BY <3>1, <3>2 DEF ReportInv
    <2>4. ASSUME NEW draft \in Drafts \cup {NoDraft}, NEW body, body = WrittenBody(draft),
                 IsValid(body), Writes(WrittenReport(body))
          PROVE  ReportInv'
      <3>1. HasParts(body) /\ ToSet(Required) \subseteq Names(body)
        BY <1>0, <2>1, <2>4, WrittenParts DEF Reportable
      <3>2. Citing(body)
        BY <2>4, <3>1, ValidBody
      <3> DEFINE whole == WrittenReport(body).body
      <3>3. Citing(whole) /\ ToSet(Required) \subseteq Names(whole)
        BY <3>1, <3>2, WrittenReportParts
      <3>4. report' = Report("model", whole, Listed) /\ at' = "review"
        BY <2>4 DEF Writes, WrittenReport, Report
      <3> HIDE DEF whole
      <3>5. Publishable("model", whole)
        BY <2>1, <3>3, ModelPublishable
      <3>6. Reported'
        BY <2>1, <3>4, <3>5, ReportedNext
      <3> QED BY <3>4, <3>6 DEF ReportInv
    <2> QED BY <1>12, <2>2, <2>3, <2>4 DEF Written
  <1>13. CASE Review
    <2>1. at = "review" /\ at' \in {"review", "diagnose"}
          /\ UNCHANGED <<setting, pool, analysis, support, report>>
      BY <1>13 DEF Review, Waiting, Reviewed, results
    <2> QED BY <2>1, ReportKept
  <1>14. CASE ReviewAnswered
    <2>1. at = "review" /\ UNCHANGED <<setting, pool, analysis, support>> /\ setting.review = "llm"
      BY <1>14 DEF ReviewAnswered, Asking, SupportInv
    <2>2. CASE Reviewed /\ UNCHANGED report
      BY <2>1, <2>2, ReportKept DEF Reviewed
    <2>3. ASSUME NEW draft \in Drafts, NEW body, body = ReviewedBody(draft), IsValid(body),
                 report' = Report("model", body, Listed), UNCHANGED at
          PROVE  ReportInv'
      <3>1. HasParts(body) /\ Plain(body) /\ ToSet(Required) \subseteq Names(body)
        BY <2>3, ReviewedParts
      <3>2. Citing(body)
        BY <2>3, <3>1, ValidBody
      <3>3. Publishable("model", body)
        BY <3>1, <3>2, ModelPublishable
      <3>4. Reported'
        BY <2>1, <2>3, <3>3, ReportedNext
      <3> QED BY <2>1, <2>3, <3>4 DEF ReportInv
    <2> QED BY <1>14, <2>2, <2>3 DEF ReviewAnswered
  <1>15. CASE Diagnose
    <2>1. at = "diagnose" /\ at' = "done" /\ Reported
      BY <1>15 DEF Diagnose, ReportInv
    <2>2. Diagnosed'
      BY <1>15, <2>1, DiagnoseStep
    <2> QED BY <2>1, <2>2 DEF ReportInv
  <1>16. CASE UNCHANGED vars
    BY <1>16, ReportKept DEF vars, results
  <1> QED
    BY <1>1, <1>2, <1>3, <1>4, <1>5, <1>6, <1>7, <1>8, <1>9, <1>10, <1>11, <1>12,
       <1>13, <1>14, <1>15, <1>16 DEF Next

\* The four invariants hold together.
ReportingInv == BudgetInv /\ GroundInv /\ SupportInv /\ ReportInv

\* So they hold in every state of a run.
LEMMA ReportingAlways == Spec => []ReportingInv
  <1>1. Init => ReportingInv
    BY BudgetInit, GroundInit, SupportInit, ReportInit DEF ReportingInv
  <1>2. ReportingInv /\ [Next]_vars => ReportingInv'
    BY BudgetStep, GroundStep, SupportStep, ReportStep DEF ReportingInv
  <1> QED BY <1>1, <1>2, PTL DEF Spec

\* Whatever way an analysis comes about, and whatever the round, all that is concluded
\* rests on verified evidence that there is.
THEOREM GroundedConclusions == Spec => []ConclusionsAreGrounded
  <1>1. ReportingInv => ConclusionsAreGrounded
    BY GroundSuffices DEF ReportingInv
  <1> QED BY <1>1, ReportingAlways, PTL

\* In every run, whoever has written and reviewed the report and in whatever round, its
\* citations resolve to the verified evidence of that round.
THEOREM ResolvingCitations == Spec => []CitationsResolve
  <1>1. ReportingInv => CitationsResolve
    <2> SUFFICES ASSUME ReportingInv, at = "done"
                 PROVE  /\ report.cut => setting.reporter = "llm"
                        /\ ~report.cut =>
                              /\ report.references = Listed
                              /\ \A s \in ToSet(report.body) : \A n \in s.cites :
                                    LET places == {i \in DOMAIN Listed : Listed[i] = n}
                                    IN  places # {} /\ (IsInjective(pool) => Cardinality(places) = 1)
      BY DEF CitationsResolve
    <2>1. Diagnosed /\ pool \in Seq(Evidence)
      BY DEF ReportingInv, ReportInv, GroundInv
    <2>2. ASSUME NEW s \in ToSet(report.body), NEW n \in s.cites
          PROVE  LET places == {i \in DOMAIN Listed : Listed[i] = n}
                 IN  places # {} /\ (IsInjective(pool) => Cardinality(places) = 1)
      <3> DEFINE places == {i \in DOMAIN Listed : Listed[i] = n}
      <3>1. PICK i \in DOMAIN Listed : Listed[i] = n
        BY <2>1, <2>2 DEF Diagnosed, Citing, ToSet
      <3>2. ASSUME IsInjective(pool) PROVE Cardinality(places) = 1
        <4>1. places = {i}
          BY <2>1, <3>1, <3>2, NumberIsPlace
        <4> HIDE DEF places
        <4> QED BY <4>1, FS_Singleton
      <3> QED BY <3>1, <3>2
    <2> QED BY <2>1, <2>2 DEF Diagnosed
  <1> QED BY <1>1, ReportingAlways, PTL

\* A report that the program has written, by itself or for a model that has failed, claims
\* nothing that the critic has not found supported, and leaves out of it only what none of
\* the claims repeats or, without claims, no section of the plan has a place for.
THEOREM StatedClaims == Spec => []SupportedClaimsAreStated
  <1>1. ReportingInv => SupportedClaimsAreStated
    <2> SUFFICES ASSUME ReportingInv, at = "done", report.author = "program"
                 PROVE  LET stated == UNION {s.claims : s \in ToSet(report.body)}
                        IN  /\ stated \subseteq Supported
                            /\ \A title \in Supported : title \in stated \/ LeftOut(title)
      BY DEF SupportedClaimsAreStated, Supported
    <2>1. IsBody(report.body) /\ StatesAll(report.body)
      BY DEF ReportingInv, ReportInv, Diagnosed
    <2> QED BY <2>1 DEF IsBody, Presentable, StatesAll
  <1> QED BY <1>1, ReportingAlways, PTL

\* A report that is not cut off lacks no section if it has been written without a plan or
\* has been written or reviewed by a model; the program's report to a plan lacks the
\* analysis at most, but all except the findings if there are claims to state.
THEOREM CompleteSections == Spec => []SectionsAreComplete
  <1>1. ReportingInv => SectionsAreComplete
    BY DEF ReportingInv, ReportInv, Diagnosed, SectionsAreComplete
  <1> QED BY <1>1, ReportingAlways, PTL
====
