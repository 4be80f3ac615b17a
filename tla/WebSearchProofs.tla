---- MODULE WebSearchProofs ----
(* Where the quotes of WebSearch are from, and what becomes of the candidates and of   *)
(* the best chunk of each page, for any number of workers, pages, redirects and        *)
(* candidates.                                                                         *)
EXTENDS WebSearch, FiniteSetTheorems, SequenceTheorems, TLAPS

\* What a piece of evidence may say, given the pages that have come back so far.
IsGood(e) ==
    e.verified => \/ [url |-> e.source, content |-> e.content] \in Quotable
                  \/ e.listed /\ e.chunk = 0

\* Sequences over whatever their elements are.
IsSeq(s) == s \in Seq(ToSet(s))

CallsAreRecords ==
    /\ DOMAIN call = Worker
    /\ \A w \in Worker : DOMAIN call[w] = DOMAIN Idle

\* The cache and the pages that go into it have been served, for all that is done with
\* files, and a page that is quoted has or is read from it.
PagesAreServed ==
    /\ served \subseteq Page
    /\ cache \subseteq served
    /\ \A w \in Worker : /\ call[w].at \in {"store", "write"} => call[w].page \in served
                         /\ call[w].at = "extract" => call[w].page \in Quotable

EvidenceIsGood ==
    \A w \in Worker : /\ IsSeq(call[w].evidence)
                      /\ \A e \in ToSet(call[w].evidence) : IsGood(e)

QuoteInv == CallsAreRecords /\ PagesAreServed /\ EvidenceIsGood

\* Numbers of which there are any have a least one.
LEMMA LeastOfNumbers ==
    ASSUME NEW T \in SUBSET Nat, T # {}
    PROVE  \E x \in T : \A y \in T : ~(y < x)
  <1>1. \E x \in T : \A y \in T : ~(<<y, x>> \in OpToRel(<, Nat))
    BY NatLessThanWellFounded, WFMin
  <1> QED BY <1>1 DEF OpToRel

\* Sequences of elements of any kind: what concatenation, a single one and Append hold.
LEMMA ConcatOfAny ==
    ASSUME NEW s, NEW t, IsSeq(s), IsSeq(t)
    PROVE  IsSeq(s \o t) /\ ToSet(s \o t) = ToSet(s) \cup ToSet(t)
  <1> DEFINE S == ToSet(s) \cup ToSet(t)
  <1>1. s \in Seq(S) /\ t \in Seq(S)
    BY DEF IsSeq
  <1>2. /\ s \o t \in Seq(S) /\ Len(s \o t) = Len(s) + Len(t)
        /\ \A i \in 1..Len(s) + Len(t) :
              (s \o t)[i] = IF i <= Len(s) THEN s[i] ELSE t[i - Len(s)]
    BY <1>1, ConcatProperties
  <1>3. ToSet(s \o t) = S
    <2>1. ToSet(s \o t) \subseteq S
      BY <1>1, <1>2 DEF ToSet
    <2>2. ASSUME NEW i \in DOMAIN s PROVE s[i] \in ToSet(s \o t)
      BY <1>1, <1>2 DEF ToSet
    <2>3. ASSUME NEW i \in DOMAIN t PROVE t[i] \in ToSet(s \o t)
      <3>1. i + Len(s) \in DOMAIN (s \o t) /\ (s \o t)[i + Len(s)] = t[i]
        BY <1>1, <1>2
      <3> QED BY <3>1 DEF ToSet
    <2> QED BY <2>1, <2>2, <2>3 DEF ToSet
  <1> QED BY <1>2, <1>3 DEF IsSeq

LEMMA SingleOfAny == ASSUME NEW e PROVE IsSeq(<<e>>) /\ ToSet(<<e>>) = {e}
  BY DEF IsSeq, ToSet

LEMMA AppendOfAny ==
    ASSUME NEW s, NEW e, IsSeq(s)
    PROVE  IsSeq(Append(s, e)) /\ ToSet(Append(s, e)) = ToSet(s) \cup {e}
  <1>1. s \in Seq(ToSet(s) \cup {e})
    BY DEF IsSeq
  <1>2. Append(s, e) = s \o <<e>>
    BY <1>1, AppendIsConcat
  <1> QED BY <1>2, ConcatOfAny, SingleOfAny

----------------------------------------------------------------------------
(* What one step may do to the invariant *)

Fields == {"at", "kind", "buckets", "candidates", "rank", "attempt", "page", "evidence", "kept"}
Filing == {"store", "write"}

\* What can be quoted is a page, has come back or is in the cache, and stays quotable.
LEMMA QuotablePages ==
    ASSUME served \subseteq Page
    PROVE  /\ served \subseteq Quotable /\ Quotable \subseteq Page
           /\ setting.caching => \A page \in served : Reading(page) \in Quotable
  <1>1. \A page \in Page : Reading(page) \in Page
    BY UrlAssumption DEF Reading, Page
  <1> QED BY <1>1 DEF Quotable

LEMMA QuotableGrows ==
    ASSUME UNCHANGED setting, served \subseteq served'
    PROVE  Quotable \subseteq Quotable'
  BY DEF Quotable, Reading

\* Nothing has been fetched, and nothing is claimed.
LEMMA QuoteInit == Init => QuoteInv
  <1> SUFFICES ASSUME Init PROVE QuoteInv
    OBVIOUS
  <1>1. call = [w \in Worker |-> Idle] /\ cache = {} /\ served = {}
    BY DEF Init
  <1>2. IsSeq(<<>>) /\ ToSet(<<>>) = {}
    BY DEF IsSeq, ToSet
  <1>3. Idle.at = "idle" /\ Idle.evidence = <<>>
    BY DEF Idle
  <1> QED BY <1>1, <1>2, <1>3 DEF QuoteInv, CallsAreRecords, PagesAreServed, EvidenceIsGood

\* All that has to be seen of a step in which one worker moves.
LEMMA OneWorkerMoves ==
    ASSUME QuoteInv, NEW w \in Worker, UNCHANGED setting,
           DOMAIN call' = Worker, \A v \in Worker \ {w} : call'[v] = call[v],
           DOMAIN call'[w] = Fields,
           served \subseteq served', served' \subseteq Page, cache' \subseteq served',
           call'[w].at \in Filing => call'[w].page \in served',
           call'[w].at = "extract" => call'[w].page \in Quotable',
           IsSeq(call'[w].evidence), \A e \in ToSet(call'[w].evidence) : IsGood(e)'
    PROVE  QuoteInv'
  <1>1. CallsAreRecords'
    BY DEF QuoteInv, CallsAreRecords, Idle, Fields
  <1>2. PagesAreServed'
    BY QuotableGrows DEF QuoteInv, PagesAreServed, Filing
  <1>3. \A e : IsGood(e) => IsGood(e)'
    BY QuotableGrows DEF IsGood
  <1>4. ASSUME NEW v \in Worker
        PROVE  IsSeq(call'[v].evidence) /\ \A e \in ToSet(call'[v].evidence) : IsGood(e)'
    BY <1>3 DEF QuoteInv, EvidenceIsGood
  <1>5. EvidenceIsGood'
    BY <1>4 DEF EvidenceIsGood, IsSeq
  <1> QED BY <1>1, <1>2, <1>5 DEF QuoteInv

\* ... and whose evidence stays as it is, with no new page.
LEMMA OnlyMoves ==
    ASSUME QuoteInv, NEW w \in Worker,
           DOMAIN call' = Worker, \A v \in Worker \ {w} : call'[v] = call[v],
           DOMAIN call'[w] = Fields,
           UNCHANGED <<setting, served>>, cache' \subseteq served,
           call'[w].at \in Filing => call'[w].page \in served,
           call'[w].at = "extract" => call'[w].page \in Quotable,
           call'[w].evidence = call[w].evidence \/ call'[w].evidence = <<>>
    PROVE  QuoteInv'
  <1>1. IsSeq(<<>>) /\ ToSet(<<>>) = {}
    BY DEF IsSeq, ToSet
  <1>2. IsSeq(call'[w].evidence) /\ \A e \in ToSet(call'[w].evidence) : IsGood(e)
    BY <1>1 DEF QuoteInv, EvidenceIsGood
  <1>3. Quotable \subseteq Quotable'
    BY QuotableGrows
  <1>4. \A e \in ToSet(call'[w].evidence) : IsGood(e)'
    BY <1>2, <1>3 DEF IsGood
  <1> QED BY <1>2, <1>3, <1>4, OneWorkerMoves DEF QuoteInv, PagesAreServed

\* ... and who leaves a candidate with good evidence.
LEMMA GoesOnWithGood ==
    ASSUME QuoteInv, NEW w \in Worker, NEW evidence, GoesOn(w, evidence),
           UNCHANGED <<setting, served, cache>>,
           IsSeq(evidence), \A e \in ToSet(evidence) : IsGood(e)
    PROVE  QuoteInv'
  <1>1. DOMAIN call = Worker /\ DOMAIN call[w] = Fields
    BY DEF QuoteInv, CallsAreRecords, Idle, Fields
  <1>2. /\ DOMAIN call' = Worker /\ \A v \in Worker \ {w} : call'[v] = call[v]
        /\ DOMAIN call'[w] = Fields
        /\ call'[w].at = "next" /\ call'[w].evidence = call[w].evidence \o evidence
    BY <1>1 DEF GoesOn, Fields
  <1>3. /\ IsSeq(call[w].evidence \o evidence)
        /\ ToSet(call[w].evidence \o evidence) = ToSet(call[w].evidence) \cup ToSet(evidence)
    BY ConcatOfAny DEF QuoteInv, EvidenceIsGood
  <1>4. \A e \in ToSet(call'[w].evidence) : IsGood(e)'
    BY <1>2, <1>3, QuotableGrows DEF QuoteInv, EvidenceIsGood, IsGood
  <1> QED BY <1>2, <1>3, <1>4, OneWorkerMoves DEF QuoteInv, PagesAreServed, Filing

\* What is said of a candidate without a page is good.
LEMMA ListedIsGood ==
    ASSUME NEW w \in Worker, NEW url, NEW content, call[w].kind # "search"
    PROVE  IsGood(Item(w, url, TRUE, content, 0))
  BY DEF IsGood, Item

\* ... and who leaves it with the report of a failure.
LEMMA FailsWithGood ==
    ASSUME QuoteInv, NEW w \in Worker, Fails(w), UNCHANGED <<setting, served, cache>>
    PROVE  QuoteInv'
  <1>1. IsSeq(<<>>) /\ ToSet(<<>>) = {}
    BY DEF IsSeq, ToSet
  <1>2. IsGood(Diagnostic(w))
    BY DEF IsGood, Diagnostic, Item
  <1> QED BY <1>1, <1>2, SingleOfAny, GoesOnWithGood DEF Fails

----------------------------------------------------------------------------
(* The chunks of a page *)

LEMMA IntervalsMeet ==
    ASSUME NEW m \in Nat, NEW n \in Nat
    PROVE  \E k \in Nat : (1..m) \cap (1..n) = 1..k
  <1>1. CASE m <= n
    BY <1>1
  <1>2. CASE n <= m
    BY <1>2
  <1> QED BY <1>1, <1>2

\* In a finite set with a strict order, each element has a number of its own of others
\* ahead of it, and each number below that of the elements is the number of one.
LEMMA RanksAreTaken ==
    ASSUME NEW S, IsFiniteSet(S), NEW R,
           \A x \in S : <<x, x>> \notin R,
           \A x, y, z \in S : <<x, y>> \in R /\ <<y, z>> \in R => <<x, z>> \in R,
           \A x, y \in S : x # y => <<x, y>> \in R \/ <<y, x>> \in R
    PROVE  /\ Cardinality(S) \in Nat
           /\ \A x \in S : Cardinality({y \in S : <<y, x>> \in R}) \in 0..Cardinality(S) - 1
           /\ \A x, z \in S : x # z => Cardinality({y \in S : <<y, x>> \in R})
                                       # Cardinality({y \in S : <<y, z>> \in R})
           /\ \A i \in 1..Cardinality(S) :
                 \E x \in S : Cardinality({y \in S : <<y, x>> \in R}) = i - 1
  <1> DEFINE ahead(x) == {y \in S : <<y, x>> \in R}
             n == Cardinality(S)
             rank == [x \in S |-> Cardinality(ahead(x))]
  <1>1. n \in Nat
    BY FS_CardinalityType
  <1>2. ASSUME NEW x \in S
        PROVE  /\ IsFiniteSet(ahead(x)) /\ Cardinality(ahead(x)) \in Nat
               /\ x \notin ahead(x) /\ Cardinality(ahead(x)) \in 0..n - 1
               /\ IsFiniteSet(ahead(x) \cup {x})
               /\ Cardinality(ahead(x) \cup {x}) = Cardinality(ahead(x)) + 1
    <2>1. ahead(x) \in SUBSET S /\ ahead(x) \cup {x} \in SUBSET S /\ x \notin ahead(x)
      OBVIOUS
    <2> HIDE DEF ahead, n
    <2>2. IsFiniteSet(ahead(x)) /\ Cardinality(ahead(x)) \in Nat
      BY <2>1, FS_Subset, FS_CardinalityType
    <2>3. /\ IsFiniteSet(ahead(x) \cup {x})
          /\ Cardinality(ahead(x) \cup {x}) = Cardinality(ahead(x)) + 1
      BY <2>1, <2>2, FS_AddElement
    <2>4. Cardinality(ahead(x) \cup {x}) <= n
      BY <2>1, FS_Subset DEF n
    <2> QED BY <1>1, <2>1, <2>2, <2>3, <2>4
  <1>3. ASSUME NEW x \in S, NEW z \in S, <<x, z>> \in R
        PROVE  Cardinality(ahead(x)) < Cardinality(ahead(z))
    <2>1. ahead(x) \cup {x} \in SUBSET ahead(z)
      BY <1>3
    <2>2. IsFiniteSet(ahead(z)) /\ Cardinality(ahead(z)) \in Nat
      BY <1>2
    <2>3. /\ Cardinality(ahead(x)) \in Nat
          /\ Cardinality(ahead(x) \cup {x}) = Cardinality(ahead(x)) + 1
      BY <1>2
    <2> HIDE DEF ahead
    <2>4. Cardinality(ahead(x) \cup {x}) <= Cardinality(ahead(z))
      BY <2>1, <2>2, FS_Subset
    <2> QED BY <2>2, <2>3, <2>4
  <1>4. ASSUME NEW x \in S, NEW z \in S, x # z
        PROVE  Cardinality(ahead(x)) # Cardinality(ahead(z))
    <2>1. <<x, z>> \in R \/ <<z, x>> \in R
      BY <1>4
    <2>2. Cardinality(ahead(x)) \in Nat
      BY <1>2
    <2>3. Cardinality(ahead(z)) \in Nat
      BY <1>2
    <2>4. CASE <<x, z>> \in R
      <3>1. Cardinality(ahead(x)) < Cardinality(ahead(z))
        BY <1>3, <2>4
      <3> HIDE DEF ahead
      <3> QED BY <2>2, <2>3, <3>1
    <2>5. CASE <<z, x>> \in R
      <3>1. Cardinality(ahead(z)) < Cardinality(ahead(x))
        BY <1>3, <2>5
      <3> HIDE DEF ahead
      <3> QED BY <2>2, <2>3, <3>1
    <2> QED BY <2>1, <2>4, <2>5
  <1>5. rank \in Injection(S, 0..n - 1)
    <2>1. \A x \in S : Cardinality(ahead(x)) \in 0..n - 1
      BY <1>2
    <2>2. \A x, z \in S : Cardinality(ahead(x)) = Cardinality(ahead(z)) => x = z
      BY <1>4
    <2> HIDE DEF ahead, n
    <2>3. rank \in [S -> 0..n - 1]
      BY <2>1
    <2>4. \A x, z \in DOMAIN rank : rank[x] = rank[z] => x = z
      BY <2>2
    <2> HIDE DEF rank
    <2> QED BY <2>3, <2>4 DEF Injection, IsInjective
  <1>6. IsFiniteSet(0..n - 1) /\ Cardinality(0..n - 1) = n
    <2>1. n - 1 \in Int /\ 0 \in Int /\ (0 > n - 1 <=> n = 0) /\ n - 1 - 0 + 1 = n
      BY <1>1
    <2> HIDE DEF n
    <2> QED BY <2>1, FS_Interval
  <1>7. rank \in Surjection(S, 0..n - 1)
    <2> HIDE DEF rank
    <2> QED BY <1>5, <1>6, FS_Injection
  <1>8. ASSUME NEW i \in 1..n PROVE \E x \in S : Cardinality(ahead(x)) = i - 1
    <2>1. i - 1 \in 0..n - 1
      BY <1>1
    <2> HIDE DEF ahead, n
    <2> QED BY <1>7, <2>1 DEF Surjection
  <1> HIDE DEF n
  <1>9. /\ n \in Nat
        /\ \A x \in S : Cardinality(ahead(x)) \in 0..n - 1
        /\ \A x, z \in S : x # z => Cardinality(ahead(x)) # Cardinality(ahead(z))
        /\ \A i \in 1..n : \E x \in S : Cardinality(ahead(x)) = i - 1
    <2> HIDE DEF ahead
    <2> QED BY <1>1, <1>2, <1>4, <1>8
  <1> QED BY <1>9 DEF n

\* What Ranked(S, <) is for a set of numbers: all of them, and nothing else.
LEMMA RankedNumbers ==
    ASSUME NEW S \in SUBSET Nat, IsFiniteSet(S), NEW order,
           order = [i \in 1..Cardinality(S) |->
                       CHOOSE x \in S : Cardinality({y \in S : y < x}) = i - 1]
    PROVE  /\ \E n \in Nat : DOMAIN order = 1..n
           /\ \A i \in DOMAIN order : order[i] \in S
           /\ \A x \in S : \E i \in DOMAIN order : order[i] = x
  <1> DEFINE R == {p \in S \X S : p[1] < p[2]}
             rank(x) == Cardinality({y \in S : y < x})
  <1>1. \A x \in S : {y \in S : <<y, x>> \in R} = {y \in S : y < x}
    OBVIOUS
  <1>2. /\ \A x \in S : <<x, x>> \notin R
        /\ \A x, y, z \in S : <<x, y>> \in R /\ <<y, z>> \in R => <<x, z>> \in R
        /\ \A x, y \in S : x # y => <<x, y>> \in R \/ <<y, x>> \in R
    OBVIOUS
  <1> HIDE DEF R
  <1>3. /\ Cardinality(S) \in Nat
        /\ \A x \in S : Cardinality({y \in S : <<y, x>> \in R}) \in 0..Cardinality(S) - 1
        /\ \A x, z \in S : x # z => Cardinality({y \in S : <<y, x>> \in R})
                                    # Cardinality({y \in S : <<y, z>> \in R})
        /\ \A i \in 1..Cardinality(S) :
              \E x \in S : Cardinality({y \in S : <<y, x>> \in R}) = i - 1
    BY <1>2, RanksAreTaken
  <1>4. /\ \A x \in S : rank(x) \in 0..Cardinality(S) - 1
        /\ \A x, z \in S : x # z => rank(x) # rank(z)
        /\ \A i \in 1..Cardinality(S) : \E x \in S : rank(x) = i - 1
    BY <1>1, <1>3
  <1>5. order = [i \in 1..Cardinality(S) |-> CHOOSE x \in S : rank(x) = i - 1]
    OBVIOUS
  <1> HIDE DEF rank
  <1>6. \A i \in 1..Cardinality(S) : order[i] \in S /\ rank(order[i]) = i - 1
    BY <1>4, <1>5
  <1>7. ASSUME NEW x \in S PROVE \E i \in 1..Cardinality(S) : order[i] = x
    <2>1. rank(x) + 1 \in 1..Cardinality(S) /\ (rank(x) + 1) - 1 = rank(x)
      BY <1>3, <1>4
    <2>2. order[rank(x) + 1] \in S /\ rank(order[rank(x) + 1]) = rank(x)
      BY <1>6, <2>1
    <2> QED BY <1>4, <2>1, <2>2
  <1>8. DOMAIN order = 1..Cardinality(S)
    BY <1>5
  <1> QED BY <1>3, <1>6, <1>7, <1>8

\* The numbers of the chunks that a page is quoted with are those of chunks it has.
LEMMA RankedDomain ==
    ASSUME NEW content \in Content
    PROVE  \E n \in Nat : DOMAIN RankedChunks(content) = 1..n
  <1> DEFINE chosen == IF Matching(content) = {} THEN DOMAIN Scores[content] ELSE Matching(content)
  <1>1. Scores[content] \in Seq(Nat)
    BY UrlAssumption
  <1>2. chosen \subseteq 1..Len(Scores[content]) /\ Len(Scores[content]) \in Nat
    BY <1>1 DEF Matching
  <1>3. Cardinality(chosen) \in Nat
    <2>1. IsFiniteSet(1..Len(Scores[content]))
      BY <1>2, FS_Interval
    <2> QED BY <2>1, <1>2, FS_Subset, FS_CardinalityType
  <1>4. PICK m \in Nat : m = Cardinality(chosen)
    BY <1>3
  <1>5. DOMAIN RankedChunks(content) = (1..m) \cap (1..Chunks)
    BY <1>4 DEF RankedChunks, Upto, Ranked
  <1>6. \E n \in Nat : (1..m) \cap (1..Chunks) = 1..n
    <2>1. Chunks \in Nat
      BY LimitsAssumption
    <2> QED BY <2>1, IntervalsMeet
  <1> HIDE DEF chosen
  <1> QED BY <1>5, <1>6, Zenon

LEMMA QuotedDomain ==
    ASSUME NEW w \in Worker, NEW content \in Content
    PROVE  \E n \in Nat : DOMAIN Quoted(w, content) = 1..n
  <1>1. PICK n \in Nat : DOMAIN RankedChunks(content) = 1..n
    BY RankedDomain
  <1>2. DOMAIN Upto(2, RankedChunks(content)) = (1..n) \cap (1..2)
    BY <1>1 DEF Upto
  <1>3. \E k \in Nat : DOMAIN <<>> = 1..k
    <2>1. DOMAIN <<>> = 1..0
      OBVIOUS
    <2> QED BY <2>1
  <1>4. \E k \in Nat : DOMAIN Upto(2, RankedChunks(content)) = 1..k
    <2>1. \E k \in Nat : (1..n) \cap (1..2) = 1..k
      BY IntervalsMeet
    <2> QED BY <2>1, <1>2, Zenon
  <1>5. \/ Quoted(w, content) = RankedChunks(content)
        \/ Quoted(w, content) = <<>>
        \/ Quoted(w, content) = Upto(2, RankedChunks(content))
    BY DEF Quoted
  <1> QED BY <1>1, <1>3, <1>4, <1>5, Zenon

LEMMA MappedSeq ==
    ASSUME NEW f, NEW n \in Nat, f = [i \in 1..n |-> f[i]]
    PROVE  IsSeq(f)
  BY DEF IsSeq, ToSet

(* The steps *)

\* A page is taken from the cache, from the browser or from an answer.
LEMMA TakeStep == ASSUME QuoteInv, NEW w \in Worker, Take(w) PROVE QuoteInv'
  <1>1. DOMAIN call = Worker /\ DOMAIN call[w] = Fields
    BY DEF QuoteInv, CallsAreRecords, Idle, Fields
  <1>2. UNCHANGED <<setting, served, cache>>
    BY DEF Take
  <1>3. ASSUME Goes(w, "lookup") PROVE QuoteInv'
    BY <1>1, <1>2, <1>3, OnlyMoves DEF Goes, Fields, Filing, QuoteInv, PagesAreServed
  <1>4. ASSUME call[w].kind = "filings" PROVE IsGood(Entry(w))
    BY <1>4, ListedIsGood DEF Entry
  <1>5. ASSUME call[w].kind = "filings",
               call' = [call EXCEPT ![w].at = "lookup", ![w].evidence = Append(@, Entry(w))]
        PROVE  QuoteInv'
    <2>1. /\ DOMAIN call' = Worker /\ \A v \in Worker \ {w} : call'[v] = call[v]
          /\ DOMAIN call'[w] = Fields
          /\ call'[w].at = "lookup" /\ call'[w].evidence = Append(call[w].evidence, Entry(w))
      BY <1>1, <1>5 DEF Fields
    <2>2. /\ IsSeq(Append(call[w].evidence, Entry(w)))
          /\ ToSet(Append(call[w].evidence, Entry(w))) = ToSet(call[w].evidence) \cup {Entry(w)}
      BY AppendOfAny DEF QuoteInv, EvidenceIsGood
    <2>3. \A e \in ToSet(call'[w].evidence) : IsGood(e)
      BY <2>1, <2>2, <1>4, <1>5 DEF QuoteInv, EvidenceIsGood
    <2>4. \A e \in ToSet(call'[w].evidence) : IsGood(e)'
      BY <2>3, <1>2, QuotableGrows DEF IsGood
    <2> QED BY <2>1, <2>2, <2>4, <1>2, OneWorkerMoves DEF QuoteInv, PagesAreServed, Filing
  <1>6. ASSUME call[w].kind = "filings", GoesOn(w, <<Entry(w)>>) PROVE QuoteInv'
    BY <1>2, <1>4, <1>6, SingleOfAny, GoesOnWithGood
  <1> QED BY <1>3, <1>5, <1>6 DEF Take

LEMMA RepositoryStep == ASSUME QuoteInv, NEW w \in Worker, TakeRepository(w) PROVE QuoteInv'
  <1>1. call[w].kind # "search" /\ UNCHANGED <<setting, served, cache>>
    BY DEF TakeRepository
  <1>2. PICK told \in {<<>>, <<"readme">>, <<"release">>, <<"readme", "release">>} :
          GoesOn(w, <<Entry(w)>> \o [i \in DOMAIN told |-> Item(w, Candidate(w), TRUE, told[i], 0)])
    BY DEF TakeRepository
  <1> DEFINE more == [i \in DOMAIN told |-> Item(w, Candidate(w), TRUE, told[i], 0)]
  <1>3. PICK n \in Nat : DOMAIN told = 1..n
    <2>1. DOMAIN <<>> = 1..0 /\ DOMAIN <<"readme">> = 1..1 /\ DOMAIN <<"release">> = 1..1
          /\ DOMAIN <<"readme", "release">> = 1..2
      OBVIOUS
    <2> QED BY <2>1, <1>2
  <1>4. IsSeq(more)
    BY <1>3, MappedSeq
  <1>5. IsGood(Entry(w)) /\ \A e \in ToSet(more) : IsGood(e)
    BY <1>1, ListedIsGood DEF Entry, ToSet
  <1>6. /\ IsSeq(<<Entry(w)>> \o more)
        /\ ToSet(<<Entry(w)>> \o more) = {Entry(w)} \cup ToSet(more)
    BY <1>4, SingleOfAny, ConcatOfAny
  <1> HIDE DEF more
  <1> QED BY <1>1, <1>2, <1>5, <1>6, GoesOnWithGood DEF more

\* A page is cut into chunks, each of which quotes it.
LEMMA ExtractStep == ASSUME QuoteInv, NEW w \in Worker, Extract(w) PROVE QuoteInv'
  <1> DEFINE page == call[w].page
             quoted == Quoted(w, page.content)
             more == [i \in DOMAIN quoted |-> Item(w, page.url, TRUE, page.content, quoted[i])]
  <1>1. UNCHANGED <<setting, served, cache>> /\ page \in Quotable
    BY DEF Extract, At, QuoteInv, PagesAreServed
  <1>2. page \in Page
    BY <1>1, QuotablePages DEF QuoteInv, PagesAreServed
  <1>3. page = [url |-> page.url, content |-> page.content] /\ page.content \in Content
    BY <1>2 DEF Page
  <1>4. IsSeq(more)
    <2>1. PICK n \in Nat : DOMAIN quoted = 1..n
      BY <1>3, QuotedDomain
    <2> QED BY <2>1, MappedSeq
  <1>5. \A e \in ToSet(more) : IsGood(e)
    <2>1. ASSUME NEW chunk PROVE IsGood(Item(w, page.url, TRUE, page.content, chunk))
      BY <1>1, <1>3 DEF IsGood, Item
    <2> QED BY <2>1 DEF ToSet
  <1>6. GoesOn(w, more) \/ Fails(w)
    BY DEF Extract
  <1> HIDE DEF more
  <1> QED BY <1>1, <1>4, <1>5, <1>6, FailsWithGood, GoesOnWithGood

\* Every step.
LEMMA QuoteStep == QuoteInv /\ [Next]_vars => QuoteInv'
  <1> SUFFICES ASSUME QuoteInv, [Next]_vars PROVE QuoteInv'
    OBVIOUS
  <1>1. CASE UNCHANGED vars
    BY <1>1 DEF vars, QuoteInv, CallsAreRecords, PagesAreServed, EvidenceIsGood, IsSeq, IsGood,
                Quotable, Reading
  <1>2. CASE Midnight
    BY <1>2 DEF Midnight, QuoteInv, CallsAreRecords, PagesAreServed, EvidenceIsGood, IsSeq, IsGood,
                Quotable, Reading
  <1>3. ASSUME NEW w \in Worker, Begin(w) \/ Work(w) \/ Crash(w)
        PROVE  QuoteInv'
    <2>1. DOMAIN call = Worker /\ DOMAIN call[w] = Fields /\ DOMAIN Idle = Fields
      BY DEF QuoteInv, CallsAreRecords, Idle, Fields
    <2>2. served \subseteq Page /\ cache \subseteq served
      BY DEF QuoteInv, PagesAreServed
    <2>3. Idle.at = "idle" /\ Idle.evidence = <<>>
      BY DEF Idle
    <2>4. CASE Begin(w)
      <3>1. PICK kind : call' = [call EXCEPT ![w] = [Idle EXCEPT !.at = "ask", !.kind = kind]]
        BY <2>4 DEF Begin
      <3> QED BY <2>1, <2>2, <2>3, <2>4, <3>1, OnlyMoves DEF Begin, Fields, Filing
    <2>5. CASE Crash(w) \/ Return(w)
      <3>1. call' = [call EXCEPT ![w] = Idle] /\ UNCHANGED <<setting, served, cache>>
        BY <2>5 DEF Crash, Return
      <3> QED BY <2>1, <2>2, <2>3, <3>1, OnlyMoves DEF Filing
    <2>6. CASE DoNotAsk(w) \/ Ask(w)
      <3>1. /\ At(w, "ask") /\ UNCHANGED <<setting, served, cache>>
            /\ \E urls : Bucket(w, urls)
        BY <2>6 DEF DoNotAsk, Ask, Searching
      <3>2. /\ DOMAIN call' = Worker /\ \A v \in Worker \ {w} : call'[v] = call[v]
            /\ DOMAIN call'[w] = Fields
            /\ call'[w].at = "ask" /\ call'[w].evidence = call[w].evidence
        BY <2>1, <3>1 DEF Bucket, Fields, At
      <3> QED BY <2>2, <3>1, <3>2, OnlyMoves DEF Filing
    <2>7. CASE Merge(w) \/ List(w)
      <3>1. /\ UNCHANGED <<setting, served, cache>>
            /\ \E urls : call' = [call EXCEPT ![w].at = "next", ![w].rank = 1, ![w].candidates = urls]
        BY <2>7 DEF Merge, List
      <3>2. /\ DOMAIN call' = Worker /\ \A v \in Worker \ {w} : call'[v] = call[v]
            /\ DOMAIN call'[w] = Fields
            /\ call'[w].at = "next" /\ call'[w].evidence = call[w].evidence
        BY <2>1, <3>1 DEF Fields
      <3> QED BY <2>2, <3>1, <3>2, OnlyMoves DEF Filing
    <2>8. CASE Skip(w)
      <3>1. IsSeq(<<>>) /\ ToSet(<<>>) = {}
        BY DEF IsSeq, ToSet
      <3> QED BY <2>8, <3>1, GoesOnWithGood DEF Skip
    <2>9. CASE Take(w)
      BY <2>9, TakeStep
    <2>10. CASE TakeRepository(w)
      BY <2>10, RepositoryStep
    <2>11. CASE Lookup(w)
      <3>1. UNCHANGED <<setting, served, cache>>
        BY <2>11 DEF Lookup
      <3>2. ASSUME NEW page \in Filed(Candidate(w)), setting.caching,
                   call' = [call EXCEPT ![w].at = "extract", ![w].page = Reading(page)]
            PROVE  QuoteInv'
        <4>1. /\ DOMAIN call' = Worker /\ \A v \in Worker \ {w} : call'[v] = call[v]
              /\ DOMAIN call'[w] = Fields
              /\ call'[w].at = "extract" /\ call'[w].page = Reading(page)
              /\ call'[w].evidence = call[w].evidence
          BY <2>1, <3>2 DEF Fields
        <4>2. page \in served
          BY <2>2 DEF Filed
        <4>3. Reading(page) \in Quotable
          BY <2>2, <3>2, <4>2, QuotablePages
        <4> QED BY <2>2, <3>1, <4>1, <4>3, OnlyMoves DEF Filing
      <3>3. ASSUME NEW at \in {"render", "request"}, Goes(w, at) PROVE QuoteInv'
        BY <2>1, <2>2, <3>1, <3>3, OnlyMoves DEF Goes, Fields, Filing
      <3> QED BY <2>11, <3>2, <3>3 DEF Lookup
    <2>12. CASE Render(w) \/ Request(w)
      <3>1. UNCHANGED <<setting, cache>>
        BY <2>12 DEF Render, Request
      <3>2. ASSUME NEW page \in Responses(Candidate(w)), NEW at, Got(w, page, at)
            PROVE  QuoteInv'
        <4>1. /\ DOMAIN call' = Worker /\ \A v \in Worker \ {w} : call'[v] = call[v]
              /\ DOMAIN call'[w] = Fields
              /\ call'[w].page = page /\ call'[w].evidence = call[w].evidence
          BY <2>1, <3>2 DEF Got, Fields
        <4>2. served' = served \cup {page} /\ page \in Page
          BY <3>2 DEF Got, Responses
        <4>3. Quotable \subseteq Quotable'
          BY <3>1, <4>2, QuotableGrows
        <4>4. IsSeq(call'[w].evidence) /\ \A e \in ToSet(call'[w].evidence) : IsGood(e)'
          BY <4>1, <4>3 DEF QuoteInv, EvidenceIsGood, IsGood
        <4>5. page \in Quotable'
          BY <4>2 DEF Quotable
        <4> QED BY <2>2, <3>1, <4>1, <4>2, <4>4, <4>5, OneWorkerMoves
      <3>3. ASSUME NEW at \in {"request", "retry"}, Goes(w, at), UNCHANGED served
            PROVE  QuoteInv'
        BY <2>1, <2>2, <3>1, <3>3, OnlyMoves DEF Goes, Fields, Filing
      <3>4. ASSUME Fails(w), UNCHANGED served PROVE QuoteInv'
        BY <3>1, <3>4, FailsWithGood
      <3> QED BY <2>12, <3>2, <3>3, <3>4 DEF Render, Request
    <2>13. CASE Retry(w)
      <3>1. UNCHANGED <<setting, served, cache>>
        BY <2>13 DEF Retry
      <3>2. ASSUME call' = [call EXCEPT ![w].at = "request", ![w].attempt = call'[w].attempt]
            PROVE  QuoteInv'
        <4>1. /\ DOMAIN call' = Worker /\ \A v \in Worker \ {w} : call'[v] = call[v]
              /\ DOMAIN call'[w] = Fields
              /\ call'[w].at = "request" /\ call'[w].evidence = call[w].evidence
          BY <2>1, <3>2 DEF Fields
        <4> QED BY <2>2, <3>1, <4>1, OnlyMoves DEF Filing
      <3> QED BY <2>1, <2>13, <3>1, <3>2, FailsWithGood DEF Retry
    <2>14. CASE Truncate(w)
      BY <2>1, <2>2, <2>14, OnlyMoves DEF Truncate, Goes, Fields, Filing, At, QuoteInv, PagesAreServed
    <2>15. CASE WriteOut(w)
      <3>1. call[w].page \in served
        BY <2>15 DEF WriteOut, At, QuoteInv, PagesAreServed
      <3>2. call[w].page \in Quotable
        BY <2>2, <3>1, QuotablePages
      <3>3. /\ DOMAIN call' = Worker /\ \A v \in Worker \ {w} : call'[v] = call[v]
            /\ DOMAIN call'[w] = Fields
            /\ call'[w].at = "extract" /\ call'[w].page = call[w].page
            /\ call'[w].evidence = call[w].evidence
        BY <2>1, <2>15 DEF WriteOut, Goes, Fields
      <3>4. cache' \subseteq served /\ UNCHANGED <<setting, served>>
        BY <2>2, <2>15, <3>1 DEF WriteOut
      <3> QED BY <3>2, <3>3, <3>4, OnlyMoves DEF Filing
    <2>16. CASE StoreFails(w)
      BY <2>16, FailsWithGood DEF StoreFails
    <2>17. CASE Extract(w)
      BY <2>17, ExtractStep
    <2>18. CASE Keep(w)
      <3>1. /\ DOMAIN call' = Worker /\ \A v \in Worker \ {w} : call'[v] = call[v]
            /\ DOMAIN call'[w] = Fields
            /\ call'[w].at = "kept" /\ call'[w].evidence = call[w].evidence
        BY <2>1, <2>18 DEF Keep, Fields
      <3> QED BY <2>2, <2>18, <3>1, OnlyMoves DEF Keep, Filing
    <2> QED
      BY <1>3, <2>4, <2>5, <2>6, <2>7, <2>8, <2>9, <2>10, <2>11, <2>12, <2>13, <2>14,
         <2>15, <2>16, <2>17, <2>18 DEF Work
  <1> QED BY <1>1, <1>2, <1>3 DEF Next

\* Verified evidence quotes the bytes of a page that came back whole from the very URL it
\* names, read by their charset or, from the cache, as UTF-8, for every number of workers
\* and whatever the cache files, the redirects and the failures do.
THEOREM QuotesServed == Spec => []QuotesArePages
  <1>1. QuoteInv => QuotesArePages
    BY DEF QuoteInv, EvidenceIsGood, QuotesArePages, IsGood
  <1> QED BY QuoteInit, QuoteStep, <1>1, PTL DEF Spec
----------------------------------------------------------------------------
(* What the collector makes of the evidence *)

\* Of the elements of a sequence that are the same, the collector keeps the first, and
\* it keeps nothing else.
LEMMA FirstsAreKept ==
    ASSUME NEW evidence, IsSeq(evidence),
           \A e, f \in ToSet(evidence) : e.listed = f.listed
    PROVE  /\ \A k \in ToSet(Deduplicated(evidence)) :
                 \E i \in 1..Len(evidence) : /\ evidence[i] = k
                                             /\ \A j \in 1..(i - 1) : ~SameItem(evidence[j], k)
           /\ \A i \in 1..Len(evidence) :
                 \E k \in ToSet(Deduplicated(evidence)) : SameItem(k, evidence[i])
  <1> DEFINE first == {i \in DOMAIN evidence :
                           \A j \in 1..(i - 1) : ~SameItem(evidence[j], evidence[i])}
  <1>1. Len(evidence) \in Nat /\ DOMAIN evidence = 1..Len(evidence)
    BY DEF IsSeq
  <1>2. first \in SUBSET Nat /\ IsFiniteSet(first)
    <2>1. first \in SUBSET (1..Len(evidence)) /\ IsFiniteSet(1..Len(evidence))
      BY <1>1, FS_Interval
    <2> HIDE DEF first
    <2>2. first \in SUBSET Nat
      BY <1>1, <2>1
    <2>3. IsFiniteSet(first)
      BY <2>1, FS_Subset
    <2> QED BY <2>2, <2>3
  <1> DEFINE order == [i \in 1..Cardinality(first) |->
                          CHOOSE x \in first : Cardinality({y \in first : y < x}) = i - 1]
  <1>3. Deduplicated(evidence) = [i \in DOMAIN order |-> evidence[order[i]]]
    BY Zenon DEF Deduplicated, Ranked
  <1> HIDE DEF first
  <1>4. /\ \A i \in DOMAIN order : order[i] \in first
        /\ \A x \in first : \E i \in DOMAIN order : order[i] = x
    BY <1>2, RankedNumbers
  <1> HIDE DEF order
  <1>5. ToSet(Deduplicated(evidence)) = {evidence[x] : x \in first}
    BY <1>3, <1>4 DEF ToSet
  <1>6. ASSUME NEW k \in ToSet(Deduplicated(evidence))
        PROVE  \E i \in 1..Len(evidence) : /\ evidence[i] = k
                                           /\ \A j \in 1..(i - 1) : ~SameItem(evidence[j], k)
    BY <1>1, <1>5 DEF first
  <1>7. ASSUME NEW i \in 1..Len(evidence)
        PROVE  \E k \in ToSet(Deduplicated(evidence)) : SameItem(k, evidence[i])
    <2> DEFINE same == {j \in 1..i : SameItem(evidence[j], evidence[i])}
    <2>1. i \in same
      BY <1>1 DEF SameItem
    <2>2. PICK j \in same : \A l \in same : ~(l < j)
      <3>1. same \in SUBSET Nat /\ same # {}
        BY <1>1, <2>1
      <3> HIDE DEF same
      <3> QED BY <3>1, LeastOfNumbers
    <2>3. j \in 1..Len(evidence) /\ j \in 1..i /\ SameItem(evidence[j], evidence[i])
      BY <1>1, <2>2
    <2>4. ASSUME NEW l \in 1..(j - 1) PROVE ~SameItem(evidence[l], evidence[j])
      <3>1. l \in 1..i /\ l \in 1..Len(evidence) /\ l < j
        BY <1>1, <2>3
      <3>2. ~SameItem(evidence[l], evidence[i])
        BY <2>2, <3>1
      <3>3. evidence[l].listed = evidence[j].listed
        BY <1>1, <2>3, <3>1 DEF ToSet
      <3> QED BY <2>3, <3>2, <3>3 DEF SameItem
    <2>5. j \in first
      BY <1>1, <2>3, <2>4 DEF first
    <2> QED BY <1>5, <2>3, <2>5
  <1> QED BY <1>6, <1>7

\* The first of the chunks that a page is quoted with is one that matches best.
LEMMA BestIsFirst ==
    ASSUME NEW content \in Content, RankedChunks(content) # <<>>
    PROVE  \A k \in DOMAIN Scores[content] :
              Scores[content][k] <= Scores[content][RankedChunks(content)[1]]
  <1> DEFINE scores == Scores[content]
             chosen == IF Matching(content) = {} THEN DOMAIN scores ELSE Matching(content)
             R == {p \in chosen \X chosen : Preferred(content, p[1], p[2])}
             ahead(k) == {l \in chosen : Preferred(content, l, k)}
             best == RankedChunks(content)[1]
  <1>1. scores \in Seq(Nat) /\ Len(scores) \in Nat /\ DOMAIN scores = 1..Len(scores)
    BY UrlAssumption
  <1>2. \A k \in 1..Len(scores) : scores[k] \in Nat
    BY <1>1
  <1>3. chosen \in SUBSET (1..Len(scores)) /\ IsFiniteSet(chosen)
    <2>1. chosen \in SUBSET (1..Len(scores)) /\ IsFiniteSet(1..Len(scores))
      BY <1>1, FS_Interval DEF Matching
    <2> HIDE DEF chosen
    <2> QED BY <2>1, FS_Subset
  <1>4. \A k, l \in 1..Len(scores) :
          Preferred(content, k, l) <=> scores[k] > scores[l] \/ (scores[k] = scores[l] /\ k < l)
    BY DEF Preferred
  <1> HIDE DEF chosen, scores
  <1>5. /\ \A k \in chosen : <<k, k>> \notin R
        /\ \A k, l, m \in chosen : <<k, l>> \in R /\ <<l, m>> \in R => <<k, m>> \in R
        /\ \A k, l \in chosen : k # l => <<k, l>> \in R \/ <<l, k>> \in R
    BY <1>1, <1>2, <1>3, <1>4
  <1>6. \A k \in chosen : {l \in chosen : <<l, k>> \in R} = ahead(k)
    OBVIOUS
  <1> HIDE DEF R
  <1>7. /\ Cardinality(chosen) \in Nat
        /\ \A i \in 1..Cardinality(chosen) :
              \E k \in chosen : Cardinality({l \in chosen : <<l, k>> \in R}) = i - 1
    BY <1>3, <1>5, RanksAreTaken
  <1>8. \A i \in 1..Cardinality(chosen) : \E k \in chosen : Cardinality(ahead(k)) = i - 1
    BY <1>6, <1>7
  <1> DEFINE ranked == [i \in 1..Cardinality(chosen) |->
                           CHOOSE k \in chosen : Cardinality(ahead(k)) = i - 1]
  <1>9. RankedChunks(content) = [i \in (DOMAIN ranked) \cap (1..Chunks) |-> ranked[i]]
    BY Zenon DEF RankedChunks, Upto, Ranked, chosen, scores
  <1> HIDE DEF ahead
  <1>10. 1 \in (1..Cardinality(chosen)) \cap (1..Chunks)
    <2>1. Chunks \in Nat \ {0}
      BY LimitsAssumption
    <2>2. Cardinality(chosen) # 0
      <3>1. SUFFICES ASSUME Cardinality(chosen) = 0 PROVE FALSE
        OBVIOUS
      <3>2. DOMAIN RankedChunks(content) = {}
        BY <1>9, <3>1
      <3>3. RankedChunks(content) = <<>>
        BY <1>9, <3>2
      <3> QED BY <3>3
    <2> QED BY <1>7, <2>1, <2>2
  <1>11. best \in chosen /\ Cardinality(ahead(best)) = 0
    BY <1>8, <1>9, <1>10
  <1>12. ahead(best) = {}
    <2>1. ahead(best) \in SUBSET chosen
      BY DEF ahead
    <2> QED BY <1>3, <1>11, <2>1, FS_Subset, FS_EmptySet
  <1> HIDE DEF best
  <1>13. ASSUME NEW l \in chosen PROVE scores[l] <= scores[best]
    <2>1. ~Preferred(content, l, best)
      BY <1>12 DEF ahead
    <2>2. l \in 1..Len(scores) /\ best \in 1..Len(scores)
      BY <1>3, <1>11
    <2>3. scores[l] \in Nat /\ scores[best] \in Nat
      BY <1>2, <2>2
    <2> QED BY <1>4, <2>1, <2>2, <2>3
  <1>14. \A l \in 1..Len(scores) : l \notin chosen => scores[l] = 0
    BY <1>1, <1>2 DEF chosen, Matching, scores
  <1>15. \A l \in 1..Len(scores) : scores[l] <= scores[best]
    <2>1. best \in 1..Len(scores)
      BY <1>3, <1>11
    <2> QED BY <1>2, <1>13, <1>14, <2>1
  <1> QED BY <1>1, <1>15 DEF scores, best

----------------------------------------------------------------------------
(* What becomes of the candidates of a call: what its record says of itself *)

\* e accounts for the i-th candidate.
Accounts(c, e, i) ==
    IF e.listed THEN e.rank = i /\ e.content = "entry"
    ELSE Canonical[c.candidates[e.rank]] = Canonical[c.candidates[i]]

BestChunk(e) ==
    \A k \in DOMAIN Scores[e.content] : Scores[e.content][k] <= Scores[e.content][e.chunk]

\* A chunk of a found page is the best one, or comes after something of the same page.
BestFirst(evidence) ==
    \A i \in 1..Len(evidence) :
        evidence[i].chunk > 0 /\ ~evidence[i].listed =>
            \/ BestChunk(evidence[i])
            \/ \E j \in 1..(i - 1) : SameItem(evidence[j], evidence[i])

\* The candidates before the one that is looked at are accounted for; one that was listed
\* already is when its pages are looked for.
Settled(c) ==
    /\ IsSeq(c.candidates)
    /\ c.rank \in Nat \ {0}
    /\ \A i \in DOMAIN c.candidates :
          i < c.rank => \E e \in ToSet(c.evidence) : Accounts(c, e, i)
    /\ c.kind # "search" /\ c.at \notin {"next", "kept"} =>
          \E e \in ToSet(c.evidence) : Accounts(c, e, c.rank)
    /\ BestFirst(c.evidence)
    /\ c.at = "kept" => ~(c.rank <= Len(c.candidates))

CallOK(c) ==
    /\ \A e \in ToSet(c.evidence) : e.listed = (c.kind # "search")
    /\ c.at = "kept" => c.kept = Deduplicated(c.evidence)
    /\ c.at # "kept" => c.kept = <<>>
    /\ c.at = "ask" => IsSeq(c.buckets)
    /\ c.at \in {"idle", "ask"} => c.evidence = <<>>
    /\ c.at \notin {"idle", "ask"} => Settled(c)

AccountInv == \A w \in Worker : CallOK(call[w])

\* What a list of evidence keeps of this when another one is put behind it.
LEMMA BestFirstOfBoth ==
    ASSUME NEW s, NEW t, IsSeq(s), IsSeq(t), BestFirst(s), BestFirst(t)
    PROVE  BestFirst(s \o t)
  <1>1. /\ Len(s) \in Nat /\ Len(t) \in Nat /\ Len(s \o t) = Len(s) + Len(t)
        /\ \A i \in 1..Len(s) + Len(t) :
              (s \o t)[i] = IF i <= Len(s) THEN s[i] ELSE t[i - Len(s)]
    <2> DEFINE S == ToSet(s) \cup ToSet(t)
    <2>1. s \in Seq(S) /\ t \in Seq(S)
      BY DEF IsSeq
    <2> QED BY <2>1, ConcatProperties
  <1> SUFFICES ASSUME NEW i \in 1..Len(s) + Len(t),
                      (s \o t)[i].chunk > 0, ~(s \o t)[i].listed
               PROVE  \/ BestChunk((s \o t)[i])
                      \/ \E j \in 1..(i - 1) : SameItem((s \o t)[j], (s \o t)[i])
    BY <1>1 DEF BestFirst
  <1>2. CASE i <= Len(s)
    <2>1. i \in 1..Len(s) /\ (s \o t)[i] = s[i] /\ \A j \in 1..(i - 1) : (s \o t)[j] = s[j]
      BY <1>1, <1>2
    <2> QED BY <2>1 DEF BestFirst
  <1>3. CASE ~(i <= Len(s))
    <2>1. PICK k \in 1..Len(t) : i = k + Len(s)
      <3>1. i - Len(s) \in 1..Len(t) /\ i = (i - Len(s)) + Len(s)
        BY <1>1, <1>3
      <3> QED BY <3>1
    <2>2. (s \o t)[i] = t[k]
      BY <1>1, <2>1
    <2>3. \A j \in 1..(k - 1) : j + Len(s) \in 1..(i - 1) /\ (s \o t)[j + Len(s)] = t[j]
      BY <1>1, <2>1
    <2>4. BestChunk(t[k]) \/ \E j \in 1..(k - 1) : SameItem(t[j], t[k])
      BY <2>2 DEF BestFirst
    <2> QED BY <2>2, <2>3, <2>4
  <1> QED BY <1>2, <1>3

\* A call goes on with more evidence, at the same candidate or, once that is accounted
\* for, at the next one.
LEMMA SettledStays ==
    ASSUME NEW c, NEW d, NEW more, Settled(c), IsSeq(c.evidence), IsSeq(more),
           d.candidates = c.candidates, d.evidence = c.evidence \o more,
           BestFirst(more), d.at # "kept",
           \/ d.rank = c.rank
           \/ d.rank = c.rank + 1 /\ d.at = "next",
           d.at = "next" \/ d.kind # "search" =>
              \E e \in ToSet(c.evidence) \cup ToSet(more) : Accounts(c, e, c.rank)
    PROVE  Settled(d)
  <1>1. ToSet(d.evidence) = ToSet(c.evidence) \cup ToSet(more)
    BY ConcatOfAny
  <1>2. BestFirst(d.evidence)
    BY BestFirstOfBoth DEF Settled
  <1>3. c.rank \in Nat \ {0} /\ d.rank \in Nat \ {0}
    BY DEF Settled
  <1>4. ASSUME NEW e, NEW i, Accounts(c, e, i) PROVE Accounts(d, e, i)
    BY <1>4 DEF Accounts
  <1>5. ASSUME NEW i \in DOMAIN d.candidates, i < d.rank
        PROVE  \E e \in ToSet(d.evidence) : Accounts(d, e, i)
    <2>1. i \in Nat
      BY DEF Settled, IsSeq
    <2>2. CASE i < c.rank
      BY <1>1, <1>4, <2>2 DEF Settled
    <2>3. CASE ~(i < c.rank)
      <3>1. i = c.rank /\ d.at = "next"
        BY <1>3, <1>5, <2>1, <2>3
      <3> QED BY <1>1, <1>4, <3>1
    <2> QED BY <2>2, <2>3
  <1>6. ASSUME d.kind # "search", d.at \notin {"next", "kept"}
        PROVE  \E e \in ToSet(d.evidence) : Accounts(d, e, d.rank)
    BY <1>1, <1>4, <1>6
  <1> QED BY <1>2, <1>3, <1>5, <1>6 DEF Settled

\* However many results there are, those that are fetched are a list.
LEMMA CandidatesAreList ==
    ASSUME NEW buckets, IsSeq(buckets)
    PROVE  IsSeq(Upto(Fetches, Merged(buckets)))
  <1> DEFINE turns == {t \in (DOMAIN buckets) \X (1..Limit) : t[2] <= Len(buckets[t[1]])}
             Before(s, t) == s[2] < t[2] \/ (s[2] = t[2] /\ s[1] < t[1])
             UrlOf(t) == buckets[t[1]][t[2]]
             first == {t \in turns :
                          ~\E s \in turns : Before(s, t) /\ Folded[UrlOf(s)] = Folded[UrlOf(t)]}
             order == Ranked(first, Before)
             list == Upto(Fetches, Merged(buckets))
  <1>1. Len(buckets) \in Nat /\ DOMAIN buckets = 1..Len(buckets) /\ Limit \in Nat /\ Fetches \in Nat
    BY LimitsAssumption DEF IsSeq
  <1>2. IsFiniteSet((DOMAIN buckets) \X (1..Limit))
    <2>1. IsFiniteSet(1..Len(buckets)) /\ IsFiniteSet(1..Limit)
      BY <1>1, FS_Interval
    <2> QED BY <1>1, <2>1, FS_Product
  <1>3. Cardinality(first) \in Nat
    <2>1. first \in SUBSET ((DOMAIN buckets) \X (1..Limit))
      OBVIOUS
    <2> HIDE DEF first
    <2> QED BY <1>2, <2>1, FS_Subset, FS_CardinalityType
  <1>4. DOMAIN Merged(buckets) = (1..Cardinality(first)) \cap (1..Limit)
    <2>1. Merged(buckets) = [i \in (DOMAIN order) \cap (1..Limit) |-> UrlOf(order[i])]
      BY Zenon DEF Merged
    <2>2. DOMAIN order = 1..Cardinality(first)
      <3>1. order = [i \in 1..Cardinality(first) |->
                        CHOOSE x \in first : Cardinality({y \in first : Before(y, x)}) = i - 1]
        BY Zenon DEF Ranked
      <3> HIDE DEF first, order
      <3> QED BY <3>1
    <2> HIDE DEF order
    <2> QED BY <2>1, <2>2
  <1> HIDE DEF first
  <1>5. PICK m \in Nat : DOMAIN Merged(buckets) = 1..m
    <2>1. PICK k \in Nat : k = Cardinality(first)
      BY <1>3
    <2>2. \E m \in Nat : (1..k) \cap (1..Limit) = 1..m
      BY <1>1, IntervalsMeet
    <2> QED BY <1>4, <2>1, <2>2, Zenon
  <1>6. list = [i \in (1..m) \cap (1..Fetches) |-> Merged(buckets)[i]]
    BY <1>5 DEF Upto
  <1>7. PICK n \in Nat : (1..m) \cap (1..Fetches) = 1..n
    BY <1>1, IntervalsMeet
  <1>8. list = [i \in 1..n |-> list[i]]
    BY <1>6, <1>7
  <1> HIDE DEF list
  <1> QED BY <1>8, MappedSeq DEF list

----------------------------------------------------------------------------
(* What each step makes of the record *)

Looking == {"lookup", "render", "request", "retry", "store", "write", "extract"}

\* The call goes on with the next candidate.
LEMMA GoesOnAccounted ==
    ASSUME QuoteInv, NEW w \in Worker, CallOK(call[w]), NEW more, GoesOn(w, more),
           call[w].at \in Looking \cup {"next"},
           IsSeq(more), BestFirst(more),
           \A e \in ToSet(more) : e.listed = (call[w].kind # "search"),
           \E e \in ToSet(call[w].evidence) \cup ToSet(more) : Accounts(call[w], e, call[w].rank)
    PROVE  CallOK(call'[w])
  <1>1. DOMAIN call = Worker /\ DOMAIN call[w] = Fields
    BY DEF QuoteInv, CallsAreRecords, Idle, Fields
  <1> DEFINE c == call[w]
             d == call'[w]
  <1>2. /\ d.at = "next" /\ d.kind = c.kind /\ d.candidates = c.candidates
        /\ d.rank = c.rank + 1 /\ d.evidence = c.evidence \o more /\ d.kept = c.kept
    BY <1>1 DEF GoesOn, Fields
  <1>3. IsSeq(c.evidence) /\ Settled(c) /\ c.kept = <<>>
        /\ \A e \in ToSet(c.evidence) : e.listed = (c.kind # "search")
    BY DEF QuoteInv, EvidenceIsGood, CallOK, Looking
  <1> HIDE DEF c, d
  <1>4. \E e \in ToSet(c.evidence) \cup ToSet(more) : Accounts(c, e, c.rank)
    BY DEF c
  <1>5. \A e \in ToSet(more) : e.listed = (c.kind # "search")
    BY DEF c
  <1>6. Settled(d)
    BY <1>2, <1>3, <1>4, SettledStays
  <1>7. ToSet(d.evidence) = ToSet(c.evidence) \cup ToSet(more)
    BY <1>2, <1>3, ConcatOfAny
  <1> QED BY <1>2, <1>3, <1>5, <1>6, <1>7 DEF CallOK, d

\* The report of a failure, and what a listing says, are no chunks.
LEMMA NoChunk ==
    ASSUME NEW e, e.chunk = 0
    PROVE  IsSeq(<<e>>) /\ ToSet(<<e>>) = {e} /\ BestFirst(<<e>>)
  <1>1. Len(<<e>>) = 1 /\ <<e>>[1] = e
    OBVIOUS
  <1>2. \A i \in 1..Len(<<e>>) : <<e>>[i] = e
    BY <1>1
  <1> QED BY <1>2, SingleOfAny DEF BestFirst

LEMMA NoEvidence == IsSeq(<<>>) /\ ToSet(<<>>) = {} /\ BestFirst(<<>>)
  BY DEF IsSeq, ToSet, BestFirst

LEMMA FailsAccounted ==
    ASSUME QuoteInv, NEW w \in Worker, CallOK(call[w]), Fails(w), call[w].at \in Looking
    PROVE  CallOK(call'[w])
  <1>1. CASE call[w].kind = "search"
    <2> DEFINE e == Diagnostic(w)
    <2>1. /\ e.chunk = 0 /\ e.listed = (call[w].kind # "search") /\ ~e.listed
          /\ e.rank = call[w].rank
      BY <1>1 DEF Diagnostic, Item
    <2>2. GoesOn(w, <<e>>)
      BY <1>1 DEF Fails
    <2> HIDE DEF e
    <2>3. Accounts(call[w], e, call[w].rank)
      BY <2>1 DEF Accounts
    <2> QED BY <2>1, <2>2, <2>3, NoChunk, GoesOnAccounted
  <1>2. CASE call[w].kind # "search"
    <2>1. GoesOn(w, <<>>)
      BY <1>2 DEF Fails
    <2>2. \E e \in ToSet(call[w].evidence) : Accounts(call[w], e, call[w].rank)
      BY <1>2 DEF CallOK, Settled, Looking
    <2> QED BY <2>1, <2>2, NoEvidence, GoesOnAccounted
  <1> QED BY <1>1, <1>2

\* Nothing changes but what the call is about to do for its candidate.
LEMMA LooksOn ==
    ASSUME NEW c, NEW d, CallOK(c), c.at \in Looking \cup {"next"}, d.at \in Looking,
           c.at = "next" => c.kind = "search",
           d.kind = c.kind, d.candidates = c.candidates, d.rank = c.rank,
           d.evidence = c.evidence, d.kept = c.kept
    PROVE  CallOK(d)
  <1>1. Settled(c)
    BY DEF CallOK, Looking
  <1>2. \A e, i : Accounts(c, e, i) <=> Accounts(d, e, i)
    BY DEF Accounts
  <1>3. Settled(d)
    BY <1>1, <1>2 DEF Settled, Looking
  <1> QED BY <1>3 DEF CallOK, Looking

\* A call begins, and forgets what it was.
LEMMA IdleAccounted ==
    /\ CallOK(Idle)
    /\ \A kind : CallOK([Idle EXCEPT !.at = "ask", !.kind = kind])
  BY NoEvidence DEF CallOK, Idle

LEMMA BeginAccounted ==
    ASSUME QuoteInv, NEW w \in Worker, Begin(w) \/ Crash(w) \/ Return(w)
    PROVE  CallOK(call'[w])
  <1>1. DOMAIN call = Worker
    BY DEF QuoteInv, CallsAreRecords
  <1>2. CASE Begin(w)
    <2>1. PICK kind : call' = [call EXCEPT ![w] = [Idle EXCEPT !.at = "ask", !.kind = kind]]
      BY <1>2 DEF Begin
    <2>2. call'[w] = [Idle EXCEPT !.at = "ask", !.kind = kind]
      BY <1>1, <2>1
    <2> QED BY <2>2, IdleAccounted
  <1>3. CASE Crash(w) \/ Return(w)
    <2>1. call'[w] = Idle
      BY <1>1, <1>3 DEF Crash, Return
    <2> QED BY <2>1, IdleAccounted
  <1> QED BY <1>2, <1>3

LEMMA AskAccounted ==
    ASSUME QuoteInv, NEW w \in Worker, CallOK(call[w]), DoNotAsk(w) \/ Ask(w)
    PROVE  CallOK(call'[w])
  <1>1. DOMAIN call = Worker /\ DOMAIN call[w] = Fields
    BY DEF QuoteInv, CallsAreRecords, Idle, Fields
  <1>2. PICK urls : call' = [call EXCEPT ![w].buckets = Append(@, urls)]
    BY DEF DoNotAsk, Ask, Bucket
  <1>3. call[w].at = "ask"
    BY DEF DoNotAsk, Ask, Searching, At
  <1> DEFINE c == call[w]
             d == call'[w]
  <1>4. /\ d.at = "ask" /\ d.kind = c.kind /\ d.evidence = c.evidence /\ d.kept = c.kept
        /\ d.buckets = Append(c.buckets, urls)
    BY <1>1, <1>2, <1>3 DEF Fields
  <1>5. IsSeq(d.buckets)
    BY <1>3, <1>4, AppendOfAny DEF CallOK
  <1> QED BY <1>3, <1>4, <1>5 DEF CallOK

LEMMA ListAccounted ==
    ASSUME QuoteInv, NEW w \in Worker, CallOK(call[w]), Merge(w) \/ List(w)
    PROVE  CallOK(call'[w])
  <1>1. DOMAIN call = Worker /\ DOMAIN call[w] = Fields
    BY DEF QuoteInv, CallsAreRecords, Idle, Fields
  <1>2. PICK list : /\ call' = [call EXCEPT ![w].at = "next", ![w].rank = 1, ![w].candidates = list]
                    /\ IsSeq(list)
    <2>1. CASE Merge(w)
      <3>1. IsSeq(call[w].buckets)
        BY <2>1 DEF Merge, At, CallOK
      <3>2. PICK list : list = Upto(Fetches, Merged(call[w].buckets))
        OBVIOUS
      <3>3. IsSeq(list)
        BY <3>1, <3>2, CandidatesAreList
      <3>4. call' = [call EXCEPT ![w].at = "next", ![w].rank = 1, ![w].candidates = list]
        BY <2>1, <3>2, Zenon DEF Merge
      <3> QED BY <3>3, <3>4
    <2>2. CASE List(w)
      <3>1. PICK list \in Listings \cup {<<>>} :
              call' = [call EXCEPT ![w].at = "next", ![w].rank = 1, ![w].candidates = list]
        BY <2>2 DEF List
      <3>2. list \in Seq(Url)
        <4>1. <<>> \in Seq(Url)
          OBVIOUS
        <4> QED BY <4>1, UrlAssumption
      <3>3. IsSeq(list)
        BY <3>2 DEF IsSeq, ToSet
      <3> QED BY <3>1, <3>3
    <2> QED BY <2>1, <2>2
  <1>3. call[w].at = "ask"
    BY DEF Merge, List, At
  <1> DEFINE c == call[w]
             d == call'[w]
  <1>4. /\ d.at = "next" /\ d.rank = 1 /\ d.candidates = list /\ d.kind = c.kind
        /\ d.evidence = <<>> /\ d.kept = <<>>
    BY <1>1, <1>2, <1>3 DEF Fields, CallOK
  <1>5. Len(list) \in Nat /\ DOMAIN list = 1..Len(list)
    BY <1>2 DEF IsSeq
  <1> HIDE DEF d
  <1>6. Settled(d)
    BY <1>2, <1>4, <1>5, NoEvidence DEF Settled
  <1> QED BY <1>4, <1>6, NoEvidence DEF CallOK, d

LEMMA TakeAccounted ==
    ASSUME QuoteInv, NEW w \in Worker, CallOK(call[w]),
           Skip(w) \/ Take(w) \/ TakeRepository(w)
    PROVE  CallOK(call'[w])
  <1> DEFINE c == call[w]
             d == call'[w]
             entry == Entry(w)
  <1>1. DOMAIN call = Worker /\ DOMAIN call[w] = Fields /\ IsSeq(c.evidence)
    BY DEF QuoteInv, CallsAreRecords, EvidenceIsGood, Idle, Fields
  <1>2. c.at = "next" /\ c.rank <= Len(c.candidates) /\ Settled(c)
    BY DEF Skip, Take, TakeRepository, Wanting, At, CallOK
  <1>3. entry.chunk = 0 /\ entry.rank = c.rank /\ entry.content = "entry"
        /\ entry.listed = (c.kind # "search")
    BY DEF Entry, Item
  <1>4. c.kind # "search" => Accounts(c, entry, c.rank)
    BY <1>3 DEF Accounts
  <1>5. CASE Skip(w)
    <2>1. PICK i \in 1..(c.rank - 1) :
            Canonical[c.candidates[i]] = Canonical[c.candidates[c.rank]]
      BY <1>5 DEF Skip, SameAsEarlier, Candidate
    <2>2. i \in DOMAIN c.candidates /\ i < c.rank
      <3>1. c.rank \in Nat /\ DOMAIN c.candidates = 1..Len(c.candidates)
        BY <1>2 DEF Settled, IsSeq
      <3>2. i \in Nat /\ 1 <= i /\ i < c.rank
        BY <3>1
      <3>3. Len(c.candidates) \in Nat
        BY <1>2 DEF Settled, IsSeq
      <3> QED BY <1>2, <3>1, <3>2, <3>3
    <2>3. PICK e \in ToSet(c.evidence) : Accounts(c, e, i)
      BY <1>2, <2>2 DEF Settled
    <2>4. ~e.listed
      BY <1>5 DEF Skip, CallOK
    <2>5. Accounts(c, e, c.rank)
      BY <2>1, <2>3, <2>4 DEF Accounts
    <2>6. GoesOn(w, <<>>)
      BY <1>5 DEF Skip
    <2> QED BY <1>2, <2>5, <2>6, NoEvidence, GoesOnAccounted
  <1>6. CASE Take(w)
    <2>1. CASE call[w].kind = "search" /\ Goes(w, "lookup")
      <3>1. /\ d.at = "lookup" /\ d.kind = c.kind /\ d.candidates = c.candidates
            /\ d.rank = c.rank /\ d.evidence = c.evidence /\ d.kept = c.kept
        BY <1>1, <2>1 DEF Goes, Fields
      <3> QED BY <1>2, <2>1, <3>1, LooksOn DEF Looking
    <2>2. CASE call[w].kind = "filings"
               /\ call' = [call EXCEPT ![w].at = "lookup", ![w].evidence = Append(@, Entry(w))]
      <3>1. /\ d.at = "lookup" /\ d.kind = c.kind /\ d.candidates = c.candidates
            /\ d.rank = c.rank /\ d.evidence = Append(c.evidence, entry) /\ d.kept = c.kept
        BY <1>1, <2>2 DEF Fields
      <3>2. c.kind # "search" /\ c.kept = <<>> /\ \A e \in ToSet(c.evidence) : e.listed = (c.kind # "search")
        BY <1>2, <2>2 DEF CallOK
      <3> HIDE DEF c, d, entry
      <3>3. d.evidence = c.evidence \o <<entry>>
        <4>1. c.evidence \in Seq(ToSet(c.evidence) \cup {entry})
          BY <1>1 DEF IsSeq
        <4> QED BY <3>1, <4>1, AppendIsConcat
      <3>4. IsSeq(<<entry>>) /\ ToSet(<<entry>>) = {entry} /\ BestFirst(<<entry>>)
        BY <1>3, NoChunk
      <3>5. ToSet(d.evidence) = ToSet(c.evidence) \cup {entry}
        BY <1>1, <3>3, <3>4, ConcatOfAny
      <3>6. \E e \in ToSet(c.evidence) \cup ToSet(<<entry>>) : Accounts(c, e, c.rank)
        BY <1>4, <3>2, <3>4
      <3>7. Settled(d)
        BY <1>1, <1>2, <3>1, <3>3, <3>4, <3>6, SettledStays
      <3>8. CallOK(d)
        BY <1>3, <3>1, <3>2, <3>5, <3>7 DEF CallOK
      <3> QED BY <3>8 DEF d
    <2>3. CASE call[w].kind = "filings" /\ GoesOn(w, <<Entry(w)>>)
      <3> HIDE DEF entry
      <3>1. /\ IsSeq(<<entry>>) /\ ToSet(<<entry>>) = {entry} /\ BestFirst(<<entry>>)
            /\ Accounts(c, entry, c.rank) /\ GoesOn(w, <<entry>>)
        BY <1>3, <1>4, <2>3, NoChunk DEF entry
      <3> QED BY <1>2, <1>3, <3>1, GoesOnAccounted
    <2> QED BY <1>6, <2>1, <2>2, <2>3 DEF Take
  <1>7. CASE TakeRepository(w)
    <2>1. call[w].kind = "repositories"
      BY <1>7 DEF TakeRepository
    <2>2. PICK told \in {<<>>, <<"readme">>, <<"release">>, <<"readme", "release">>} :
            GoesOn(w, <<Entry(w)>> \o [i \in DOMAIN told |-> Item(w, Candidate(w), TRUE, told[i], 0)])
      BY <1>7 DEF TakeRepository
    <2> DEFINE more == [i \in DOMAIN told |-> Item(w, Candidate(w), TRUE, told[i], 0)]
    <2>3. PICK n \in Nat : DOMAIN told = 1..n
      <3>1. DOMAIN <<>> = 1..0 /\ DOMAIN <<"readme">> = 1..1 /\ DOMAIN <<"release">> = 1..1
            /\ DOMAIN <<"readme", "release">> = 1..2
        OBVIOUS
      <3> QED BY <2>2, <3>1
    <2>4. IsSeq(more)
      BY <2>3, MappedSeq
    <2>5. \A i \in DOMAIN told : more[i].chunk = 0 /\ more[i].listed = (c.kind # "search")
      BY DEF Item
    <2> HIDE DEF more
    <2>6. DOMAIN more = DOMAIN told /\ DOMAIN more = 1..Len(more)
      BY <2>4 DEF more, IsSeq
    <2>7. BestFirst(more) /\ \A e \in ToSet(more) : e.listed = (c.kind # "search")
      BY <2>5, <2>6 DEF BestFirst, ToSet
    <2> HIDE DEF entry
    <2>8. IsSeq(<<entry>>) /\ ToSet(<<entry>>) = {entry} /\ BestFirst(<<entry>>)
      BY <1>3, NoChunk
    <2> DEFINE all == <<entry>> \o more
    <2>9. IsSeq(all) /\ ToSet(all) = {entry} \cup ToSet(more) /\ BestFirst(all)
      BY <2>4, <2>7, <2>8, ConcatOfAny, BestFirstOfBoth
    <2>10. GoesOn(w, all)
      BY <2>2 DEF entry, more
    <2> HIDE DEF all
    <2>11. \A e \in ToSet(all) : e.listed = (c.kind # "search")
      BY <1>3, <2>7, <2>9
    <2>12. entry \in ToSet(all) /\ Accounts(c, entry, c.rank)
      BY <1>4, <2>1, <2>9
    <2> QED BY <1>2, <2>9, <2>10, <2>11, <2>12, GoesOnAccounted
  <1> QED BY <1>5, <1>6, <1>7

\* A page is cut into chunks, the best of them first.
LEMMA ExtractAccounted ==
    ASSUME QuoteInv, NEW w \in Worker, CallOK(call[w]), Extract(w)
    PROVE  CallOK(call'[w])
  <1> DEFINE c == call[w]
             page == c.page
             quoted == Quoted(w, page.content)
             more == [i \in DOMAIN quoted |-> Item(w, page.url, TRUE, page.content, quoted[i])]
  <1>1. c.at = "extract" /\ page.content \in Content
    <2>1. c.at = "extract"
      BY DEF Extract, At
    <2>2. page \in Page
      BY <2>1, QuotablePages DEF QuoteInv, PagesAreServed
    <2> QED BY <2>1, <2>2 DEF Page
  <1>2. CASE Fails(w)
    BY <1>1, <1>2, FailsAccounted DEF Looking
  <1>3. CASE quoted # <<>> /\ GoesOn(w, more)
    <2>1. PICK n \in Nat : DOMAIN quoted = 1..n
      BY <1>1, QuotedDomain
    <2>2. quoted = [i \in 1..n |-> quoted[i]]
      <3>1. quoted = RankedChunks(page.content) \/ quoted = <<>>
            \/ quoted = Upto(2, RankedChunks(page.content))
        BY DEF Quoted
      <3>2. \A s : Upto(2, s) = [i \in DOMAIN Upto(2, s) |-> Upto(2, s)[i]]
        BY DEF Upto
      <3>3. PICK S, ranked : RankedChunks(page.content) = [i \in S |-> ranked[i]]
        BY Zenon DEF RankedChunks, Upto
      <3>4. quoted = [i \in DOMAIN quoted |-> quoted[i]]
        <4> DEFINE s == RankedChunks(page.content)
        <4>1. s = [i \in DOMAIN s |-> s[i]]
          BY <3>3
        <4>2. Upto(2, s) = [i \in DOMAIN Upto(2, s) |-> Upto(2, s)[i]]
          BY <3>2
        <4>3. <<>> = [i \in DOMAIN <<>> |-> <<>>[i]]
          OBVIOUS
        <4> HIDE DEF s, quoted
        <4>4. CASE quoted = s
          BY <4>1, <4>4
        <4>5. CASE quoted = <<>>
          BY <4>3, <4>5
        <4>6. CASE quoted = Upto(2, s)
          BY <4>2, <4>6
        <4> QED BY <3>1, <4>4, <4>5, <4>6 DEF s
      <3> QED BY <2>1, <3>4
    <2>3. 1 \in 1..n
      <3>1. CASE n = 0
        <4> HIDE DEF quoted
        <4>1. quoted = <<>>
          BY <2>2, <3>1
        <4> QED BY <1>3, <4>1
      <3>2. CASE n # 0
        BY <3>2
      <3> QED BY <3>1, <3>2
    <2>4. IsSeq(more)
      BY <2>1, MappedSeq
    <2>5. \A i \in 1..n : /\ more[i].listed = (c.kind # "search") /\ more[i].rank = c.rank
                          /\ more[i].source = page.url /\ more[i].content = page.content
                          /\ more[i].chunk = quoted[i]
      BY <2>1 DEF Item
    <2>6. c.kind = "search" => BestChunk(more[1])
      <3> SUFFICES ASSUME c.kind = "search" PROVE BestChunk(more[1])
        OBVIOUS
      <3>1. quoted = RankedChunks(page.content)
        BY DEF Quoted
      <3>2. \A k \in DOMAIN Scores[page.content] :
              Scores[page.content][k] <= Scores[page.content][quoted[1]]
        BY <1>1, <1>3, <3>1, BestIsFirst
      <3> HIDE DEF more, quoted, page
      <3> QED BY <2>3, <2>5, <3>2 DEF BestChunk
    <2>7. \A i \in 1..n : more[1].rank = c.rank /\ (~more[i].listed => SameItem(more[1], more[i]))
      BY <2>3, <2>5 DEF SameItem
    <2> HIDE DEF more, quoted
    <2>8. DOMAIN more = 1..n /\ Len(more) = n
      <3>1. DOMAIN more = 1..n
        BY <2>1 DEF more
      <3>2. DOMAIN more = 1..Len(more) /\ Len(more) \in Nat
        BY <2>4 DEF IsSeq
      <3> QED BY <3>1, <3>2
    <2>9. BestFirst(more)
      <3> SUFFICES ASSUME NEW i \in 1..n, ~more[i].listed
                   PROVE  BestChunk(more[i]) \/ \E j \in 1..(i - 1) : SameItem(more[j], more[i])
        BY <2>8 DEF BestFirst
      <3>1. CASE i = 1
        BY <2>5, <2>6, <3>1
      <3>2. CASE i # 1
        <4>1. 1 \in 1..(i - 1)
          BY <3>2
        <4> QED BY <2>7, <4>1
      <3> QED BY <3>1, <3>2
    <2>10. \A e \in ToSet(more) : e.listed = (c.kind # "search")
      BY <2>5, <2>8 DEF ToSet
    <2>11. \E e \in ToSet(c.evidence) \cup ToSet(more) : Accounts(c, e, c.rank)
      <3>1. CASE c.kind = "search"
        <4>1. more[1] \in ToSet(more)
          BY <2>3, <2>8 DEF ToSet
        <4>2. ~more[1].listed /\ more[1].rank = c.rank
          BY <2>3, <2>5, <3>1
        <4> QED BY <4>1, <4>2 DEF Accounts
      <3>2. CASE c.kind # "search"
        BY <1>1, <3>2 DEF CallOK, Settled
      <3> QED BY <3>1, <3>2
    <2> QED BY <1>1, <1>3, <2>4, <2>9, <2>10, <2>11, GoesOnAccounted DEF Looking
  <1> QED BY <1>2, <1>3 DEF Extract

\* Steps on the way to a page and with it.
LEMMA LookAccounted ==
    ASSUME QuoteInv, NEW w \in Worker, CallOK(call[w]),
           \/ Lookup(w) \/ Render(w) \/ Request(w) \/ Retry(w)
           \/ Truncate(w) \/ WriteOut(w) \/ StoreFails(w)
    PROVE  CallOK(call'[w])
  <1> DEFINE c == call[w]
             d == call'[w]
  <1>1. DOMAIN call = Worker /\ DOMAIN call[w] = Fields
    BY DEF QuoteInv, CallsAreRecords, Idle, Fields
  <1>2. c.at \in Looking
    BY DEF Lookup, Render, Request, Retry, Truncate, WriteOut, StoreFails, At, Looking
  <1>3. CASE Fails(w)
    BY <1>2, <1>3, FailsAccounted
  <1>4. ASSUME NEW at \in Looking, NEW page, NEW attempt,
               \/ Goes(w, at)
               \/ call' = [call EXCEPT ![w].at = at, ![w].page = page]
               \/ call' = [call EXCEPT ![w].at = at, ![w].attempt = attempt]
        PROVE  CallOK(d)
    <2>1. /\ d.at = at /\ d.kind = c.kind /\ d.candidates = c.candidates
          /\ d.rank = c.rank /\ d.evidence = c.evidence /\ d.kept = c.kept
      BY <1>1, <1>4 DEF Goes, Fields
    <2>2. c.at # "next"
      BY <1>2 DEF Looking
    <2> QED BY <1>2, <2>1, <2>2, LooksOn
  <1>5. \/ Fails(w)
        \/ \E at \in Looking : \E page, attempt :
              \/ Goes(w, at)
              \/ call' = [call EXCEPT ![w].at = at, ![w].page = page]
              \/ call' = [call EXCEPT ![w].at = at, ![w].attempt = attempt]
    <2>1. CASE Lookup(w)
      BY <2>1 DEF Lookup, Looking
    <2>2. CASE Render(w) \/ Request(w)
      BY <2>2 DEF Render, Request, Got, Looking
    <2>3. CASE Retry(w)
      BY <2>3 DEF Retry, Looking
    <2>4. CASE Truncate(w) \/ WriteOut(w) \/ StoreFails(w)
      BY <2>4 DEF Truncate, WriteOut, StoreFails, Looking
    <2> QED BY <2>1, <2>2, <2>3, <2>4
  <1> QED BY <1>3, <1>4, <1>5

LEMMA KeepAccounted ==
    ASSUME QuoteInv, NEW w \in Worker, CallOK(call[w]), Keep(w)
    PROVE  CallOK(call'[w])
  <1> DEFINE c == call[w]
             d == call'[w]
  <1>1. DOMAIN call = Worker /\ DOMAIN call[w] = Fields
    BY DEF QuoteInv, CallsAreRecords, Idle, Fields
  <1>2. /\ c.at = "next" /\ c.rank > Len(c.candidates)
        /\ d.at = "kept" /\ d.kind = c.kind /\ d.candidates = c.candidates
        /\ d.rank = c.rank /\ d.evidence = c.evidence /\ d.kept = Deduplicated(c.evidence)
    BY <1>1 DEF Keep, At, Fields
  <1>3. Settled(c)
    BY <1>2 DEF CallOK
  <1>4. \A e, i : Accounts(c, e, i) <=> Accounts(d, e, i)
    BY <1>2 DEF Accounts
  <1>5. ~(c.rank <= Len(c.candidates))
    BY <1>2, <1>3 DEF Settled, IsSeq
  <1> HIDE DEF c, d
  <1>6. Settled(d)
    BY <1>2, <1>3, <1>4, <1>5 DEF Settled
  <1> QED BY <1>2, <1>6 DEF CallOK, c, d

\* A worker moves its own call only.
LEMMA Moves ==
    ASSUME QuoteInv, NEW w \in Worker, Begin(w) \/ Work(w) \/ Crash(w), NEW v \in Worker \ {w}
    PROVE  call'[v] = call[v]
  <1>1. DOMAIN call = Worker
    BY DEF QuoteInv, CallsAreRecords
  <1>2. ASSUME NEW more, GoesOn(w, more) PROVE call'[v] = call[v]
    BY <1>1, <1>2 DEF GoesOn
  <1>3. ASSUME Fails(w) PROVE call'[v] = call[v]
    BY <1>2, <1>3 DEF Fails
  <1>4. ASSUME NEW at, Goes(w, at) PROVE call'[v] = call[v]
    BY <1>1, <1>4 DEF Goes
  <1>5. CASE Begin(w) \/ Crash(w) \/ Return(w) \/ List(w)
    BY <1>1, <1>5 DEF Begin, Crash, Return, List
  <1>6. CASE DoNotAsk(w) \/ Ask(w)
    BY <1>1, <1>6 DEF DoNotAsk, Ask, Bucket
  <1>7. CASE Merge(w)
    <2>1. \E urls : call' = [call EXCEPT ![w].at = "next", ![w].rank = 1, ![w].candidates = urls]
      BY <1>7, Zenon DEF Merge
    <2> QED BY <1>1, <2>1
  <1>8. CASE Skip(w) \/ Take(w) \/ TakeRepository(w)
    BY <1>1, <1>2, <1>4, <1>8 DEF Skip, Take, TakeRepository
  <1>9. CASE Lookup(w) \/ Render(w) \/ Request(w) \/ Retry(w)
    BY <1>1, <1>3, <1>4, <1>9 DEF Lookup, Render, Request, Got, Retry
  <1>10. CASE Truncate(w) \/ WriteOut(w) \/ StoreFails(w)
    BY <1>3, <1>4, <1>10 DEF Truncate, WriteOut, StoreFails
  <1>11. CASE Extract(w)
    <2>1. (\E more : GoesOn(w, more)) \/ Fails(w)
      BY <1>11, Zenon DEF Extract
    <2> QED BY <1>2, <1>3, <2>1
  <1>12. CASE Keep(w)
    <2>1. \E kept : call' = [call EXCEPT ![w].at = "kept", ![w].kept = kept]
      BY <1>12, Zenon DEF Keep
    <2> QED BY <1>1, <2>1
  <1> QED
    BY <1>5, <1>6, <1>7, <1>8, <1>9, <1>10, <1>11, <1>12 DEF Work

LEMMA AccountInit == Init => AccountInv
  BY IdleAccounted DEF Init, AccountInv

\* Every step; it leaves the calls of the other workers alone.
LEMMA AccountStep == QuoteInv /\ AccountInv /\ [Next]_vars => AccountInv'
  <1> SUFFICES ASSUME QuoteInv, AccountInv, [Next]_vars PROVE AccountInv'
    OBVIOUS
  <1>1. CASE UNCHANGED vars \/ Midnight
    <2>1. UNCHANGED call
      BY <1>1 DEF vars, Midnight
    <2> QED BY <2>1 DEF AccountInv
  <1>2. ASSUME NEW w \in Worker, Begin(w) \/ Work(w) \/ Crash(w)
        PROVE  AccountInv'
    <2>1. CallOK(call[w])
      BY DEF AccountInv
    <2>2. CallOK(call'[w])
      BY <1>2, <2>1, BeginAccounted, AskAccounted, ListAccounted, TakeAccounted, LookAccounted,
         ExtractAccounted, KeepAccounted DEF Work
    <2>3. \A v \in Worker \ {w} : call'[v] = call[v]
      BY <1>2, Moves
    <2> QED BY <2>1, <2>2, <2>3 DEF AccountInv
  <1> QED BY <1>1, <1>2 DEF Next

\* Whatever was to be fetched has left a piece of evidence that the collector keeps,
\* or the like of which it keeps, for every number of candidates and of workers.
THEOREM CandidatesAccounted == Spec => []CandidatesAreAccounted
  <1>1. QuoteInv /\ AccountInv => CandidatesAreAccounted
    <2> SUFFICES ASSUME QuoteInv, AccountInv, NEW w \in Worker, At(w, "kept"),
                        NEW i \in DOMAIN call[w].candidates
                 PROVE  \E e \in ToSet(call[w].evidence) :
                           /\ Accounts(call[w], e, i)
                           /\ \E k \in ToSet(call[w].kept) : SameItem(k, e)
      BY DEF CandidatesAreAccounted, Accounts
    <2> DEFINE c == call[w]
    <2>1. CallOK(c) /\ c.at = "kept" /\ IsSeq(c.evidence)
      BY DEF AccountInv, At, QuoteInv, EvidenceIsGood
    <2>2. Settled(c) /\ c.kept = Deduplicated(c.evidence)
          /\ \A e, f \in ToSet(c.evidence) : e.listed = f.listed
      BY <2>1 DEF CallOK
    <2>3. i < c.rank
      <3>1. i \in 1..Len(c.candidates) /\ Len(c.candidates) \in Nat /\ c.rank \in Nat
        BY <2>2 DEF Settled, IsSeq
      <3> QED BY <2>1, <2>2, <3>1 DEF Settled
    <2>4. PICK e \in ToSet(c.evidence) : Accounts(c, e, i)
      BY <2>2, <2>3 DEF Settled
    <2>5. PICK j \in 1..Len(c.evidence) : c.evidence[j] = e
      BY <2>1 DEF IsSeq, ToSet
    <2>6. \E k \in ToSet(c.kept) : SameItem(k, c.evidence[j])
      BY <2>1, <2>2, FirstsAreKept
    <2> QED BY <2>4, <2>5, <2>6
  <1> QED BY QuoteInit, QuoteStep, AccountInit, AccountStep, <1>1, PTL DEF Spec

\* The one chunk of a page that is kept is one that matches best, however many there
\* are and from however many candidates they come.
THEOREM BestChunkKept == Spec => []BestChunkIsKept
  <1>1. QuoteInv /\ AccountInv => BestChunkIsKept
    <2> SUFFICES ASSUME QuoteInv, AccountInv, NEW w \in Worker,
                        NEW e \in ToSet(call[w].kept), e.chunk > 0, ~e.listed
                 PROVE  BestChunk(e)
      BY DEF BestChunkIsKept, BestChunk
    <2> DEFINE c == call[w]
    <2>1. CallOK(c) /\ IsSeq(c.evidence)
      BY DEF AccountInv, QuoteInv, EvidenceIsGood
    <2>2. c.at = "kept"
      <3>1. c.kept # <<>>
        BY DEF ToSet
      <3> QED BY <2>1, <3>1 DEF CallOK
    <2>3. BestFirst(c.evidence) /\ c.kept = Deduplicated(c.evidence)
          /\ \A f, g \in ToSet(c.evidence) : f.listed = g.listed
      BY <2>1, <2>2 DEF CallOK, Settled
    <2>4. PICK i \in 1..Len(c.evidence) :
            c.evidence[i] = e /\ \A j \in 1..(i - 1) : ~SameItem(c.evidence[j], e)
      BY <2>1, <2>3, FirstsAreKept
    <2> QED BY <2>3, <2>4 DEF BestFirst
  <1> QED BY QuoteInit, QuoteStep, AccountInit, AccountStep, <1>1, PTL DEF Spec
====
