---- MODULE Collection ----
(***************************************************************************)
(* How a run gathers its evidence: the planner turns the section plan, or  *)
(* the critic's requests, into query strategies, the collector works them  *)
(* off in rounds under a budget of tool calls and selects the evidence     *)
(* pool, and the critic finds the gaps the next planning answers.          *)
(*                                                                         *)
(* A piece of evidence is a record: the key it is deduplicated by, the     *)
(* section and source type it is attributed to, whether it is verified,    *)
(* whether it only reports a failed fetch, and the rank of its score (no   *)
(* two alike: ties go by arrival, which sets leave out).  A query is what  *)
(* it asks about: a section, an entity, a claim.                           *)
(***************************************************************************)
EXTENDS Rankings, SequencesExt

CONSTANTS
    Sections,           \* the sections of the research plan, a sequence
    Required,           \* the source types each needs
    MinEvidence,        \* the evidence each needs
    Budget,             \* the evidence each may keep
    Evidence,           \* what the tools can come back with
    Settings,           \* what the environment and the request may be
    Tools,              \* how many tools the collect subtask suggests
    Strict,             \* INSIGHT_GRAPH_STRICT_QUALITY_GATE
    MinVerified,        \* the verified evidence a critique asks for
    MaxRetries,         \* INSIGHT_GRAPH_MAX_RESEARCH_RETRIES
    MaxRounds,          \* INSIGHT_GRAPH_MAX_TOOL_ROUNDS
    MaxToolCalls,       \* INSIGHT_GRAPH_MAX_TOOL_CALLS
    MaxPerTool,         \* what one tool call may keep
    MaxEvidence,        \* INSIGHT_GRAPH_MAX_EVIDENCE_PER_RUN
    StrategiesPerRound  \* INSIGHT_GRAPH_MAX_QUERY_STRATEGIES_PER_ROUND

\* Every domain profile has sections, section budgets are positive, and what else
\* can be asked about is no section.
Section == {Sections[i] : i \in DOMAIN Sections}
ASSUME SectionsAssumption ==
    /\ Sections \in Seq(STRING \ {"entity", "claim", "weak"}) /\ Sections # <<>>
    /\ \A s \in Section : IsFiniteSet(Required[s])
    /\ MinEvidence \in [Section -> Nat \ {0}] /\ Budget \in [Section -> Nat \ {0}]
ASSUME BoundsAssumption ==
    /\ {Tools, MinVerified, MaxRetries} \subseteq Nat
    /\ {MaxRounds, MaxToolCalls, MaxPerTool, MaxEvidence, StrategiesPerRound} \subseteq Nat \ {0}
ASSUME EvidenceAssumption ==
    /\ IsFiniteSet(Evidence)
    /\ \A e \in Evidence : e.rank \in Nat /\ e.section \in Section
    /\ \A e, f \in Evidence : e.rank = f.rank => e = f

\* A setting says whether mock_search is the only tool, how many entities the
\* request names, how many seed URLs they have and what these can come back with.
ASSUME SettingsAssumption ==
    Settings \subseteq [mockOnly : BOOLEAN, entities : Nat, seeds : Nat,
                       answers : SUBSET SUBSET Evidence]

VARIABLES
    setting,
    node,       \* the stage that comes next
    iterations, requests, tried, verdict,
    strategies, \* query_strategies
    pool,       \* evidence_pool
    records,    \* the length of tool_call_log
    round, todo, collected, stop,   \* of the collection: round_index, work items left, ...
    heard,      \* whether what this round has collected was failed fetches
    asked,      \* what the queries of this collection were about
    called      \* how often a tool has been run for a work item, in the whole run

planning == <<setting, iterations, requests, tried, verdict, strategies>>
collecting == <<pool, records, round, todo, collected, stop, heard, asked, called>>
vars == <<node, planning, collecting>>
----------------------------------------------------------------------------
(* Coverage of the sections *)

OfSection(P, s) == {e \in P : e.section = s}

\* The source types a section still misses: only verified evidence covers one.
Missing(P, s) == Required[s] \ {e.type : e \in {f \in OfSection(P, s) : f.verified}}

Sufficient(P, s) == Cardinality(OfSection(P, s)) >= MinEvidence[s] /\ Missing(P, s) = {}
AllSufficient(P) == \A s \in Section : Sufficient(P, s)
Insufficient(P) == Those(Sections, {s \in Section : ~Sufficient(P, s)})

(* Selection of the pool *)

Better(e, f) == e.rank > f.rank

\* At most its budget for each section, the best first ...
SectionCapped(C) ==
    {e \in C : Cardinality({f \in OfSection(C, e.section) : Better(f, e)}) < Budget[e.section]}

\* ... then the best item of each source type that would otherwise be gone ...
Extras(C) ==
    {e \in C : /\ \A f \in SectionCapped(C) : f.type # e.type
               /\ \A f \in C : Better(f, e) => f.type # e.type}

\* ... and of all that, in this order, what the budget of the run allows.
SelectedByScore(C) ==                                               \* mutant
    {e \in SectionCapped(C) :
        Cardinality({f \in SectionCapped(C) : Better(f, e)}) < MaxEvidence}
Selected(C) ==
    LET kept == SectionCapped(C)
        Before(e) == IF e \in kept THEN {f \in kept : Better(f, e)}
                     ELSE kept \cup {f \in Extras(C) : Better(f, e)}
    IN {e \in kept \cup Extras(C) : Cardinality(Before(e)) < MaxEvidence}

\* Of evidence with the same key, the first stays.
Merged(C, K) == C \cup {e \in K : \A c \in C : c.key # e.key}
----------------------------------------------------------------------------
(* The planner *)

Strategy(r, about) == [round |-> r, about |-> about]

\* One strategy for each source type that is wanted, or one for any.
Copies(types) == IF types = {} THEN 1 ELSE Cardinality(types)

Slots(wants) == UNION {{i} \X (1..Copies(wants[i].types)) : i \in DOMAIN wants}

StrategiesFor(r, wants) ==
    LET order == Ranked(Slots(wants),
                        LAMBDA p, q : p[1] < q[1] \/ (p[1] = q[1] /\ p[2] < q[2]))
    IN  [n \in DOMAIN order |-> Strategy(r, wants[order[n][1]].about)]

SectionWants ==
    [i \in DOMAIN Sections |-> [about |-> Sections[i], types |-> Required[Sections[i]]]]

EntityStrategies ==
    LET n == setting.entities IN
    CASE n = 0 -> <<>>
      [] n = 1 -> [i \in DOMAIN Sections |-> Strategy(1, Sections[i])]
      [] n > 1 -> [i \in DOMAIN Sections |-> Strategy(2, Sections[i])]

\* Mutated form: the strategies of a retry are for the round after the next.
StrategiesAhead(r) ==
    IF r > 1 /\ requests # <<>> THEN StrategiesFor(r + 1, requests)
    ELSE IF setting.mockOnly THEN <<>>
    ELSE StrategiesFor(r, SectionWants) \o (IF r = 1 THEN EntityStrategies ELSE <<>>)
Strategies(r) ==
    IF r > 1 /\ requests # <<>> THEN StrategiesFor(r, requests)
    ELSE IF setting.mockOnly THEN <<>>
    ELSE StrategiesFor(r, SectionWants) \o (IF r = 1 THEN EntityStrategies ELSE <<>>)

Plan ==
    /\ node = "planner"
    /\ strategies' = Strategies(iterations + 1)
    /\ node' = "start"
    /\ UNCHANGED <<setting, iterations, requests, tried, verdict, collecting>>
----------------------------------------------------------------------------
(* The collector *)

\* A query without a strategy asks about the first section that is not covered
\* yet, after the first round, and on a retry about the first section or claim
\* that was requested.  What every query of a tool names besides, the request and
\* the first sections of the plan, whatever is missing, is left out.
Hints(r, P) ==
    LET focus == IF r = 1 THEN <<>> ELSE Insufficient(P)
        request == IF iterations = 0 THEN <<>>
                   ELSE Those(requests, {g \in ToSet(requests) : g.about # "entity"})
    IN {Strategy(0, s) : s \in {focus[i] : i \in DOMAIN focus \cap {1}}}
       \cup {Strategy(0, request[i].about) : i \in DOMAIN request \cap {1}}

Due(r) == Those(strategies, {s \in ToSet(strategies) : s.round = r})

\* A work item is the set of things its query asks about.
WorkItems(r, P) ==
    IF Due(r) # <<>>
    THEN [i \in DOMAIN Due(r) \cap 1..StrategiesPerRound |-> {Due(r)[i]}]
    ELSE [i \in 1..Tools |-> Hints(r, P)]

ExistingEvidence == IF iterations = 0 THEN {} ELSE pool

\* The official sources of the entities are fetched at the start of every
\* collection, whatever is left of the budget.
BeginFrom(existing, logged) ==
    /\ node = "start"
    /\ \E answer \in setting.answers : collected' = Merged(existing, answer)
    /\ records' = logged + setting.seeds
    /\ round' = 1
    /\ todo' = WorkItems(1, pool)
    /\ heard' = {}
    /\ asked' = {}
    /\ stop' = ""
    /\ node' = "collector"
    /\ UNCHANGED <<planning, pool, called>>
BeginAfresh == BeginFrom({}, records)                               \* mutant
BeginWithNewLog == BeginFrom(ExistingEvidence, 0)                   \* mutant
Begin == BeginFrom(ExistingEvidence, records)

\* What is kept of the results of a tool: filtered, deduplicated, capped.  A tool
\* that fails keeps nothing.
Kept == {K \in SUBSET Evidence : /\ Cardinality(K) <= MaxPerTool
                                 /\ \A e, f \in K : e.key = f.key => e = f}

RunTool ==
    /\ node = "collector" /\ todo # <<>> /\ records < MaxToolCalls
    /\ \E K \in Kept :
          /\ collected' = Merged(collected, K)
          /\ heard' = heard \cup {e.failed : e \in K}
    /\ records' = records + 1
    /\ called' = called + 1
    /\ asked' = asked \cup Head(todo)
    /\ todo' = Tail(todo)
    /\ UNCHANGED <<node, planning, pool, round, stop>>

\* The end of a collection, for the reason given.
EndCollection(reason) ==
    /\ stop' = reason
    /\ node' = "critic"
    /\ UNCHANGED <<planning, records, round, todo, collected, heard, asked, called>>

ExhaustBudget ==
    /\ node = "collector" /\ todo # <<>> /\ records >= MaxToolCalls
    /\ pool' = Selected(collected)
    /\ EndCollection("tool_budget_exhausted")

HasStrategies == \E i \in DOMAIN strategies : strategies[i].round = round
HasLaterStrategies == \E i \in DOMAIN strategies : strategies[i].round > round

\* The reasons to stop after a round that leaves the pool P; the first counts.
Reasons(P) ==
    LET exhausted == HasStrategies /\ ~HasLaterStrategies
        unverified == P # {} /\ \A e \in P : ~e.verified
    IN Those(<<
        <<"sufficient", AllSufficient(P)>>,
        <<"network_failed", heard = {TRUE}>>,
        <<"no_verified_evidence", exhausted /\ unverified>>,
        <<"query_strategy_exhausted", exhausted>>,
        <<"no_new_evidence", round > 1 /\ P \subseteq pool>>>>, STRING \X {TRUE})

EndRound ==
    /\ node = "collector" /\ todo = <<>>
    /\ pool' = Selected(collected)
    /\ \/ /\ Reasons(pool') # <<>>
          /\ EndCollection(Reasons(pool')[1][1])
       \/ /\ Reasons(pool') = <<>> /\ round = MaxRounds
          /\ EndCollection("max_rounds")
       \/ /\ Reasons(pool') = <<>> /\ round < MaxRounds
          /\ round' = round + 1
          /\ todo' = WorkItems(round + 1, pool')
          /\ heard' = {}
          /\ UNCHANGED <<node, planning, records, collected, stop, asked, called>>
----------------------------------------------------------------------------
(* The critic, and what follows *)

SectionGap(s, P) == [about |-> s, types |-> Missing(P, s)]
EntityGap == [about |-> "entity", types |-> {"official_site", "docs"}]
WeakGap == [about |-> "weak", types |-> {"official_site"}]
ClaimGap == [about |-> "claim", types |-> {"official_site"}]

\* Requests with a strategy key are made once; those for an unsupported finding
\* have none.
Requests(gaps) == Those(gaps, {g \in ToSet(gaps) : g = ClaimGap \/ g \notin tried})
Keys(gaps) == {gaps[i] : i \in DOMAIN gaps} \ {ClaimGap}

\* Which findings and entities want evidence is a choice, and so is whether there
\* are findings with few enough weak conclusions.
Criticise ==
    /\ node = "critic"
    /\ \E doubts \in SUBSET {EntityGap, ClaimGap, WeakGap}, sound \in BOOLEAN :
          LET missing == Insufficient(pool)
              doubtful == Those(<<EntityGap, ClaimGap, WeakGap>>, doubts)
              passed == /\ Cardinality({e \in pool : e.verified}) >= MinVerified
                        /\ sound /\ {EntityGap, ClaimGap} \cap doubts = {}
                        /\ Strict => AllSufficient(pool)
          IN /\ requests' = Requests([i \in DOMAIN missing |-> SectionGap(missing[i], pool)]
                                     \o doubtful)
             /\ verdict' = IF passed THEN "passed" ELSE "failed"
    /\ tried' = tried \cup Keys(requests')
    /\ node' = "route"
    /\ UNCHANGED <<setting, iterations, strategies, collecting>>

MayRetry == verdict = "failed" /\ iterations < MaxRetries

RecordRetry ==
    /\ node = "route" /\ MayRetry
    /\ iterations' = IF iterations < MaxRetries THEN iterations + 1 ELSE MaxRetries
    /\ node' = "planner"
    /\ UNCHANGED <<setting, requests, tried, verdict, strategies, collecting>>

Report ==
    /\ node = "route" /\ ~MayRetry
    /\ node' = "reporter"
    /\ UNCHANGED <<planning, collecting>>
----------------------------------------------------------------------------
Init ==
    /\ setting \in Settings
    /\ node = "planner"
    /\ iterations = 0 /\ requests = <<>> /\ tried = {} /\ verdict = "none"
    /\ strategies = <<>> /\ pool = {} /\ records = 0
    /\ round = 0 /\ todo = <<>> /\ collected = {} /\ stop = ""
    /\ heard = {} /\ asked = {} /\ called = 0

Done == node = "reporter" /\ UNCHANGED vars

Next ==
    \/ Plan \/ Begin \/ RunTool \/ ExhaustBudget \/ EndRound
    \/ Criticise \/ RecordRetry \/ Report \/ Done

Spec == Init /\ [][Next]_vars
----------------------------------------------------------------------------
Asking == [round : Nat, about : Section \cup {"entity", "claim", "weak"}]
StopReasons == {"sufficient", "network_failed", "no_verified_evidence", "no_new_evidence",
                "query_strategy_exhausted", "max_rounds", "tool_budget_exhausted"}

TypeOK ==
    /\ setting \in Settings
    /\ node \in {"planner", "start", "collector", "critic", "route", "reporter"}
    /\ iterations \in 0..MaxRetries
    /\ verdict \in {"none", "passed", "failed"}
    /\ strategies \in Seq(Asking) /\ asked \subseteq Asking
    /\ pool \subseteq Evidence /\ collected \subseteq Evidence
    /\ records \in Nat /\ called \in Nat
    /\ round \in 0..MaxRounds
    /\ stop \in StopReasons \cup {""}

\* However many rounds and retries there are, the tools are run for at most the
\* budget of tool calls; only the fetches of the seeds are outside it.
CallsWithinBudget == called <= MaxToolCalls

\* What leaves the hands of the collector is within the budget of the run, and no
\* kind of source is lost unless that budget is used up.
SourcesStayDiverse ==
    node \in {"critic", "route", "reporter"} =>
        /\ Cardinality(pool) <= MaxEvidence
        /\ \A e \in collected : \/ \E f \in pool : f.type = e.type
                                \/ Cardinality(pool) = MaxEvidence

\* Evidence gives way to better evidence only, however often collection is retried:
\* an item that leaves the pool leaves a full one, or a section with its fill of
\* better items.
EvidenceIsOutdone ==
    [][\A e \in pool \ pool' :
          \/ Cardinality(pool') = MaxEvidence
          \/ Cardinality({f \in pool' : f.section = e.section /\ Better(f, e)})
                >= Budget[e.section]]_vars

\* The slots of what is wanted before the i-th thing that is, and its first.
Until(wants, i) == {p \in Slots(wants) : p[1] < i} \cup {<<i, 1>>}

\* The requests that have a strategy among those a round works off.
Fitting == {i \in DOMAIN requests : Cardinality(Until(requests, i)) <= StrategiesPerRound}

\* The reasons to end a retry before the round of its strategies, which is the round
\* after as many as there have been retries.
EndsBeforeDue ==
    /\ round <= iterations
    /\ \/ stop = "sufficient" /\ AllSufficient(pool)
       \/ stop = "network_failed" /\ heard = {TRUE}
       \/ stop = "no_new_evidence" /\ iterations > 1
       \/ stop = "max_rounds" /\ MaxRounds <= iterations

\* A retry asks about everything the critique requested that a round has room for,
\* whatever the rounds before that have found, unless its calls are used up or it ends
\* before that round for one of four reasons: an end for want of strategies, or after
\* the first round, is none of them.
FollowedWhenDue ==
    node = "critic" /\ iterations > 0 /\ stop # "tool_budget_exhausted" =>
        \/ EndsBeforeDue
        \/ \A i \in Fitting : \E a \in asked : a.about = requests[i].about

\* The roadmap says that the collection of a retry consumes the requests of the critic
\* in targeted follow-up queries: it asks about every section it was asked for, unless
\* its calls are used up, all its fetches fail or the section is covered meanwhile.
GapsAreFollowedUp ==
    node = "critic" /\ iterations > 0 /\ stop \notin {"tool_budget_exhausted", "network_failed"} =>
        \A i \in DOMAIN requests :
            requests[i].about \in Section =>
                \/ \E a \in asked : a.about = requests[i].about
                \/ Sufficient(pool, requests[i].about)

====
