---- MODULE ResearchState ----
(***************************************************************************)
(* What the stages of the research workflow do to the GraphState, and      *)
(* where the graph goes next.  The contents of a state are kept as their   *)
(* lineage: evidence is the set of planning rounds whose collections the   *)
(* pool was selected from, findings remember the evidence they were drawn  *)
(* from, a critique the findings it judged, a report the findings and the  *)
(* critique it presents.                                                   *)
(*                                                                         *)
(* What the tools, the models and the quality checks answer is a choice:   *)
(* the claim an analysis makes, whether a critique passes, and which gaps  *)
(* (missing sections, missing entities, weak claims) it finds.             *)
(***************************************************************************)
EXTENDS Naturals, FiniteSets

CONSTANTS
    MaxRetries,     \* INSIGHT_GRAPH_MAX_RESEARCH_RETRIES
    Claim,          \* what an analysis can conclude
    Gap,            \* what a critique can find missing, and a replan request ask for
    Keyed           \* the gaps with a strategy_key (an unsupported finding has none)

ASSUME RetriesAssumption == MaxRetries \in Nat
ASSUME KeyedAssumption == Keyed \subseteq Gap

NoClaim == "none"
Round == 1..MaxRetries + 1

Plan == [round : {0} \cup Round, requests : SUBSET Gap]
Findings == [from : SUBSET Round, claim : Claim \cup {NoClaim}]
Critique == [of : Findings, verdict : {"none", "passed", "failed"}]
State == [iterations : 0..MaxRetries, plan : Plan, evidence : SUBSET Round,
          findings : Findings, critique : Critique, requests : SUBSET Gap,
          tried : SUBSET Keyed, report : Critique]

NoFindings == [from |-> {}, claim |-> NoClaim]
NoCritique == [of |-> NoFindings, verdict |-> "none"]

Fresh ==
    [iterations |-> 0, plan |-> [round |-> 0, requests |-> {}], evidence |-> {},
     findings |-> NoFindings, critique |-> NoCritique,
     requests |-> {}, tried |-> {}, report |-> NoCritique]
----------------------------------------------------------------------------
\* plan_research: the strategies of a retry answer the critic's requests.
Planned(s) ==
    [s EXCEPT !.plan = [round |-> s.iterations + 1,
                        requests |-> IF s.iterations > 0 THEN s.requests ELSE {}]]

\* collect_evidence: a retry adds to the evidence there is.
CollectedAfresh(s) == [s EXCEPT !.evidence = {s.plan.round}]        \* mutant
Collected(s) ==
    [s EXCEPT !.evidence = {s.plan.round} \cup (IF s.iterations > 0 THEN @ ELSE {})]

\* analyze_evidence
Analysed(s, claim) == [s EXCEPT !.findings = [from |-> s.evidence, claim |-> claim]]

\* critique_analysis: a gap with a key is asked for once only.
RequestedAgain(s, verdict, gaps) ==                                 \* mutant
    [s EXCEPT !.critique = [of |-> s.findings, verdict |-> verdict],
              !.requests = gaps,
              !.tried = s.tried \cup (gaps \cap Keyed)]
Criticised(s, verdict, gaps) ==
    [s EXCEPT !.critique = [of |-> s.findings, verdict |-> verdict],
              !.requests = gaps \ s.tried,
              !.tried = s.tried \cup (gaps \cap Keyed)]

\* _record_retry
RetryRecorded(s) ==
    [s EXCEPT !.iterations = IF @ + 1 < MaxRetries THEN @ + 1 ELSE MaxRetries]

\* write_report
Reported(s) == [s EXCEPT !.report = s.critique]

\* _route_after_critic
RoutedOneMore(s) ==                                                 \* mutant
    IF s.critique.verdict = "passed" \/ s.iterations > MaxRetries
    THEN "reporter" ELSE "record_retry"
Route(s) ==
    IF s.critique.verdict = "passed" \/ s.iterations >= MaxRetries
    THEN "reporter" ELSE "record_retry"

\* The states a stage may turn s into.
Results(stage, s) ==
    CASE stage = "planner" -> {Planned(s)}
      [] stage = "collector" -> {Collected(s)}
      [] stage = "analyst" -> {Analysed(s, claim) : claim \in Claim}
      [] stage = "critic" -> {Criticised(s, verdict, gaps) :
                                 verdict \in {"passed", "failed"}, gaps \in SUBSET Gap}
      [] stage = "record_retry" -> {RetryRecorded(s)}
      [] stage = "reporter" -> {Reported(s)}
----------------------------------------------------------------------------
\* A report owes nothing to an earlier round: it presents the last findings under
\* the verdict that was passed on exactly them, they were drawn from all the
\* evidence, and every round of the run has contributed to it.
ReportIsCurrent(s) ==
    s.report # NoCritique =>
        /\ s.report = s.critique
        /\ s.critique.of = s.findings
        /\ s.findings.from = s.evidence
        /\ s.evidence = 1..s.iterations + 1
====
