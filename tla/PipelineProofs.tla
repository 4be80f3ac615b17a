---- MODULE PipelineProofs ----
(***************************************************************************)
(* Theorems about the research graph, for any number of retries and        *)
(* whatever the tools, the models and the critic answer.                   *)
(***************************************************************************)
EXTENDS Pipeline, TLAPS

\* The lineage of a state is complete up to its stage: what each node leaves
\* behind is determined by the number of retries so far.
Collected1(s) == s.evidence = 1..s.iterations + 1
Judged(s) ==
    /\ Collected1(s)
    /\ s.findings.from = s.evidence
    /\ s.critique.of = s.findings
    /\ s.critique.verdict \in {"passed", "failed"}

Lineage ==
    /\ node \in Stage \cup {"start"}
    /\ state.iterations \in 0..MaxRetries
    /\ node # "reporter" => state.report = NoCritique
    /\ node = "start" => state.iterations = 0
    /\ node = "planner" =>
          /\ state.plan.round = state.iterations + 1
          /\ state.iterations > 0 => state.evidence = 1..state.iterations
    /\ node \in {"collector", "analyst"} => Collected1(state)
    /\ node = "analyst" => state.findings.from = state.evidence
    /\ node \in {"critic", "reporter"} => Judged(state)
    /\ node = "record_retry" =>
          /\ state.iterations > 0 /\ state.evidence = 1..state.iterations
          /\ state.critique.verdict = "failed"
    /\ node = "reporter" =>
          /\ state.report = state.critique
          /\ state.critique.verdict = "passed" \/ state.iterations = MaxRetries

Inv == TypeOK /\ Lineage

USE RetriesAssumption

LEMMA FreshType == Fresh \in State
BY DEF Fresh, State, Plan, Findings, Critique, NoFindings, NoCritique

LEMMA InitInv == Init => Inv
BY FreshType DEF Init, Inv, TypeOK, Lineage, Fresh, Stage

LEMMA PlannerStep ==
    ASSUME Inv, Run("planner")
    PROVE  Inv'
<1>1. state' = Planned(state) /\ node' = "planner" /\ node \in {"start", "record_retry"}
  BY DEF Run, Results, Follows
<1>2. state' \in State
  BY <1>1 DEF Inv, TypeOK, Planned, State, Plan, Round
<1>3. /\ state'.iterations = state.iterations /\ state'.evidence = state.evidence
      /\ state'.report = state.report /\ state'.plan.round = state.iterations + 1
  BY <1>1 DEF Inv, TypeOK, Planned, State
<1>4. QED BY <1>1, <1>2, <1>3 DEF Inv, TypeOK, Lineage, Stage

LEMMA CollectorStep ==
    ASSUME Inv, Run("collector")
    PROVE  Inv'
<1>1. state' = Collected(state) /\ node' = "collector" /\ node = "planner"
  BY DEF Run, Results, Follows
<1>2. /\ state'.iterations = state.iterations /\ state'.report = state.report
      /\ state'.evidence = {state.plan.round}
                              \cup (IF state.iterations > 0 THEN state.evidence ELSE {})
  BY <1>1 DEF Inv, TypeOK, Collected, State
<1>3. state.iterations \in 0..MaxRetries /\ state.plan.round = state.iterations + 1
  BY <1>1 DEF Inv, Lineage
<1>4. state'.evidence = 1..state.iterations + 1
  BY <1>1, <1>2, <1>3 DEF Inv, Lineage
<1>5. state' \in State
  <2>1. {state.plan.round} \cup (IF state.iterations > 0 THEN state.evidence ELSE {}) \in SUBSET Round
    BY <1>3 DEF Inv, TypeOK, State, Round
  <2>2. QED BY <1>1, <2>1 DEF Inv, TypeOK, Collected, State
<1>6. QED BY <1>1, <1>2, <1>4, <1>5 DEF Inv, TypeOK, Lineage, Stage, Collected1

LEMMA AnalystStep ==
    ASSUME Inv, Run("analyst")
    PROVE  Inv'
<1>1. PICK claim \in Claim : state' = Analysed(state, claim)
  BY DEF Run, Results
<1>2. node' = "analyst" /\ node = "collector" BY DEF Run, Follows
<1>3. [from |-> state.evidence, claim |-> claim] \in Findings
  BY DEF Inv, TypeOK, State, Findings
<1>4. state' \in State BY <1>1, <1>3 DEF Inv, TypeOK, Analysed, State
<1>5. /\ state'.iterations = state.iterations /\ state'.report = state.report
      /\ state'.evidence = state.evidence /\ state'.findings.from = state.evidence
  BY <1>1 DEF Inv, TypeOK, Analysed, State
<1>6. QED BY <1>2, <1>4, <1>5 DEF Inv, TypeOK, Lineage, Stage, Collected1

LEMMA CriticStep ==
    ASSUME Inv, Run("critic")
    PROVE  Inv'
<1>1. PICK verdict \in {"passed", "failed"}, gaps \in SUBSET Gap :
         state' = Criticised(state, verdict, gaps)
  BY DEF Run, Results
<1>2. node' = "critic" /\ node = "analyst" BY DEF Run, Follows
<1>3. [of |-> state.findings, verdict |-> verdict] \in Critique
  BY DEF Inv, TypeOK, State, Critique
<1>4. gaps \ state.tried \in SUBSET Gap /\ state.tried \cup (gaps \cap Keyed) \in SUBSET Keyed
  BY DEF Inv, TypeOK, State
<1>5. state' \in State BY <1>1, <1>3, <1>4 DEF Inv, TypeOK, Criticised, State
<1>6. /\ state'.iterations = state.iterations /\ state'.report = state.report
      /\ state'.evidence = state.evidence /\ state'.findings = state.findings
      /\ state'.critique.of = state.findings /\ state'.critique.verdict = verdict
  BY <1>1 DEF Inv, TypeOK, Criticised, State
<1>7. QED BY <1>2, <1>5, <1>6 DEF Inv, TypeOK, Lineage, Stage, Collected1, Judged

LEMMA RetryStep ==
    ASSUME Inv, Run("record_retry")
    PROVE  Inv'
<1>1. state' = RetryRecorded(state) BY DEF Run, Results
<1>2. node' = "record_retry" /\ node = "critic" /\ Route(state) = "record_retry"
  BY DEF Run, Follows
<1>3. Judged(state) /\ state.iterations \in 0..MaxRetries BY <1>2 DEF Inv, Lineage
<1>4. state.critique.verdict = "failed" /\ state.iterations < MaxRetries
  BY <1>2, <1>3 DEF Route, Judged
<1>5. /\ state'.iterations = state.iterations + 1 /\ state'.report = state.report
      /\ state'.evidence = state.evidence /\ state'.critique = state.critique
  BY <1>1, <1>3, <1>4 DEF Inv, TypeOK, RetryRecorded, State
<1>6. state' \in State
  BY <1>1, <1>3, <1>4 DEF Inv, TypeOK, RetryRecorded, State
<1>7. QED
  BY <1>2, <1>3, <1>4, <1>5, <1>6 DEF Inv, TypeOK, Lineage, Stage, Judged, Collected1

LEMMA ReporterStep ==
    ASSUME Inv, Run("reporter")
    PROVE  Inv'
<1>1. state' = Reported(state) BY DEF Run, Results
<1>2. node' = "reporter" /\ node = "critic" /\ Route(state) = "reporter"
  BY DEF Run, Follows
<1>3. Judged(state) /\ state.iterations \in 0..MaxRetries BY <1>2 DEF Inv, Lineage
<1>4. state' \in State BY <1>1 DEF Inv, TypeOK, Reported, State
<1>5. /\ state'.iterations = state.iterations /\ state'.report = state.critique
      /\ state'.evidence = state.evidence /\ state'.critique = state.critique
      /\ state'.findings = state.findings
  BY <1>1 DEF Inv, TypeOK, Reported, State
<1>6. state.critique.verdict = "passed" \/ state.iterations = MaxRetries
  BY <1>2, <1>3 DEF Route
<1>7. QED
  BY <1>2, <1>3, <1>4, <1>5, <1>6 DEF Inv, TypeOK, Lineage, Stage, Judged, Collected1

LEMMA InvStep == Inv /\ [Next]_vars => Inv'
<1> SUFFICES ASSUME Inv, [Next]_vars PROVE Inv'
  OBVIOUS
<1>1. CASE UNCHANGED vars BY <1>1 DEF vars, Inv, TypeOK, Lineage, Judged, Collected1
<1>2. ASSUME NEW stage \in Stage, Run(stage) PROVE Inv'
  BY <1>2, PlannerStep, CollectorStep, AnalystStep, CriticStep, RetryStep, ReporterStep
     DEF Stage
<1>3. QED BY <1>1, <1>2 DEF Next, Done

\* Every reachable state is a state of the declared types: the retries never pass
\* their limit, and no round outside it is planned or collected.
THEOREM TypeCorrect == Spec => []TypeOK
<1>1. Inv => TypeOK BY DEF Inv
<1>2. QED BY InitInv, InvStep, <1>1, PTL DEF Spec

\* A report presents the last findings under the verdict passed on exactly them,
\* and every round of the run has contributed to their evidence.
THEOREM CurrentReports == Spec => []ReportsAreCurrent
<1>1. Inv => ReportsAreCurrent
  BY DEF Inv, Lineage, ReportsAreCurrent, ReportIsCurrent, Judged, Collected1
<1>2. QED BY InitInv, InvStep, <1>1, PTL DEF Spec

\* A failed critique is reported only when the retries are used up, and a passed one
\* is never sent back.
THEOREM RetriesUsed == Spec => []RetriesAreUsed
<1>1. Inv => RetriesAreUsed
  BY DEF Inv, Lineage, RetriesAreUsed
<1>2. QED BY InitInv, InvStep, <1>1, PTL DEF Spec
----------------------------------------------------------------------------
\* What is asked for: the plan is not ahead of the retries, everything with a key that has
\* been asked for is in the critic's list, and it asks for nothing the plan asked for.
AskedOnce ==
    /\ state.plan.round <= state.iterations + 1
    /\ node = "record_retry" => state.plan.round <= state.iterations
    /\ state.plan.requests \cap Keyed \subseteq state.tried
    /\ state.requests \cap Keyed \subseteq state.tried
    /\ node \in {"critic", "record_retry"} => state.requests \cap state.plan.requests \cap Keyed = {}

LEMMA AskedInit == Init => AskedOnce
BY DEF Init, AskedOnce, Fresh

LEMMA AskedStep == Inv /\ AskedOnce /\ [Next]_vars => AskedOnce'
<1> SUFFICES ASSUME Inv, AskedOnce, [Next]_vars PROVE AskedOnce'
  OBVIOUS
<1>0. state \in State /\ state.iterations \in 0..MaxRetries /\ state.plan.round \in Nat
  BY DEF Inv, TypeOK, State, Plan, Round
<1>1. CASE UNCHANGED vars BY <1>1 DEF vars, AskedOnce
<1>2. CASE Run("planner")
  <2>1. state' = Planned(state) /\ node' = "planner" BY <1>2 DEF Run, Results
  <2>2. /\ state'.plan.round = state.iterations + 1 /\ state'.iterations = state.iterations
        /\ state'.plan.requests \subseteq state.requests
        /\ state'.requests = state.requests /\ state'.tried = state.tried
    BY <1>0, <2>1 DEF Planned, State
  <2>3. QED BY <1>0, <2>1, <2>2 DEF AskedOnce
<1>3. CASE Run("collector") \/ Run("analyst") \/ Run("reporter")
  <2>1. /\ state'.plan = state.plan /\ state'.iterations = state.iterations
        /\ state'.requests = state.requests /\ state'.tried = state.tried
        /\ node' \notin {"critic", "record_retry"}
    BY <1>0, <1>3 DEF Run, Results, Collected, Analysed, Reported, State
  <2>2. QED BY <2>1 DEF AskedOnce
<1>4. CASE Run("critic")
  <2>1. PICK verdict \in {"passed", "failed"}, gaps \in SUBSET Gap :
           state' = Criticised(state, verdict, gaps)
    BY <1>4 DEF Run, Results
  <2>2. /\ state'.plan = state.plan /\ state'.iterations = state.iterations
        /\ state'.requests = gaps \ state.tried
        /\ state'.tried = state.tried \cup (gaps \cap Keyed) /\ node' = "critic"
    BY <1>0, <1>4, <2>1 DEF Run, Criticised, State
  <2>3. QED BY <2>2 DEF AskedOnce
<1>5. CASE Run("record_retry")
  <2>1. state' = RetryRecorded(state) /\ Route(state) = "record_retry" /\ node = "critic"
    BY <1>5 DEF Run, Results, Follows
  <2>2. state.iterations < MaxRetries BY <1>0, <2>1 DEF Route
  <2>3. /\ state'.plan = state.plan /\ state'.iterations = state.iterations + 1
        /\ state'.requests = state.requests /\ state'.tried = state.tried
    BY <1>0, <2>1, <2>2 DEF RetryRecorded, State
  <2>4. QED BY <1>0, <2>1, <2>3 DEF AskedOnce
<1>6. QED BY <1>1, <1>2, <1>3, <1>4, <1>5 DEF Next, Done, Stage

\* What the plan after a retry is, given the state that the retry was recorded in.
Answers ==
    node = "record_retry" /\ node' = "planner"
      => /\ state'.plan.requests = state.requests
         /\ state'.plan.round > state.plan.round
         /\ state'.plan.requests \cap state.plan.requests \cap Keyed = {}

LEMMA AnswerStep == Inv /\ AskedOnce /\ [Next]_vars => [Answers]_vars
<1> SUFFICES ASSUME Inv, AskedOnce, [Next]_vars, node = "record_retry", node' = "planner"
             PROVE  /\ state'.plan.requests = state.requests
                    /\ state'.plan.round > state.plan.round
                    /\ state'.plan.requests \cap state.plan.requests \cap Keyed = {}
  BY DEF Answers
<1>1. Run("planner") BY DEF Next, Done, vars, Run
<1>2. state' = Planned(state) BY <1>1 DEF Run, Results
<1>3. /\ state \in State /\ state.iterations \in 0..MaxRetries /\ state.iterations > 0
      /\ state.plan.round \in Nat
  BY DEF Inv, TypeOK, Lineage, State, Plan, Round
<1>4. state'.plan.requests = state.requests /\ state'.plan.round = state.iterations + 1
  BY <1>2, <1>3 DEF Planned, State
<1>5. QED BY <1>3, <1>4 DEF AskedOnce

\* The plan after a retry asks for what the critique before it requested (plan_research with
\* the requests of critique_analysis), and never for a key the plan before it had.
THEOREM RetryAnswered == Spec => RetryAnswersCritique
<1>1. [Answers]_vars => [node = "record_retry" /\ node' = "planner"
          => /\ state'.plan.requests = state.requests
             /\ state'.plan.round > state.plan.round
             /\ state'.plan.requests \cap state.plan.requests \cap Keyed = {}]_vars
  BY DEF Answers
<1>2. QED BY <1>1, InitInv, InvStep, AskedInit, AskedStep, AnswerStep, PTL
          DEF Spec, RetryAnswersCritique
====
