---- MODULE Pipeline ----
(***************************************************************************)
(* The graph of build_graph, as run_research executes it: one node after   *)
(* the other, no events, no checkpoints, no interruption.  node is the     *)
(* node that has run last.                                                 *)
(***************************************************************************)
EXTENDS ResearchState

VARIABLES node, state

vars == <<node, state>>

Stage == {"planner", "collector", "analyst", "critic", "record_retry", "reporter"}

TypeOK == node \in Stage \cup {"start"} /\ state \in State

Init == node = "start" /\ state = Fresh

\* The edges of the graph.
Follows(stage) ==
    CASE stage = "planner" -> node \in {"start", "record_retry"}
      [] stage = "collector" -> node = "planner"
      [] stage = "analyst" -> node = "collector"
      [] stage = "critic" -> node = "analyst"
      [] stage \in {"record_retry", "reporter"} -> node = "critic" /\ Route(state) = stage

Run(stage) ==
    /\ Follows(stage)
    /\ node' = stage
    /\ state' \in Results(stage, state)

Done == node = "reporter" /\ UNCHANGED vars

Next == (\E stage \in Stage : Run(stage)) \/ Done

Spec == Init /\ [][Next]_vars
----------------------------------------------------------------------------
\* What is reported is the outcome of the last round as a whole.
ReportsAreCurrent == ReportIsCurrent(state)

\* A report on a failed critique is written only when the retries are used up,
\* and a passed critique is never sent back.
RetriesAreUsed ==
    /\ node = "reporter" /\ state.critique.verdict = "failed" => state.iterations = MaxRetries
    /\ node = "record_retry" => state.critique.verdict = "failed"

\* The plan of a retry asks for what the critique found missing, and for nothing
\* with a strategy key that the retry before it already asked for.
RetryAnswersCritique ==
    [][node = "record_retry" /\ node' = "planner"
          => /\ state'.plan.requests = state.requests
             /\ state'.plan.round > state.plan.round
             /\ state'.plan.requests \cap state.plan.requests \cap Keyed = {}]_vars

====
