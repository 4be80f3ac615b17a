---- MODULE Workflow ----
(***************************************************************************)
(* run_research_with_events: the hand-written loop that runs the stages of *)
(* the graph for a background job, saves a checkpoint after each of them   *)
(* under the job's id, starts again from the saved checkpoint when a later *)
(* worker takes the job over, and writes the report's memories at the end. *)
(*                                                                         *)
(* A stage and its checkpoint are one step: what a stage computes is lost  *)
(* with the worker unless the checkpoint is saved.  The store is the       *)
(* Postgres one; of the in-memory store every run makes a new, empty       *)
(* instance.  One worker runs the job at a time, which is what SqliteJobs  *)
(* shows of claims.                                                        *)
(***************************************************************************)
EXTENDS ResearchState

CONSTANTS
    Worker,
    Item,           \* the memory records a report is broken into
    MaxCrashes      \* bound

ASSUME MaxCrashesAssumption == MaxCrashes \in Nat

VARIABLES
    checkpoint, \* the row of the run: the last stage and its state
    worker,     \* worker -> where it is and the state it holds
    memory,     \* the records in the memory store with this run's id
    crashes

vars == <<checkpoint, worker, memory, crashes>>

Stage == {"planner", "collector", "analyst", "critic", "record_retry", "reporter"}

NoCheckpoint == [node |-> "start", state |-> Fresh]
Idle == [at |-> "idle", state |-> Fresh, left |-> {}]

TypeOK ==
    /\ checkpoint \in [node : Stage \cup {"start"}, state : State]
    /\ worker \in [Worker -> [at : Stage \cup {"idle", "remembering", "done", "failed"},
                              state : State, left : SUBSET Item]]
    /\ memory \subseteq Item \X Findings
    /\ crashes \in 0..MaxCrashes

Working == {w \in Worker : worker[w].at \in Stage \cup {"remembering"}}
Ended == \E w \in Worker : worker[w].at \in {"done", "failed"}

Init ==
    /\ checkpoint = NoCheckpoint
    /\ worker = [w \in Worker |-> Idle]
    /\ memory = {}
    /\ crashes = 0
----------------------------------------------------------------------------
\* The stage that the loop runs after stage (_route_after_critic included).
After(stage, s) ==
    CASE stage = "planner" -> "collector"
      [] stage = "collector" -> "analyst"
      [] stage = "analyst" -> "critic"
      [] stage = "critic" -> Route(s)
      [] stage = "record_retry" -> "planner"
      [] stage = "reporter" -> "remembering"

\* _next_stage_after_checkpoint, and the skipping that the loop does with it.
ResumeAtCritic(stage, s) ==                                         \* mutant
    CASE stage = "start" -> "planner"
      [] stage = "critic" -> "critic"
      [] stage = "reporter" -> "reporter"
      [] OTHER -> After(stage, s)
ResumeReportAtPlanner(stage, s) ==                                  \* mutant
    IF stage \in {"start", "reporter"} THEN "planner" ELSE After(stage, s)
Resume(stage, s) ==
    CASE stage = "start" -> "planner"
      [] stage = "reporter" -> "reporter"
      [] OTHER -> After(stage, s)

\* A worker has claimed the job: it loads the checkpoint and resumes after it.
Start(w) ==
    /\ worker[w].at = "idle"
    /\ Working = {}
    /\ ~Ended
    /\ worker' = [worker EXCEPT ![w] = [at |-> Resume(checkpoint.node, checkpoint.state),
                                        state |-> checkpoint.state, left |-> {}]]
    /\ UNCHANGED <<checkpoint, memory, crashes>>

\* _run_stage_with_events: the stage, and its checkpoint.
RunStage(w) ==
    /\ worker[w].at \in Stage
    /\ \E s \in Results(worker[w].at, worker[w].state) :
          LET next == After(worker[w].at, s)
          IN  /\ worker' = [worker EXCEPT ![w] =
                     [at |-> next, state |-> s,
                      left |-> IF next = "remembering" THEN Item ELSE {}]]
              /\ checkpoint' = [node |-> worker[w].at, state |-> s]
    /\ UNCHANGED <<memory, crashes>>

\* write_report_memories: one record after the other; a record's id is a digest
\* of the run id and its text, so that writing it again changes nothing.
Remember(w, item) ==
    /\ worker[w].at = "remembering"
    /\ item \in worker[w].left
    /\ memory' = memory \cup {<<item, worker[w].state.findings>>}
    /\ worker' = [worker EXCEPT ![w].left = @ \ {item}]
    /\ UNCHANGED <<checkpoint, crashes>>

FinishEarly(w) ==                                                   \* mutant
    /\ worker[w].at = "remembering"
    /\ worker' = [worker EXCEPT ![w].at = "done"]
    /\ UNCHANGED <<checkpoint, memory, crashes>>

\* The report is ready.
Finish(w) ==
    /\ worker[w].at = "remembering"
    /\ worker[w].left = {}
    /\ worker' = [worker EXCEPT ![w].at = "done"]
    /\ UNCHANGED <<checkpoint, memory, crashes>>

\* A stage, the checkpoint store or the memory store raises: the job fails.
Fail(w) ==
    /\ w \in Working
    /\ worker' = [worker EXCEPT ![w].at = "failed"]
    /\ UNCHANGED <<checkpoint, memory, crashes>>

Crash(w) ==
    /\ w \in Working
    /\ crashes < MaxCrashes
    /\ crashes' = crashes + 1
    /\ worker' = [worker EXCEPT ![w] = Idle]
    /\ UNCHANGED <<checkpoint, memory>>

Progress(w) == RunStage(w) \/ (\E item \in Item : Remember(w, item)) \/ Finish(w)

Next == \E w \in Worker : Start(w) \/ Progress(w) \/ Fail(w) \/ Crash(w)

Spec == Init /\ [][Next]_vars

\* A worker that is at work goes on.  That one takes the run up, at first or after a
\* crash, is promised by nobody.
FairSpec == Spec /\ \A w \in Worker : WF_vars(Progress(w))
----------------------------------------------------------------------------
(* Properties.                                                             *)

\* The loop with its checkpoints, crashes and resumptions runs the graph: what the
\* checkpoints record is a path through the nodes that build_graph connects, as if
\* nobody had been interrupted.
Graph == INSTANCE Pipeline WITH node <- checkpoint.node, state <- checkpoint.state
FollowsGraph == Graph!Spec

\* A checkpoint with a report has the outcome of the last round as a whole, whichever
\* workers have run its stages: the report owes nothing to a round before, nor to a stage
\* that was lost with its worker.
ReportsAreCurrent == ReportIsCurrent(checkpoint.state)

\* The plan after a retry, made by the worker that recorded it or by one that came
\* later, asks for what the critique found missing, and for nothing with a strategy key
\* that the plan before it already asked for.
RetryAnswersCritique ==
    [][checkpoint.node = "record_retry" /\ checkpoint'.node = "planner"
          => LET state == checkpoint.state
                 next == checkpoint'.state
             IN  /\ next.plan.requests = state.requests
                 /\ next.plan.round > state.plan.round
                 /\ next.plan.requests \cap state.plan.requests \cap Keyed = {}]_vars

\* However often the final stage is interrupted and repeated, the memories that a
\* run leaves behind are those of a single report.
MemoriesOfOneReport == \A m, n \in memory : m[2] = n[2]

\* A finished run has left all its memories.
FinishedIsRemembered ==
    \A w \in Worker : worker[w].at = "done" =>
        Item \X {worker[w].state.findings} \subseteq memory

\* A run that is taken up ends, whatever the critic says and wherever it is resumed,
\* unless its worker dies and no other ever comes: the loop neither goes round for ever
\* nor waits for something that does not happen.
Abandoned == Working = {} /\ ~Ended
RunEnds == Working # {} ~> Ended \/ []Abandoned
====
