---- MODULE WorkflowProofs ----
(***************************************************************************)
(* Theorems about the loop with checkpoints, for any number of workers,    *)
(* crashes, retries and memory records.  What the checkpoints record is a  *)
(* path of the graph, so that the theorems about the graph carry over.     *)
(***************************************************************************)
EXTENDS Workflow, TLAPS

\* The graph and its theorems, read on the checkpoints.
Path == INSTANCE PipelineProofs WITH node <- checkpoint.node, state <- checkpoint.state

USE RetriesAssumption, KeyedAssumption, MaxCrashesAssumption

\* Path repeats the definitions of ResearchState, which mean the same there.
LEMMA PathOfStages ==
    /\ Path!Stage = Stage /\ Path!Fresh = Fresh /\ Path!State = State
    /\ \A s : Path!Route(s) = Route(s)
    /\ \A stage, s : Path!Results(stage, s) = Results(stage, s)
<1>1. Path!Stage = Stage /\ \A s : Path!Route(s) = Route(s)
  BY DEF Path!Stage, Stage, Path!Route, Route
<1>2. Path!Fresh = Fresh
  BY DEF Path!Fresh, Fresh, Path!NoFindings, NoFindings, Path!NoCritique, NoCritique,
         Path!NoClaim, NoClaim
<1>3. Path!State = State
  BY DEF Path!State, State, Path!Plan, Plan, Path!Findings, Findings, Path!Critique, Critique,
         Path!Round, Round, Path!NoClaim, NoClaim
<1>4. \A stage, s : Path!Results(stage, s) = Results(stage, s)
  BY DEF Path!Results, Results, Path!Planned, Planned, Path!Collected, Collected,
         Path!Analysed, Analysed, Path!Criticised, Criticised, Path!RetryRecorded, RetryRecorded,
         Path!Reported, Reported
<1>5. QED BY <1>1, <1>2, <1>3, <1>4

\* Path and the Graph of FollowsGraph are the same specification.
LEMMA PathIsGraph ==
    /\ Path!Init <=> Graph!Init
    /\ Path!Next <=> Graph!Next
    /\ Path!vars = Graph!vars
<1>1. \A stage, s : Graph!Results(stage, s) = Path!Results(stage, s)
  BY DEF Path!Results, Graph!Results, Path!Planned, Graph!Planned, Path!Collected,
         Graph!Collected, Path!Analysed, Graph!Analysed, Path!Criticised, Graph!Criticised,
         Path!RetryRecorded, Graph!RetryRecorded, Path!Reported, Graph!Reported
<1>2. \A s : Graph!Route(s) = Path!Route(s) BY DEF Path!Route, Graph!Route
<1>3. \A stage : Graph!Follows(stage) <=> Path!Follows(stage)
  BY <1>2 DEF Graph!Follows, Path!Follows
<1>4. Path!vars = Graph!vars BY DEF Path!vars, Graph!vars
<1>5. \A stage : Graph!Run(stage) <=> Path!Run(stage)
  BY <1>1, <1>3 DEF Graph!Run, Path!Run
<1>6. Path!Next <=> Graph!Next
  BY <1>4, <1>5 DEF Path!Next, Graph!Next, Path!Done, Graph!Done, Path!Stage, Graph!Stage,
     Path!vars, Graph!vars
<1>7. Path!Init <=> Graph!Init
  BY DEF Path!Init, Graph!Init, Path!Fresh, Graph!Fresh, Path!NoFindings, Graph!NoFindings,
         Path!NoCritique, Graph!NoCritique, Path!NoClaim, Graph!NoClaim
<1>8. QED BY <1>4, <1>6, <1>7
----------------------------------------------------------------------------
(***************************************************************************)
(* The invariant.  At most one worker is at work; it holds the state of    *)
(* the checkpoint and stands where a worker that loads it would resume,    *)
(* unless it is writing the memories of a report that is saved; then what  *)
(* is missing in the store is what it has left to write.  Every memory is  *)
(* of the findings of the saved report.                                    *)
(***************************************************************************)
OneWorking == \A w, v \in Working : w = v

IsLeft(w) ==
    Item \X {worker[w].state.findings}
        \subseteq memory \cup (worker[w].left \X {worker[w].state.findings})

InStep ==
    \A w \in Working :
        /\ worker[w].state = checkpoint.state
        /\ worker[w].at \in Stage => worker[w].at = Resume(checkpoint.node, checkpoint.state)
        /\ worker[w].at = "remembering" => checkpoint.node = "reporter" /\ IsLeft(w)

MemoriesAreOfReport ==
    \A m \in memory : checkpoint.node = "reporter" /\ m[2] = checkpoint.state.findings

LoopInv == OneWorking /\ InStep /\ MemoriesAreOfReport /\ FinishedIsRemembered

\* A stage that the loop runs is a step of the graph: the next node, or the
\* reporter once more with the report it has already written.
LEMMA StageIsRun ==
    ASSUME TypeOK, Path!Inv, InStep, NEW w \in Worker, RunStage(w)
    PROVE  /\ Path!Next
           /\ checkpoint.node = "reporter" => UNCHANGED checkpoint
<1> DEFINE stage == worker[w].at
           st == checkpoint.state
<1>1. stage \in Stage /\ worker[w].state = st /\ stage = Resume(checkpoint.node, st)
  BY DEF RunStage, InStep, Working
<1>2. PICK s \in Results(stage, st) : checkpoint' = [node |-> stage, state |-> s]
  BY <1>1 DEF RunStage
<1>3. checkpoint.node \in Stage \cup {"start"} /\ st \in State BY DEF TypeOK
<1>4. checkpoint'.node = stage /\ checkpoint'.state = s BY <1>2
<1>5. CASE checkpoint.node = "reporter"
  <2>1. stage = "reporter" BY <1>1, <1>5 DEF Resume
  <2>2. s = [st EXCEPT !.report = st.critique] BY <1>2, <2>1 DEF Results, Reported
  <2>3. st.report = st.critique BY <1>5 DEF Path!Inv, Path!Lineage
  <2>4. s = st BY <1>3, <2>2, <2>3 DEF State
  <2>5. UNCHANGED <<checkpoint.node, checkpoint.state>> BY <1>4, <1>5, <2>1, <2>4
  <2>6. Path!Next BY <1>5, <2>5 DEF Path!Next, Path!Done, Path!vars
  <2>7. UNCHANGED checkpoint BY <1>2, <1>5, <2>1, <2>4 DEF TypeOK
  <2>8. QED BY <2>6, <2>7
<1>6. CASE checkpoint.node # "reporter"
  <2>1. Path!Follows(stage)
    BY <1>1, <1>3, <1>6, PathOfStages DEF Path!Follows, Resume, After, Route, Stage
  <2>2. s \in Path!Results(stage, st) BY PathOfStages
  <2>3. Path!Run(stage) BY <1>4, <2>1, <2>2 DEF Path!Run
  <2>4. stage \in Path!Stage BY <1>1, PathOfStages
  <2>5. QED BY <1>6, <2>3, <2>4 DEF Path!Next
<1>7. QED BY <1>5, <1>6

LEMMA LoopIsPath ==
    ASSUME TypeOK, Path!Inv, LoopInv, [Next]_vars
    PROVE  [Path!Next]_(Path!vars)
<1>1. ASSUME NEW w \in Worker, RunStage(w) PROVE Path!Next
  BY <1>1, StageIsRun DEF LoopInv
<1>2. CASE UNCHANGED checkpoint BY <1>2 DEF Path!vars
<1>3. QED BY <1>1, <1>2 DEF Next, Progress, Start, Remember, Finish, Fail, Crash, vars

LEMMA AfterType ==
    ASSUME NEW stage \in Stage, NEW s
    PROVE  /\ After(stage, s) \in Stage \cup {"remembering"}
           /\ stage # "reporter" => After(stage, s) \in Stage
           /\ stage = "reporter" => After(stage, s) = "remembering"
BY DEF After, Route, Stage

LEMMA ResumeType ==
    ASSUME NEW node \in Stage \cup {"start"}, NEW s
    PROVE  Resume(node, s) \in Stage
BY DEF After, Resume, Route, Stage

LEMMA TypeStep ==
    ASSUME TypeOK, Path!Inv', [Next]_vars
    PROVE  TypeOK'
<1> USE DEF TypeOK
<1>1. checkpoint'.state \in State BY PathOfStages DEF Path!Inv, Path!TypeOK
<1>2. ASSUME NEW w \in Worker, Start(w) PROVE TypeOK'
  <2>1. Resume(checkpoint.node, checkpoint.state) \in Stage BY ResumeType
  <2>2. QED BY <1>2, <2>1 DEF Start
<1>3. ASSUME NEW w \in Worker, RunStage(w) PROVE TypeOK'
  <2>1. PICK s \in Results(worker[w].at, worker[w].state) :
           /\ worker' = [worker EXCEPT ![w] =
                 [at |-> After(worker[w].at, s), state |-> s,
                  left |-> IF After(worker[w].at, s) = "remembering" THEN Item ELSE {}]]
           /\ checkpoint' = [node |-> worker[w].at, state |-> s]
    BY <1>3 DEF RunStage
  <2>2. s \in State BY <1>1, <2>1
  <2>3. worker[w].at \in Stage /\ After(worker[w].at, s) \in Stage \cup {"remembering"}
    BY <1>3, AfterType DEF RunStage
  <2>4. checkpoint' \in [node : Stage \cup {"start"}, state : State] BY <2>1, <2>2, <2>3
  <2>5. worker' \in [Worker -> [at : Stage \cup {"idle", "remembering", "done", "failed"},
                                state : State, left : SUBSET Item]]
    BY <2>1, <2>2, <2>3
  <2>6. QED BY <1>3, <2>4, <2>5 DEF RunStage
<1>4. ASSUME NEW w \in Worker, NEW item \in Item, Remember(w, item) PROVE TypeOK'
  <2>1. worker[w].state.findings \in Findings BY DEF State
  <2>2. memory' \subseteq Item \X Findings BY <1>4, <2>1 DEF Remember
  <2>3. [worker[w] EXCEPT !.left = @ \ {item}]
           \in [at : Stage \cup {"idle", "remembering", "done", "failed"},
                state : State, left : SUBSET Item]
    OBVIOUS
  <2>4. QED BY <1>4, <2>2, <2>3 DEF Remember
<1>5. ASSUME NEW w \in Worker, Finish(w) \/ Fail(w) PROVE TypeOK'
  BY <1>5 DEF Finish, Fail
<1>6. ASSUME NEW w \in Worker, Crash(w) PROVE TypeOK'
  <2>1. Fresh \in State
    BY DEF Fresh, State, Plan, Findings, Critique, NoFindings, NoCritique, NoClaim
  <2>2. Idle \in [at : Stage \cup {"idle", "remembering", "done", "failed"},
                  state : State, left : SUBSET Item]
    BY <2>1 DEF Idle
  <2>3. QED BY <1>6, <2>2 DEF Crash
<1>7. CASE UNCHANGED vars BY <1>7 DEF vars
<1>8. QED BY <1>2, <1>3, <1>4, <1>5, <1>6, <1>7 DEF Next, Progress

\* What a step has to show about the worker that takes it.
Others(w) == \A v \in Worker \ {w} : worker'[v] = worker[v]
Stands(w) ==
    w \in Working' =>
        /\ worker'[w].state = checkpoint'.state
        /\ worker'[w].at \in Stage => worker'[w].at = Resume(checkpoint'.node, checkpoint'.state)
        /\ worker'[w].at = "remembering" => checkpoint'.node = "reporter" /\ IsLeft(w)'
Remembers(w) ==
    worker'[w].at = "done" => Item \X {worker'[w].state.findings} \subseteq memory'

LEMMA LoopSuffices ==
    ASSUME LoopInv, NEW w \in Worker, Others(w), Stands(w), Remembers(w),
           \A v \in Working : v = w,
           memory \subseteq memory', MemoriesAreOfReport'
    PROVE  LoopInv'
<1>1. OneWorking' BY DEF Others, OneWorking, Working
<1>2. InStep' BY DEF Others, Stands, InStep, Working
<1>3. FinishedIsRemembered' BY DEF LoopInv, Others, Remembers, FinishedIsRemembered
<1>4. QED BY <1>1, <1>2, <1>3 DEF LoopInv

LEMMA LoopStep ==
    ASSUME TypeOK, Path!Inv, LoopInv, [Next]_vars
    PROVE  LoopInv'
<1>0. \A w, v \in Worker : w \in Working /\ v \in Working => v = w
  BY DEF LoopInv, OneWorking
<1>1. ASSUME NEW w \in Worker, Start(w) PROVE LoopInv'
  <2>1. /\ Working = {} /\ UNCHANGED <<checkpoint, memory>>
        /\ worker'[w] = [at |-> Resume(checkpoint.node, checkpoint.state),
                         state |-> checkpoint.state, left |-> {}]
        /\ Others(w)
    BY <1>1 DEF Start, Others, TypeOK
  <2>2. Resume(checkpoint.node, checkpoint.state) \in Stage BY ResumeType DEF TypeOK
  <2>3. worker'[w].at \notin {"remembering", "done"} BY <2>1, <2>2 DEF Stage
  <2>4. Stands(w) /\ Remembers(w) BY <2>1, <2>3 DEF Stands, Remembers
  <2>5. MemoriesAreOfReport' BY <2>1 DEF LoopInv, MemoriesAreOfReport
  <2>6. QED BY <2>1, <2>4, <2>5, LoopSuffices
<1>2. ASSUME NEW w \in Worker, RunStage(w) PROVE LoopInv'
  <2> DEFINE stage == worker[w].at
  <2>1. stage \in Stage /\ w \in Working BY <1>2 DEF RunStage, Working
  <2>2. PICK s \in Results(stage, worker[w].state) :
           /\ worker'[w] = [at |-> After(stage, s), state |-> s,
                            left |-> IF After(stage, s) = "remembering" THEN Item ELSE {}]
           /\ checkpoint' = [node |-> stage, state |-> s]
    BY <1>2 DEF RunStage, TypeOK
  <2>3. Others(w) /\ UNCHANGED memory BY <1>2 DEF RunStage, Others, TypeOK
  <2>4. worker'[w].at # "done" BY <2>1, <2>2, AfterType DEF Stage
  <2>5. Stands(w)
    <3>1. CASE stage = "reporter"
      <4>1. worker'[w].at = "remembering" /\ worker'[w].left = Item /\ worker'[w].state = s
        BY <2>1, <2>2, <3>1, AfterType
      <4>2. IsLeft(w)' BY <4>1 DEF IsLeft
      <4>3. QED BY <2>2, <3>1, <4>1, <4>2 DEF Stands, Stage
    <3>2. CASE stage # "reporter"
      <4>1. worker'[w].at = After(stage, s) /\ After(stage, s) \in Stage
        BY <2>1, <2>2, <3>2, AfterType
      <4>2. Resume(stage, s) = After(stage, s) BY <2>1, <3>2 DEF Resume, Stage
      <4>3. QED BY <2>2, <4>1, <4>2 DEF Stands, Stage
    <3>3. QED BY <3>1, <3>2
  <2>6. MemoriesAreOfReport'
    <3>1. CASE memory = {} BY <2>3, <3>1 DEF MemoriesAreOfReport
    <3>2. CASE checkpoint.node = "reporter"
      <4>1. UNCHANGED checkpoint BY <1>2, <3>2, StageIsRun DEF LoopInv
      <4>2. QED BY <2>3, <4>1 DEF LoopInv, MemoriesAreOfReport
    <3>3. QED BY <3>1, <3>2 DEF LoopInv, MemoriesAreOfReport
  <2>7. Remembers(w) BY <2>4 DEF Remembers
  <2>8. \A v \in Working : v = w BY <1>0, <2>1 DEF Working
  <2>9. QED BY <2>3, <2>5, <2>6, <2>7, <2>8, LoopSuffices
<1>3. ASSUME NEW w \in Worker, NEW item \in Item, Remember(w, item) PROVE LoopInv'
  <2>1. w \in Working /\ worker[w].at = "remembering" BY <1>3 DEF Remember, Working
  <2>2. /\ worker[w].state = checkpoint.state /\ checkpoint.node = "reporter" /\ IsLeft(w)
    BY <2>1 DEF LoopInv, InStep
  <2>3. /\ worker'[w].at = "remembering" /\ worker'[w].state = worker[w].state
        /\ worker'[w].left = worker[w].left \ {item}
        /\ memory' = memory \cup {<<item, checkpoint.state.findings>>}
        /\ UNCHANGED checkpoint /\ Others(w)
    BY <1>3, <2>1, <2>2 DEF Remember, TypeOK, Others
  <2>4. IsLeft(w)' BY <2>2, <2>3 DEF IsLeft
  <2>5. Stands(w) /\ Remembers(w) BY <2>2, <2>3, <2>4 DEF Stands, Remembers, Stage
  <2>6. MemoriesAreOfReport' BY <2>2, <2>3 DEF LoopInv, MemoriesAreOfReport
  <2>7. \A v \in Working : v = w BY <1>0, <2>1 DEF Working
  <2>8. QED BY <2>3, <2>5, <2>6, <2>7, LoopSuffices
<1>4. ASSUME NEW w \in Worker, Finish(w) \/ Fail(w) \/ Crash(w) PROVE LoopInv'
  <2>1. w \in Working BY <1>4 DEF Finish, Fail, Crash, Working
  <2>2. /\ worker'[w].at \in {"done", "failed", "idle"}
        /\ UNCHANGED <<checkpoint, memory>> /\ Others(w)
    BY <1>4 DEF Finish, Fail, Crash, TypeOK, Idle, Others
  <2>3. Remembers(w)
    <3>1. CASE Finish(w)
      <4>1. worker[w].left = {} /\ IsLeft(w) BY <2>1, <3>1 DEF Finish, LoopInv, InStep
      <4>2. worker'[w].state = worker[w].state BY <3>1 DEF Finish, TypeOK
      <4>3. QED BY <2>2, <4>1, <4>2 DEF Remembers, IsLeft
    <3>2. CASE Fail(w) \/ Crash(w) BY <3>2 DEF Fail, Crash, Remembers, TypeOK, Idle
    <3>3. QED BY <1>4, <3>1, <3>2
  <2>4. Stands(w) BY <2>2 DEF Stands, Working, Stage
  <2>5. MemoriesAreOfReport' BY <2>2 DEF LoopInv, MemoriesAreOfReport
  <2>6. \A v \in Working : v = w BY <1>0, <2>1 DEF Working
  <2>7. QED BY <2>2, <2>3, <2>4, <2>5, <2>6, LoopSuffices
<1>5. CASE UNCHANGED vars
  BY <1>5 DEF vars, LoopInv, OneWorking, InStep, IsLeft, MemoriesAreOfReport,
     FinishedIsRemembered, Working
<1>6. QED BY <1>1, <1>2, <1>3, <1>4, <1>5 DEF Next, Progress
----------------------------------------------------------------------------
Inv == TypeOK /\ Path!Inv /\ LoopInv

LEMMA InitInv == Init => Inv
<1> SUFFICES ASSUME Init PROVE Inv
  OBVIOUS
<1>1. Path!Init BY PathOfStages DEF Init, NoCheckpoint, Path!Init
<1>2. Path!Inv BY <1>1, Path!InitInv
<1>3. TypeOK
  <2>1. Fresh \in State BY <1>2, PathOfStages DEF Path!Inv, Path!TypeOK, Init, NoCheckpoint
  <2>2. QED BY <2>1 DEF Init, NoCheckpoint, Idle, TypeOK
<1>4. LoopInv
  BY DEF Init, LoopInv, OneWorking, InStep, MemoriesAreOfReport, FinishedIsRemembered, Working,
         Idle, Stage
<1>5. QED BY <1>2, <1>3, <1>4 DEF Inv

LEMMA InvStep == Inv /\ [Next]_vars => Inv' /\ [Path!Next]_(Path!vars)
<1> SUFFICES ASSUME Inv, [Next]_vars PROVE Inv' /\ [Path!Next]_(Path!vars)
  OBVIOUS
<1>1. [Path!Next]_(Path!vars) BY LoopIsPath DEF Inv
<1>2. Path!Inv' BY <1>1, Path!InvStep DEF Inv
<1>3. QED BY <1>1, <1>2, TypeStep, LoopStep DEF Inv

\* The states that a worker holds and those that are saved have the declared types, however
\* the runs are interrupted.
THEOREM TypeCorrect == Spec => []TypeOK
<1>1. Inv => TypeOK BY DEF Inv
<1>2. QED BY InitInv, InvStep, <1>1, PTL DEF Spec

\* The loop with its checkpoints, crashes and resumptions implements the graph.
THEOREM GraphFollowed == Spec => FollowsGraph
<1>1. Init => Graph!Init
  BY PathIsGraph, PathOfStages DEF Init, NoCheckpoint, Path!Init
<1>2. Inv /\ [Next]_vars => [Graph!Next]_(Graph!vars)
  BY InvStep, PathIsGraph DEF Path!vars, Graph!vars
<1>3. QED BY InitInv, InvStep, <1>1, <1>2, PTL DEF Spec, FollowsGraph, Graph!Spec

\* What is proved of the graph holds of every checkpoint: the report that is saved presents
\* the last findings under the verdict passed on exactly them, interrupted or not.
THEOREM SavedReportIsCurrent == Spec => []ReportsAreCurrent
<1>1. Inv => ReportsAreCurrent
  BY DEF ReportsAreCurrent, Inv, Path!Inv, Path!Lineage, Path!Judged, Path!Collected1, ReportIsCurrent,
     Path!NoCritique, NoCritique, Path!NoFindings, NoFindings, Path!NoClaim, NoClaim
<1>2. QED BY InitInv, InvStep, <1>1, PTL DEF Spec

\* So does what is proved of the plans: a retry asks for what the critique requested and for no
\* key the plan before it had, though a crash may lie between the two checkpoints.
THEOREM RetriesAnswered == Spec => RetryAnswersCritique
<1> DEFINE Answer ==
        checkpoint.node = "record_retry" /\ checkpoint'.node = "planner"
          => LET state == checkpoint.state
                 next == checkpoint'.state
             IN  /\ next.plan.requests = state.requests
                 /\ next.plan.round > state.plan.round
                 /\ next.plan.requests \cap state.plan.requests \cap Keyed = {}
<1>1. Init => Path!AskedOnce
  <2>1. Init => Path!Init BY PathOfStages DEF Init, NoCheckpoint, Path!Init
  <2>2. QED BY <2>1, Path!AskedInit
<1>2. Inv /\ Path!AskedOnce /\ [Next]_vars => Path!AskedOnce'
  BY InvStep, Path!AskedStep DEF Inv
<1>3. Inv /\ Path!AskedOnce /\ [Next]_vars => [Answer]_vars
  <2> SUFFICES ASSUME Inv, Path!AskedOnce, [Next]_vars,
                      checkpoint.node = "record_retry", checkpoint'.node = "planner"
               PROVE  Answer
    OBVIOUS
  <2>1. [Path!Answers]_(Path!vars) BY InvStep, Path!AnswerStep DEF Inv
  <2>2. Path!vars' # Path!vars BY DEF Path!vars
  <2>3. QED BY <2>1, <2>2 DEF Path!Answers
<1>4. QED BY <1>1, <1>2, <1>3, InitInv, InvStep, PTL DEF Spec, RetryAnswersCritique

\* All the memories of a run are those of one report, however often their writing is repeated.
THEOREM OneReport == Spec => []MemoriesOfOneReport
<1>1. Inv => MemoriesOfOneReport BY DEF Inv, LoopInv, MemoriesAreOfReport, MemoriesOfOneReport
<1>2. QED BY InitInv, InvStep, <1>1, PTL DEF Spec

\* A finished run has left all the memories of its report.
THEOREM FinishedRemembered == Spec => []FinishedIsRemembered
<1>1. Inv => FinishedIsRemembered BY DEF Inv, LoopInv
<1>2. QED BY InitInv, InvStep, <1>1, PTL DEF Spec
====
