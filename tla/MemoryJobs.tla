---- MODULE MemoryJobs ----
(***************************************************************************)
(* Research jobs on the in-memory backend: one process, a dictionary of    *)
(* job objects guarded by _JOBS_LOCK, one executor thread, and optionally  *)
(* a JSON file that every change rewrites as a whole.  An operation under  *)
(* the lock is one action.  The executor keeps a reference to the object   *)
(* it works on, and writes its verdict into that object whatever happened  *)
(* to it, or to the dictionary, in the meantime.                           *)
(*                                                                         *)
(* A store write succeeds or fails.  On a platform that refuses os.replace *)
(* the writer falls back to overwriting the file in place (DirectWrite),   *)
(* and a failure may then leave a truncated file behind.                   *)
(***************************************************************************)
EXTENDS Naturals, FiniteSets, Sequences

CONSTANTS
    Job,            \* job ids; an id is also the identity of its object
    NoJob,
    MaxActive,      \* _MAX_ACTIVE_RESEARCH_JOBS
    MaxRetained,    \* _MAX_RESEARCH_JOBS
    HasStore,       \* INSIGHT_GRAPH_RESEARCH_JOBS_PATH is set
    DirectWrite     \* the platform refuses os.replace on the temporary file

ASSUME ConstantsAssumption ==
    /\ NoJob \notin Job
    /\ MaxActive \in Nat /\ MaxRetained \in Nat
    /\ HasStore \in BOOLEAN /\ DirectWrite \in BOOLEAN

VARIABLES
    obj,    \* job id -> the job object
    tab,    \* the keys of _JOBS
    seq,    \* _NEXT_JOB_SEQUENCE, kept equal to the backend's counter
    disk,   \* the JSON file
    phase,  \* "serving", "cleaning" (start-up) or "down"
    pool,   \* the executor's queue of submitted jobs
    run     \* what the executor thread is doing

vars == <<obj, tab, seq, disk, phase, pool, run>>

Active == {"queued", "running"}
Terminal == {"succeeded", "failed", "cancelled"}
Verdicts == {"succeeded", "failed"}

Object == [status : Active \cup Terminal \cup {"unborn", "lost"}, order : Nat]
Disk == [readable : BOOLEAN, seq : Nat, jobs : SUBSET Job, obj : [Job -> Object]]
Run == [at : {"idle", "working", "failing", "ending"}, job : Job \cup {NoJob},
        verdict : Verdicts \cup {"none"}]
Idle == [at |-> "idle", job |-> NoJob, verdict |-> "none"]

TypeOK ==
    /\ obj \in [Job -> Object]
    /\ tab \subseteq Job
    /\ seq \in Nat
    /\ disk \in Disk
    /\ phase \in {"serving", "cleaning", "down"}
    /\ pool \in Seq(Job)
    /\ run \in Run

WithStatus(o, t, S) == {j \in t : o[j].status \in S}
----------------------------------------------------------------------------

\* prune_finished: the jobs kept when only the MaxRetained newest terminal stay.
Pruned(o, t) ==
    LET finished == WithStatus(o, t, Terminal)
        newer(j) == {k \in finished : o[k].order > o[j].order}
    IN  t \ {j \in finished : Cardinality(newer(j)) >= MaxRetained}

\* save_research_jobs: the file becomes the image of the dictionary ..
Blank == [status |-> "unborn", order |-> 0]
Image(o, t, n) ==
    [readable |-> TRUE, seq |-> n, jobs |-> t,
     obj |-> [j \in Job |-> IF j \in t THEN o[j] ELSE Blank]]
Saved(o, t, n) == disk' = IF HasStore THEN Image(o, t, n) ELSE disk

\* .. or the write fails and ResearchJobsStoreError is raised.
SaveFailed ==
    /\ HasStore
    /\ \/ disk' = disk
       \/ DirectWrite /\ disk' = [Image(obj, {}, 0) EXCEPT !.readable = FALSE]

\* _persist_research_jobs_best_effort_locked.
BestEffort(o, t, n) == Saved(o, t, n) \/ SaveFailed

Init ==
    /\ obj = [j \in Job |-> Blank]
    /\ tab = {}
    /\ seq = 0
    /\ disk = Image(obj, {}, 0)
    /\ phase = "serving"
    /\ pool = <<>>
    /\ run = Idle
----------------------------------------------------------------------------
Serving == phase = "serving"

\* mutant
CreateUnsaved(j) ==
    /\ Serving
    /\ obj[j].status = "unborn"
    /\ Cardinality(WithStatus(obj, tab, Active)) < MaxActive
    /\ seq' = seq + 1
    /\ obj' = [obj EXCEPT ![j] = [status |-> "queued", order |-> seq + 1]]
    /\ tab' = Pruned(obj', tab \cup {j})
    /\ BestEffort(obj', tab', seq')
    /\ pool' = Append(pool, j)
    /\ UNCHANGED <<phase, run>>

\* create_research_job, and the submit that follows it.
Create(j) ==
    /\ Serving
    /\ obj[j].status = "unborn"
    /\ Cardinality(WithStatus(obj, tab, Active)) < MaxActive
    /\ seq' = seq + 1
    /\ obj' = [obj EXCEPT ![j] = [status |-> "queued", order |-> seq + 1]]
    /\ tab' = Pruned(obj', tab \cup {j})
    /\ Saved(obj', tab', seq')
    /\ pool' = Append(pool, j)
    /\ UNCHANGED <<phase, run>>

\* The store refuses a create or a cancel: the snapshot is restored, a 500 returned.
RequestFails ==
    /\ Serving
    /\ \/ /\ \E j \in Job : obj[j].status = "unborn"
          /\ Cardinality(WithStatus(obj, tab, Active)) < MaxActive
       \/ WithStatus(obj, tab, Active) # {}
    /\ SaveFailed
    /\ UNCHANGED <<obj, tab, seq, phase, pool, run>>

Retry(source, j) ==
    /\ source \in WithStatus(obj, tab, {"failed", "cancelled"})
    /\ Create(j)

CancelUnsaved(j) ==                                                 \* mutant
    /\ Serving
    /\ j \in WithStatus(obj, tab, Active)
    /\ obj' = [obj EXCEPT ![j].status = "cancelled"]
    /\ tab' = Pruned(obj', tab)
    /\ BestEffort(obj', tab', seq)
    /\ UNCHANGED <<seq, phase, pool, run>>

Cancel(j) ==
    /\ Serving
    /\ j \in WithStatus(obj, tab, Active)
    /\ obj' = [obj EXCEPT ![j].status = "cancelled"]
    /\ tab' = Pruned(obj', tab)
    /\ Saved(obj', tab', seq)
    /\ UNCHANGED <<seq, phase, pool, run>>

Delete(j) ==
    /\ Serving
    /\ j \in WithStatus(obj, tab, Terminal)
    /\ tab' = tab \ {j}
    /\ BestEffort(obj, tab', seq)
    /\ UNCHANGED <<obj, seq, phase, pool, run>>
----------------------------------------------------------------------------
(* The executor thread: _run_research_job.                                 *)

Ready == Serving /\ run = Idle /\ pool # <<>>

\* mark_research_job_running finds no such job (KeyError) or a cancelled one.
SkipTask ==
    /\ Ready
    /\ Head(pool) \notin WithStatus(obj, tab, {"queued", "running", "succeeded", "failed"})
    /\ pool' = Tail(pool)
    /\ UNCHANGED <<obj, tab, seq, disk, phase, run>>

Begin ==
    LET j == Head(pool)
    IN  /\ Ready
        /\ j \in WithStatus(obj, tab, {"queued", "running", "succeeded", "failed"})
        /\ obj' = [obj EXCEPT ![j].status = "running"]
        /\ Saved(obj', tab, seq)
        /\ run' = [Idle EXCEPT !.at = "working", !.job = j]
        /\ pool' = Tail(pool)
        /\ UNCHANGED <<tab, seq, phase>>

\* The store refuses the running job: it fails instead.
BeginFails ==
    LET j == Head(pool)
    IN  /\ Ready
        /\ HasStore
        /\ j \in WithStatus(obj, tab, {"queued", "running", "succeeded", "failed"})
        /\ obj' = [obj EXCEPT ![j].status = "failed"]
        /\ tab' = Pruned(obj', tab)
        /\ BestEffort(obj', tab', seq)
        /\ pool' = Tail(pool)
        /\ UNCHANGED <<seq, phase, run>>

\* append_research_job_event: of the state kept here it only saves the file.
AppendEvent ==
    /\ \/ run.at = "working" /\ UNCHANGED run
       \/ run.at = "failing" /\ run' = [run EXCEPT !.at = "ending"]
    /\ IF run.job \in tab THEN BestEffort(obj, tab, seq) ELSE UNCHANGED disk
    /\ UNCHANGED <<obj, tab, seq, phase, pool>>

\* A failure before the first event of the run publishes none.
NoFailureEvent ==
    /\ run.at = "failing"
    /\ run' = [run EXCEPT !.at = "ending"]
    /\ UNCHANGED <<obj, tab, seq, disk, phase, pool>>

Conclude(verdict) ==
    run' = [run EXCEPT !.at = IF verdict = "failed" THEN "failing" ELSE "ending",
                       !.verdict = verdict]

\* The workflow ends in a report or an exception.  The cancellation is looked
\* up here; the verdict is written in a later critical section.
EndWorkflow(verdict) ==
    /\ run.at = "working"
    /\ IF run.job \in WithStatus(obj, tab, {"cancelled"})
       THEN run' = Idle
       ELSE Conclude(verdict)
    /\ UNCHANGED <<obj, tab, seq, disk, phase, pool>>

RejectSilently ==                                                   \* mutant
    /\ run.at = "working"
    /\ run' = Idle
    /\ UNCHANGED <<obj, tab, seq, disk, phase, pool>>

\* The report fails the quality gate: the cancellation is not looked up.
RejectReport ==
    /\ run.at = "working"
    /\ Conclude("failed")
    /\ UNCHANGED <<obj, tab, seq, disk, phase, pool>>

\* mark_research_job_succeeded, mark_research_job_failed.
WriteVerdict ==
    /\ run.at = "ending"
    /\ obj' = [obj EXCEPT ![run.job].status = run.verdict]
    /\ tab' = Pruned(obj', tab)
    /\ BestEffort(obj', tab', seq)
    /\ run' = Idle
    /\ UNCHANGED <<seq, phase, pool>>
----------------------------------------------------------------------------
(* Crash and restart.                                                      *)

Crash ==
    /\ phase # "down"
    /\ phase' = "down"
    /\ tab' = {}
    /\ seq' = 0
    /\ obj' = [j \in Job |-> IF obj[j].status = "unborn" THEN Blank
                             ELSE [status |-> "lost", order |-> 0]]
    /\ pool' = <<>>
    /\ run' = Idle
    /\ UNCHANGED disk

LoadedAsIs(o) == o                                                  \* mutant

\* _load_job: what was queued or running failed with the restart.
Loaded(o) == IF o.status \in Active THEN [o EXCEPT !.status = "failed"] ELSE o

Restart ==
    /\ phase = "down"
    /\ disk.readable
    /\ phase' = "cleaning"
    /\ tab' = disk.jobs
    /\ seq' = disk.seq
    /\ obj' = [j \in Job |-> IF j \in disk.jobs THEN Loaded(disk.obj[j]) ELSE obj[j]]
    /\ UNCHANGED <<disk, pool, run>>

\* The retention clean-up of start-up, if one is configured; finish times are
\* not kept here, so the cut-off may fall between any of the terminal jobs.
CleanUp(S) ==
    /\ phase = "cleaning"
    /\ S \subseteq WithStatus(obj, tab, Terminal)
    /\ tab' = tab \ S
    /\ BestEffort(obj, tab', seq)
    /\ phase' = "serving"
    /\ UNCHANGED <<obj, seq, pool, run>>

NoCleanUp ==
    /\ phase = "cleaning"
    /\ phase' = "serving"
    /\ UNCHANGED <<obj, tab, seq, disk, pool, run>>
----------------------------------------------------------------------------
Request ==
    \/ \E j \in Job : Create(j) \/ Cancel(j) \/ Delete(j)
    \/ \E source, j \in Job : Retry(source, j)
    \/ RequestFails

Executor ==
    \/ SkipTask \/ Begin \/ BeginFails
    \/ AppendEvent \/ NoFailureEvent
    \/ \E verdict \in Verdicts : EndWorkflow(verdict)
    \/ RejectReport
    \/ WriteVerdict

StartUp == Restart \/ (\E S \in SUBSET Job : CleanUp(S)) \/ NoCleanUp

Next == Request \/ Executor \/ Crash \/ StartUp

Spec == Init /\ [][Next]_vars

\* The executor thread gets on with its tasks, and a workflow ends (its events
\* are finitely many, and appending one does not disable its end).
FairSpec ==
    /\ Spec
    /\ WF_vars(SkipTask \/ Begin \/ BeginFails)
    /\ WF_vars(\E verdict \in Verdicts : EndWorkflow(verdict))
    /\ WF_vars(NoFailureEvent) /\ WF_vars(WriteVerdict)
----------------------------------------------------------------------------
(* Properties.                                                             *)

\* Every job the API answers for is in a readable store file, so that a restart finds it:
\* a create that could not be saved was rolled back, and the best-effort saves
\* that may fail afterwards only ever leave the file with more jobs.
JobsAreStored == HasStore /\ disk.readable => tab \subseteq disk.jobs

\* An acknowledged cancellation survives a crash: a readable file agrees that the job is
\* cancelled, unless its run has overwritten the status.
CancelIsDurable ==
    HasStore /\ disk.readable =>
        \A j \in WithStatus(obj, tab, {"cancelled"}) : disk.obj[j].status = "cancelled"

\* No job is stranded: a running job is the one the executor works on, a queued
\* one is waiting in its queue, through cancellations, rollbacks and restarts.
NoneStranded ==
    \A j \in tab :
        /\ obj[j].status = "running" => run.job = j
        /\ obj[j].status = "queued" => \E i \in 1..Len(pool) : pool[i] = j

\* A terminal status is final. No run checks it: a verdict may overwrite a cancellation
\* that comes right before it (README, 3).
TerminalIsFinal ==
    [][\A j \in tab : obj[j].status \in Terminal /\ j \in tab'
          => obj'[j].status = obj[j].status]_vars

\* A submitted job is settled, or gone, unless the process dies first.
SubmittedJobsSettle ==
    \A j \in Job :
        (\E i \in 1..Len(pool) : pool[i] = j)
            ~> (j \notin WithStatus(obj, tab, Active) \/ phase = "down")
====
