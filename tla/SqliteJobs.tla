---- MODULE SqliteJobs ----
(***************************************************************************)
(* Research jobs on the SQLite backend: one database shared by several     *)
(* service processes.  Each process has API threads, one executor thread   *)
(* (_JOB_EXECUTOR has a single worker) and, while a job runs, a heartbeat  *)
(* thread.  A database transaction (BEGIN IMMEDIATE .. commit) is atomic   *)
(* across processes; an operation that takes two transactions is atomic    *)
(* only inside its process, by _JOBS_LOCK, and is two actions here.        *)
(*                                                                         *)
(* Time is abstracted to the state of a lease: "live" until the clock      *)
(* passes lease_expires_at, then "lapsed".                                 *)
(***************************************************************************)
EXTENDS Naturals, FiniteSets, Sequences

CONSTANTS
    Proc,             \* service process incarnations; a start draws a new worker id
    Job,              \* job ids
    NoProc,           \* worker_id IS NULL
    NoJob,
    MaxActive,        \* _max_active_research_jobs
    MaxRetained,      \* _max_research_jobs
    MaxUp,            \* bound: processes alive at a time
    MaxPool,          \* bound: executor queue a start-up claim may add to
    StartupWorker,    \* INSIGHT_GRAPH_RESEARCH_JOBS_STARTUP_WORKER
    TimelyHeartbeats, \* a heartbeat thread that lives always beats within the lease
    ShortWaits        \* a job claimed at start-up begins before its lease runs out

ASSUME ConstantsAssumption ==
    /\ NoProc \notin Proc
    /\ NoJob \notin Job
    /\ MaxActive \in Nat /\ MaxRetained \in Nat /\ MaxUp \in Nat /\ MaxPool \in Nat
    /\ StartupWorker \in BOOLEAN /\ TimelyHeartbeats \in BOOLEAN /\ ShortWaits \in BOOLEAN

VARIABLES
    db,       \* research_jobs: job id -> row (a blank row stands for no row)
    nextSeq,  \* research_job_meta.next_sequence
    phase,    \* process -> "unborn", start-up step, "serving" or "dead"
    pool,     \* process -> the executor's queue of submitted tasks
    run,      \* process -> what the executor thread is doing
    section   \* process -> the transaction still to come under _JOBS_LOCK

vars == <<db, nextSeq, phase, pool, run, section>>

Active == {"queued", "running"}
Verdicts == {"succeeded", "failed"}
Terminal == Verdicts \cup {"cancelled"}
Stored == Active \cup Terminal
Status == Stored \cup {"unborn", "deleted"}

Row == [status : Status, order : Nat, worker : Proc \cup {NoProc},
        lease : {"none", "live", "lapsed"}]
Blank(s) == [status |-> s, order |-> 0, worker |-> NoProc, lease |-> "none"]

Task == [job : Job, claimed : BOOLEAN]

Idle == [at |-> "idle", job |-> NoJob, verdict |-> "none"]
Run ==
    {Idle}
    \cup [at : {"working"}, job : Job, verdict : {"none"}]
    \cup [at : {"failing", "ending"}, job : Job, verdict : Verdicts]

Free == [op |-> "free", job |-> NoJob, status |-> "unborn", seq |-> 0]
Section ==
    [op : {"free", "prune", "sequence"}, job : {NoJob}, status : {"unborn"}, seq : Nat]
    \cup [op : {"create", "delete"}, job : Job, status : {"unborn"}, seq : {0}]
    \cup [op : {"append"}, job : Job, status : Stored, seq : {0}]

TypeOK ==
    /\ db \in [Job -> Row]
    /\ nextSeq \in Nat
    /\ phase \in [Proc -> {"unborn", "seeding", "cleaning", "claiming", "serving", "dead"}]
    /\ pool \in [Proc -> Seq(Task)]
    /\ run \in [Proc -> Run]
    /\ section \in [Proc -> Section]

Alive(p) == phase[p] \notin {"unborn", "dead"}
Up == {p \in Proc : Alive(p)}
Busy(p) == run[p].at # "idle"

\* _JOBS_LOCK of p is held from the first to the last transaction of an operation.
LockFree(p) == section[p].op = "free"
Serving(p) == phase[p] = "serving" /\ LockFree(p)

InStatus(S) == {j \in Job : db[j].status \in S}
----------------------------------------------------------------------------
(* The SQL statements, as functions of the table.                          *)

\* DELETE of a set of rows.
Without(d, S) == [j \in Job |-> IF j \in S THEN Blank("deleted") ELSE d[j]]

\* Mutated form: pruning counts and deletes the active rows as well.
OverflowOfAll(d) ==
    LET rows == {j \in Job : d[j].status \in Stored}
        newer(j) == {k \in rows : d[k].order > d[j].order}
    IN  {j \in rows : Cardinality(newer(j)) >= MaxRetained}

\* The terminal rows prune_finished deletes: all but the MaxRetained newest.
Overflow(d) ==
    LET finished == {j \in Job : d[j].status \in Terminal}
        newer(j) == {k \in finished : d[k].order > d[j].order}
    IN  {j \in finished : Cardinality(newer(j)) >= MaxRetained}

\* Mutated form: the requeue leaves the lease columns behind.
RequeuedKeepingLease(d) ==
    [j \in Job |->
        IF d[j].status = "running" /\ d[j].lease = "lapsed"
        THEN [d[j] EXCEPT !.status = "queued"]
        ELSE d[j]]

\* Mutated form: the requeue does not look at the lease.
RequeuedEagerly(d) ==
    [j \in Job |->
        IF d[j].status = "running"
        THEN [d[j] EXCEPT !.status = "queued", !.worker = NoProc, !.lease = "none"]
        ELSE d[j]]

\* _requeue_expired_running.
Requeued(d) ==
    [j \in Job |->
        IF d[j].status = "running" /\ d[j].lease = "lapsed"
        THEN [d[j] EXCEPT !.status = "queued", !.worker = NoProc, !.lease = "none"]
        ELSE d[j]]

\* The UPDATE of a claim.
Claimed(d, j, p) ==
    [d EXCEPT ![j].status = "running", ![j].worker = p, ![j].lease = "live"]
----------------------------------------------------------------------------
Init ==
    /\ db = [j \in Job |-> Blank("unborn")]
    /\ nextSeq = 0
    /\ phase = [p \in Proc |-> "unborn"]
    /\ pool = [p \in Proc |-> <<>>]
    /\ run = [p \in Proc |-> Idle]
    /\ section = [p \in Proc |-> Free]

(***************************************************************************)
(* Process start: set_next_sequence(next_sequence()) reads the counter in  *)
(* one transaction and writes it back in another; then the retention       *)
(* clean-up, then the start-up claims.                                     *)
(***************************************************************************)
\* Mutated form: the counter is seeded one too low.
StartProcessOneBehind(p) ==
    /\ phase[p] = "unborn"
    /\ Cardinality(Up) < MaxUp
    /\ phase' = [phase EXCEPT ![p] = "seeding"]
    /\ section' = [section EXCEPT ![p] = [Free EXCEPT !.op = "sequence", !.seq = nextSeq - 1]]
    /\ UNCHANGED <<db, nextSeq, pool, run>>

StartProcess(p) ==
    /\ phase[p] = "unborn"
    /\ Cardinality(Up) < MaxUp
    /\ phase' = [phase EXCEPT ![p] = "seeding"]
    /\ section' = [section EXCEPT ![p] = [Free EXCEPT !.op = "sequence", !.seq = nextSeq]]
    /\ UNCHANGED <<db, nextSeq, pool, run>>

SeedSequence(p) ==
    /\ phase[p] = "seeding"
    /\ nextSeq' = section[p].seq
    /\ section' = [section EXCEPT ![p] = Free]
    /\ phase' = [phase EXCEPT ![p] = "cleaning"]
    /\ UNCHANGED <<db, pool, run>>

\* delete_terminal_before: finish times are not kept here, so the cut-off may
\* fall between any of the terminal rows (S empty: no retention configured).
CleanUp(p, S) ==
    /\ phase[p] = "cleaning"
    /\ S \subseteq InStatus(Terminal)
    /\ db' = Without(db, S)
    /\ phase' = [phase EXCEPT ![p] = IF StartupWorker THEN "claiming" ELSE "serving"]
    /\ UNCHANGED <<nextSeq, pool, run, section>>

\* One turn of _submit_startup_research_jobs: the oldest queued job is claimed
\* and submitted; nothing tends its lease until the executor reaches it.
StartupClaim(p) ==
    /\ phase[p] = "claiming" /\ LockFree(p)
    /\ Len(pool[p]) < MaxPool
    /\ LET d == Requeued(db)
           queued == {j \in Job : d[j].status = "queued"}
       IN  \E j \in queued :
              /\ \A k \in queued : d[j].order <= d[k].order
              /\ db' = Claimed(d, j, p)
              /\ pool' = [pool EXCEPT ![p] = Append(@, [job |-> j, claimed |-> TRUE])]
    /\ UNCHANGED <<nextSeq, phase, run, section>>

StartupDone(p) ==
    /\ phase[p] = "claiming" /\ LockFree(p)
    /\ \A j \in Job : Requeued(db)[j].status # "queued"
    /\ phase' = [phase EXCEPT ![p] = "serving"]
    /\ UNCHANGED <<db, nextSeq, pool, run, section>>

(***************************************************************************)
(* Requests.                                                               *)
(***************************************************************************)

\* create_job, first transaction: the cap, the counter and the row.  An order
\* that is already taken fails the UNIQUE constraint and rolls back.
Create(p, j) ==
    /\ Serving(p)
    /\ db[j].status = "unborn"
    /\ Cardinality(InStatus(Active)) < MaxActive
    /\ \A k \in InStatus(Stored) : db[k].order # nextSeq + 1
    /\ nextSeq' = nextSeq + 1
    /\ db' = [db EXCEPT ![j] = [Blank("queued") EXCEPT !.order = nextSeq + 1]]
    /\ section' = [section EXCEPT ![p] = [Free EXCEPT !.op = "create", !.job = j]]
    /\ UNCHANGED <<phase, pool, run>>

\* create_job's prune, then the end of the request: the job is submitted.
FinishCreate(p) ==
    /\ section[p].op = "create"
    /\ db' = Without(db, Overflow(db))
    /\ pool' = [pool EXCEPT ![p] = Append(@, [job |-> section[p].job, claimed |-> FALSE])]
    /\ section' = [section EXCEPT ![p] = Free]
    /\ UNCHANGED <<nextSeq, phase, run>>

Retry(p, source, j) ==
    /\ db[source].status \in {"failed", "cancelled"}
    /\ Create(p, j)

\* cancel_queued: the worker and lease columns stay as they are.
Cancel(p, j) ==
    /\ Serving(p)
    /\ db[j].status \in Active
    /\ db' = [db EXCEPT ![j].status = "cancelled"]
    /\ UNCHANGED <<nextSeq, phase, pool, run, section>>

\* delete_research_job reads the row in one transaction and, if it was
\* terminal, deletes by id in the next.
CheckDelete(p, j) ==
    /\ Serving(p)
    /\ db[j].status \in Terminal
    /\ section' = [section EXCEPT ![p] = [Free EXCEPT !.op = "delete", !.job = j]]
    /\ UNCHANGED <<db, nextSeq, phase, pool, run>>

Delete(p) ==
    /\ section[p].op = "delete"
    /\ db' = Without(db, {section[p].job} \cap InStatus(Stored))
    /\ section' = [section EXCEPT ![p] = Free]
    /\ UNCHANGED <<nextSeq, phase, pool, run>>

(***************************************************************************)
(* The executor thread.                                                    *)
(***************************************************************************)
NextTask(p) == Head(pool[p])
Dequeue(p) == pool' = [pool EXCEPT ![p] = Tail(@)]
Work(p, j) == run' = [run EXCEPT ![p] = [Idle EXCEPT !.at = "working", !.job = j]]
Stop(p) == run' = [run EXCEPT ![p] = Idle]

Ready(p) == Alive(p) /\ ~Busy(p) /\ pool[p] # <<>>

\* _run_claimed_research_job: a task claimed at start-up runs as it is.
RunClaimed(p) ==
    /\ Ready(p)
    /\ NextTask(p).claimed
    /\ Dequeue(p)
    /\ Work(p, NextTask(p).job)
    /\ UNCHANGED <<db, nextSeq, phase, section>>

\* Mutated form: the claim does not ask for a queued row.
ClaimAnything(p) ==
    /\ Ready(p) /\ LockFree(p)
    /\ ~NextTask(p).claimed
    /\ db[NextTask(p).job].status \in Stored
    /\ db' = Claimed(Requeued(db), NextTask(p).job, p)
    /\ Dequeue(p)
    /\ Work(p, NextTask(p).job)
    /\ UNCHANGED <<nextSeq, phase, section>>

\* _run_research_job: claim_for_worker requeues the expired claims and takes
\* the job if it is queued.
ClaimAndRun(p) ==
    /\ Ready(p) /\ LockFree(p)
    /\ ~NextTask(p).claimed
    /\ Requeued(db)[NextTask(p).job].status = "queued"
    /\ db' = Claimed(Requeued(db), NextTask(p).job, p)
    /\ Dequeue(p)
    /\ Work(p, NextTask(p).job)
    /\ UNCHANGED <<nextSeq, phase, section>>

\* The claim is refused: the rollback undoes the requeue as well.
ClaimRefused(p) ==
    /\ Ready(p) /\ LockFree(p)
    /\ ~NextTask(p).claimed
    /\ Requeued(db)[NextTask(p).job].status # "queued"
    /\ Dequeue(p)
    /\ UNCHANGED <<db, nextSeq, phase, run, section>>

\* append_research_job_event, for an event of the workflow or for the one that
\* reports its failure: the row, if it is still there, is read here ..
ReadForAppend(p) ==
    /\ LockFree(p)
    /\ \/ run[p].at = "working" /\ UNCHANGED run
       \/ run[p].at = "failing" /\ run' = [run EXCEPT ![p].at = "ending"]
    /\ section' = IF db[run[p].job].status \in Stored
                  THEN [section EXCEPT ![p] = [Free EXCEPT
                          !.op = "append", !.job = run[p].job,
                          !.status = db[run[p].job].status]]
                  ELSE section
    /\ UNCHANGED <<db, nextSeq, phase, pool>>

\* A failure before the first event of the run publishes none.
NoFailureEvent(p) ==
    /\ run[p].at = "failing"
    /\ run' = [run EXCEPT ![p].at = "ending"]
    /\ UNCHANGED <<db, nextSeq, phase, pool, section>>

\* Mutated form: the write covers the lease columns too, which job_to_row leaves NULL.
WriteAppendWithLease(p) ==
    /\ section[p].op = "append"
    /\ db' = IF db[section[p].job].status \in Stored
             THEN [db EXCEPT ![section[p].job].status = section[p].status,
                             ![section[p].job].worker = NoProc,
                             ![section[p].job].lease = "none"]
             ELSE db
    /\ section' = [section EXCEPT ![p] = Free]
    /\ UNCHANGED <<nextSeq, phase, pool, run>>

\* .. and written back here, status and all; the lease columns are not written.
WriteAppend(p) ==
    /\ section[p].op = "append"
    /\ db' = IF db[section[p].job].status \in Stored
             THEN [db EXCEPT ![section[p].job].status = section[p].status]
             ELSE db
    /\ section' = [section EXCEPT ![p] = Free]
    /\ UNCHANGED <<nextSeq, phase, pool, run>>

Conclude(p, verdict) ==
    run' = [run EXCEPT ![p].at = IF verdict = "failed" THEN "failing" ELSE "ending",
                       ![p].verdict = verdict]

\* The workflow ends in a report or an exception; a cancelled job is dropped.
EndWorkflow(p, verdict) ==
    /\ run[p].at = "working" /\ LockFree(p)
    /\ IF db[run[p].job].status = "cancelled" THEN Stop(p) ELSE Conclude(p, verdict)
    /\ UNCHANGED <<db, nextSeq, phase, pool, section>>

\* Mutated form: the early return of a rejected report records nothing.
RejectSilently(p) ==
    /\ run[p].at = "working" /\ LockFree(p)
    /\ Stop(p)
    /\ UNCHANGED <<db, nextSeq, phase, pool, section>>

\* The report fails the quality gate: no look at the cancellation.
RejectReport(p) ==
    /\ run[p].at = "working" /\ LockFree(p)
    /\ Conclude(p, "failed")
    /\ UNCHANGED <<db, nextSeq, phase, pool, section>>

Owns(p, j) == db[j].worker = p /\ db[j].status = "running"

\* mark_terminal_for_worker, first transaction; without the claim it does nothing.
WriteVerdict(p) ==
    /\ run[p].at = "ending" /\ LockFree(p)
    /\ IF Owns(p, run[p].job)
       THEN /\ db' = [db EXCEPT ![run[p].job].status = run[p].verdict,
                                ![run[p].job].worker = NoProc,
                                ![run[p].job].lease = "none"]
            /\ section' = [section EXCEPT ![p] = [Free EXCEPT !.op = "prune"]]
       ELSE UNCHANGED <<db, section>>
    /\ Stop(p)
    /\ UNCHANGED <<nextSeq, phase, pool>>

Prune(p) ==
    /\ section[p].op = "prune"
    /\ db' = Without(db, Overflow(db))
    /\ section' = [section EXCEPT ![p] = Free]
    /\ UNCHANGED <<nextSeq, phase, pool, run>>

(***************************************************************************)
(* The heartbeat thread, time, and the death of a process.                 *)
(***************************************************************************)
Heartbeat(p) ==
    /\ Busy(p) /\ LockFree(p)
    /\ Owns(p, run[p].job)
    /\ db' = [db EXCEPT ![run[p].job].lease = "live"]
    /\ UNCHANGED <<nextSeq, phase, pool, run, section>>

\* The owner beats for j, or its idle executor is about to begin it.
Tended(j) ==
    \E p \in Proc :
        /\ db[j].worker = p
        /\ IF Busy(p) THEN run[p].job = j
           ELSE pool[p] # <<>> /\ Head(pool[p]).job = j

\* The owner has yet to begin j, which it claimed at start-up.
Waiting(j) ==
    \E p \in Proc :
        /\ db[j].worker = p
        /\ \E i \in 1..Len(pool[p]) : pool[p][i] = [job |-> j, claimed |-> TRUE]

Lapse(j) ==
    /\ db[j].lease = "live"
    /\ TimelyHeartbeats => ~Tended(j)
    /\ ShortWaits => ~Waiting(j)
    /\ db' = [db EXCEPT ![j].lease = "lapsed"]
    /\ UNCHANGED <<nextSeq, phase, pool, run, section>>

Crash(p) ==
    /\ Alive(p)
    /\ phase' = [phase EXCEPT ![p] = "dead"]
    /\ pool' = [pool EXCEPT ![p] = <<>>]
    /\ run' = [run EXCEPT ![p] = Idle]
    /\ section' = [section EXCEPT ![p] = Free]
    /\ UNCHANGED <<db, nextSeq>>
----------------------------------------------------------------------------
Startup(p) ==
    \/ StartProcess(p)
    \/ SeedSequence(p)
    \/ \E S \in SUBSET Job : CleanUp(p, S)
    \/ StartupClaim(p)
    \/ StartupDone(p)

Request(p) ==
    \/ \E j \in Job : Create(p, j) \/ Cancel(p, j) \/ CheckDelete(p, j)
    \/ \E source, j \in Job : Retry(p, source, j)

SecondTransaction(p) == FinishCreate(p) \/ Delete(p) \/ WriteAppend(p) \/ Prune(p)

Executor(p) ==
    \/ RunClaimed(p)
    \/ ClaimAndRun(p)
    \/ ClaimRefused(p)
    \/ ReadForAppend(p)
    \/ NoFailureEvent(p)
    \/ \E verdict \in Verdicts : EndWorkflow(p, verdict)
    \/ RejectReport(p)
    \/ WriteVerdict(p)
    \/ Heartbeat(p)

Next ==
    \/ \E p \in Proc : Startup(p) \/ Request(p) \/ SecondTransaction(p) \/ Executor(p) \/ Crash(p)
    \/ \E j \in Job : Lapse(j)

Spec == Init /\ [][Next]_vars

\* Every live thread gets on with its work.  A workflow emits finitely many
\* events, so ending it is not put off for ever by appends (SF).  Clients owe
\* nothing, a process may die, and a lease that nobody tends runs out.
ProcessFairness(p) ==
    /\ WF_vars(SeedSequence(p)) /\ WF_vars(\E S \in SUBSET Job : CleanUp(p, S))
    /\ WF_vars(StartupClaim(p)) /\ WF_vars(StartupDone(p))
    /\ WF_vars(SecondTransaction(p))
    /\ WF_vars(RunClaimed(p)) /\ WF_vars(ClaimAndRun(p) \/ ClaimRefused(p))
    /\ SF_vars(\E verdict \in Verdicts : EndWorkflow(p, verdict))
    /\ WF_vars(NoFailureEvent(p)) /\ WF_vars(WriteVerdict(p))

FairSpec ==
    /\ Spec
    /\ \A p \in Proc : ProcessFairness(p)
    /\ \A j \in Job : WF_vars(Lapse(j))
----------------------------------------------------------------------------
(***************************************************************************)
(* Properties.                                                             *)
(***************************************************************************)
\* A job is worked on by at most one executor thread, whatever crashes, and
\* whoever cancels or deletes it meanwhile, as long as heartbeats are timely and
\* the jobs claimed at start-up do not outwait their leases: the claims, the
\* requeue and the heartbeat together.
OneWorkerPerJob ==
    \A p, q \in Proc :
        Busy(p) /\ Busy(q) /\ run[p].job = run[q].job => p = q

\* A finished job never comes back: with one process at a time, the whole-row
\* write of an event append cannot undo a cancellation or a verdict.
TerminalIsFinal ==
    [][\A j \in Job : db[j].status \in Terminal =>
          db'[j].status \in {db[j].status, "deleted"}]_vars

\* A running row carries a lease of some worker, so that a later claim can
\* requeue it; a queued row carries none.
RunningIsRecoverable ==
    \A j \in Job :
        /\ db[j].status = "running" => db[j].worker \in Proc /\ db[j].lease # "none"
        /\ db[j].status = "queued" => db[j].worker = NoProc /\ db[j].lease = "none"

\* The life of every job is the one the repository contract describes.
Contract == INSTANCE JobLifecycle WITH status <- [j \in Job |-> db[j].status]
LifecycleContract == Contract!Spec

\* What a newer attempt wrote is kept: a verdict in the table is never replaced
\* by a worker that lost its claim.
NewerVerdictKept ==
    [][\A j \in Job : db[j].status \in Verdicts =>
          db'[j].status \in {db[j].status, "deleted"}]_vars

\* A workflow that starts on an unfinished job holds the job's claim: the row is
\* running and names the worker that starts. No run checks it: without ShortWaits a job
\* claimed at start-up may begin after its lease ran out (README, 3).
StartsUnderClaim ==
    [][\A p \in Proc :
          LET j == run'[p].job
          IN  ~Busy(p) /\ run'[p].at = "working" /\ db[j].status \in Active
              => db'[j].worker = p /\ db'[j].status = "running"]_vars

\* Finished work is never thrown away: when a run ends with a verdict and nobody
\* has cancelled or deleted the job, the verdict is recorded.
FinishedWorkIsRecorded ==
    [][\A p \in Proc :
          LET j == run[p].job
          IN  /\ run[p].at = "ending" /\ run'[p].at = "idle" /\ phase'[p] # "dead"
              /\ db[j].status \in Active
              => db'[j].status = run[p].verdict]_vars

\* A submitted job is settled, unless the process it was submitted to, or the
\* one that claimed it, dies: then it waits for the start-up claims of another.
Settled(j) == db[j].status \in Terminal \cup {"deleted"}
InPool(p, j) == \E i \in 1..Len(pool[p]) : pool[p][i].job = j
ClaimantDied(j) == db[j].worker # NoProc /\ phase[db[j].worker] = "dead"
SubmittedJobsSettle ==
    \A p \in Proc, j \in Job :
        InPool(p, j) ~> (Settled(j) \/ phase[p] = "dead" \/ ClaimantDied(j))
====
