---- MODULE SqliteJobsProofs ----
(***************************************************************************)
(* Theorems about SqliteJobs, for any number of processes and jobs.        *)
(***************************************************************************)
EXTENDS SqliteJobs, FiniteSetTheorems, TLAPS

USE DEF Status, Stored, Active, Terminal, Verdicts

LEMMA WithoutType ==
    ASSUME NEW d \in [Job -> Row], NEW S
    PROVE  Without(d, S) \in [Job -> Row]
BY DEF Without, Row, Blank

LEMMA RequeuedType ==
    ASSUME NEW d \in [Job -> Row]
    PROVE  Requeued(d) \in [Job -> Row]
<1>1. ASSUME NEW j \in Job
      PROVE  [d[j] EXCEPT !.status = "queued", !.worker = NoProc, !.lease = "none"] \in Row
  BY DEF Row
<1>2. QED BY <1>1 DEF Requeued

LEMMA WrittenType ==
    ASSUME NEW d \in [Job -> Row], NEW j \in Job, NEW s \in Status
    PROVE  /\ [d EXCEPT ![j].status = s] \in [Job -> Row]
           /\ [d EXCEPT ![j].status = s, ![j].worker = NoProc, ![j].lease = "none"]
                 \in [Job -> Row]
<1>1. [d[j] EXCEPT !.status = s] \in Row BY DEF Row
<1>2. [d[j] EXCEPT !.status = s, !.worker = NoProc, !.lease = "none"] \in Row BY DEF Row
<1>3. QED BY <1>1, <1>2

LEMMA ClaimedType ==
    ASSUME NEW d \in [Job -> Row], NEW j \in Job, NEW p \in Proc
    PROVE  /\ Claimed(d, j, p) \in [Job -> Row]
           /\ Claimed(d, j, p)[j].status = "running"
           /\ Claimed(d, j, p)[j].worker = p /\ Claimed(d, j, p)[j].lease = "live"
           /\ \A k \in Job \ {j} : Claimed(d, j, p)[k] = d[k]
BY DEF Claimed, Row
----------------------------------------------------------------------------
(* Type correctness.                                                       *)

LEMMA AppendedType ==
    ASSUME NEW q \in [Proc -> Seq(Task)], NEW p \in Proc, NEW j \in Job, NEW c \in BOOLEAN
    PROVE  [q EXCEPT ![p] = Append(@, [job |-> j, claimed |-> c])] \in [Proc -> Seq(Task)]
<1>1. [job |-> j, claimed |-> c] \in Task BY DEF Task
<1>2. Append(q[p], [job |-> j, claimed |-> c]) \in Seq(Task) BY <1>1
<1>3. QED BY <1>2

LEMMA DequeuedType ==
    ASSUME NEW q \in [Proc -> Seq(Task)], NEW p \in Proc, q[p] # <<>>
    PROVE  /\ Head(q[p]) \in Task
           /\ [q EXCEPT ![p] = Tail(@)] \in [Proc -> Seq(Task)]
<1>1. Head(q[p]) \in Task /\ Tail(q[p]) \in Seq(Task) OBVIOUS
<1>2. QED BY <1>1

LEMMA FreeType == Free \in Section /\ [Free EXCEPT !.op = "prune"] \in Section
BY DEF Free, Section

LEMMA AppendShape ==
    ASSUME NEW s \in Section, s.op = "append"
    PROVE  s.job \in Job /\ s.status \in Stored
<1>1. CASE s \in [op : {"append"}, job : Job, status : Stored, seq : {0}] BY <1>1
<1>2. QED BY <1>1 DEF Section

LEMMA RunShape ==
    ASSUME NEW r \in Run, r.at # "idle"
    PROVE  /\ r.job \in Job
           /\ r.at \in {"failing", "ending"} => r.verdict \in Verdicts
           /\ \A verdict \in Verdicts :
                 [r EXCEPT !.at = IF verdict = "failed" THEN "failing" ELSE "ending",
                           !.verdict = verdict] \in Run
           /\ r.at = "failing" => [r EXCEPT !.at = "ending"] \in Run
<1>1. CASE r \in [at : {"working"}, job : Job, verdict : {"none"}] BY <1>1 DEF Run
<1>2. CASE r \in [at : {"failing", "ending"}, job : Job, verdict : Verdicts] BY <1>2 DEF Run
<1>3. QED BY <1>1, <1>2 DEF Run, Idle

LEMMA StartupType ==
    ASSUME TypeOK, NEW p \in Proc, Startup(p)
    PROVE  TypeOK'
<1> USE DEF TypeOK
<1>1. CASE StartProcess(p)
  <2>1. [Free EXCEPT !.op = "sequence", !.seq = nextSeq] \in Section BY DEF Section, Free
  <2>2. QED BY <1>1, <2>1 DEF StartProcess
<1>2. CASE SeedSequence(p)
  <2>1. section[p].seq \in Nat BY DEF Section
  <2>2. QED BY <1>2, <2>1, FreeType DEF SeedSequence
<1>3. ASSUME NEW S \in SUBSET Job, CleanUp(p, S) PROVE TypeOK'
  <2>1. db' \in [Job -> Row] BY <1>3, WithoutType DEF CleanUp
  <2>2. QED BY <1>3, <2>1 DEF CleanUp
<1>4. CASE StartupClaim(p)
  <2>1. PICK j \in Job : /\ db' = Claimed(Requeued(db), j, p)
                         /\ pool' = [pool EXCEPT ![p] = Append(@, [job |-> j, claimed |-> TRUE])]
    BY <1>4 DEF StartupClaim
  <2>2. db' \in [Job -> Row] BY <2>1, RequeuedType, ClaimedType
  <2>3. pool' \in [Proc -> Seq(Task)] BY <2>1, AppendedType
  <2>4. QED BY <1>4, <2>2, <2>3 DEF StartupClaim
<1>5. CASE StartupDone(p) BY <1>5 DEF StartupDone
<1>6. QED BY <1>1, <1>2, <1>3, <1>4, <1>5 DEF Startup

LEMMA RequestType ==
    ASSUME TypeOK, NEW p \in Proc, Request(p)
    PROVE  TypeOK'
<1> USE DEF TypeOK
<1>1. ASSUME NEW j \in Job, Create(p, j) PROVE TypeOK'
  <2>1. [Blank("queued") EXCEPT !.order = nextSeq + 1] \in Row BY DEF Blank, Row
  <2>2. [Free EXCEPT !.op = "create", !.job = j] \in Section BY DEF Free, Section
  <2>3. QED BY <1>1, <2>1, <2>2 DEF Create
<1>2. ASSUME NEW j \in Job, Cancel(p, j) PROVE TypeOK'
  <2>1. [db[j] EXCEPT !.status = "cancelled"] \in Row BY DEF Row
  <2>2. QED BY <1>2, <2>1 DEF Cancel
<1>3. ASSUME NEW j \in Job, CheckDelete(p, j) PROVE TypeOK'
  <2>1. [Free EXCEPT !.op = "delete", !.job = j] \in Section BY DEF Free, Section
  <2>2. QED BY <1>3, <2>1 DEF CheckDelete
<1>4. QED BY <1>1, <1>2, <1>3 DEF Request, Retry

LEMMA SecondTransactionType ==
    ASSUME TypeOK, NEW p \in Proc, SecondTransaction(p)
    PROVE  TypeOK'
<1> USE DEF TypeOK
<1>2. CASE FinishCreate(p)
  <2>1. db' \in [Job -> Row] BY <1>2, WithoutType DEF FinishCreate
  <2>2. section[p].job \in Job BY <1>2 DEF FinishCreate, Section
  <2>3. pool' \in [Proc -> Seq(Task)] BY <1>2, <2>2, AppendedType DEF FinishCreate
  <2>4. QED BY <1>2, <2>1, <2>3, FreeType DEF FinishCreate
<1>3. CASE Delete(p)
  <2>1. db' \in [Job -> Row] BY <1>3, WithoutType DEF Delete
  <2>2. QED BY <1>3, <2>1, FreeType DEF Delete
<1>4. CASE WriteAppend(p)
  <2>1. section[p].job \in Job /\ section[p].status \in Status
    BY <1>4, AppendShape DEF WriteAppend
  <2>2. db' \in [Job -> Row] BY <1>4, <2>1, WrittenType DEF WriteAppend
  <2>3. QED BY <1>4, <2>2, FreeType DEF WriteAppend
<1>5. CASE Prune(p)
  <2>1. db' \in [Job -> Row] BY <1>5, WithoutType DEF Prune
  <2>2. QED BY <1>5, <2>1, FreeType DEF Prune
<1>6. QED BY <1>2, <1>3, <1>4, <1>5 DEF SecondTransaction

LEMMA ExecutorType ==
    ASSUME TypeOK, NEW p \in Proc, Executor(p)
    PROVE  TypeOK'
<1> USE DEF TypeOK
<1>0. ASSUME NEW j \in Job PROVE [Idle EXCEPT !.at = "working", !.job = j] \in Run
  BY DEF Idle, Run
<1>1. CASE RunClaimed(p)
  <2>1. NextTask(p).job \in Job /\ pool' \in [Proc -> Seq(Task)]
    BY <1>1, DequeuedType DEF RunClaimed, Ready, NextTask, Dequeue, Task
  <2>2. run' \in [Proc -> Run] BY <1>0, <1>1, <2>1 DEF RunClaimed, Work
  <2>3. QED BY <1>1, <2>1, <2>2 DEF RunClaimed
<1>2. CASE ClaimAndRun(p)
  <2>1. NextTask(p).job \in Job /\ pool' \in [Proc -> Seq(Task)]
    BY <1>2, DequeuedType DEF ClaimAndRun, Ready, NextTask, Dequeue, Task
  <2>2. run' \in [Proc -> Run] BY <1>0, <1>2, <2>1 DEF ClaimAndRun, Work
  <2>3. db' \in [Job -> Row] BY <1>2, <2>1, RequeuedType, ClaimedType DEF ClaimAndRun
  <2>4. QED BY <1>2, <2>1, <2>2, <2>3 DEF ClaimAndRun
<1>3. CASE ClaimRefused(p)
  <2>1. pool' \in [Proc -> Seq(Task)] BY <1>3, DequeuedType DEF ClaimRefused, Ready, Dequeue
  <2>2. QED BY <1>3, <2>1 DEF ClaimRefused
<1>4. CASE ReadForAppend(p)
  <2>1. run' \in [Proc -> Run]
    <3>1. CASE UNCHANGED run BY <3>1
    <3>2. CASE run[p].at = "failing" /\ run' = [run EXCEPT ![p].at = "ending"]
      BY <3>2, RunShape
    <3>3. QED BY <1>4, <3>1, <3>2 DEF ReadForAppend
  <2>2. run[p].job \in Job BY <1>4, RunShape DEF ReadForAppend
  <2>3. ASSUME db[run[p].job].status \in Stored
        PROVE  [Free EXCEPT !.op = "append", !.job = run[p].job,
                            !.status = db[run[p].job].status] \in Section
    BY <2>2, <2>3 DEF Section, Free
  <2>4. section' \in [Proc -> Section] BY <1>4, <2>3 DEF ReadForAppend
  <2>5. QED BY <1>4, <2>1, <2>4 DEF ReadForAppend
<1>5. CASE NoFailureEvent(p)
  <2>1. run' \in [Proc -> Run] BY <1>5, RunShape DEF NoFailureEvent
  <2>2. QED BY <1>5, <2>1 DEF NoFailureEvent
<1>6. ASSUME NEW verdict \in Verdicts, EndWorkflow(p, verdict) PROVE TypeOK'
  <2>1. run[p].at # "idle" /\ Idle \in Run BY <1>6 DEF EndWorkflow, Run
  <2>2. run' \in [Proc -> Run]
    <3>1. CASE Stop(p) BY <2>1, <3>1 DEF Stop
    <3>2. CASE Conclude(p, verdict) BY <2>1, <3>2, RunShape DEF Conclude
    <3>3. QED BY <1>6, <3>1, <3>2 DEF EndWorkflow
  <2>3. QED BY <1>6, <2>2 DEF EndWorkflow
<1>7. CASE RejectReport(p)
  <2>1. run' \in [Proc -> Run] BY <1>7, RunShape DEF RejectReport, Conclude
  <2>2. QED BY <1>7, <2>1 DEF RejectReport
<1>8. CASE WriteVerdict(p)
  <2>1. run[p].job \in Job /\ run[p].verdict \in Status BY <1>8, RunShape DEF WriteVerdict
  <2>2. db' \in [Job -> Row]
    <3>1. CASE Owns(p, run[p].job)
      <4>1. db' = [db EXCEPT ![run[p].job].status = run[p].verdict,
                             ![run[p].job].worker = NoProc,
                             ![run[p].job].lease = "none"]
        BY <1>8, <3>1 DEF WriteVerdict
      <4>2. QED BY <2>1, <4>1, WrittenType
    <3>2. CASE ~Owns(p, run[p].job) BY <1>8, <3>2 DEF WriteVerdict
    <3>3. QED BY <3>1, <3>2
  <2>3. section' \in [Proc -> Section] BY <1>8, FreeType DEF WriteVerdict
  <2>4. run' \in [Proc -> Run] BY <1>8 DEF WriteVerdict, Stop, Run
  <2>5. QED BY <1>8, <2>2, <2>3, <2>4 DEF WriteVerdict
<1>9. CASE Heartbeat(p)
  <2>1. db' \in [Job -> Row] BY <1>9 DEF Heartbeat, Row
  <2>2. QED BY <1>9, <2>1 DEF Heartbeat
<1>10. QED
  BY <1>1, <1>2, <1>3, <1>4, <1>5, <1>6, <1>7, <1>8, <1>9 DEF Executor

LEMMA TypeStep == TypeOK /\ [Next]_vars => TypeOK'
<1> SUFFICES ASSUME TypeOK, [Next]_vars PROVE TypeOK'
  OBVIOUS
<1>1. ASSUME NEW p \in Proc, Crash(p) PROVE TypeOK'
  <2>1. <<>> \in Seq(Task) /\ Idle \in Run BY DEF Run
  <2>2. QED BY <1>1, <2>1, FreeType DEF Crash, TypeOK
<1>2. ASSUME NEW j \in Job, Lapse(j) PROVE TypeOK'
  <2>1. [db[j] EXCEPT !.lease = "lapsed"] \in Row BY DEF TypeOK, Row
  <2>2. QED BY <1>2, <2>1 DEF Lapse, TypeOK
<1>3. CASE UNCHANGED vars BY <1>3 DEF vars, TypeOK
<1>4. QED
  BY <1>1, <1>2, <1>3, StartupType, RequestType, SecondTransactionType, ExecutorType DEF Next

\* Every reachable state has the declared types: in particular a run that fails or
\* ends has a verdict to write, and a transaction still to come knows its job.
THEOREM TypeCorrect == Spec => []TypeOK
<1>1. Init => TypeOK
  <2> SUFFICES ASSUME Init PROVE TypeOK
    OBVIOUS
  <2>1. db \in [Job -> Row] BY DEF Init, Blank, Row
  <2>2. run \in [Proc -> Run] /\ section \in [Proc -> Section]
    BY FreeType DEF Init, Run
  <2>3. pool \in [Proc -> Seq(Task)]
    <3>1. <<>> \in Seq(Task) OBVIOUS
    <3>2. QED BY <3>1 DEF Init
  <2>4. QED BY <2>1, <2>2, <2>3 DEF Init, TypeOK
<1>2. QED BY <1>1, TypeStep, PTL DEF Spec
----------------------------------------------------------------------------
(***************************************************************************)
(* One worker per job.  OneWorkerPerJob is not inductive: what keeps a     *)
(* second worker away is the claim in the row.  A process holds the claims *)
(* of its slots: slot 0 is the executor, the others are the tasks of its   *)
(* queue that were claimed at start-up.  The invariant says that the row   *)
(* of every slot still carries the claim (or is gone for good), that no    *)
(* job is in two slots, and that no event append writes anything back but  *)
(* a status that leaves the claim as it is.                                *)
(***************************************************************************)
Holds(d, p, j) ==
    \/ d[j].status = "deleted"
    \/ d[j].worker = p /\ d[j].lease = "live" /\ d[j].status \in {"running", "cancelled"}

Slots(p) == {i \in 0..Len(pool[p]) : IF i = 0 THEN Busy(p) ELSE pool[p][i].claimed}
JobAt(p, i) == IF i = 0 THEN run[p].job ELSE pool[p][i].job

ClaimsAreHeld == \A p \in Proc : \A i \in Slots(p) : Holds(db, p, JobAt(p, i))

ClaimsAreDistinct ==
    \A p, q \in Proc : \A i \in Slots(p), k \in Slots(q) :
        JobAt(p, i) = JobAt(q, k) => p = q /\ i = k

AppendsOfOwnRun ==
    \A p \in Proc : section[p].op = "append" =>
        /\ Busy(p) /\ section[p].job = run[p].job
        /\ section[p].status \in {"running", "cancelled"}

ClaimInv == ClaimsAreHeld /\ ClaimsAreDistinct /\ AppendsOfOwnRun

LEMMA SlotFacts ==
    ASSUME TypeOK, NEW p \in Proc
    PROVE  /\ pool[p] \in Seq(Task) /\ Len(pool[p]) \in Nat
           /\ \A i \in Slots(p) : i \in 0..Len(pool[p]) /\ JobAt(p, i) \in Job
           /\ 0 \in Slots(p) <=> Busy(p)
           /\ JobAt(p, 0) = run[p].job
<1>1. pool[p] \in Seq(Task) /\ Len(pool[p]) \in Nat BY DEF TypeOK
<1>2. ASSUME NEW i \in Slots(p) PROVE JobAt(p, i) \in Job
  <2>1. CASE i = 0 BY <1>2, <2>1, RunShape DEF Slots, JobAt, Busy, TypeOK
  <2>2. CASE i # 0
    <3>1. i \in 1..Len(pool[p]) BY <1>1, <1>2, <2>2 DEF Slots
    <3>2. pool[p][i] \in Task BY <1>1, <3>1
    <3>3. QED BY <2>2, <3>2 DEF JobAt, Task
  <2>3. QED BY <2>1, <2>2
<1>3. QED BY <1>1, <1>2 DEF Slots, JobAt

LEMMA OneWorkerHolds ==
    ASSUME TypeOK, ClaimsAreDistinct
    PROVE  OneWorkerPerJob
<1> SUFFICES ASSUME NEW p \in Proc, NEW q \in Proc, Busy(p), Busy(q), run[p].job = run[q].job
             PROVE  p = q
  BY DEF OneWorkerPerJob
<1>1. 0 \in Slots(p) /\ 0 \in Slots(q) /\ JobAt(p, 0) = JobAt(q, 0) BY SlotFacts
<1>2. QED BY <1>1 DEF ClaimsAreDistinct

\* Every slot of q after a step was one before it, n places further on.
Moved(q, n) ==
    \A i \in Slots(q)' : i + n \in Slots(q) /\ JobAt(q, i)' = JobAt(q, i + n)
NoneBegins == \A q \in Proc : \E n \in {0, 1} : Moved(q, n)

\* The step leaves every claim that is held in its row.
RowsKept == \A q \in Proc : \A i \in Slots(q) : Holds(db', q, JobAt(q, i))

LEMMA NoneBeginsSuffices ==
    ASSUME ClaimInv, NoneBegins, RowsKept
    PROVE  ClaimsAreHeld' /\ ClaimsAreDistinct'
<1>1. ClaimsAreHeld'
  <2> SUFFICES ASSUME NEW q \in Proc, NEW i \in Slots(q)'
               PROVE  Holds(db, q, JobAt(q, i))'
    BY DEF ClaimsAreHeld
  <2>1. PICK n \in {0, 1} : i + n \in Slots(q) /\ JobAt(q, i)' = JobAt(q, i + n)
    BY DEF NoneBegins, Moved
  <2>2. Holds(db', q, JobAt(q, i + n)) BY <2>1 DEF RowsKept
  <2>3. Holds(db', q, JobAt(q, i)') BY <2>1, <2>2
  <2>4. QED BY <2>3 DEF Holds
<1>2. ClaimsAreDistinct'
  <2> SUFFICES ASSUME NEW q \in Proc, NEW r \in Proc,
                      NEW i \in Slots(q)', NEW k \in Slots(r)', JobAt(q, i)' = JobAt(r, k)'
               PROVE  q = r /\ i = k
    BY DEF ClaimsAreDistinct
  <2>1. PICK n \in {0, 1} : Moved(q, n) BY DEF NoneBegins
  <2>2. PICK m \in {0, 1} : Moved(r, m) BY DEF NoneBegins
  <2>3. /\ i + n \in Slots(q) /\ JobAt(q, i)' = JobAt(q, i + n)
        /\ k + m \in Slots(r) /\ JobAt(r, k)' = JobAt(r, k + m)
    BY <2>1, <2>2 DEF Moved
  <2>4. q = r /\ i + n = k + m BY <2>3 DEF ClaimInv, ClaimsAreDistinct
  <2>5. k + n \in Slots(q) /\ JobAt(r, k)' = JobAt(q, k + n) BY <2>1, <2>4 DEF Moved
  <2>6. i + n = k + n BY <2>3, <2>5 DEF ClaimInv, ClaimsAreDistinct
  <2>7. i \in Nat /\ k \in Nat BY DEF Slots
  <2>8. QED BY <2>4, <2>6, <2>7
<1>3. QED BY <1>1, <1>2

\* The same but for slot s, in which p now has j.
Joined(p, j, s, n) ==
    \A i \in Slots(p)' : \/ i = s /\ JobAt(p, i)' = j
                         \/ i + n \in Slots(p) /\ JobAt(p, i)' = JobAt(p, i + n)

\* The one step that adds a slot: p claims j, which nobody held.
LEMMA ClaimSuffices ==
    ASSUME TypeOK, ClaimInv, NEW p \in Proc, NEW j \in Job, NEW s, NEW n \in {0, 1},
           Requeued(db)[j].status = "queued",
           db' = Claimed(Requeued(db), j, p),
           \A q \in Proc \ {p} : Moved(q, 0),
           Joined(p, j, s, n)
    PROVE  ClaimsAreHeld' /\ ClaimsAreDistinct'
<1>1. /\ db'[j].status = "running" /\ db'[j].worker = p /\ db'[j].lease = "live"
      /\ \A k \in Job \ {j} : db'[k] = Requeued(db)[k]
  <2>1. Requeued(db) \in [Job -> Row] BY RequeuedType DEF TypeOK
  <2>2. QED BY <2>1, ClaimedType
<1>2. ASSUME NEW q \in Proc, NEW i \in Slots(q)
      PROVE  JobAt(q, i) # j /\ Holds(db', q, JobAt(q, i))
  <2>1. Holds(db, q, JobAt(q, i)) /\ JobAt(q, i) \in Job
    BY SlotFacts DEF ClaimInv, ClaimsAreHeld
  <2>2. Requeued(db)[JobAt(q, i)] = db[JobAt(q, i)] BY <2>1 DEF Holds, Requeued
  <2>3. JobAt(q, i) # j BY <2>1, <2>2 DEF Holds
  <2>4. QED BY <1>1, <2>1, <2>2, <2>3 DEF Holds
<1>3. ASSUME NEW q \in Proc, NEW i \in Slots(q)'
      PROVE  \/ q = p /\ i = s /\ JobAt(q, i)' = j
             \/ \E m \in {0, 1} : /\ q = p => m = n
                                  /\ q # p => m = 0
                                  /\ i + m \in Slots(q) /\ JobAt(q, i)' = JobAt(q, i + m)
  <2>1. CASE q = p BY <2>1 DEF Joined
  <2>2. CASE q # p BY <2>2 DEF Moved
  <2>3. QED BY <2>1, <2>2
<1>4. ClaimsAreHeld'
  <2> SUFFICES ASSUME NEW q \in Proc, NEW i \in Slots(q)'
               PROVE  Holds(db, q, JobAt(q, i))'
    BY DEF ClaimsAreHeld
  <2>1. Holds(db', q, JobAt(q, i)') BY <1>1, <1>2, <1>3 DEF Holds
  <2>2. QED BY <2>1 DEF Holds
<1>5. ClaimsAreDistinct'
  <2> SUFFICES ASSUME NEW q \in Proc, NEW r \in Proc,
                      NEW i \in Slots(q)', NEW k \in Slots(r)', JobAt(q, i)' = JobAt(r, k)'
               PROVE  q = r /\ i = k
    BY DEF ClaimsAreDistinct
  <2>0. i \in Nat /\ k \in Nat BY DEF Slots
  <2>1. CASE JobAt(q, i)' = j
    <3>1. q = p /\ i = s BY <1>2, <1>3, <2>1
    <3>2. r = p /\ k = s BY <1>2, <1>3, <2>1
    <3>3. QED BY <3>1, <3>2
  <2>2. CASE JobAt(q, i)' # j
    <3>1. PICK m \in {0, 1} : /\ q = p => m = n
                              /\ q # p => m = 0
                              /\ i + m \in Slots(q) /\ JobAt(q, i)' = JobAt(q, i + m)
      BY <1>3, <2>2
    <3>2. PICK l \in {0, 1} : /\ r = p => l = n
                              /\ r # p => l = 0
                              /\ k + l \in Slots(r) /\ JobAt(r, k)' = JobAt(r, k + l)
      BY <1>3, <2>2
    <3>3. i + m \in Slots(q) /\ k + l \in Slots(r) /\ JobAt(q, i + m) = JobAt(r, k + l)
      BY <3>1, <3>2
    <3>4. q = r /\ i + m = k + l BY ONLY <3>3, ClaimInv, q \in Proc, r \in Proc DEF ClaimInv, ClaimsAreDistinct
    <3>5. m = l BY <3>1, <3>2, <3>4
    <3>6. QED BY <2>0, <3>4, <3>5
  <2>3. QED BY <2>1, <2>2
<1>6. QED BY <1>4, <1>5

LEMMA SameSlots ==
    ASSUME NEW q \in Proc, pool'[q] = pool[q], run'[q] = run[q]
    PROVE  Moved(q, 0)
<1>1. \A i \in Slots(q)' : i \in Slots(q) /\ JobAt(q, i)' = JobAt(q, i) /\ i + 0 = i
  BY DEF Slots, JobAt, Busy
<1>2. QED BY <1>1 DEF Moved

\* Steps that touch neither the queues nor what the executors work on.
LEMMA SlotsUnchanged ==
    ASSUME UNCHANGED <<pool, run>>
    PROVE  NoneBegins
BY SameSlots DEF NoneBegins

\* Steps of a busy executor.
LEMMA SlotsOfRun ==
    ASSUME NEW p \in Proc, UNCHANGED pool, Busy(p), Busy(p)' => run'[p].job = run[p].job,
           \A q \in Proc \ {p} : run'[q] = run[q]
    PROVE  NoneBegins
<1>1. ASSUME NEW q \in Proc PROVE Moved(q, 0)
  <2>1. Busy(q)' => Busy(q) /\ run'[q].job = run[q].job BY DEF Busy
  <2>2. ASSUME NEW i \in Slots(q)' PROVE i \in Slots(q) /\ JobAt(q, i)' = JobAt(q, i) /\ i + 0 = i
    BY <2>1 DEF Slots, JobAt
  <2>3. QED BY <2>2 DEF Moved
<1>2. QED BY <1>1 DEF NoneBegins

LEMMA RowsUnchanged ==
    ASSUME ClaimInv, UNCHANGED db
    PROVE  RowsKept
BY DEF ClaimInv, ClaimsAreHeld, RowsKept

\* Deleting rows takes no claim away.
LEMMA WithoutKeepsRows ==
    ASSUME TypeOK, ClaimInv, NEW S, db' = Without(db, S)
    PROVE  RowsKept
<1> SUFFICES ASSUME NEW q \in Proc, NEW i \in Slots(q) PROVE Holds(db', q, JobAt(q, i))
  BY DEF RowsKept
<1>1. JobAt(q, i) \in Job /\ Holds(db, q, JobAt(q, i))
  BY SlotFacts DEF ClaimInv, ClaimsAreHeld
<1>2. QED BY <1>1 DEF Holds, Without, Blank

\* Nor does a write that leaves worker and lease of a claimed row alone.
LEMMA StatusKeepsRows ==
    ASSUME TypeOK, ClaimInv, NEW j \in Job, NEW st \in {"running", "cancelled"},
           db[j].status \in Stored, db' = [db EXCEPT ![j].status = st]
    PROVE  RowsKept
<1> SUFFICES ASSUME NEW q \in Proc, NEW i \in Slots(q) PROVE Holds(db', q, JobAt(q, i))
  BY DEF RowsKept
<1>1. JobAt(q, i) \in Job /\ Holds(db, q, JobAt(q, i))
  BY SlotFacts DEF ClaimInv, ClaimsAreHeld
<1>2. /\ db'[j].status = st /\ db'[j].worker = db[j].worker /\ db'[j].lease = db[j].lease
      /\ \A k \in Job \ {j} : db'[k] = db[k]
  BY DEF TypeOK, Row
<1>3. QED BY <1>1, <1>2 DEF Holds

\* The executor of p takes the first task of its queue, or drops it.
LEMMA SlotsDequeued ==
    ASSUME TypeOK, NEW p \in Proc, pool[p] # <<>>, ~Busy(p), Dequeue(p)
    PROVE  /\ pool[p] \in Seq(Task) /\ Head(pool[p]).job \in Job
           /\ Head(pool[p]).claimed => 1 \in Slots(p) /\ JobAt(p, 1) = Head(pool[p]).job
           /\ \A i \in Slots(p)' : i # 0 =>
                  i + 1 \in Slots(p) /\ JobAt(p, i)' = JobAt(p, i + 1)
           /\ \A q \in Proc \ {p} : pool'[q] = pool[q]
<1>1. /\ pool[p] \in Seq(Task) /\ pool'[p] = Tail(pool[p])
      /\ \A q \in Proc \ {p} : pool'[q] = pool[q]
  BY DEF TypeOK, Dequeue
<1>2. /\ Len(pool[p]) \in Nat \ {0} /\ Head(pool[p]) = pool[p][1] /\ Head(pool[p]) \in Task
      /\ Len(pool'[p]) = Len(pool[p]) - 1
      /\ \A i \in 1..Len(pool[p]) - 1 : pool'[p][i] = pool[p][i + 1]
  BY <1>1
<1>3. Head(pool[p]).claimed => 1 \in Slots(p) /\ JobAt(p, 1) = Head(pool[p]).job
  BY <1>2 DEF Slots, JobAt
<1>4. ASSUME NEW i \in Slots(p)', i # 0
      PROVE  i + 1 \in Slots(p) /\ JobAt(p, i)' = JobAt(p, i + 1)
  <2>1. i \in 1..Len(pool[p]) - 1 /\ pool'[p][i].claimed BY <1>2, <1>4 DEF Slots
  <2>2. /\ i + 1 \in 0..Len(pool[p]) /\ i + 1 # 0 /\ pool'[p][i] = pool[p][i + 1]
    BY <1>2, <2>1
  <2>3. i + 1 \in Slots(p) BY <2>1, <2>2 DEF Slots
  <2>4. JobAt(p, i)' = pool'[p][i].job BY <1>4 DEF JobAt
  <2>5. JobAt(p, i + 1) = pool[p][i + 1].job BY <2>2 DEF JobAt
  <2>6. QED BY <2>2, <2>3, <2>4, <2>5
<1>5. QED BY <1>1, <1>2, <1>3, <1>4 DEF Task

\* A task is added to the queue of p.
LEMMA SlotsAppended ==
    ASSUME TypeOK, UNCHANGED run, NEW p \in Proc, NEW j \in Job, NEW c \in BOOLEAN,
           pool' = [pool EXCEPT ![p] = Append(@, [job |-> j, claimed |-> c])]
    PROVE  /\ \A q \in Proc \ {p} : Moved(q, 0)
           /\ c => Joined(p, j, Len(pool[p]) + 1, 0)
           /\ ~c => Moved(p, 0)
<1>1. ASSUME NEW q \in Proc, q # p PROVE Moved(q, 0)
  <2>1. pool'[q] = pool[q] BY <1>1 DEF TypeOK
  <2>2. QED BY <2>1, SameSlots
<1>2. /\ pool[p] \in Seq(Task) /\ Len(pool[p]) \in Nat
      /\ pool'[p] = Append(pool[p], [job |-> j, claimed |-> c])
  BY DEF TypeOK
<1>3. /\ Len(pool'[p]) = Len(pool[p]) + 1
      /\ pool'[p][Len(pool[p]) + 1] = [job |-> j, claimed |-> c]
      /\ \A i \in 1..Len(pool[p]) : pool'[p][i] = pool[p][i]
  BY <1>2
<1>4. ASSUME NEW i \in Slots(p)'
      PROVE  \/ c /\ i = Len(pool[p]) + 1 /\ JobAt(p, i)' = j
             \/ i + 0 \in Slots(p) /\ JobAt(p, i)' = JobAt(p, i + 0)
  <2>1. i \in 0..Len(pool[p]) + 1 /\ i + 0 = i BY <1>2, <1>3 DEF Slots
  <2>2. CASE i = 0 BY <1>2, <2>1, <2>2 DEF Slots, JobAt, Busy
  <2>3. CASE i \in 1..Len(pool[p])
    <3>1. pool'[p][i] = pool[p][i] /\ i # 0 /\ i \in 0..Len(pool[p]) BY <1>2, <1>3, <2>3
    <3>2. pool'[p][i].claimed BY <3>1 DEF Slots
    <3>3. QED BY <2>1, <3>1, <3>2 DEF Slots, JobAt
  <2>4. CASE i = Len(pool[p]) + 1
    <3>1. pool'[p][i].claimed /\ JobAt(p, i)' = pool'[p][i].job
      BY <1>2, <2>4 DEF Slots, JobAt
    <3>2. QED BY <1>3, <2>4, <3>1
  <2>5. QED BY <1>2, <2>1, <2>2, <2>3, <2>4
<1>5. QED BY <1>1, <1>4 DEF Joined, Moved
----------------------------------------------------------------------------
LEMMA StartupClaimStep ==
    ASSUME TypeOK, ClaimInv, NEW p \in Proc, Startup(p)
    PROVE  ClaimInv'
<1>1. CASE StartProcess(p)
  <2>1. AppendsOfOwnRun'
    BY <1>1 DEF ClaimInv, StartProcess, AppendsOfOwnRun, TypeOK, Free, Busy
  <2>2. QED
    BY <1>1, <2>1, SlotsUnchanged, RowsUnchanged, NoneBeginsSuffices DEF ClaimInv, StartProcess
<1>2. CASE SeedSequence(p)
  <2>1. AppendsOfOwnRun'
    BY <1>2 DEF ClaimInv, SeedSequence, AppendsOfOwnRun, TypeOK, Free, Busy
  <2>2. QED
    BY <1>2, <2>1, SlotsUnchanged, RowsUnchanged, NoneBeginsSuffices DEF ClaimInv, SeedSequence
<1>3. ASSUME NEW S \in SUBSET Job, CleanUp(p, S) PROVE ClaimInv'
  <2>1. RowsKept BY <1>3, WithoutKeepsRows DEF CleanUp
  <2>2. AppendsOfOwnRun' BY <1>3 DEF ClaimInv, CleanUp, AppendsOfOwnRun, Busy
  <2>3. QED BY <1>3, <2>1, <2>2, SlotsUnchanged, NoneBeginsSuffices DEF ClaimInv, CleanUp
<1>4. CASE StartupClaim(p)
  <2>1. PICK j \in Job :
           /\ Requeued(db)[j].status = "queued"
           /\ db' = Claimed(Requeued(db), j, p)
           /\ pool' = [pool EXCEPT ![p] = Append(@, [job |-> j, claimed |-> TRUE])]
    BY <1>4 DEF StartupClaim
  <2>2. UNCHANGED <<run, section>> BY <1>4 DEF StartupClaim
  <2>3. (\A q \in Proc \ {p} : Moved(q, 0)) /\ Joined(p, j, Len(pool[p]) + 1, 0)
    BY <2>1, <2>2, SlotsAppended
  <2>4. ClaimsAreHeld' /\ ClaimsAreDistinct' BY <2>1, <2>3, ClaimSuffices
  <2>5. AppendsOfOwnRun' BY <2>2 DEF ClaimInv, AppendsOfOwnRun, Busy
  <2>6. QED BY <2>4, <2>5 DEF ClaimInv
<1>5. CASE StartupDone(p)
  <2>1. AppendsOfOwnRun' BY <1>5 DEF ClaimInv, StartupDone, AppendsOfOwnRun, Busy
  <2>2. QED
    BY <1>5, <2>1, SlotsUnchanged, RowsUnchanged, NoneBeginsSuffices DEF ClaimInv, StartupDone
<1>6. QED BY <1>1, <1>2, <1>3, <1>4, <1>5 DEF Startup

LEMMA RequestClaimStep ==
    ASSUME TypeOK, ClaimInv, NEW p \in Proc, Request(p)
    PROVE  ClaimInv'
<1>1. ASSUME NEW j \in Job, Create(p, j) PROVE ClaimInv'
  <2>1. RowsKept
    <3> SUFFICES ASSUME NEW q \in Proc, NEW i \in Slots(q) PROVE Holds(db', q, JobAt(q, i))
      BY DEF RowsKept
    <3>1. Holds(db, q, JobAt(q, i)) BY DEF ClaimInv, ClaimsAreHeld
    <3>2. JobAt(q, i) # j BY <1>1, <3>1 DEF Create, Holds
    <3>3. db'[JobAt(q, i)] = db[JobAt(q, i)] BY <1>1, <3>2, SlotFacts DEF Create, TypeOK
    <3>4. QED BY <3>1, <3>3 DEF Holds
  <2>2. AppendsOfOwnRun' BY <1>1 DEF ClaimInv, Create, AppendsOfOwnRun, TypeOK, Free, Busy
  <2>3. QED BY <1>1, <2>1, <2>2, SlotsUnchanged, NoneBeginsSuffices DEF ClaimInv, Create
<1>2. ASSUME NEW j \in Job, Cancel(p, j) PROVE ClaimInv'
  <2>1. RowsKept BY <1>2, StatusKeepsRows DEF Cancel
  <2>2. AppendsOfOwnRun' BY <1>2 DEF ClaimInv, Cancel, AppendsOfOwnRun, Busy
  <2>3. QED BY <1>2, <2>1, <2>2, SlotsUnchanged, NoneBeginsSuffices DEF ClaimInv, Cancel
<1>3. ASSUME NEW j \in Job, CheckDelete(p, j) PROVE ClaimInv'
  <2>1. AppendsOfOwnRun'
    BY <1>3 DEF ClaimInv, CheckDelete, AppendsOfOwnRun, TypeOK, Free, Busy
  <2>2. QED
    BY <1>3, <2>1, SlotsUnchanged, RowsUnchanged, NoneBeginsSuffices DEF ClaimInv, CheckDelete
<1>4. QED BY <1>1, <1>2, <1>3 DEF Request, Retry

LEMMA SecondTransactionClaimStep ==
    ASSUME TypeOK, ClaimInv, NEW p \in Proc, SecondTransaction(p)
    PROVE  ClaimInv'
<1>1. CASE FinishCreate(p)
  <2>1. RowsKept BY <1>1, WithoutKeepsRows DEF FinishCreate
  <2>2. section[p].job \in Job BY <1>1 DEF FinishCreate, TypeOK, Section
  <2>3. NoneBegins
    <3>1. (\A q \in Proc \ {p} : Moved(q, 0)) /\ Moved(p, 0)
      BY <1>1, <2>2, SlotsAppended DEF FinishCreate
    <3>2. QED BY <3>1 DEF NoneBegins
  <2>4. AppendsOfOwnRun' BY <1>1 DEF ClaimInv, FinishCreate, AppendsOfOwnRun, TypeOK, Free, Busy
  <2>5. QED BY <2>1, <2>3, <2>4, NoneBeginsSuffices DEF ClaimInv
<1>2. CASE Delete(p)
  <2>1. RowsKept BY <1>2, WithoutKeepsRows DEF Delete
  <2>2. AppendsOfOwnRun' BY <1>2 DEF ClaimInv, Delete, AppendsOfOwnRun, TypeOK, Free, Busy
  <2>3. QED BY <1>2, <2>1, <2>2, SlotsUnchanged, NoneBeginsSuffices DEF ClaimInv, Delete
<1>3. CASE WriteAppend(p)
  <2>1. section[p].job \in Job /\ section[p].status \in {"running", "cancelled"}
    BY <1>3, AppendShape DEF ClaimInv, WriteAppend, AppendsOfOwnRun, TypeOK
  <2>2. RowsKept
    <3>1. CASE db[section[p].job].status \in Stored
      BY <1>3, <2>1, <3>1, StatusKeepsRows DEF WriteAppend
    <3>2. CASE db[section[p].job].status \notin Stored
      BY <1>3, <3>2, RowsUnchanged DEF WriteAppend
    <3>3. QED BY <3>1, <3>2
  <2>3. AppendsOfOwnRun' BY <1>3 DEF ClaimInv, WriteAppend, AppendsOfOwnRun, TypeOK, Free, Busy
  <2>4. QED BY <1>3, <2>2, <2>3, SlotsUnchanged, NoneBeginsSuffices DEF ClaimInv, WriteAppend
<1>4. CASE Prune(p)
  <2>1. RowsKept BY <1>4, WithoutKeepsRows DEF Prune
  <2>2. AppendsOfOwnRun' BY <1>4 DEF ClaimInv, Prune, AppendsOfOwnRun, TypeOK, Free, Busy
  <2>3. QED BY <1>4, <2>1, <2>2, SlotsUnchanged, NoneBeginsSuffices DEF ClaimInv, Prune
<1>5. QED BY <1>1, <1>2, <1>3, <1>4 DEF SecondTransaction

\* The executor of p goes to work on the first task of its queue.
LEMMA WorkFacts ==
    ASSUME TypeOK, NEW p \in Proc, NEW j \in Job, Work(p, j)
    PROVE  /\ run'[p].job = j /\ Busy(p)'
           /\ \A q \in Proc \ {p} : run'[q] = run[q]
BY DEF Work, TypeOK, Idle, Busy

LEMMA BeginClaimStep ==
    ASSUME TypeOK, ClaimInv, NEW p \in Proc,
           RunClaimed(p) \/ ClaimAndRun(p) \/ ClaimRefused(p)
    PROVE  ClaimInv'
<1> DEFINE j == Head(pool[p]).job
<1>1. pool[p] # <<>> /\ ~Busy(p) /\ Dequeue(p) /\ UNCHANGED section
  BY DEF RunClaimed, ClaimAndRun, ClaimRefused, Ready
<1>2. /\ j \in Job
      /\ Head(pool[p]).claimed => 1 \in Slots(p) /\ JobAt(p, 1) = j
      /\ \A i \in Slots(p)' : i # 0 => i + 1 \in Slots(p) /\ JobAt(p, i)' = JobAt(p, i + 1)
      /\ \A q \in Proc \ {p} : pool'[q] = pool[q]
  BY <1>1, SlotsDequeued
<1> HIDE DEF j
<1>3. JobAt(p, 0)' = run'[p].job /\ (0 \in Slots(p)' => Busy(p)') BY DEF JobAt, Slots
<1>4. CASE RunClaimed(p)
  <2>1. Work(p, j) /\ Head(pool[p]).claimed /\ UNCHANGED db
    BY <1>4 DEF RunClaimed, NextTask, j
  <2>2. /\ run'[p].job = j
        /\ \A q \in Proc \ {p} : run'[q] = run[q]
    BY <1>2, <2>1, WorkFacts
  <2>3. Moved(p, 1)
    <3> SUFFICES ASSUME NEW i \in Slots(p)'
                 PROVE  i + 1 \in Slots(p) /\ JobAt(p, i)' = JobAt(p, i + 1)
      BY DEF Moved
    <3>1. CASE i = 0 BY <1>2, <1>3, <2>1, <2>2, <3>1
    <3>2. CASE i # 0 BY <1>2, <3>2
    <3>3. QED BY <3>1, <3>2
  <2>4. NoneBegins BY <1>2, <2>2, <2>3, SameSlots DEF NoneBegins
  <2>5. AppendsOfOwnRun' BY <1>1, <2>2 DEF ClaimInv, AppendsOfOwnRun, Busy
  <2>6. QED BY <2>1, <2>4, <2>5, RowsUnchanged, NoneBeginsSuffices DEF ClaimInv
<1>5. CASE ClaimAndRun(p)
  <2>1. /\ Work(p, j) /\ Requeued(db)[j].status = "queued"
        /\ db' = Claimed(Requeued(db), j, p)
    BY <1>5 DEF ClaimAndRun, NextTask, j
  <2>2. /\ run'[p].job = j
        /\ \A q \in Proc \ {p} : run'[q] = run[q]
    BY <1>2, <2>1, WorkFacts
  <2>3. \A q \in Proc \ {p} : Moved(q, 0) BY <1>2, <2>2, SameSlots
  <2>4. Joined(p, j, 0, 1)
    <3> SUFFICES ASSUME NEW i \in Slots(p)'
                 PROVE  \/ i = 0 /\ JobAt(p, i)' = j
                        \/ i + 1 \in Slots(p) /\ JobAt(p, i)' = JobAt(p, i + 1)
      BY DEF Joined
    <3>1. CASE i = 0 BY <1>3, <2>2, <3>1
    <3>2. CASE i # 0 BY <1>2, <3>2
    <3>3. QED BY <3>1, <3>2
  <2>5. ClaimsAreHeld' /\ ClaimsAreDistinct' BY <1>2, <2>1, <2>3, <2>4, ClaimSuffices
  <2>6. AppendsOfOwnRun' BY <1>1, <2>2 DEF ClaimInv, AppendsOfOwnRun, Busy
  <2>7. QED BY <2>5, <2>6 DEF ClaimInv
<1>6. CASE ClaimRefused(p)
  <2>1. UNCHANGED <<db, run>> BY <1>6 DEF ClaimRefused
  <2>2. Moved(p, 1)
    <3> SUFFICES ASSUME NEW i \in Slots(p)'
                 PROVE  i + 1 \in Slots(p) /\ JobAt(p, i)' = JobAt(p, i + 1)
      BY DEF Moved
    <3>1. i # 0 BY <1>1, <1>3, <2>1 DEF Busy
    <3>2. QED BY <1>2, <3>1
  <2>3. NoneBegins BY <1>2, <2>1, <2>2, SameSlots DEF NoneBegins
  <2>4. AppendsOfOwnRun' BY <1>1, <2>1 DEF ClaimInv, AppendsOfOwnRun, Busy
  <2>5. QED BY <2>1, <2>3, <2>4, RowsUnchanged, NoneBeginsSuffices DEF ClaimInv
<1>7. QED BY <1>4, <1>5, <1>6

LEMMA ExecutorClaimStep ==
    ASSUME TypeOK, ClaimInv, NEW p \in Proc, Executor(p)
    PROVE  ClaimInv'
<1>0. /\ \A q \in Proc : Busy(q) => run[q].job \in Job /\ Holds(db, q, run[q].job)
      /\ \A q \in Proc : ~LockFree(q) \/ section[q].op # "append"
  BY SlotFacts DEF ClaimInv, ClaimsAreHeld, LockFree
<1>1. CASE RunClaimed(p) \/ ClaimAndRun(p) \/ ClaimRefused(p) BY <1>1, BeginClaimStep
<1>2. CASE ReadForAppend(p)
  <2>1. /\ Busy(p) /\ Busy(p)' /\ run'[p].job = run[p].job
        /\ \A q \in Proc \ {p} : run'[q] = run[q]
    BY <1>2 DEF ReadForAppend, Busy, TypeOK, Run, Idle
  <2>2. NoneBegins BY <1>2, <2>1, SlotsOfRun DEF ReadForAppend
  <2>3. AppendsOfOwnRun'
    <3> SUFFICES ASSUME NEW q \in Proc, section'[q].op = "append"
                 PROVE  /\ Busy(q)' /\ section'[q].job = run'[q].job
                        /\ section'[q].status \in {"running", "cancelled"}
      BY DEF AppendsOfOwnRun
    <3>1. CASE q # p
      BY <1>2, <2>1, <3>1 DEF ClaimInv, ReadForAppend, AppendsOfOwnRun, Busy, TypeOK
    <3>2. CASE q = p
      <4>1. section'[p] # section[p] BY <1>0, <1>2, <3>2 DEF ReadForAppend
      <4>2. /\ db[run[p].job].status \in Stored
            /\ section'[p] = [Free EXCEPT !.op = "append", !.job = run[p].job,
                                          !.status = db[run[p].job].status]
        BY <1>2, <4>1 DEF ReadForAppend, TypeOK
      <4>3. db[run[p].job].status \in {"running", "cancelled"}
        BY <1>0, <2>1, <4>2 DEF Holds
      <4>4. QED BY <2>1, <3>2, <4>2, <4>3 DEF Free
    <3>3. QED BY <3>1, <3>2
  <2>4. QED BY <1>2, <2>2, <2>3, RowsUnchanged, NoneBeginsSuffices DEF ClaimInv, ReadForAppend
<1>3. CASE NoFailureEvent(p)
  <2>1. /\ Busy(p) /\ Busy(p)' /\ run'[p].job = run[p].job
        /\ \A q \in Proc \ {p} : run'[q] = run[q]
    BY <1>3 DEF NoFailureEvent, Busy, TypeOK, Run, Idle
  <2>2. NoneBegins BY <1>3, <2>1, SlotsOfRun DEF NoFailureEvent
  <2>3. AppendsOfOwnRun' BY <1>3, <2>1 DEF ClaimInv, NoFailureEvent, AppendsOfOwnRun, Busy
  <2>4. QED BY <1>3, <2>2, <2>3, RowsUnchanged, NoneBeginsSuffices DEF ClaimInv, NoFailureEvent
<1>4. ASSUME NEW verdict \in Verdicts, EndWorkflow(p, verdict) PROVE ClaimInv'
  <2>1. /\ Busy(p) /\ (Busy(p)' => run'[p].job = run[p].job)
        /\ \A q \in Proc \ {p} : run'[q] = run[q]
    BY <1>4 DEF EndWorkflow, Stop, Conclude, Busy, TypeOK, Run, Idle
  <2>2. NoneBegins BY <1>4, <2>1, SlotsOfRun DEF EndWorkflow
  <2>3. AppendsOfOwnRun'
    BY <1>0, <1>4, <2>1 DEF ClaimInv, EndWorkflow, AppendsOfOwnRun, Busy
  <2>4. QED BY <1>4, <2>2, <2>3, RowsUnchanged, NoneBeginsSuffices DEF ClaimInv, EndWorkflow
<1>5. CASE RejectReport(p)
  <2>1. /\ Busy(p) /\ run'[p].job = run[p].job
        /\ \A q \in Proc \ {p} : run'[q] = run[q]
    BY <1>5 DEF RejectReport, Conclude, Busy, TypeOK, Run, Idle
  <2>2. NoneBegins BY <1>5, <2>1, SlotsOfRun DEF RejectReport
  <2>3. AppendsOfOwnRun'
    BY <1>0, <1>5, <2>1 DEF ClaimInv, RejectReport, AppendsOfOwnRun, Busy
  <2>4. QED BY <1>5, <2>2, <2>3, RowsUnchanged, NoneBeginsSuffices DEF ClaimInv, RejectReport
<1>6. CASE WriteVerdict(p)
  <2>1. /\ Busy(p) /\ ~Busy(p)'
        /\ \A q \in Proc \ {p} : run'[q] = run[q]
    BY <1>6 DEF WriteVerdict, Stop, Busy, TypeOK, Idle
  <2>2. \A k \in Job : k # run[p].job => db'[k] = db[k]
    BY <1>6 DEF WriteVerdict, TypeOK
  <2>3. ClaimsAreHeld' /\ ClaimsAreDistinct'
    <3>1. NoneBegins BY <1>6, <2>1, SlotsOfRun DEF WriteVerdict
    <3>2. ASSUME NEW q \in Proc, NEW i \in Slots(q), q # p \/ i # 0
          PROVE  Holds(db', q, JobAt(q, i))
      <4>1. Holds(db, q, JobAt(q, i)) /\ JobAt(q, i) \in Job
        BY SlotFacts DEF ClaimInv, ClaimsAreHeld
      <4>2. 0 \in Slots(p) /\ JobAt(p, 0) = run[p].job BY <2>1, SlotFacts
      <4>3. JobAt(q, i) # run[p].job BY <3>2, <4>2 DEF ClaimInv, ClaimsAreDistinct
      <4>4. QED BY <2>2, <4>1, <4>3 DEF Holds
    <3>3. ASSUME NEW q \in Proc, NEW i \in Slots(q)'
          PROVE  i \in Slots(q) /\ JobAt(q, i)' = JobAt(q, i) /\ (q # p \/ i # 0)
      <4>1. Busy(q)' => Busy(q) /\ run'[q].job = run[q].job BY <2>1 DEF Busy
      <4>2. pool'[q] = pool[q] BY <1>6 DEF WriteVerdict
      <4>3. i \in Slots(q) /\ JobAt(q, i)' = JobAt(q, i) BY <3>3, <4>1, <4>2 DEF Slots, JobAt
      <4>4. q = p => i # 0 BY <2>1, <3>3 DEF Slots
      <4>5. QED BY <4>3, <4>4
    <3>4. ASSUME NEW q \in Proc, NEW i \in Slots(q)' PROVE Holds(db, q, JobAt(q, i))'
      BY <3>2, <3>3 DEF Holds
    <3>5. ClaimsAreHeld' BY <3>4 DEF ClaimsAreHeld
    <3>6. ClaimsAreDistinct' BY <3>3 DEF ClaimInv, ClaimsAreDistinct
    <3>7. QED BY <3>5, <3>6
  <2>4. AppendsOfOwnRun'
    BY <1>0, <1>6, <2>1 DEF ClaimInv, WriteVerdict, AppendsOfOwnRun, Busy, Free, TypeOK
  <2>5. QED BY <2>3, <2>4 DEF ClaimInv
<1>7. CASE Heartbeat(p)
  <2>1. /\ \A k \in Job : k # run[p].job => db'[k] = db[k]
        /\ db'[run[p].job].status = db[run[p].job].status
        /\ db'[run[p].job].worker = db[run[p].job].worker
        /\ db'[run[p].job].lease = "live"
    BY <1>0, <1>7 DEF Heartbeat, TypeOK, Row
  <2>2. RowsKept BY <2>1, SlotFacts DEF ClaimInv, ClaimsAreHeld, RowsKept, Holds
  <2>3. AppendsOfOwnRun' BY <1>7 DEF ClaimInv, Heartbeat, AppendsOfOwnRun, Busy
  <2>4. QED BY <1>7, <2>2, <2>3, SlotsUnchanged, NoneBeginsSuffices DEF ClaimInv, Heartbeat
<1>8. QED BY <1>1, <1>2, <1>3, <1>4, <1>5, <1>6, <1>7 DEF Executor

\* A claim that is held and that its owner tends, or has yet to begin, does not lapse.
LEMMA LapseClaimStep ==
    ASSUME TypeOK, ClaimInv, TimelyHeartbeats, ShortWaits, NEW j \in Job, Lapse(j)
    PROVE  ClaimInv'
<1>1. RowsKept
  <2> SUFFICES ASSUME NEW q \in Proc, NEW i \in Slots(q) PROVE Holds(db', q, JobAt(q, i))
    BY DEF RowsKept
  <2>1. Holds(db, q, JobAt(q, i)) /\ JobAt(q, i) \in Job
    BY SlotFacts DEF ClaimInv, ClaimsAreHeld
  <2>2. CASE JobAt(q, i) = j
    <3>1. db[j].worker # q
      <4> SUFFICES ASSUME db[j].worker = q PROVE Tended(j) \/ Waiting(j)
        BY DEF Lapse
      <4>1. CASE i = 0 BY <2>2, <4>1, SlotFacts DEF Tended
      <4>2. CASE i # 0
        <5>1. i \in 1..Len(pool[q]) /\ pool[q][i].claimed BY <4>2, SlotFacts DEF Slots
        <5>2. pool[q][i] \in Task /\ pool[q][i].job = j
          BY <2>2, <4>2, <5>1, SlotFacts DEF JobAt
        <5>3. pool[q][i] = [job |-> j, claimed |-> TRUE] BY <5>1, <5>2 DEF Task
        <5>4. QED BY <5>1, <5>3 DEF Waiting
      <4>3. QED BY <4>1, <4>2
    <3>2. db[j].status = "deleted" BY <2>1, <2>2, <3>1 DEF Holds
    <3>3. db'[j].status = "deleted" BY <3>2 DEF Lapse, TypeOK, Row
    <3>4. QED BY <2>2, <3>3 DEF Holds
  <2>3. CASE JobAt(q, i) # j
    <3>1. db'[JobAt(q, i)] = db[JobAt(q, i)] BY <2>1, <2>3 DEF Lapse, TypeOK
    <3>2. QED BY <2>1, <3>1 DEF Holds
  <2>4. QED BY <2>2, <2>3
<1>2. AppendsOfOwnRun' BY DEF ClaimInv, Lapse, AppendsOfOwnRun, Busy
<1>3. QED BY <1>1, <1>2, SlotsUnchanged, NoneBeginsSuffices DEF ClaimInv, Lapse

LEMMA ClaimStep ==
    ASSUME TypeOK, ClaimInv, TimelyHeartbeats, ShortWaits, [Next]_vars
    PROVE  ClaimInv'
<1>1. ASSUME NEW p \in Proc, Crash(p) PROVE ClaimInv'
  <2>1. /\ ~Busy(p)' /\ pool'[p] = <<>>
        /\ \A q \in Proc \ {p} : run'[q] = run[q] /\ pool'[q] = pool[q]
    BY <1>1 DEF Crash, Busy, TypeOK, Idle
  <2>2. Slots(p)' = {} BY <2>1 DEF Slots
  <2>3. NoneBegins BY <2>1, <2>2, SameSlots DEF NoneBegins, Moved
  <2>4. AppendsOfOwnRun' BY <1>1, <2>1 DEF ClaimInv, Crash, AppendsOfOwnRun, Busy, Free, TypeOK
  <2>5. QED BY <1>1, <2>3, <2>4, RowsUnchanged, NoneBeginsSuffices DEF ClaimInv, Crash
<1>2. CASE UNCHANGED vars
  <2>1. AppendsOfOwnRun' BY <1>2 DEF vars, ClaimInv, AppendsOfOwnRun, Busy
  <2>2. QED BY <1>2, <2>1, SlotsUnchanged, RowsUnchanged, NoneBeginsSuffices DEF ClaimInv, vars
<1>3. QED
  BY <1>1, <1>2, LapseClaimStep, StartupClaimStep, RequestClaimStep,
     SecondTransactionClaimStep, ExecutorClaimStep DEF Next

LEMMA ClaimInit == Init => ClaimInv
<1> SUFFICES ASSUME Init PROVE ClaimInv
  OBVIOUS
<1>1. \A p \in Proc : ~Busy(p) /\ pool[p] = <<>> BY DEF Init, Busy, Idle
<1>2. \A p \in Proc : Slots(p) = {} BY <1>1 DEF Slots
<1>3. QED
  BY <1>1, <1>2 DEF Init, ClaimInv, ClaimsAreHeld, ClaimsAreDistinct, AppendsOfOwnRun, Free
----------------------------------------------------------------------------
\* With timely heartbeats, and leases that outlast the wait of the jobs claimed at
\* start-up, no two executors ever work on the same job, however many processes share
\* the database and whichever of them die.
THEOREM OneWorker ==
    ASSUME TimelyHeartbeats, ShortWaits
    PROVE  Spec => []OneWorkerPerJob
<1>1. Init => ClaimInv BY ClaimInit
<1>2. TypeOK /\ ClaimInv /\ [Next]_vars => ClaimInv' BY ClaimStep
<1>3. TypeOK /\ ClaimInv => OneWorkerPerJob BY OneWorkerHolds DEF ClaimInv
<1>4. QED BY <1>1, <1>2, <1>3, TypeCorrect, PTL DEF Spec

\* Under the same assumptions a verdict that an executor has reached on a job that
\* is neither cancelled nor deleted is recorded: the fenced write finds its claim.
THEOREM FinishedRecorded ==
    ASSUME TimelyHeartbeats, ShortWaits
    PROVE  Spec => FinishedWorkIsRecorded
<1> DEFINE Recorded ==
      \A p \in Proc :
          LET j == run[p].job
          IN  /\ run[p].at = "ending" /\ run'[p].at = "idle" /\ phase'[p] # "dead"
              /\ db[j].status \in Active
              => db'[j].status = run[p].verdict
<1>1. Init => ClaimInv BY ClaimInit
<1>2. TypeOK /\ ClaimInv /\ [Next]_vars => ClaimInv' BY ClaimStep
<1>3. TypeOK /\ ClaimInv /\ [Next]_vars => [Recorded]_vars
  <2> SUFFICES ASSUME TypeOK, ClaimInv, Next, NEW p \in Proc,
                      run[p].at = "ending", run'[p].at = "idle", phase'[p] # "dead",
                      db[run[p].job].status \in Active
               PROVE  db'[run[p].job].status = run[p].verdict
    BY DEF vars
  <2>1. run[p].job \in Job BY RunShape DEF TypeOK
  <2>2. Owns(p, run[p].job)
    <3>1. 0 \in Slots(p) /\ JobAt(p, 0) = run[p].job BY SlotFacts DEF Busy
    <3>2. QED BY <3>1 DEF ClaimInv, ClaimsAreHeld, Holds, Owns
  <2>3. WriteVerdict(p)
    <3>1. ASSUME NEW q \in Proc, q # p, run'[p] # run[p] PROVE ~Executor(q)
      BY <3>1 DEF Executor, RunClaimed, ClaimAndRun, ClaimRefused, ReadForAppend,
                  NoFailureEvent, EndWorkflow, RejectReport, WriteVerdict, Heartbeat,
                  Work, Stop, Conclude, TypeOK
    <3>2. run'[p] # run[p] OBVIOUS
    <3>3. ASSUME NEW q \in Proc, Crash(q) PROVE FALSE
      BY <3>2, <3>3 DEF Crash, TypeOK
    <3>4. PICK q \in Proc : Executor(q)
      BY <3>2, <3>3 DEF Next, Startup, StartProcess, SeedSequence, CleanUp, StartupClaim,
         StartupDone, Request, Retry, Create, Cancel, CheckDelete, SecondTransaction,
         FinishCreate, Delete, WriteAppend, Prune, Lapse
    <3>5. Executor(p) BY <3>1, <3>2, <3>4
    <3>6. QED
      BY <3>2, <3>5 DEF Executor, RunClaimed, ClaimAndRun, ClaimRefused, ReadForAppend,
                  NoFailureEvent, EndWorkflow, RejectReport, Heartbeat, Ready, Busy
  <2>4. QED BY <2>1, <2>2, <2>3 DEF WriteVerdict, TypeOK, Row
<1>4. QED BY <1>1, <1>2, <1>3, TypeCorrect, PTL DEF Spec, FinishedWorkIsRecorded
----------------------------------------------------------------------------
(***************************************************************************)
(* One process at a time.  The whole-row write of an event append is       *)
(* harmless as long as nobody writes the row between its two transactions: *)
(* what it read is then what it finds.  The invariant says that at most one*)
(* process is up, that a process which is not yet claiming or serving has  *)
(* no work and no transaction to come but the one of its start-up, and     *)
(* that the row a transaction is to write or delete is as it was read.     *)
(***************************************************************************)
OneUp == \A p, q \in Proc : Alive(p) /\ Alive(q) => p = q

EarlyIsIdle ==
    \A p \in Proc :
        /\ phase[p] \notin {"claiming", "serving"} => pool[p] = <<>> /\ run[p] = Idle
        /\ phase[p] \in {"unborn", "dead", "cleaning"} => section[p] = Free
        /\ phase[p] = "seeding" => section[p].op = "sequence"

SectionsAreFresh ==
    \A p \in Proc :
        /\ section[p].op = "append" => db[section[p].job].status = section[p].status
        /\ section[p].op = "delete" => db[section[p].job].status \in Terminal

SingleInv == OneUp /\ EarlyIsIdle /\ SectionsAreFresh

\* A process with work or a transaction to come is up.
LEMMA WorkersAreAlive ==
    ASSUME TypeOK, SingleInv, NEW p \in Proc
    PROVE  /\ Busy(p) \/ pool[p] # <<>> => phase[p] \in {"claiming", "serving"}
           /\ section[p].op \notin {"free", "sequence"} => phase[p] \in {"claiming", "serving"}
BY DEF TypeOK, SingleInv, EarlyIsIdle, Busy, Idle, Free

\* While p is up the transactions of the other processes are none.
LEMMA OthersAreFree ==
    ASSUME SingleInv, NEW p \in Proc, Alive(p), NEW q \in Proc \ {p}
    PROVE  section[q].op = "free"
BY DEF SingleInv, OneUp, EarlyIsIdle, Alive, Free

\* A start finds no process up.
LEMMA FirstUp ==
    ASSUME MaxUp = 1, TypeOK, SingleInv, NEW p \in Proc, StartProcess(p)
    PROVE  \A q \in Proc : ~Alive(q)
<1> SUFFICES ASSUME NEW q \in Proc, Alive(q) PROVE FALSE
  OBVIOUS
<1>1. Up = {q} BY DEF Up, SingleInv, OneUp
<1>2. Cardinality(Up) = 1 BY <1>1, FS_Singleton
<1>3. Cardinality(Up) < 1 BY DEF StartProcess
<1>4. QED BY <1>2, <1>3

\* What an action of p has to show: the control of the others stays, p has work only when
\* it claims or serves, and the transaction it has to come is fresh.
OnlyMoves(p) ==
    \A q \in Proc \ {p} : /\ phase'[q] = phase[q] /\ pool'[q] = pool[q]
                          /\ run'[q] = run[q] /\ section'[q] = section[q]

EndsEarly(p) ==
    /\ phase'[p] \notin {"claiming", "serving"} => pool'[p] = <<>> /\ run'[p] = Idle
    /\ phase'[p] \in {"unborn", "dead", "cleaning"} => section'[p] = Free
    /\ phase'[p] = "seeding" => section'[p].op = "sequence"

EndsFresh(p) ==
    /\ section'[p].op = "append" => db'[section'[p].job].status = section'[p].status
    /\ section'[p].op = "delete" => db'[section'[p].job].status \in Terminal

LEMMA SingleSuffices ==
    ASSUME SingleInv, NEW p \in Proc, Alive(p), OnlyMoves(p), EndsEarly(p), EndsFresh(p)
    PROVE  SingleInv'
<1>1. OneUp' BY DEF OnlyMoves, SingleInv, OneUp, Alive
<1>2. EarlyIsIdle' BY DEF OnlyMoves, EndsEarly, SingleInv, EarlyIsIdle
<1>3. SectionsAreFresh' BY OthersAreFree DEF OnlyMoves, EndsFresh, SectionsAreFresh
<1>4. QED BY <1>1, <1>2, <1>3 DEF SingleInv

LEMMA SingleStartupStep ==
    ASSUME MaxUp = 1, TypeOK, SingleInv, NEW p \in Proc, Startup(p)
    PROVE  SingleInv'
<1>1. CASE StartProcess(p)
  <2>1. /\ \A q \in Proc : ~Alive(q)
        /\ \A q \in Proc \ {p} : phase'[q] = phase[q] /\ section'[q] = section[q]
        /\ phase'[p] = "seeding" /\ section'[p].op = "sequence" /\ section'[p].job = NoJob
    BY <1>1, FirstUp DEF StartProcess, TypeOK, Free, Section
  <2>2. UNCHANGED <<db, pool, run>> /\ pool[p] = <<>> /\ run[p] = Idle
    BY <1>1 DEF StartProcess, SingleInv, EarlyIsIdle
  <2>3. OneUp' BY <2>1 DEF OneUp, Alive
  <2>4. EarlyIsIdle' BY <2>1, <2>2 DEF SingleInv, EarlyIsIdle
  <2>5. SectionsAreFresh' BY <2>1, <2>2 DEF SingleInv, SectionsAreFresh
  <2>6. QED BY <2>3, <2>4, <2>5 DEF SingleInv
<1>2. CASE SeedSequence(p)
  <2>1. /\ Alive(p) /\ phase'[p] = "cleaning" /\ section'[p] = Free
        /\ pool'[p] = <<>> /\ run'[p] = Idle
    BY <1>2 DEF SeedSequence, Alive, TypeOK, SingleInv, EarlyIsIdle
  <2>2. OnlyMoves(p) BY <1>2 DEF SeedSequence, OnlyMoves, TypeOK
  <2>3. EndsEarly(p) /\ EndsFresh(p) BY <2>1 DEF EndsEarly, EndsFresh, Free
  <2>4. QED BY <2>1, <2>2, <2>3, SingleSuffices
<1>3. ASSUME NEW S \in SUBSET Job, CleanUp(p, S) PROVE SingleInv'
  <2>1. /\ Alive(p) /\ phase'[p] \in {"claiming", "serving"} /\ section'[p] = Free
    BY <1>3 DEF CleanUp, Alive, TypeOK, SingleInv, EarlyIsIdle
  <2>2. OnlyMoves(p) BY <1>3 DEF CleanUp, OnlyMoves, TypeOK
  <2>3. EndsEarly(p) /\ EndsFresh(p) BY <2>1 DEF EndsEarly, EndsFresh, Free
  <2>4. QED BY <2>1, <2>2, <2>3, SingleSuffices
<1>4. CASE StartupClaim(p)
  <2>1. /\ Alive(p) /\ phase'[p] = "claiming" /\ section'[p].op = "free"
    BY <1>4 DEF StartupClaim, Alive, LockFree
  <2>2. OnlyMoves(p) BY <1>4 DEF StartupClaim, OnlyMoves, TypeOK
  <2>3. EndsEarly(p) /\ EndsFresh(p) BY <2>1 DEF EndsEarly, EndsFresh
  <2>4. QED BY <2>1, <2>2, <2>3, SingleSuffices
<1>5. CASE StartupDone(p)
  <2>1. /\ Alive(p) /\ phase'[p] = "serving" /\ section'[p].op = "free"
    BY <1>5 DEF StartupDone, Alive, LockFree, TypeOK
  <2>2. OnlyMoves(p) BY <1>5 DEF StartupDone, OnlyMoves, TypeOK
  <2>3. EndsEarly(p) /\ EndsFresh(p) BY <2>1 DEF EndsEarly, EndsFresh
  <2>4. QED BY <2>1, <2>2, <2>3, SingleSuffices
<1>6. QED BY <1>1, <1>2, <1>3, <1>4, <1>5 DEF Startup

\* The steps of a process that claims or serves.
LEMMA SingleUpStep ==
    ASSUME TypeOK, SingleInv, NEW p \in Proc, Request(p) \/ SecondTransaction(p) \/ Executor(p)
    PROVE  SingleInv'
<1>1. phase[p] \in {"claiming", "serving"} /\ UNCHANGED phase
  BY WorkersAreAlive DEF Request, Create, Cancel, CheckDelete, Retry, Serving, SecondTransaction,
     FinishCreate, Delete, WriteAppend, Prune, Executor, RunClaimed, ClaimAndRun, ClaimRefused,
     ReadForAppend, NoFailureEvent, EndWorkflow, RejectReport, WriteVerdict, Heartbeat, Ready, Busy
<1>2. \A q \in Proc \ {p} : /\ pool'[q] = pool[q] /\ run'[q] = run[q]
                            /\ section'[q] = section[q]
  <2>1. CASE Request(p)
    BY <2>1 DEF Request, Create, Cancel, CheckDelete, Retry, TypeOK
  <2>2. CASE SecondTransaction(p)
    BY <2>2 DEF SecondTransaction, FinishCreate, Delete, WriteAppend, Prune, TypeOK
  <2>3. CASE Executor(p)
    BY <2>3 DEF Executor, RunClaimed, ClaimAndRun, ClaimRefused, ReadForAppend, NoFailureEvent,
       EndWorkflow, RejectReport, WriteVerdict, Heartbeat, Dequeue, Work, Stop, Conclude, TypeOK
  <2>4. QED BY <2>1, <2>2, <2>3
<1>3. EndsFresh(p)
  <2>1. CASE section'[p].op \in {"free", "create", "prune"} BY <2>1 DEF EndsFresh
  <2>2. CASE UNCHANGED <<section, db>> BY <2>2 DEF SingleInv, SectionsAreFresh, EndsFresh
  <2>3. CASE Request(p)
    <3>1. ASSUME NEW j \in Job, Create(p, j) PROVE EndsFresh(p)
      BY <2>1, <3>1 DEF Create, TypeOK, Free
    <3>2. ASSUME NEW j \in Job, Cancel(p, j) PROVE EndsFresh(p)
      BY <2>1, <3>2 DEF Cancel, Serving, LockFree
    <3>3. ASSUME NEW j \in Job, CheckDelete(p, j) PROVE EndsFresh(p)
      <4>1. section'[p].op = "delete" /\ section'[p].job = j BY <3>3 DEF CheckDelete, TypeOK, Free
      <4>2. QED BY <3>3, <4>1 DEF CheckDelete, EndsFresh
    <3>4. QED BY <2>3, <3>1, <3>2, <3>3 DEF Request, Retry
  <2>4. CASE SecondTransaction(p)
    <3>1. section'[p] = Free
      BY <2>4 DEF SecondTransaction, FinishCreate, Delete, WriteAppend, Prune, TypeOK
    <3>2. QED BY <2>1, <3>1 DEF Free
  <2>5. CASE Executor(p)
    <3>1. CASE ReadForAppend(p)
      <4>1. CASE db[run[p].job].status \in Stored
        <5>1. /\ section'[p].op = "append" /\ section'[p].job = run[p].job
              /\ section'[p].status = db[run[p].job].status
          BY <3>1, <4>1 DEF ReadForAppend, TypeOK, Free
        <5>2. QED BY <3>1, <5>1 DEF ReadForAppend, EndsFresh
      <4>2. CASE db[run[p].job].status \notin Stored BY <2>2, <3>1, <4>2 DEF ReadForAppend
      <4>3. QED BY <4>1, <4>2
    <3>2. CASE WriteVerdict(p) BY <2>1, <3>2 DEF WriteVerdict, LockFree, Free, TypeOK
    <3>3. CASE ClaimAndRun(p) \/ Heartbeat(p)
      BY <2>1, <3>3 DEF ClaimAndRun, Heartbeat, LockFree
    <3>4. CASE UNCHANGED <<section, db>> BY <2>2, <3>4
    <3>5. QED
      BY <2>5, <3>1, <3>2, <3>3, <3>4 DEF Executor, RunClaimed, ClaimRefused, NoFailureEvent,
         EndWorkflow, RejectReport
  <2>6. QED BY <2>3, <2>4, <2>5
<1>4. OnlyMoves(p) BY <1>1, <1>2 DEF OnlyMoves
<1>5. EndsEarly(p) BY <1>1 DEF EndsEarly
<1>6. QED BY <1>1, <1>3, <1>4, <1>5, SingleSuffices DEF Alive

LEMMA SingleStep ==
    ASSUME MaxUp = 1, TypeOK, SingleInv, [Next]_vars
    PROVE  SingleInv'
<1>1. ASSUME NEW p \in Proc, Crash(p) PROVE SingleInv'
  <2>1. Alive(p) /\ phase'[p] = "dead" /\ pool'[p] = <<>> /\ run'[p] = Idle /\ section'[p] = Free
    BY <1>1 DEF Crash, TypeOK
  <2>2. OnlyMoves(p) BY <1>1 DEF Crash, OnlyMoves, TypeOK
  <2>3. EndsEarly(p) /\ EndsFresh(p) BY <2>1 DEF EndsEarly, EndsFresh, Free
  <2>4. QED BY <2>1, <2>2, <2>3, SingleSuffices
<1>2. ASSUME NEW j \in Job, Lapse(j) PROVE SingleInv'
  <2>1. \A k \in Job : db'[k].status = db[k].status BY <1>2 DEF Lapse, TypeOK, Row
  <2>2. \A p \in Proc : section[p].op \in {"append", "delete"} => section[p].job \in Job
    BY DEF TypeOK, Section
  <2>3. SectionsAreFresh' BY <1>2, <2>1, <2>2 DEF Lapse, SingleInv, SectionsAreFresh
  <2>4. OneUp' /\ EarlyIsIdle' BY <1>2 DEF Lapse, SingleInv, OneUp, EarlyIsIdle, Alive
  <2>5. QED BY <2>3, <2>4 DEF SingleInv
<1>3. CASE UNCHANGED vars
  BY <1>3 DEF vars, SingleInv, OneUp, EarlyIsIdle, SectionsAreFresh, Alive
<1>4. QED BY <1>1, <1>2, <1>3, SingleStartupStep, SingleUpStep DEF Next

LEMMA SingleInit == Init => SingleInv
BY DEF Init, SingleInv, OneUp, EarlyIsIdle, SectionsAreFresh, Alive, Free
----------------------------------------------------------------------------
(* What a step does to the table, one process at a time.                   *)
Enters(j) ==
    /\ db[j].status = "unborn"
    /\ Cardinality(InStatus(Active)) < MaxActive
    /\ \E n \in Nat : db' = [db EXCEPT ![j] = [Blank("queued") EXCEPT !.order = n]]
Leave(S) == S \subseteq InStatus(Terminal) /\ db' = Without(db, S)
IsClaimed(j, p) == Requeued(db)[j].status = "queued" /\ db' = Claimed(Requeued(db), j, p)
IsCancelled(j) == db[j].status \in Active /\ db' = [db EXCEPT ![j].status = "cancelled"]
Ends(j, verdict) ==
    /\ db[j].status = "running"
    /\ db' = [db EXCEPT ![j].status = verdict, ![j].worker = NoProc, ![j].lease = "none"]
LeaseMoves(j, lease) ==
    /\ db[j].status = "running" \/ db[j].lease # "none"
    /\ db' = [db EXCEPT ![j].lease = lease]

TableStep ==
    \/ UNCHANGED db
    \/ \E j \in Job : Enters(j) \/ IsCancelled(j)
    \/ \E S \in SUBSET Job : Leave(S)
    \/ \E j \in Job, p \in Proc : IsClaimed(j, p)
    \/ \E j \in Job, verdict \in Verdicts : Ends(j, verdict)
    \/ \E j \in Job, lease \in {"live", "lapsed"} : LeaseMoves(j, lease)

LEMMA OverflowIsTerminal == Overflow(db) \subseteq InStatus(Terminal)
BY DEF Overflow, InStatus

LEMMA StepsOfTheTable ==
    ASSUME TypeOK, SingleInv, [Next]_vars
    PROVE  TableStep
<1>1. ASSUME NEW p \in Proc, Startup(p) PROVE TableStep
  <2>1. ASSUME NEW S \in SUBSET Job, CleanUp(p, S) PROVE TableStep
    BY <2>1 DEF CleanUp, TableStep, Leave
  <2>2. CASE StartupClaim(p)
    <3>1. PICK j \in Job : IsClaimed(j, p) BY <2>2 DEF StartupClaim, IsClaimed
    <3>2. QED BY <3>1 DEF TableStep
  <2>3. QED BY <1>1, <2>1, <2>2 DEF Startup, StartProcess, SeedSequence, StartupDone, TableStep
<1>2. ASSUME NEW p \in Proc, Request(p) PROVE TableStep
  <2>1. ASSUME NEW j \in Job, Create(p, j) PROVE TableStep
    <3>1. nextSeq + 1 \in Nat BY DEF TypeOK
    <3>2. Enters(j) BY <2>1, <3>1 DEF Create, Enters
    <3>3. QED BY <3>2 DEF TableStep
  <2>2. ASSUME NEW j \in Job, Cancel(p, j) PROVE TableStep
    BY <2>2 DEF Cancel, IsCancelled, TableStep
  <2>3. QED BY <1>2, <2>1, <2>2 DEF Request, Retry, CheckDelete, TableStep
<1>3. ASSUME NEW p \in Proc, SecondTransaction(p) PROVE TableStep
  <2>1. CASE FinishCreate(p) \/ Prune(p)
    <3>1. Leave(Overflow(db)) BY <2>1, OverflowIsTerminal DEF FinishCreate, Prune, Leave
    <3>2. Overflow(db) \in SUBSET Job BY DEF Overflow
    <3>3. QED BY <3>1, <3>2 DEF TableStep
  <2>2. CASE Delete(p)
    <3>1. db[section[p].job].status \in Terminal
      BY <2>2 DEF Delete, SingleInv, SectionsAreFresh
    <3>2. Leave({section[p].job} \cap InStatus(Stored))
      BY <2>2, <3>1 DEF Delete, Leave, InStatus
    <3>3. {section[p].job} \cap InStatus(Stored) \in SUBSET Job BY DEF InStatus
    <3>4. QED BY <3>2, <3>3 DEF TableStep
  <2>3. CASE WriteAppend(p)
    <3>1. section[p].job \in Job /\ db[section[p].job].status = section[p].status
      BY <2>3, AppendShape DEF WriteAppend, TypeOK, SingleInv, SectionsAreFresh
    <3>2. [db EXCEPT ![section[p].job].status = section[p].status] = db
      <4>1. [db[section[p].job] EXCEPT !.status = section[p].status] = db[section[p].job]
        BY <3>1 DEF TypeOK, Row
      <4>2. QED BY <3>1, <4>1 DEF TypeOK
    <3>3. UNCHANGED db BY <2>3, <3>2 DEF WriteAppend
    <3>4. QED BY <3>3 DEF TableStep
  <2>4. QED BY <1>3, <2>1, <2>2, <2>3 DEF SecondTransaction
<1>4. ASSUME NEW p \in Proc, Executor(p) PROVE TableStep
  <2>1. CASE ClaimAndRun(p)
    <3>1. NextTask(p).job \in Job
      BY <2>1, DequeuedType DEF ClaimAndRun, Ready, NextTask, Task, TypeOK
    <3>2. IsClaimed(NextTask(p).job, p) BY <2>1 DEF ClaimAndRun, IsClaimed
    <3>3. QED BY <3>1, <3>2 DEF TableStep
  <2>2. CASE WriteVerdict(p)
    <3>1. run[p].job \in Job /\ run[p].verdict \in Verdicts
      BY <2>2, RunShape DEF WriteVerdict, TypeOK
    <3>2. Ends(run[p].job, run[p].verdict) \/ UNCHANGED db
      BY <2>2 DEF WriteVerdict, Ends, Owns
    <3>3. QED BY <3>1, <3>2 DEF TableStep
  <2>3. CASE Heartbeat(p)
    <3>1. run[p].job \in Job BY <2>3, RunShape DEF Heartbeat, Busy, TypeOK
    <3>2. LeaseMoves(run[p].job, "live") BY <2>3 DEF Heartbeat, LeaseMoves, Owns
    <3>3. QED BY <3>1, <3>2 DEF TableStep
  <2>4. QED
    BY <1>4, <2>1, <2>2, <2>3 DEF Executor, RunClaimed, ClaimRefused, ReadForAppend,
       NoFailureEvent, EndWorkflow, RejectReport, TableStep
<1>5. ASSUME NEW j \in Job, Lapse(j) PROVE TableStep
  BY <1>5 DEF Lapse, LeaseMoves, TableStep
<1>6. ASSUME NEW p \in Proc, Crash(p) PROVE TableStep BY <1>6 DEF Crash, TableStep
<1>7. CASE UNCHANGED vars BY <1>7 DEF vars, TableStep
<1>8. QED BY <1>1, <1>2, <1>3, <1>4, <1>5, <1>6, <1>7 DEF Next

LEMMA ClaimOfTable ==
    ASSUME TypeOK, NEW j \in Job, NEW p \in Proc, IsClaimed(j, p)
    PROVE  /\ db'[j].status = "running" /\ db'[j].worker = p /\ db'[j].lease = "live"
           /\ \A k \in Job \ {j} : db'[k] = Requeued(db)[k]
<1>1. Requeued(db) \in [Job -> Row] BY RequeuedType DEF TypeOK
<1>2. QED BY <1>1, ClaimedType DEF IsClaimed

LEMMA RecoverableStep ==
    ASSUME TypeOK, RunningIsRecoverable, TableStep
    PROVE  RunningIsRecoverable'
<1> DEFINE Good(row) == /\ row.status = "running" => row.worker \in Proc /\ row.lease # "none"
                        /\ row.status = "queued" => row.worker = NoProc /\ row.lease = "none"
<1>0. \A j \in Job : db[j] \in Row /\ Good(db[j]) BY DEF TypeOK, RunningIsRecoverable
<1> SUFFICES ASSUME NEW k \in Job PROVE Good(db'[k])
  BY DEF RunningIsRecoverable
<1>1. CASE UNCHANGED db BY <1>0, <1>1
<1>2. ASSUME NEW j \in Job, Enters(j) PROVE Good(db'[k])
  <2>1. db'[k] = db[k] \/ (db'[k].status = "queued" /\ db'[k].worker = NoProc
                           /\ db'[k].lease = "none")
    BY <1>2 DEF Enters, Blank, TypeOK
  <2>2. QED BY <1>0, <2>1
<1>3. ASSUME NEW j \in Job, IsCancelled(j) PROVE Good(db'[k])
  <2>1. db'[k] = db[k] \/ db'[k].status = "cancelled" BY <1>3 DEF IsCancelled, TypeOK, Row
  <2>2. QED BY <1>0, <2>1
<1>4. ASSUME NEW S \in SUBSET Job, Leave(S) PROVE Good(db'[k])
  <2>1. db'[k] = db[k] \/ db'[k].status = "deleted" BY <1>4 DEF Leave, Without, Blank
  <2>2. QED BY <1>0, <2>1
<1>5. ASSUME NEW j \in Job, NEW p \in Proc, IsClaimed(j, p) PROVE Good(db'[k])
  <2>1. Good(Requeued(db)[k])
    <3>1. \/ Requeued(db)[k] = db[k]
          \/ /\ Requeued(db)[k].status = "queued" /\ Requeued(db)[k].worker = NoProc
             /\ Requeued(db)[k].lease = "none"
      BY <1>0 DEF Requeued, Row
    <3>2. QED BY <1>0, <3>1
  <2>2. /\ db'[j].status = "running" /\ db'[j].worker = p /\ db'[j].lease = "live"
        /\ k # j => db'[k] = Requeued(db)[k]
    BY <1>5, ClaimOfTable
  <2>3. QED BY <2>1, <2>2
<1>6. ASSUME NEW j \in Job, NEW verdict \in Verdicts, Ends(j, verdict) PROVE Good(db'[k])
  <2>1. db'[k] = db[k] \/ db'[k].status = verdict BY <1>6 DEF Ends, TypeOK, Row
  <2>2. QED BY <1>0, <2>1
<1>7. ASSUME NEW j \in Job, NEW lease \in {"live", "lapsed"}, LeaseMoves(j, lease)
      PROVE  Good(db'[k])
  <2>1. CASE k = j
    <3>1. /\ db'[k].status = db[k].status /\ db'[k].worker = db[k].worker
          /\ db'[k].lease = lease
      BY <1>0, <1>7, <2>1 DEF LeaseMoves, TypeOK, Row
    <3>2. db[k].status # "queued" BY <1>0, <1>7, <2>1 DEF LeaseMoves
    <3>3. QED BY <1>0, <3>1, <3>2
  <2>2. CASE k # j
    <3>1. db'[k] = db[k] BY <1>7, <2>2 DEF LeaseMoves, TypeOK
    <3>2. QED BY <1>0, <3>1
  <2>3. QED BY <2>1, <2>2
<1>8. QED BY <1>1, <1>2, <1>3, <1>4, <1>5, <1>6, <1>7 DEF TableStep

\* One process at a time, and no assumption on leases or heartbeats: whatever dies, a running
\* row always names a worker and carries a lease, so that a later claim can take it back, and a
\* queued row carries neither.
THEOREM RecoverableRows ==
    ASSUME MaxUp = 1
    PROVE  Spec => []RunningIsRecoverable
<1>1. Init => SingleInv BY SingleInit
<1>2. Init => RunningIsRecoverable BY DEF Init, RunningIsRecoverable, Blank
<1>3. TypeOK /\ SingleInv /\ [Next]_vars => SingleInv' BY SingleStep
<1>4. TypeOK /\ SingleInv /\ RunningIsRecoverable /\ [Next]_vars => RunningIsRecoverable'
  BY StepsOfTheTable, RecoverableStep
<1>5. QED BY <1>1, <1>2, <1>3, <1>4, TypeCorrect, PTL DEF Spec
----------------------------------------------------------------------------
(***************************************************************************)
(* The contract: every step of the table is a step of JobLifecycle, or     *)
(* leaves all the statuses as they are.                                    *)
(***************************************************************************)
Statuses == [j \in Job |-> db[j].status]

\* The contract counts as this module does.
LEMMA ContractCounts == \A S : Contract!Cardinality(S) = Cardinality(S)
BY DEF Cardinality, Contract!Cardinality

LEMMA ContractStep ==
    ASSUME TypeOK, TableStep
    PROVE  [Contract!Next]_Statuses
<1> USE DEF Contract!Active, Contract!Terminal, Contract!InStatus, Contract!Move
<1>1. \A j \in Job : db[j] \in Row BY DEF TypeOK
<1>2. CASE UNCHANGED db BY <1>2 DEF Statuses
<1>3. ASSUME NEW j \in Job, Enters(j) PROVE Contract!Next
  <2>1. \A k \in Job : db'[k].status = IF k = j THEN "queued" ELSE db[k].status
    BY <1>3 DEF Enters, Blank, TypeOK
  <2>2. Statuses' = [k \in Job |-> IF k \in {j} THEN "queued" ELSE Statuses[k]]
    BY <2>1 DEF Statuses
  <2>3. Contract!InStatus(Statuses, Contract!Active) = InStatus(Active)
    BY DEF Statuses, InStatus
  <2>4. /\ Statuses[j] = "unborn"
        /\ Contract!Cardinality(Contract!InStatus(Statuses, Contract!Active)) < MaxActive
    <3>1. Cardinality(InStatus(Active)) < MaxActive BY <1>3 DEF Enters
    <3>2. QED BY <1>3, <2>3, <3>1, ContractCounts DEF Statuses, Enters
  <2>5. Contract!Create(j) BY <2>2, <2>4 DEF Contract!Create, Statuses
  <2>6. QED BY <2>5 DEF Contract!Next
<1>4. ASSUME NEW j \in Job, IsCancelled(j) PROVE Contract!Next
  <2>1. \A k \in Job : db'[k].status = IF k = j THEN "cancelled" ELSE db[k].status
    BY <1>1, <1>4 DEF IsCancelled, TypeOK, Row
  <2>2. Contract!Cancel(j) BY <1>4, <2>1 DEF Contract!Cancel, IsCancelled
  <2>3. QED BY <2>2 DEF Contract!Next
<1>5. ASSUME NEW S \in SUBSET Job, Leave(S) PROVE Contract!Next
  <2>1. \A k \in Job : db'[k].status = IF k \in S THEN "deleted" ELSE db[k].status
    BY <1>5 DEF Leave, Without, Blank
  <2>2. Contract!Remove(S) BY <1>5, <2>1 DEF Contract!Remove, Leave, InStatus
  <2>3. QED BY <2>2 DEF Contract!Next
<1>6. ASSUME NEW j \in Job, NEW p \in Proc, IsClaimed(j, p) PROVE Contract!Next
  <2> DEFINE lapsed == {k \in Job : db[k].status = "running" /\ db[k].lease = "lapsed"}
  <2>0. PICK S \in SUBSET Job : S = lapsed
    <3>1. lapsed \in SUBSET Job OBVIOUS
    <3>2. QED BY <3>1
  <2>1. \A k \in Job : Requeued(db)[k].status = IF k \in S THEN "queued" ELSE db[k].status
    BY <1>1, <2>0 DEF Requeued, Row
  <2>2. \A k \in Job : db'[k].status = IF k = j THEN "running"
                                       ELSE IF k \in S THEN "queued" ELSE db[k].status
    BY <1>6, <2>1, ClaimOfTable
  <2>3. j \in S \/ db[j].status = "queued" BY <1>6, <2>1 DEF IsClaimed
  <2>4. Contract!Start(j, S) BY <2>0, <2>2, <2>3 DEF Contract!Start
  <2>5. QED BY <2>4 DEF Contract!Next
<1>7. ASSUME NEW j \in Job, NEW verdict \in Verdicts, Ends(j, verdict) PROVE Contract!Next
  <2>1. \A k \in Job : db'[k].status = IF k = j THEN verdict ELSE db[k].status
    BY <1>1, <1>7 DEF Ends, TypeOK, Row
  <2>2. Contract!Finish(j, verdict) BY <1>7, <2>1 DEF Contract!Finish, Ends
  <2>3. QED BY <2>2 DEF Contract!Next
<1>8. ASSUME NEW j \in Job, NEW lease \in {"live", "lapsed"}, LeaseMoves(j, lease)
      PROVE  UNCHANGED Statuses
  <2>1. \A k \in Job : db'[k].status = db[k].status
    BY <1>1, <1>8 DEF LeaseMoves, TypeOK, Row
  <2>2. QED BY <2>1 DEF Statuses
<1>9. QED BY <1>2, <1>3, <1>4, <1>5, <1>6, <1>7, <1>8 DEF TableStep

\* One process at a time, the table keeps the contract of the repository: the cap holds at every
\* creation, a job runs only from the queue or a lapsed claim, only a running job gets a verdict,
\* and only finished jobs are removed.
THEOREM ContractKept ==
    ASSUME MaxUp = 1
    PROVE  Spec => LifecycleContract
<1>1. Init => SingleInv BY SingleInit
<1>2. TypeOK /\ SingleInv /\ [Next]_vars => SingleInv' BY SingleStep
<1>3. Init => Contract!Init BY DEF Init, Contract!Init, Blank
<1>4. TypeOK /\ SingleInv /\ [Next]_vars => [Contract!Next]_Statuses
  BY StepsOfTheTable, ContractStep
<1>5. QED
  BY <1>1, <1>2, <1>3, <1>4, TypeCorrect, PTL DEF Spec, LifecycleContract, Contract!Spec, Statuses

\* One process at a time, a finished job never comes back: its status only ever gives way to
\* its removal.
THEOREM FinalTerminals ==
    ASSUME MaxUp = 1
    PROVE  Spec => TerminalIsFinal
<1> DEFINE Final ==
      \A j \in Job : db[j].status \in Terminal => db'[j].status \in {db[j].status, "deleted"}
<1>1. Init => SingleInv BY SingleInit
<1>2. TypeOK /\ SingleInv /\ [Next]_vars => SingleInv' BY SingleStep
<1>3. TypeOK /\ SingleInv /\ [Next]_vars => [Final]_vars
  <2> SUFFICES ASSUME TypeOK, SingleInv, Next PROVE Final
    BY DEF vars
  <2>1. TableStep BY StepsOfTheTable
  <2> SUFFICES ASSUME NEW k \in Job, db[k].status \in Terminal
               PROVE  db'[k].status \in {db[k].status, "deleted"}
    OBVIOUS
  <2>2. CASE Contract!Next
    BY <2>2 DEF Contract!Next, Contract!Create, Contract!Start, Contract!Finish, Contract!Cancel,
       Contract!Remove, Contract!Move, Contract!InStatus, Contract!Active, Contract!Terminal
  <2>3. CASE UNCHANGED Statuses
    <3>1. Statuses'[k] = Statuses[k] BY <2>3
    <3>2. QED BY <3>1 DEF Statuses
  <2>4. QED BY <2>1, <2>2, <2>3, ContractStep
<1>4. QED BY <1>1, <1>2, <1>3, TypeCorrect, PTL DEF Spec, TerminalIsFinal
====
