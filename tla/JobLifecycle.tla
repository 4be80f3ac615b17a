---- MODULE JobLifecycle ----
(***************************************************************************)
(* What the research-job repository promises of a job, whatever backend    *)
(* keeps it: the life of a job id from creation to removal, the cap on the *)
(* active jobs, and that a terminal status is final.  SqliteJobs implements*)
(* it while one process serves at a time.                                  *)
(***************************************************************************)
EXTENDS Naturals, FiniteSets

CONSTANTS
    Job,            \* the job ids that may ever be drawn (uuid4: never reused)
    MaxActive       \* _MAX_ACTIVE_RESEARCH_JOBS

VARIABLE
    status          \* job id -> its status; "unborn" before, "deleted" after its life

Active == {"queued", "running"}
Terminal == {"succeeded", "failed", "cancelled"}
Outside == {"unborn", "deleted"}

InStatus(st, S) == {j \in Job : st[j] \in S}

TypeOK == status \in [Job -> Active \cup Terminal \cup Outside]

Init == status = [j \in Job |-> "unborn"]

Move(S, to) == status' = [j \in Job |-> IF j \in S THEN to ELSE status[j]]

\* A create, or the retry of a finished job under a new id: refused at the cap.
Create(j) ==
    /\ status[j] = "unborn"
    /\ Cardinality(InStatus(status, Active)) < MaxActive
    /\ Move({j}, "queued")

\* A worker takes j; the claims whose lease ran out (S) go back to the queue
\* first, and j may be one of them.
Start(j, S) ==
    /\ S \subseteq InStatus(status, {"running"})
    /\ j \in S \cup InStatus(status, {"queued"})
    /\ status' = [k \in Job |-> IF k = j THEN "running"
                                ELSE IF k \in S THEN "queued" ELSE status[k]]

Finish(j, verdict) ==
    /\ status[j] = "running"
    /\ Move({j}, verdict)

Cancel(j) ==
    /\ status[j] \in Active
    /\ Move({j}, "cancelled")

\* Deletion by a client, pruning and retention remove terminal jobs only.
Remove(S) ==
    /\ S \subseteq InStatus(status, Terminal)
    /\ Move(S, "deleted")

Next ==
    \/ \E j \in Job : Create(j) \/ Cancel(j)
    \/ \E j \in Job : \E S \in SUBSET Job : Start(j, S)
    \/ \E j \in Job : \E verdict \in {"succeeded", "failed"} : Finish(j, verdict)
    \/ \E S \in SUBSET Job : Remove(S)

Spec == Init /\ [][Next]_status
====
