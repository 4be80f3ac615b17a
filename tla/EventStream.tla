---- MODULE EventStream ----
(***************************************************************************)
(* The events of one research job, from the run that publishes them to the *)
(* WebSocket streams that follow them: the cache and the subscriber queues *)
(* of the API process (both under _RESEARCH_JOB_EVENT_LOCK), the copy kept *)
(* in the job record, and the streams, each of which sends a snapshot of   *)
(* the job, replays the events so far, subscribes, and then alternates an  *)
(* event from its queue with a snapshot until a snapshot is terminal.      *)
(*                                                                         *)
(* An event is its sequence number.  Streams take no filter here.  The job *)
(* is on the SQLite backend: a crash loses the cache and the streams, and  *)
(* an unfinished job is claimed and run again by the next process.         *)
(***************************************************************************)
EXTENDS Naturals, Sequences, SequencesExt, FiniteSetsExt

CONSTANTS
    Client,     \* the WebSocket connections
    Limit,      \* _research_job_event_limit
    MaxEvents,  \* bound: the highest sequence number given out
    MaxCrashes  \* bound: how often the process dies

ASSUME EventAssumption ==
    /\ Limit \in Nat \ {0}
    /\ MaxEvents \in Nat /\ MaxCrashes \in Nat

VARIABLES
    status,  \* of the job record
    cache,   \* _RESEARCH_JOB_EVENTS
    stored,  \* the events of the job record
    runner,  \* where the run is
    crashes, \* how often the process has died
    subs,    \* _RESEARCH_JOB_EVENT_SUBSCRIBERS
    queue,   \* client -> the Queue it subscribed
    stream   \* client -> its stream

job == <<status, cache, stored, runner, crashes>>
eventVars == <<status, cache, stored, runner, crashes, subs, queue, stream>>

StreamClosed == 0   \* the "stream_closed" record
Message == 0..MaxEvents

RunVerdicts == {"succeeded", "failed"}
TerminalStatus == RunVerdicts \cup {"cancelled"}

\* A stream: where it is, whether its first snapshot was terminal, the events
\* it has sent, and how many of them were replayed.
Stream == [at : {"away", "replaying", "subscribing", "listening", "sending", "closed"},
           ended : BOOLEAN, sent : Seq(Message), replayed : Nat]
Away == [at |-> "away", ended |-> FALSE, sent |-> <<>>, replayed |-> 0]

EventTypeOK ==
    /\ status \in {"queued", "running", "deleted"} \cup TerminalStatus
    /\ cache \in Seq(Message) /\ stored \in Seq(Message)
    /\ runner \in {"ready", "cleared", "running", "storing", "done"}
    /\ crashes \in 0..MaxCrashes
    /\ subs \subseteq Client
    /\ queue \in [Client -> Seq(Message)]
    /\ stream \in [Client -> Stream]
    /\ Len(cache) <= Limit /\ Len(stored) <= Limit

EventInit ==
    /\ status = "queued"
    /\ cache = <<>> /\ stored = <<>>
    /\ runner = "ready" /\ crashes = 0
    /\ subs = {}
    /\ queue = [c \in Client |-> <<>>]
    /\ stream = [c \in Client |-> Away]
----------------------------------------------------------------------------
(* The run.                                                                *)

\* del events[:-limit]
Latest(events) ==
    SubSeq(events, Max({1, Len(events) - Limit + 1}), Len(events))

\* _next_research_job_event_sequence
CountOfCache == Len(cache) + 1                                      \* mutant
MaxOfCache == Max({0} \cup ToSet(cache)) + 1                        \* mutant
NextSequence == Max({0} \cup ToSet(cache) \cup ToSet(stored)) + 1

DeliveredIfEmpty(S, m) ==                                           \* mutant
    [c \in Client |-> IF c \in S /\ queue[c] = <<>> THEN <<m>> ELSE queue[c]]
Delivered(S, m) == [c \in Client |-> IF c \in S THEN Append(queue[c], m) ELSE queue[c]]

\* _clear_research_job_events: a new run forgets the cache and lets go of the
\* streams that wait for it.
Clear ==
    /\ runner = "ready"
    /\ runner' = "cleared"
    /\ cache' = <<>>
    /\ subs' = {}
    /\ queue' = Delivered(subs, StreamClosed)
    /\ UNCHANGED <<status, stored, crashes, stream>>

\* mark_research_job_running, or the claim: a cancelled job is not run.
MarkRunning ==
    /\ runner = "cleared"
    /\ IF status = "queued"
       THEN status' = "running" /\ runner' = "running"
       ELSE runner' = "done" /\ UNCHANGED status
    /\ UNCHANGED <<cache, stored, crashes, subs, queue, stream>>

\* _publish_research_job_event, up to the release of the event lock ..
Publish ==
    /\ runner = "running"
    /\ NextSequence <= MaxEvents
    /\ cache' = Latest(Append(cache, NextSequence))
    /\ queue' = Delivered(subs, NextSequence)
    /\ runner' = "storing"
    /\ UNCHANGED <<status, stored, crashes, subs, stream>>

\* .. and its append_research_job_event, whose failure is swallowed.
Store ==
    /\ runner = "storing"
    /\ runner' = "running"
    /\ stored' \in {stored,
                    IF status = "deleted" THEN stored
                    ELSE Latest(Append(stored, Last(cache)))}
    /\ UNCHANGED <<status, cache, crashes, subs, queue, stream>>

\* The verdict is fenced: it lands only on a running job.
Finish(verdict) ==
    /\ runner = "running"
    /\ runner' = "done"
    /\ status' = IF status = "running" THEN verdict ELSE status
    /\ UNCHANGED <<cache, stored, crashes, subs, queue, stream>>

CancelJob ==
    /\ status \in {"queued", "running"}
    /\ status' = "cancelled"
    /\ UNCHANGED <<cache, stored, runner, crashes, subs, queue, stream>>

DeleteJob ==
    /\ status \in TerminalStatus
    /\ status' = "deleted"
    /\ stored' = <<>>
    /\ UNCHANGED <<cache, runner, crashes, subs, queue, stream>>

\* The process dies and another one takes over.
ProcessDies ==
    /\ crashes < MaxCrashes
    /\ crashes' = crashes + 1
    /\ cache' = <<>>
    /\ subs' = {}
    /\ queue' = [c \in Client |-> <<>>]
    /\ stream' = [c \in Client |-> Away]
    /\ IF status \in {"queued", "running"}
       THEN status' = "queued" /\ runner' = "ready"
       ELSE UNCHANGED status /\ runner' = "done"
    /\ UNCHANGED stored
----------------------------------------------------------------------------
(* The streams: stream_research_job.                                       *)

\* get_research_job_record finds a terminal job, or none (an "error" record).
SnapshotEnds == status \in TerminalStatus \cup {"deleted"}

\* The connection is accepted and the first snapshot sent.
Connect(c) ==
    /\ stream[c].at = "away"
    /\ stream' = [stream EXCEPT ![c] = [Away EXCEPT !.at = "replaying", !.ended = SnapshotEnds]]
    /\ UNCHANGED <<job, subs, queue>>

\* _send_cached_research_job_events: the cache, or else the record.
Replay(c) ==
    LET events == IF cache # <<>> THEN cache ELSE stored
    IN  /\ stream[c].at = "replaying"
        /\ stream' = [stream EXCEPT
               ![c].at = IF stream[c].ended THEN "closed" ELSE "subscribing",
               ![c].sent = events,
               ![c].replayed = Len(events)]
        /\ UNCHANGED <<job, subs, queue>>

Subscribe(c) ==
    /\ stream[c].at = "subscribing"
    /\ stream' = [stream EXCEPT ![c].at = "listening"]
    /\ subs' = subs \cup {c}
    /\ queue' = [queue EXCEPT ![c] = <<>>]
    /\ UNCHANGED job

\* _next_research_job_event: an event, which is sent ..
Receive(c) ==
    /\ stream[c].at = "listening"
    /\ queue[c] # <<>>
    /\ queue' = [queue EXCEPT ![c] = Tail(@)]
    /\ stream' = [stream EXCEPT
           ![c].at = "sending",
           ![c].sent = IF Head(queue[c]) = StreamClosed THEN @ ELSE Append(@, Head(queue[c]))]
    /\ UNCHANGED <<job, subs>>

\* .. or none within the interval.
TimeOut(c) ==
    /\ stream[c].at = "listening"
    /\ queue[c] = <<>>
    /\ stream' = [stream EXCEPT ![c].at = "sending"]
    /\ UNCHANGED <<job, subs, queue>>

LeftSubscribed(c) == UNCHANGED <<subs, queue>>                      \* mutant
\* _unsubscribe_research_job_events; the queue is dropped with the stream.
Unsubscribed(c) == subs' = subs \ {c} /\ queue' = [queue EXCEPT ![c] = <<>>]

\* The snapshot that follows: a terminal one closes the stream.
Snapshot(c) ==
    /\ stream[c].at = "sending"
    /\ IF SnapshotEnds
       THEN /\ stream' = [stream EXCEPT ![c].at = "closed"]
            /\ Unsubscribed(c)
       ELSE /\ stream' = [stream EXCEPT ![c].at = "listening"]
            /\ UNCHANGED <<subs, queue>>
    /\ UNCHANGED job

\* The client goes away, which the next send finds out; it may come back.
Disconnect(c) ==
    /\ stream[c].at \in {"replaying", "sending"}
    /\ stream' = [stream EXCEPT ![c] = Away]
    /\ Unsubscribed(c)
    /\ UNCHANGED job
----------------------------------------------------------------------------
RunStep ==
    \/ Clear \/ MarkRunning \/ Publish \/ Store
    \/ \E verdict \in RunVerdicts : Finish(verdict)

StreamStep(c) ==
    Replay(c) \/ Subscribe(c) \/ Receive(c) \/ TimeOut(c) \/ Snapshot(c)

EventNext ==
    \/ RunStep
    \/ CancelJob \/ DeleteJob \/ ProcessDies
    \/ \E c \in Client : Connect(c) \/ StreamStep(c) \/ Disconnect(c)

EventSpec == EventInit /\ [][EventNext]_eventVars

\* The executor runs its task to the end (events are finitely many), and the
\* event loop keeps every open stream going.
FairEventSpec ==
    /\ EventSpec
    /\ WF_eventVars(RunStep)
    /\ \A c \in Client : WF_eventVars(StreamStep(c))
----------------------------------------------------------------------------
(* Properties.                                                             *)

Increasing(s) == \A i, k \in 1..Len(s) : i < k => s[i] < s[k]

\* A stream never repeats an event and never goes back, whatever the replay
\* (from the cache or from the record) and the subscription overlap, also for a
\* job that is run again after a crash.  (A job that is cancelled and deleted
\* under its run leaves no record to number from: such a run is left out.)
StreamsAreInOrder ==
    status # "deleted" => \A c \in Client : Increasing(stream[c].sent)

\* What a stream gets from its queue has no holes, however slowly it reads and
\* however small the limit of the cache is.
LiveEventsAreConsecutive ==
    \A c \in Client :
        LET s == stream[c].sent
        IN  \A i \in stream[c].replayed + 2..Len(s) : s[i] = s[i - 1] + 1

\* While the cache holds anything it is at least as recent as the record, so a
\* replay from the cache hides no event that the record has.
CacheIsFreshest ==
    cache # <<>> /\ stored # <<>> => Last(stored) <= Last(cache)

\* No queue is fed for a stream that is gone.
NoOrphanSubscription ==
    \A c \in subs : stream[c].at \in {"listening", "sending"}

\* Every stream that waits for events is one that events are delivered to. No run checks
\* it: the run of a job clears its subscribers (README, 3).
ListenersAreSubscribed ==
    \A c \in Client : stream[c].at \in {"listening", "sending"} => c \in subs

\* A stream that is listening is closed by the terminal snapshot of its job,
\* whether or not it still receives events.
StreamsClose ==
    \A c \in Client : stream[c].at = "listening" ~> stream[c].at \in {"closed", "away"}
====
