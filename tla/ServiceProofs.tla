---- MODULE ServiceProofs ----
(***************************************************************************)
(* Theorems about what one process of the service keeps in memory: the     *)
(* events of a job with their streams (EventStream), for any number of     *)
(* streams, any length of the event log and any limit of the cache; and    *)
(* its jobs with their file (MemoryJobs), for any number of jobs and any   *)
(* limits.                                                                 *)
(***************************************************************************)
EXTENDS EventStream, MemoryJobs, SequenceTheorems, TLAPS

USE EventAssumption DEF TerminalStatus, RunVerdicts
----------------------------------------------------------------------------
(* Numbers and sequences.                                                  *)

\* An upper bound that is a member is the maximum.
LEMMA MaxIsBound ==
    ASSUME NEW S \in SUBSET Int, NEW m \in S, \A y \in S : y <= m
    PROVE  Max(S) = m
<1> DEFINE Bounds(x) == x \in S /\ \A y \in S : x >= y
<1>1. Bounds(m) OBVIOUS
<1>2. Max(S) = CHOOSE x : Bounds(x) BY DEF Max
<1> HIDE DEF Bounds
<1>3. Bounds(Max(S)) BY <1>1, <1>2
<1>4. Max(S) \in S /\ Max(S) >= m /\ Max(S) <= m BY <1>3 DEF Bounds
<1>5. Max(S) \in Int /\ m \in Int BY <1>4
<1>6. QED BY <1>4, <1>5

\* The limit drops the oldest events only: what stays is a suffix that ends in the event
\* just added.
LEMMA LatestIsSuffix ==
    ASSUME NEW s \in Seq(Message), NEW m \in Message
    PROVE  LET t == Latest(Append(s, m))
           IN  /\ t \in Seq(Message) /\ Len(t) \in 1..Limit
               /\ Last(t) = m
               /\ \E d \in Nat : /\ Len(t) + d = Len(s) + 1
                                 /\ \A i \in 1..Len(t) : t[i] = Append(s, m)[i + d]
<1> DEFINE e == Append(s, m)
           L == Len(s) + 1
<1>1. /\ e \in Seq(Message) /\ Len(e) = L /\ L \in Nat \ {0} /\ e[L] = m
      /\ \A i \in 1..Len(s) : e[i] = s[i]
  BY AppendProperties, LenProperties DEF Message
<1> HIDE DEF e, L
<1>2. PICK d \in Nat : d + 1 = Max({1, L - Limit + 1}) /\ d < L /\ L - d <= Limit
  <2> DEFINE S == {1, L - Limit + 1}
  <2>0. S \in SUBSET Int BY <1>1
  <2>1. CASE L <= Limit
    <3>1. 1 \in S /\ \A y \in S : y <= 1 BY <1>1, <2>1
    <3> HIDE DEF S
    <3>2. Max(S) = 1 BY <2>0, <3>1, MaxIsBound
    <3>3. 0 \in Nat /\ 0 + 1 = Max(S) /\ 0 < L /\ L - 0 <= Limit BY <1>1, <2>1, <3>2
    <3>4. QED BY <3>3 DEF S
  <2>2. CASE L > Limit
    <3>1. L - Limit + 1 \in S /\ \A y \in S : y <= L - Limit + 1 BY <1>1, <2>2
    <3> HIDE DEF S
    <3>2. Max(S) = L - Limit + 1 BY <2>0, <3>1, MaxIsBound
    <3>3. /\ L - Limit \in Nat /\ (L - Limit) + 1 = Max(S)
          /\ L - Limit < L /\ L - (L - Limit) <= Limit
      BY <1>1, <2>2, <3>2
    <3>4. QED BY <3>3 DEF S
  <2>3. L <= Limit \/ L > Limit BY <1>1
  <2>4. QED BY <2>1, <2>2, <2>3
<1> DEFINE t == SubSeq(e, d + 1, L)
<1>3. Latest(e) = t BY <1>1, <1>2 DEF Latest
<1>4. /\ t \in Seq(Message) /\ Len(t) = L - d
      /\ \A i \in 1..L - d : t[i] = e[i + d]
  BY <1>1, <1>2, SubSeqProperties
<1> HIDE DEF t
<1>5. Last(t) = m
  <2>1. L - d \in 1..L - d /\ (L - d) + d = L BY <1>1, <1>2
  <2>2. t[L - d] = e[(L - d) + d] BY <1>4, <2>1
  <2>3. QED BY <1>1, <1>4, <2>1, <2>2 DEF Last
<1>6. Len(t) \in 1..Limit /\ Len(t) + d = L /\ \A i \in 1..Len(t) : t[i] = e[i + d]
  BY <1>1, <1>2, <1>4
<1>7. Latest(e) \in Seq(Message) BY <1>3, <1>4
<1>8. QED BY <1>3, <1>5, <1>6, <1>7 DEF e, L

\* Taking the head of a queue to the end of what was sent leaves the flow as it is.
LEMMA FlowOfReceive ==
    ASSUME NEW s \in Seq(Message), NEW q \in Seq(Message), q # <<>>
    PROVE  Append(s, Head(q)) \o Tail(q) = s \o q
<1>1. /\ Head(q) \in Message /\ Head(q) = q[1] /\ Tail(q) \in Seq(Message)
      /\ Len(q) \in Nat \ {0} /\ Len(Tail(q)) = Len(q) - 1
      /\ \A i \in 1..Len(q) - 1 : Tail(q)[i] = q[i + 1]
  BY HeadTailProperties, EmptySeq
<1> DEFINE a == Append(s, Head(q))
           t == Tail(q)
<1>2. /\ a \in Seq(Message) /\ Len(s) \in Nat /\ Len(a) = Len(s) + 1
      /\ \A i \in 1..Len(s) : a[i] = s[i]
      /\ a[Len(s) + 1] = q[1]
  BY <1>1, AppendProperties, LenProperties
<1>3. /\ s \o q \in Seq(Message) /\ Len(s \o q) = Len(s) + Len(q)
      /\ \A i \in 1..Len(s) + Len(q) :
            (s \o q)[i] = IF i <= Len(s) THEN s[i] ELSE q[i - Len(s)]
  BY ConcatProperties
<1> HIDE DEF a
<1>4. /\ a \o t \in Seq(Message) /\ Len(a \o t) = Len(a) + Len(t)
      /\ \A i \in 1..Len(a) + Len(t) :
            (a \o t)[i] = IF i <= Len(a) THEN a[i] ELSE t[i - Len(a)]
  BY <1>1, <1>2, ConcatProperties
<1>5. Len(a) + Len(t) = Len(s) + Len(q) BY <1>1, <1>2
<1>6. ASSUME NEW i \in 1..Len(s) + Len(q) PROVE (a \o t)[i] = (s \o q)[i]
  <2>1. (a \o t)[i] = IF i <= Len(a) THEN a[i] ELSE t[i - Len(a)] BY <1>4, <1>5
  <2>2. CASE i <= Len(s) BY <1>2, <1>3, <2>1, <2>2
  <2>3. CASE i = Len(s) + 1 BY <1>1, <1>2, <1>3, <2>1, <2>3
  <2>4. CASE i > Len(s) + 1
    <3>1. i - Len(a) \in 1..Len(q) - 1 /\ i - Len(a) + 1 = i - Len(s) BY <1>1, <1>2, <2>4
    <3>2. (a \o t)[i] = q[i - Len(s)] BY <1>1, <1>2, <2>1, <2>4, <3>1
    <3>3. QED BY <1>1, <1>2, <1>3, <2>4, <3>2
  <2>5. QED BY <1>1, <1>2, <2>2, <2>3, <2>4
<1>7. a \o t = s \o q BY <1>3, <1>4, <1>5, <1>6, SeqEqual
<1>8. QED BY <1>7 DEF a
----------------------------------------------------------------------------
(* Type correctness.                                                       *)

LEMMA DeliveredType ==
    ASSUME queue \in [Client -> Seq(Message)], NEW S, NEW m \in Message
    PROVE  Delivered(S, m) \in [Client -> Seq(Message)]
<1>1. \A c \in Client : Append(queue[c], m) \in Seq(Message) OBVIOUS
<1>2. QED BY <1>1 DEF Delivered

LEMMA AwayType == Away \in Stream
<1>1. <<>> \in Seq(Message) OBVIOUS
<1>2. QED BY <1>1 DEF Away, Stream

\* The number of the newest event, in the cache or else in the record.
Newest == IF cache # <<>> THEN Last(cache) ELSE IF stored # <<>> THEN Last(stored) ELSE 0

AllPositive(s) == \A i \in 1..Len(s) : s[i] > 0

Numbering ==
    /\ Increasing(cache) /\ Increasing(stored) /\ AllPositive(cache) /\ AllPositive(stored)
    /\ CacheIsFreshest
    /\ runner \in {"ready", "cleared"} => cache = <<>>
    /\ runner = "storing" => cache # <<>> /\ (stored # <<>> => Last(stored) < Last(cache))

\* The last event of an increasing log is its highest.
LEMMA LastIsHighest ==
    ASSUME NEW s \in Seq(Message), Increasing(s), s # <<>>
    PROVE  /\ Len(s) \in Nat \ {0} /\ Last(s) \in Message /\ Last(s) = s[Len(s)]
           /\ \A i \in 1..Len(s) : s[i] \in Nat /\ s[i] <= Last(s)
<1>1. Len(s) \in Nat \ {0} BY EmptySeq
<1>2. \A i \in 1..Len(s) : s[i] \in Message BY ElementOfSeq
<1>3. Len(s) \in 1..Len(s) BY <1>1
<1>4. Last(s) \in Message /\ Last(s) = s[Len(s)] BY <1>2, <1>3 DEF Last
<1>5. ASSUME NEW i \in 1..Len(s) PROVE s[i] \in Nat /\ s[i] <= Last(s)
  <2>1. s[i] \in Nat /\ Last(s) \in Nat BY <1>2, <1>4 DEF Message
  <2>2. CASE i = Len(s) BY <1>4, <2>1, <2>2
  <2>3. CASE i < Len(s)
    <3>1. s[i] < s[Len(s)] BY <1>3, <2>3 DEF Increasing
    <3>2. QED BY <1>4, <2>1, <3>1
  <2>4. QED BY <1>1, <2>2, <2>3
<1>6. QED BY <1>1, <1>4, <1>5

LEMMA NewestIsHighest ==
    ASSUME EventTypeOK, Numbering
    PROVE  /\ Newest \in Nat
           /\ \A i \in 1..Len(cache) : cache[i] \in Nat /\ cache[i] <= Newest
           /\ \A i \in 1..Len(stored) : stored[i] \in Nat /\ stored[i] <= Newest
<1>1. cache \in Seq(Message) /\ stored \in Seq(Message) BY DEF EventTypeOK
<1>2. Increasing(cache) /\ Increasing(stored) BY DEF Numbering
<1>3. cache # <<>> /\ stored # <<>> => Last(stored) <= Last(cache)
  BY DEF Numbering, CacheIsFreshest
<1>4. cache # <<>> => /\ Last(cache) \in Nat
                      /\ \A i \in 1..Len(cache) : cache[i] \in Nat /\ cache[i] <= Last(cache)
  BY <1>1, <1>2, LastIsHighest DEF Message
<1>5. stored # <<>> => /\ Last(stored) \in Nat
                       /\ \A i \in 1..Len(stored) : stored[i] \in Nat /\ stored[i] <= Last(stored)
  BY <1>1, <1>2, LastIsHighest DEF Message
<1>6. Len(<<>>) = 0 /\ \A s : s = <<>> => 1..Len(s) = {} BY EmptySeq
<1>7. Newest \in Nat BY <1>4, <1>5 DEF Newest
<1>8. \A i \in 1..Len(cache) : cache[i] \in Nat /\ cache[i] <= Newest
  BY <1>4, <1>6 DEF Newest
<1>9. ASSUME NEW i \in 1..Len(stored) PROVE stored[i] \in Nat /\ stored[i] <= Newest
  <2>1. stored # <<>> BY <1>6
  <2>2. stored[i] \in Nat /\ stored[i] <= Last(stored) /\ Last(stored) \in Nat BY <1>5, <2>1
  <2>3. Last(stored) <= Newest BY <1>3, <1>4, <2>1, <2>2 DEF Newest
  <2>4. QED BY <1>7, <2>2, <2>3
<1>10. QED BY <1>7, <1>8, <1>9

\* A new event gets the number after the newest one, wherever that one is kept.
LEMMA NextIsAfterNewest ==
    ASSUME EventTypeOK, Numbering
    PROVE  NextSequence = Newest + 1 /\ NextSequence \in Nat \ {0}
<1> DEFINE S == {0} \cup ToSet(cache) \cup ToSet(stored)
<1>1. cache \in Seq(Message) /\ stored \in Seq(Message) BY DEF EventTypeOK
<1>2. DOMAIN cache = 1..Len(cache) /\ DOMAIN stored = 1..Len(stored) BY <1>1, LenProperties
<1>3. Newest \in S
  <2>1. cache # <<>> => Last(cache) \in ToSet(cache)
    BY <1>1, <1>2, LastIsHighest DEF Numbering, ToSet
  <2>2. stored # <<>> => Last(stored) \in ToSet(stored)
    BY <1>1, <1>2, LastIsHighest DEF Numbering, ToSet
  <2>3. QED BY <2>1, <2>2 DEF Newest
<1>4. \A y \in S : y \in Nat /\ y <= Newest BY <1>2, NewestIsHighest DEF ToSet
<1>5. NextSequence = Max(S) + 1 BY DEF NextSequence
<1> HIDE DEF S
<1>6. S \in SUBSET Int
  <2>1. \A y \in S : y \in Int BY <1>4
  <2>2. QED BY <2>1
<1>7. Max(S) = Newest
  <2>1. \A y \in S : y <= Newest BY <1>4
  <2>2. QED BY <1>3, <1>6, <2>1, MaxIsBound
<1>8. QED BY <1>5, <1>7, NewestIsHighest

\* What a step of the run leaves in the cache, as a log.
LEMMA LoggedIsIncreasing ==
    ASSUME NEW s \in Seq(Message), Increasing(s), AllPositive(s), NEW m \in Message, m > 0,
           s # <<>> => Last(s) < m
    PROVE  LET t == Latest(Append(s, m))
           IN  /\ t \in Seq(Message) /\ Len(t) <= Limit
               /\ t # <<>> /\ Last(t) = m
               /\ Increasing(t) /\ AllPositive(t)
<1> DEFINE e == Append(s, m)
           t == Latest(e)
<1>1. /\ e \in Seq(Message) /\ Len(s) \in Nat /\ Len(e) = Len(s) + 1 /\ e[Len(s) + 1] = m
      /\ \A i \in 1..Len(s) : e[i] = s[i]
  BY AppendProperties, LenProperties
<1>2. /\ t \in Seq(Message) /\ Len(t) \in 1..Limit /\ Last(t) = m
  BY LatestIsSuffix
<1>3. PICK d \in Nat : Len(t) + d = Len(s) + 1 /\ \A i \in 1..Len(t) : t[i] = e[i + d]
  BY LatestIsSuffix
<1>4. \A i \in 1..Len(s) : s[i] \in Nat /\ s[i] < m /\ s[i] > 0
  <2> SUFFICES ASSUME NEW i \in 1..Len(s) PROVE s[i] \in Nat /\ s[i] < m /\ s[i] > 0
    OBVIOUS
  <2>1. s # <<>> BY EmptySeq
  <2>2. Last(s) \in Nat /\ Last(s) < m /\ s[i] \in Nat /\ s[i] <= Last(s)
    BY <2>1, LastIsHighest DEF Message
  <2>3. m \in Nat BY DEF Message
  <2>4. QED BY <2>2, <2>3 DEF AllPositive
<1> HIDE DEF e, t
<1>5. Increasing(e) /\ AllPositive(e)
  <2>1. ASSUME NEW i \in 1..Len(e), NEW k \in 1..Len(e), i < k PROVE e[i] < e[k]
    <3>1. i \in 1..Len(s) /\ e[i] = s[i] BY <1>1, <2>1
    <3>2. CASE k = Len(s) + 1 BY <1>1, <1>4, <3>1, <3>2
    <3>3. CASE k # Len(s) + 1
      <4>1. k \in 1..Len(s) /\ e[k] = s[k] BY <1>1, <3>3
      <4>2. QED BY <2>1, <3>1, <4>1 DEF Increasing
    <3>4. QED BY <3>2, <3>3
  <2>2. ASSUME NEW i \in 1..Len(e) PROVE e[i] > 0
    <3>1. CASE i = Len(s) + 1 BY <1>1, <3>1
    <3>2. CASE i # Len(s) + 1
      <4>1. i \in 1..Len(s) BY <1>1, <3>2
      <4>2. QED BY <1>1, <1>4, <4>1
    <3>3. QED BY <3>1, <3>2
  <2>3. QED BY <2>1, <2>2 DEF Increasing, AllPositive
<1>6. Increasing(t) /\ AllPositive(t)
  <2>1. \A i \in 1..Len(t) : i + d \in 1..Len(e) BY <1>1, <1>2, <1>3
  <2>2. ASSUME NEW i \in 1..Len(t), NEW k \in 1..Len(t), i < k PROVE t[i] < t[k]
    <3>1. i + d \in 1..Len(e) /\ k + d \in 1..Len(e) /\ i + d < k + d BY <2>1, <2>2
    <3>2. e[i + d] < e[k + d] BY <1>5, <3>1 DEF Increasing
    <3>3. QED BY <1>3, <3>2
  <2>3. ASSUME NEW i \in 1..Len(t) PROVE t[i] > 0 BY <1>3, <1>5, <2>1 DEF AllPositive
  <2>4. QED BY <2>2, <2>3 DEF Increasing, AllPositive
<1>7. t # <<>> BY <1>2, EmptySeq
<1>8. QED BY <1>2, <1>6, <1>7 DEF e, t

\* The types, with the number of the next event known to be one.
LEMMA RunType ==
    ASSUME EventTypeOK, Numbering, RunStep
    PROVE  EventTypeOK'
<1> USE DEF EventTypeOK
<1>0. StreamClosed \in Message /\ <<>> \in Seq(Message) /\ Len(<<>>) = 0
  BY EmptySeq DEF StreamClosed, Message
<1>1. CASE Clear
  <2>1. queue' \in [Client -> Seq(Message)] BY <1>0, <1>1, DeliveredType DEF Clear
  <2>2. QED BY <1>0, <1>1, <2>1 DEF Clear
<1>2. CASE MarkRunning BY <1>2 DEF MarkRunning
<1>3. CASE Publish
  <2>1. NextSequence \in Message /\ NextSequence > 0
    BY <1>3, NextIsAfterNewest DEF Publish, Message
  <2>2. queue' \in [Client -> Seq(Message)] BY <1>3, <2>1, DeliveredType DEF Publish
  <2>3. cache' \in Seq(Message) /\ Len(cache') <= Limit
    BY <1>3, <2>1, LatestIsSuffix DEF Publish
  <2>4. QED BY <1>3, <2>2, <2>3 DEF Publish
<1>4. CASE Store
  <2>1. Last(cache) \in Message BY <1>4, LastIsHighest DEF Store, Numbering
  <2>2. /\ Latest(Append(stored, Last(cache))) \in Seq(Message)
        /\ Len(Latest(Append(stored, Last(cache)))) <= Limit
    BY <2>1, LatestIsSuffix
  <2>3. stored' \in Seq(Message) /\ Len(stored') <= Limit BY <1>4, <2>2 DEF Store
  <2>4. QED BY <1>4, <2>3 DEF Store
<1>5. ASSUME NEW verdict \in RunVerdicts, Finish(verdict) PROVE EventTypeOK'
  BY <1>5 DEF Finish
<1>6. QED BY <1>1, <1>2, <1>3, <1>4, <1>5 DEF RunStep

LEMMA StreamType ==
    ASSUME EventTypeOK, NEW c \in Client, Connect(c) \/ StreamStep(c) \/ Disconnect(c)
    PROVE  EventTypeOK'
<1> USE DEF EventTypeOK, job
<1>0. <<>> \in Seq(Message) OBVIOUS
<1>1. CASE Connect(c)
  <2>1. \A ended \in BOOLEAN : [Away EXCEPT !.at = "replaying", !.ended = ended] \in Stream
    BY <1>0 DEF Away, Stream
  <2>2. SnapshotEnds \in BOOLEAN BY DEF SnapshotEnds
  <2>3. [Away EXCEPT !.at = "replaying", !.ended = SnapshotEnds] \in Stream BY <2>1, <2>2
  <2>4. QED BY <1>1, <2>3 DEF Connect
<1>2. CASE Replay(c)
  <2> DEFINE events == IF cache # <<>> THEN cache ELSE stored
  <2>1. events \in Seq(Message) /\ Len(events) \in Nat BY LenProperties
  <2> HIDE DEF events
  <2>2. stream' = [stream EXCEPT ![c].at = IF stream[c].ended THEN "closed" ELSE "subscribing",
                                 ![c].sent = events, ![c].replayed = Len(events)]
    BY <1>2 DEF Replay, events
  <2>3. \A at \in {"closed", "subscribing"} :
           [stream[c] EXCEPT !.at = at, !.sent = events, !.replayed = Len(events)] \in Stream
    BY <2>1 DEF Stream
  <2>4. stream' \in [Client -> Stream] BY <2>2, <2>3
  <2>5. QED BY <1>2, <2>4 DEF Replay
<1>3. CASE Subscribe(c)
  <2>1. [stream[c] EXCEPT !.at = "listening"] \in Stream BY DEF Stream
  <2>2. QED BY <1>0, <1>3, <2>1 DEF Subscribe
<1>4. CASE Receive(c)
  <2>1. Head(queue[c]) \in Message /\ Tail(queue[c]) \in Seq(Message)
    BY <1>4, HeadTailProperties DEF Receive
  <2>2. stream[c].sent \in Seq(Message) /\ Append(stream[c].sent, Head(queue[c])) \in Seq(Message)
    BY <2>1, AppendProperties DEF Stream
  <2>3. [stream[c] EXCEPT !.at = "sending",
            !.sent = IF Head(queue[c]) = StreamClosed THEN @ ELSE Append(@, Head(queue[c]))]
           \in Stream
    BY <2>2 DEF Stream
  <2>4. stream' \in [Client -> Stream] BY <1>4, <2>3 DEF Receive
  <2>5. queue' \in [Client -> Seq(Message)] BY <1>4, <2>1 DEF Receive
  <2>6. QED BY <1>4, <2>4, <2>5 DEF Receive
<1>5. CASE TimeOut(c)
  <2>1. [stream[c] EXCEPT !.at = "sending"] \in Stream BY DEF Stream
  <2>2. QED BY <1>5, <2>1 DEF TimeOut
<1>6. CASE Snapshot(c)
  <2>1. \A at \in {"closed", "listening"} : [stream[c] EXCEPT !.at = at] \in Stream
    BY DEF Stream
  <2>2. QED BY <1>0, <1>6, <2>1 DEF Snapshot, Unsubscribed
<1>7. CASE Disconnect(c) BY <1>0, <1>7, AwayType DEF Disconnect, Unsubscribed
<1>8. QED BY <1>1, <1>2, <1>3, <1>4, <1>5, <1>6, <1>7 DEF StreamStep

LEMMA TypeStep ==
    ASSUME EventTypeOK, Numbering, [EventNext]_eventVars
    PROVE  EventTypeOK'
<1>0. <<>> \in Seq(Message) /\ Len(<<>>) = 0 BY EmptySeq
<1>1. CASE CancelJob \/ DeleteJob
  <2>1. CASE CancelJob BY <2>1 DEF CancelJob, EventTypeOK
  <2>2. CASE DeleteJob
    <3>1. stored' \in Seq(Message) /\ Len(stored') <= Limit BY <1>0, <2>2 DEF DeleteJob
    <3>2. QED BY <2>2, <3>1 DEF DeleteJob, EventTypeOK
  <2>3. QED BY <1>1, <2>1, <2>2
<1>2. CASE ProcessDies
  <2>1. crashes' \in 0..MaxCrashes BY <1>2 DEF ProcessDies, EventTypeOK
  <2>2. queue' \in [Client -> Seq(Message)] /\ stream' \in [Client -> Stream]
    BY <1>0, <1>2, AwayType DEF ProcessDies
  <2>3. QED BY <1>0, <1>2, <2>1, <2>2 DEF ProcessDies, EventTypeOK
<1>3. CASE UNCHANGED eventVars BY <1>3 DEF eventVars, EventTypeOK
<1>4. QED BY <1>1, <1>2, <1>3, RunType, StreamType DEF EventNext
----------------------------------------------------------------------------
LEMMA NumberingStep ==
    ASSUME EventTypeOK, Numbering, [EventNext]_eventVars
    PROVE  Numbering'
<1>0. cache \in Seq(Message) /\ stored \in Seq(Message) BY DEF EventTypeOK
<1>1. Increasing(<<>>) /\ AllPositive(<<>>) BY EmptySeq DEF Increasing, AllPositive
<1>2. CASE Clear BY <1>1, <1>2 DEF Clear, Numbering, CacheIsFreshest
<1>3. CASE MarkRunning BY <1>3 DEF MarkRunning, Numbering, CacheIsFreshest
<1>4. CASE Publish
  <2> DEFINE n == NextSequence
  <2>1. n \in Message /\ n > 0 /\ n = Newest + 1 /\ Newest \in Nat
    BY <1>4, NextIsAfterNewest, NewestIsHighest DEF Publish, Message
  <2>2. cache # <<>> => Last(cache) < n
    <3>1. cache # <<>> => Last(cache) = Newest BY DEF Newest
    <3>2. QED BY <2>1, <3>1
  <2>3. stored # <<>> => Last(stored) < n
    <3>1. stored # <<>> => Last(stored) <= Newest
      BY <1>0, LastIsHighest, NewestIsHighest DEF Numbering
    <3>2. stored # <<>> => Last(stored) \in Nat
      BY <1>0, LastIsHighest DEF Numbering, Message
    <3>3. QED BY <2>1, <3>1, <3>2
  <2>4. cache' = Latest(Append(cache, n)) /\ stored' = stored /\ runner' = "storing"
    BY <1>4 DEF Publish
  <2> HIDE DEF n
  <2>5. cache' # <<>> /\ Last(cache') = n /\ Increasing(cache') /\ AllPositive(cache')
    BY <1>0, <2>1, <2>2, <2>4, LoggedIsIncreasing DEF Numbering
  <2>6. stored # <<>> => Last(stored) <= Last(cache')
    BY <1>0, <2>1, <2>3, <2>5, LastIsHighest DEF Numbering, Message
  <2>7. QED BY <2>3, <2>4, <2>5, <2>6 DEF Numbering, CacheIsFreshest
<1>5. CASE Store
  <2>1. cache # <<>> /\ cache' = cache /\ runner' = "running" /\ Last(cache) \in Message
    BY <1>0, <1>5, LastIsHighest DEF Store, Numbering
  <2>2. Last(cache) > 0 /\ (stored # <<>> => Last(stored) < Last(cache))
    BY <1>0, <1>5, <2>1, LastIsHighest DEF Store, Numbering, AllPositive
  <2>3. CASE stored' = stored BY <2>1, <2>3 DEF Numbering, CacheIsFreshest
  <2>4. CASE stored' = Latest(Append(stored, Last(cache)))
    <3>1. Last(stored') = Last(cache) /\ Increasing(stored') /\ AllPositive(stored')
      BY <1>0, <2>1, <2>2, <2>4, LoggedIsIncreasing DEF Numbering
    <3>2. Last(stored') <= Last(cache') BY <2>1, <3>1 DEF Message
    <3>3. QED BY <2>1, <3>1, <3>2 DEF Numbering, CacheIsFreshest
  <2>5. QED BY <1>5, <2>3, <2>4 DEF Store
<1>6. ASSUME NEW verdict \in RunVerdicts, Finish(verdict) PROVE Numbering'
  BY <1>6 DEF Finish, Numbering, CacheIsFreshest
<1>7. CASE DeleteJob BY <1>1, <1>7 DEF DeleteJob, Numbering, CacheIsFreshest
<1>8. CASE ProcessDies BY <1>1, <1>8 DEF ProcessDies, Numbering, CacheIsFreshest
<1>9. CASE UNCHANGED <<cache, stored, runner>>
  BY <1>9 DEF Numbering, CacheIsFreshest
<1>10. QED
  BY <1>2, <1>3, <1>4, <1>5, <1>6, <1>7, <1>8, <1>9 DEF EventNext, RunStep, CancelJob, Connect,
     StreamStep, Replay, Subscribe, Receive, TimeOut, Snapshot, Disconnect, job, eventVars
----------------------------------------------------------------------------
(***************************************************************************)
(* The streams.  The flow of a client is what its stream has sent and, as  *)
(* long as it is subscribed, what waits in its queue: receiving an event   *)
(* leaves it as it is, publishing one appends to it.  The invariant says   *)
(* that the live part of a flow has no holes and ends, for a subscriber,   *)
(* in the newest event of the cache, and that a flow is in order and not   *)
(* ahead of the numbering, as long as the job has a record to number from. *)
(***************************************************************************)
Flow(c) == IF c \in subs THEN stream[c].sent \o queue[c] ELSE stream[c].sent

FlowOK(c) ==
    /\ \A i \in stream[c].replayed + 2..Len(Flow(c)) : Flow(c)[i] = Flow(c)[i - 1] + 1
    /\ c \in subs /\ Len(Flow(c)) > stream[c].replayed =>
          cache # <<>> /\ Flow(c)[Len(Flow(c))] = Last(cache)
    /\ status # "deleted" => /\ Increasing(Flow(c))
                             /\ \A i \in 1..Len(Flow(c)) : Flow(c)[i] <= Newest

Attached(c) ==
    /\ c \in subs => stream[c].at \in {"listening", "sending"} /\ AllPositive(queue[c])
    /\ c \notin subs => queue[c] \in {<<>>, <<StreamClosed>>}
    /\ runner = "ready" => queue[c] = <<>>
    /\ stream[c].at = "subscribing" => stream[c].replayed = Len(stream[c].sent)
    /\ stream[c].replayed <= Len(stream[c].sent)

StreamInv == \A c \in Client : Attached(c) /\ FlowOK(c)

LEMMA FlowFacts ==
    ASSUME EventTypeOK, NEW c \in Client
    PROVE  /\ stream[c] \in Stream /\ stream[c].sent \in Seq(Message) /\ queue[c] \in Seq(Message)
           /\ Flow(c) \in Seq(Message) /\ Len(Flow(c)) \in Nat
           /\ \A i \in 1..Len(Flow(c)) : Flow(c)[i] \in Nat
           /\ Len(stream[c].sent) \in Nat /\ Len(stream[c].sent) <= Len(Flow(c))
           /\ \A i \in 1..Len(stream[c].sent) : Flow(c)[i] = stream[c].sent[i]
           /\ stream[c].replayed \in Nat
           /\ queue[c] = <<>> => Flow(c) = stream[c].sent
<1>1. stream[c] \in Stream /\ queue[c] \in Seq(Message) BY DEF EventTypeOK
<1>2. stream[c].sent \in Seq(Message) /\ stream[c].replayed \in Nat BY <1>1 DEF Stream
<1>3. Len(stream[c].sent) \in Nat /\ Len(queue[c]) \in Nat BY <1>1, <1>2, LenProperties
<1> DEFINE s == stream[c].sent
           q == queue[c]
<1>4. /\ s \o q \in Seq(Message) /\ Len(s \o q) = Len(s) + Len(q)
      /\ \A i \in 1..Len(s) + Len(q) : (s \o q)[i] = IF i <= Len(s) THEN s[i] ELSE q[i - Len(s)]
  BY <1>1, <1>2, ConcatProperties
<1>5. q = <<>> => s \o q = s BY <1>2, ConcatEmptySeq
<1>6. Flow(c) = s \o q \/ Flow(c) = s BY DEF Flow
<1>11. Len(s) \in Nat /\ Len(q) \in Nat BY <1>3
<1> HIDE DEF s, q
<1>7. /\ Flow(c) \in Seq(Message) /\ Len(s) <= Len(Flow(c))
      /\ \A i \in 1..Len(s) : Flow(c)[i] = s[i]
  <2>0. s \in Seq(Message) BY <1>2 DEF s
  <2>1. CASE Flow(c) = s BY <1>11, <2>0, <2>1
  <2>2. CASE Flow(c) = s \o q
    <3>1. Len(s) <= Len(s) + Len(q) BY <1>11
    <3>2. \A i \in 1..Len(s) : i \in 1..Len(s) + Len(q) /\ i <= Len(s) BY <1>11
    <3>3. QED BY <1>4, <2>2, <3>1, <3>2
  <2>3. QED BY <1>6, <2>1, <2>2
<1>8. Len(Flow(c)) \in Nat /\ \A i \in 1..Len(Flow(c)) : Flow(c)[i] \in Nat
  BY <1>7, LenProperties, ElementOfSeq DEF Message
<1>9. q = <<>> => Flow(c) = s BY <1>5, <1>6
<1>10. QED BY <1>1, <1>2, <1>3, <1>7, <1>8, <1>9 DEF s, q

LEMMA NewestNext ==
    ASSUME EventTypeOK', Numbering'
    PROVE  Newest' \in Nat
<1>1. cache' \in Seq(Message) /\ stored' \in Seq(Message) BY DEF EventTypeOK
<1>2. Increasing(cache') /\ Increasing(stored') BY DEF Numbering
<1>3. cache' # <<>> => Last(cache') \in Nat BY <1>1, <1>2, LastIsHighest DEF Message
<1>4. stored' # <<>> => Last(stored') \in Nat BY <1>1, <1>2, LastIsHighest DEF Message
<1>5. QED BY <1>3, <1>4 DEF Newest

\* A flow that stays, or gives up its end together with the subscription, stays good as long
\* as the newest event does not go back.
LEMMA FlowKept ==
    ASSUME EventTypeOK, EventTypeOK', Numbering, Numbering', NEW c \in Client, FlowOK(c),
           Len(Flow(c)') <= Len(Flow(c)),
           \A i \in 1..Len(Flow(c)') : Flow(c)'[i] = Flow(c)[i],
           stream'[c].replayed = stream[c].replayed,
           c \in subs' => /\ c \in subs /\ Flow(c)' = Flow(c)
                          /\ cache # <<>> => cache' # <<>> /\ Last(cache') = Last(cache),
           status' # "deleted" => status # "deleted" /\ Newest <= Newest'
    PROVE  FlowOK(c)'
<1>1. /\ Len(Flow(c)) \in Nat /\ stream[c].replayed \in Nat
      /\ \A i \in 1..Len(Flow(c)) : Flow(c)[i] \in Nat
      /\ Len(Flow(c)') \in Nat
  <2>1. stream'[c] \in Stream /\ queue'[c] \in Seq(Message) BY DEF EventTypeOK
  <2>2. stream'[c].sent \in Seq(Message) BY <2>1 DEF Stream
  <2>3. Flow(c)' \in Seq(Message) BY <2>1, <2>2, ConcatProperties DEF Flow
  <2>4. Len(Flow(c)') \in Nat BY <2>3, LenProperties
  <2>5. QED BY <2>4, FlowFacts
<1>2. Newest \in Nat BY NewestIsHighest
<1>3. Newest' \in Nat BY NewestNext
<1>4. ASSUME NEW i \in stream'[c].replayed + 2..Len(Flow(c)')
      PROVE  Flow(c)'[i] = Flow(c)'[i - 1] + 1
  <2>1. /\ i \in 1..Len(Flow(c)') /\ i - 1 \in 1..Len(Flow(c)')
        /\ i \in stream[c].replayed + 2..Len(Flow(c))
    BY <1>1
  <2>2. QED BY <2>1 DEF FlowOK
<1>5. c \in subs' /\ Len(Flow(c)') > stream'[c].replayed =>
         cache' # <<>> /\ Flow(c)'[Len(Flow(c)')] = Last(cache')
  BY DEF FlowOK
<1>6. ASSUME status' # "deleted"
      PROVE  Increasing(Flow(c)') /\ \A i \in 1..Len(Flow(c)') : Flow(c)'[i] <= Newest'
  <2>1. Increasing(Flow(c)) /\ \A i \in 1..Len(Flow(c)) : Flow(c)[i] <= Newest
    BY <1>6 DEF FlowOK
  <2>2. \A i \in 1..Len(Flow(c)') : i \in 1..Len(Flow(c)) BY <1>1
  <2>3. Increasing(Flow(c)') BY <2>1, <2>2 DEF Increasing
  <2>4. Newest <= Newest' BY <1>6
  <2>5. ASSUME NEW i \in 1..Len(Flow(c)') PROVE Flow(c)'[i] <= Newest'
    <3>1. i \in 1..Len(Flow(c)) /\ Flow(c)'[i] = Flow(c)[i] BY <2>2
    <3>2. Flow(c)[i] \in Nat /\ Flow(c)[i] <= Newest BY <1>1, <2>1, <3>1
    <3>3. QED BY <1>2, <1>3, <2>4, <3>1, <3>2
  <2>6. QED BY <2>3, <2>5
<1>7. QED BY <1>4, <1>5, <1>6 DEF FlowOK

LEMMA FlowUnmoved ==
    ASSUME NEW c \in Client, Attached(c), FlowOK(c),
           stream'[c] = stream[c], queue'[c] = queue[c], c \in subs' <=> c \in subs,
           UNCHANGED <<status, cache, stored, runner>>
    PROVE  Attached(c)' /\ FlowOK(c)'
<1>1. Flow(c)' = Flow(c) BY DEF Flow
<1>2. Newest' = Newest BY DEF Newest
<1>3. FlowOK(c)' BY <1>1, <1>2 DEF FlowOK
<1>4. QED BY <1>3 DEF Attached

LEMMA FlowEmpty ==
    ASSUME NEW c \in Client, c \notin subs',
           stream'[c].sent = <<>>, stream'[c].replayed = 0
    PROVE  FlowOK(c)'
<1>1. Flow(c)' = <<>> BY DEF Flow
<1>2. Len(<<>>) = 0 /\ 0 + 2..0 = {} /\ 1..0 = {} BY EmptySeq
<1>3. Len(Flow(c)') = 0 BY <1>1, <1>2
<1>4. QED BY <1>2, <1>3 DEF FlowOK, Increasing

\* Delivering an event appends it to the flow of a subscriber.
LEMMA FlowOfDelivery ==
    ASSUME NEW s \in Seq(Message), NEW q \in Seq(Message), NEW m \in Message
    PROVE  s \o Append(q, m) = Append(s \o q, m)
<1> DEFINE a == Append(q, m)
           f == s \o q
<1>1. /\ a \in Seq(Message) /\ Len(s) \in Nat /\ Len(q) \in Nat /\ Len(a) = Len(q) + 1
      /\ \A i \in 1..Len(q) : a[i] = q[i]
      /\ a[Len(q) + 1] = m
  BY AppendProperties, LenProperties
<1>2. /\ f \in Seq(Message) /\ Len(f) = Len(s) + Len(q) /\ Len(f) \in Nat
      /\ \A i \in 1..Len(s) + Len(q) : f[i] = IF i <= Len(s) THEN s[i] ELSE q[i - Len(s)]
  BY ConcatProperties, LenProperties
<1> HIDE DEF a, f
<1>3. /\ s \o a \in Seq(Message) /\ Len(s \o a) = Len(s) + Len(a)
      /\ \A i \in 1..Len(s) + Len(a) :
            (s \o a)[i] = IF i <= Len(s) THEN s[i] ELSE a[i - Len(s)]
  BY <1>1, ConcatProperties
<1>4. /\ Append(f, m) \in Seq(Message) /\ Len(Append(f, m)) = Len(f) + 1
      /\ \A i \in 1..Len(f) : Append(f, m)[i] = f[i]
      /\ Append(f, m)[Len(f) + 1] = m
  <2>1. f \in Seq(Message) /\ m \in Message BY <1>2
  <2>2. QED BY <2>1, AppendProperties
<1>5. Len(s) + Len(a) = Len(f) + 1 BY <1>1, <1>2
<1>6. ASSUME NEW i \in 1..Len(f) + 1 PROVE (s \o a)[i] = Append(f, m)[i]
  <2>1. (s \o a)[i] = IF i <= Len(s) THEN s[i] ELSE a[i - Len(s)] BY <1>3, <1>5
  <2>2. CASE i = Len(f) + 1
    <3>1. ~(i <= Len(s)) /\ i - Len(s) = Len(q) + 1 BY <1>1, <1>2, <2>2
    <3>2. (s \o a)[i] = m BY <1>1, <2>1, <3>1
    <3>3. QED BY <1>4, <2>2, <3>2
  <2>3. CASE i # Len(f) + 1
    <3>0. Len(f) \in Nat /\ Len(f) = Len(s) + Len(q) BY <1>2
    <3>1. i \in 1..Len(f) /\ i \in 1..Len(s) + Len(q)
      <4>1. i \in 1..Len(f) BY <2>3, <3>0
      <4>2. QED BY <3>0, <4>1
    <3>2. Append(f, m)[i] = IF i <= Len(s) THEN s[i] ELSE q[i - Len(s)] BY <1>2, <1>4, <3>1
    <3>3. ~(i <= Len(s)) => i - Len(s) \in 1..Len(q) BY <1>1, <3>1
    <3>4. QED BY <1>1, <2>1, <3>2, <3>3
  <2>4. QED BY <2>2, <2>3
<1>7. s \o a = Append(f, m) BY <1>3, <1>4, <1>5, <1>6, SeqEqual
<1>8. QED BY <1>7 DEF a, f

\* Publishing an event.
LEMMA PublishedFlow ==
    ASSUME EventTypeOK, EventTypeOK', Numbering, Numbering', NEW c \in Client, Attached(c), FlowOK(c),
           Publish
    PROVE  Attached(c)' /\ FlowOK(c)'
<1> DEFINE n == NextSequence
<1>1. n \in Message /\ n > 0 /\ n = Newest + 1 /\ Newest \in Nat
  BY NextIsAfterNewest, NewestIsHighest DEF Publish, Message
<1>2. /\ cache' = Latest(Append(cache, n)) /\ runner' = "storing"
      /\ UNCHANGED <<status, stored, subs, stream>>
      /\ queue'[c] = IF c \in subs THEN Append(queue[c], n) ELSE queue[c]
  BY DEF Publish, Delivered
<1> HIDE DEF n
<1>3. cache' # <<>> /\ Last(cache') = n
  <2>1. cache \in Seq(Message) BY DEF EventTypeOK
  <2>2. Len(cache') \in 1..Limit /\ Last(cache') = n BY <1>1, <1>2, <2>1, LatestIsSuffix
  <2>3. QED BY <2>2, EmptySeq
<1>4. Newest' = n BY <1>3 DEF Newest
<1>5. CASE c \notin subs
  <2>1. Flow(c)' = Flow(c) BY <1>2, <1>5 DEF Flow
  <2>2. Newest <= Newest' BY <1>1, <1>4
  <2>3. Len(Flow(c)') <= Len(Flow(c)) BY <2>1, FlowFacts
  <2>4. FlowOK(c)' BY <1>2, <1>5, <2>1, <2>2, <2>3, FlowKept
  <2>5. QED BY <1>2, <1>5, <2>4 DEF Attached
<1>6. CASE c \in subs
  <2> DEFINE f == Flow(c)
             g == Flow(c)'
             r == stream[c].replayed
  <2>1. /\ stream[c].sent \in Seq(Message) /\ queue[c] \in Seq(Message) /\ f \in Seq(Message)
        /\ Len(f) \in Nat /\ r \in Nat /\ \A i \in 1..Len(f) : f[i] \in Nat
    BY FlowFacts
  <2>2. f = stream[c].sent \o queue[c] /\ g = stream[c].sent \o Append(queue[c], n)
    BY <1>2, <1>6 DEF Flow
  <2>3. g = Append(f, n)
    <3>1. \A s \in Seq(Message), q \in Seq(Message) : s \o Append(q, n) = Append(s \o q, n)
      BY <1>1, FlowOfDelivery
    <3>2. stream[c].sent \o Append(queue[c], n) = Append(stream[c].sent \o queue[c], n)
      BY <2>1, <3>1
    <3>3. QED BY <2>2, <3>2
  <2>4. stream'[c].replayed = r /\ c \in subs' /\ status' = status BY <1>2, <1>6
  <2>5. /\ \A i \in r + 2..Len(f) : f[i] = f[i - 1] + 1
        /\ Len(f) > r => f[Len(f)] = Newest
        /\ status # "deleted" => Increasing(f) /\ \A i \in 1..Len(f) : f[i] <= Newest
    BY <1>6 DEF FlowOK, Newest
  <2>6. Flow(c)' = g BY DEF g
  <2> HIDE DEF f, g, r
  <2>7. /\ Len(g) = Len(f) + 1 /\ g[Len(f) + 1] = n
        /\ \A i \in 1..Len(f) : g[i] = f[i]
    BY <1>1, <2>1, <2>3, AppendProperties
  <2>8. ASSUME NEW i \in r + 2..Len(g) PROVE g[i] = g[i - 1] + 1
    <3>1. i \in Nat /\ i - 1 \in 1..Len(f) BY <2>1, <2>7
    <3>2. CASE i = Len(f) + 1
      <4>1. Len(f) > r /\ i - 1 = Len(f) BY <2>1, <3>2
      <4>2. g[i - 1] = Newest BY <2>5, <2>7, <3>1, <4>1
      <4>3. QED BY <1>1, <2>7, <3>2, <4>2
    <3>3. CASE i # Len(f) + 1
      <4>1. i \in r + 2..Len(f) /\ i \in 1..Len(f) BY <2>1, <2>7, <3>3
      <4>2. QED BY <2>5, <2>7, <3>1, <4>1
    <3>4. QED BY <3>2, <3>3
  <2>9. g[Len(g)] = Last(cache') BY <1>3, <2>7
  <2>10. ASSUME status' # "deleted" PROVE Increasing(g) /\ \A i \in 1..Len(g) : g[i] <= Newest'
    <3>1. Increasing(f) /\ \A i \in 1..Len(f) : f[i] \in Nat /\ f[i] <= Newest
      BY <2>1, <2>4, <2>5, <2>10
    <3>2. \A i \in 1..Len(f) : g[i] \in Nat /\ g[i] < n BY <1>1, <2>7, <3>1
    <3>3. \A i \in 1..Len(g) : i = Len(f) + 1 \/ i \in 1..Len(f) BY <2>1, <2>7
    <3>4. \A i \in 1..Len(g) : g[i] <= n BY <1>1, <2>7, <3>2, <3>3 DEF Message
    <3>5. ASSUME NEW i \in 1..Len(g), NEW k \in 1..Len(g), i < k PROVE g[i] < g[k]
      <4>1. i \in 1..Len(f) BY <2>1, <2>7, <3>5
      <4>2. CASE k = Len(f) + 1 BY <2>7, <3>2, <4>1, <4>2
      <4>3. CASE k \in 1..Len(f) BY <2>7, <3>1, <3>5, <4>1, <4>3 DEF Increasing
      <4>4. QED BY <3>3, <4>2, <4>3
    <3>6. QED BY <1>4, <3>4, <3>5 DEF Increasing
  <2>11. FlowOK(c)' BY <1>3, <2>4, <2>6, <2>8, <2>9, <2>10 DEF FlowOK
  <2>12. AllPositive(queue'[c])
    <3> DEFINE q == queue[c]
    <3>1. q \in Seq(Message) /\ Len(q) \in Nat /\ \A i \in 1..Len(q) : q[i] > 0
      BY <1>6, <2>1, LenProperties DEF Attached, AllPositive
    <3>2. queue'[c] = Append(q, n) BY <1>2, <1>6
    <3> HIDE DEF q
    <3>3. /\ Len(Append(q, n)) = Len(q) + 1 /\ Append(q, n)[Len(q) + 1] = n
          /\ \A i \in 1..Len(q) : Append(q, n)[i] = q[i]
      BY <1>1, <3>1, AppendProperties
    <3>4. \A i \in 1..Len(q) + 1 : i = Len(q) + 1 \/ i \in 1..Len(q) BY <3>1
    <3>5. QED BY <1>1, <3>1, <3>2, <3>3, <3>4 DEF AllPositive
  <2>13. QED BY <1>2, <1>6, <2>11, <2>12 DEF Attached
<1>7. QED BY <1>5, <1>6

\* A step of the run or of the API that is not Publish leaves the flows as they are.
LEMMA RunFlow ==
    ASSUME EventTypeOK, EventTypeOK', Numbering, Numbering', NEW c \in Client, Attached(c), FlowOK(c),
           RunStep \/ CancelJob \/ DeleteJob \/ ProcessDies
    PROVE  Attached(c)' /\ FlowOK(c)'
<1>0. Newest \in Nat /\ Newest <= Newest /\ Len(Flow(c)) <= Len(Flow(c))
  BY NewestIsHighest, FlowFacts
<1>1. CASE Clear
  <2>1. queue[c] = <<>> /\ cache = <<>> BY <1>1 DEF Clear, Attached, Numbering
  <2>2. /\ queue'[c] = IF c \in subs THEN Append(queue[c], StreamClosed) ELSE queue[c]
        /\ subs' = {} /\ cache' = <<>> /\ runner' = "cleared"
        /\ UNCHANGED <<status, stored, stream>>
    BY <1>1 DEF Clear, Delivered
  <2>3. Append(<<>>, StreamClosed) = <<StreamClosed>> OBVIOUS
  <2>4. queue'[c] \in {<<>>, <<StreamClosed>>} BY <2>1, <2>2, <2>3
  <2>5. Flow(c) = stream[c].sent /\ Flow(c)' = stream[c].sent BY <2>1, <2>2, FlowFacts DEF Flow
  <2>6. Newest' = Newest BY <2>1, <2>2 DEF Newest
  <2>7. FlowOK(c)' BY <1>0, <2>2, <2>5, <2>6, FlowKept
  <2>8. QED BY <2>2, <2>4, <2>7 DEF Attached
<1>2. CASE Publish BY <1>2, PublishedFlow
<1>3. CASE MarkRunning \/ Store \/ CancelJob \/ DeleteJob \/ \E verdict \in RunVerdicts : Finish(verdict)
  <2>1. /\ UNCHANGED <<cache, subs, queue, stream>>
        /\ runner' # "ready" \/ runner' = runner
    BY <1>3 DEF MarkRunning, Store, CancelJob, DeleteJob, Finish
  <2>2. Flow(c)' = Flow(c) BY <2>1 DEF Flow
  <2>3. status' # "deleted" => status # "deleted" /\ Newest' = Newest
    <3>1. CASE MarkRunning BY <3>1 DEF MarkRunning, Newest
    <3>2. CASE Store
      <4>1. cache # <<>> BY <3>2 DEF Store, Numbering
      <4>2. QED BY <3>2, <4>1 DEF Store, Newest
    <3>3. CASE CancelJob BY <3>3 DEF CancelJob, Newest
    <3>4. CASE DeleteJob BY <3>4 DEF DeleteJob
    <3>5. ASSUME NEW verdict \in RunVerdicts, Finish(verdict)
          PROVE  status' # "deleted" => status # "deleted" /\ Newest' = Newest
      BY <3>5 DEF Finish, Newest
    <3>6. QED BY <1>3, <3>1, <3>2, <3>3, <3>4, <3>5
  <2>4. FlowOK(c)'
    <3>1. status' # "deleted" => status # "deleted" /\ Newest <= Newest' BY <1>0, <2>3
    <3>2. stream'[c].replayed = stream[c].replayed BY <2>1
    <3>3. c \in subs' => /\ c \in subs /\ Flow(c)' = Flow(c)
                         /\ cache # <<>> => cache' # <<>> /\ Last(cache') = Last(cache)
      BY <2>1, <2>2
    <3>4. QED BY <1>0, <2>2, <3>1, <3>2, <3>3, FlowKept
  <2>5. QED BY <2>1, <2>4 DEF Attached
<1>4. CASE ProcessDies
  <2>1. subs' = {} /\ queue'[c] = <<>> /\ stream'[c] = Away BY <1>4 DEF ProcessDies
  <2>2. /\ stream'[c].sent = <<>> /\ stream'[c].replayed = 0 /\ stream'[c].at = "away"
        /\ Len(<<>>) = 0
    BY <2>1, EmptySeq DEF Away
  <2>3. FlowOK(c)' BY <2>1, <2>2, FlowEmpty
  <2>4. QED BY <2>1, <2>2, <2>3 DEF Attached
<1>5. QED BY <1>1, <1>2, <1>3, <1>4 DEF RunStep

\* A step of a stream leaves the flow of every other client as it is ..
LEMMA OtherFlow ==
    ASSUME EventTypeOK, NEW c \in Client, Attached(c), FlowOK(c),
           NEW d \in Client, d # c, Connect(d) \/ StreamStep(d) \/ Disconnect(d)
    PROVE  Attached(c)' /\ FlowOK(c)'
<1>1. /\ UNCHANGED <<status, cache, stored, runner>>
      /\ stream'[c] = stream[c] /\ queue'[c] = queue[c] /\ (c \in subs' <=> c \in subs)
  BY DEF Connect, StreamStep, Replay, Subscribe, Receive, TimeOut, Snapshot, Disconnect,
         Unsubscribed, job, EventTypeOK
<1>2. QED BY <1>1, FlowUnmoved

\* .. and keeps its own in order.
LEMMA OwnFlow ==
    ASSUME EventTypeOK, EventTypeOK', Numbering, Numbering', NEW c \in Client, Attached(c), FlowOK(c),
           Connect(c) \/ StreamStep(c) \/ Disconnect(c)
    PROVE  Attached(c)' /\ FlowOK(c)'
<1> DEFINE s == stream[c].sent
           q == queue[c]
<1>0. /\ s \in Seq(Message) /\ q \in Seq(Message) /\ Len(s) \in Nat
      /\ stream[c].replayed \in Nat /\ stream[c].replayed <= Len(s)
      /\ Newest \in Nat /\ Newest <= Newest
      /\ Len(Flow(c)) \in Nat /\ Len(Flow(c)) <= Len(Flow(c)) /\ Len(s) <= Len(Flow(c))
      /\ \A i \in 1..Len(s) : Flow(c)[i] = s[i]
  BY FlowFacts, NewestIsHighest DEF Attached
<1>e. Len(<<>>) = 0 BY EmptySeq
<1>j. UNCHANGED <<status, cache, stored, runner>> /\ Newest' = Newest
  BY DEF Connect, StreamStep, Replay, Subscribe, Receive, TimeOut, Snapshot, Disconnect,
         job, Newest
<1>t. stream \in [Client -> Stream] /\ queue \in [Client -> Seq(Message)]
      /\ stream[c] \in Stream
  BY DEF EventTypeOK
<1>1. CASE Connect(c)
  <2>1. c \notin subs /\ subs' = subs /\ queue' = queue BY <1>1 DEF Connect, Attached
  <2>2. stream'[c] = [Away EXCEPT !.at = "replaying", !.ended = SnapshotEnds]
    BY <1>1, <1>t DEF Connect
  <2>3. stream'[c].sent = <<>> /\ stream'[c].replayed = 0 /\ stream'[c].at = "replaying"
    BY <2>2 DEF Away
  <2>4. FlowOK(c)' BY <2>1, <2>3, FlowEmpty
  <2>5. QED BY <1>e, <1>j, <2>1, <2>3, <2>4 DEF Attached
<1>2. CASE Replay(c)
  <2> DEFINE events == IF cache # <<>> THEN cache ELSE stored
  <2>1. c \notin subs /\ subs' = subs /\ queue' = queue BY <1>2 DEF Replay, Attached
  <2>2. /\ events \in Seq(Message) /\ Len(events) \in Nat /\ Increasing(events)
        /\ \A i \in 1..Len(events) : events[i] <= Newest
    BY NewestIsHighest, LenProperties DEF EventTypeOK, Numbering
  <2>3. /\ stream'[c].at \in {"closed", "subscribing"} /\ stream'[c].sent = events
        /\ stream'[c].replayed = Len(events)
    BY <1>2, <1>t DEF Replay, Stream
  <2> HIDE DEF events
  <2>4. Flow(c)' = events BY <2>1, <2>3 DEF Flow
  <2>5. Len(events) + 2..Len(events) = {} BY <2>2
  <2>6. FlowOK(c)' BY <1>j, <2>1, <2>2, <2>3, <2>4, <2>5 DEF FlowOK
  <2>7. Len(events) <= Len(events) BY <2>2
  <2>8. QED BY <1>j, <2>1, <2>3, <2>6, <2>7 DEF Attached
<1>3. CASE Subscribe(c)
  <2>1. c \notin subs /\ stream[c].replayed = Len(s) BY <1>3 DEF Subscribe, Attached
  <2>2. /\ c \in subs' /\ queue'[c] = <<>> /\ stream'[c].at = "listening"
        /\ stream'[c].sent = s /\ stream'[c].replayed = Len(s)
    BY <1>3, <1>t, <2>1 DEF Subscribe, Stream
  <2>3. Flow(c) = s BY <2>1 DEF Flow
  <2>4. Flow(c)' = s BY <1>0, <2>2, ConcatEmptySeq DEF Flow
  <2> HIDE DEF s
  <2>5. Len(s) + 2..Len(s) = {} /\ ~(Len(s) > Len(s)) /\ Len(s) <= Len(s) BY <1>0
  <2>6. FlowOK(c)' BY <1>j, <2>2, <2>3, <2>4, <2>5 DEF FlowOK
  <2>7. AllPositive(queue'[c]) BY <1>e, <2>2 DEF AllPositive
  <2>8. QED BY <1>j, <2>2, <2>5, <2>6, <2>7 DEF Attached
<1>4. CASE Receive(c)
  <2>1. /\ q # <<>> /\ Head(q) \in Message /\ Head(q) = q[1] /\ Tail(q) \in Seq(Message)
        /\ Len(q) \in Nat \ {0} /\ Len(Tail(q)) = Len(q) - 1
        /\ \A i \in 1..Len(q) - 1 : Tail(q)[i] = q[i + 1]
    BY <1>0, <1>4, HeadTailProperties, EmptySeq DEF Receive
  <2>2. /\ subs' = subs /\ queue'[c] = Tail(q)
        /\ stream'[c].at = "sending" /\ stream'[c].replayed = stream[c].replayed
        /\ stream'[c].sent = IF Head(q) = StreamClosed THEN s ELSE Append(s, Head(q))
    BY <1>4, <1>t DEF Receive, Stream
  <2>3. CASE c \in subs
    <3>1. \A i \in 1..Len(q) : q[i] > 0 BY <2>3 DEF Attached, AllPositive
    <3> HIDE DEF s, q
    <3>2. Head(q) > 0 BY <2>1, <3>1
    <3>3. stream'[c].sent = Append(s, Head(q)) BY <2>2, <3>2 DEF StreamClosed
    <3>4. Append(s, Head(q)) \o Tail(q) = s \o q BY <1>0, <2>1, FlowOfReceive
    <3>5. Flow(c) = s \o q BY <2>3 DEF Flow, s, q
    <3>6. Flow(c)' = s \o q BY <2>2, <2>3, <3>3, <3>4 DEF Flow
    <3>7. FlowOK(c)' BY <1>0, <1>j, <2>2, <2>3, <3>5, <3>6, FlowKept
    <3>8. AllPositive(queue'[c]) BY <2>1, <2>2, <3>1 DEF AllPositive
    <3>9. stream'[c].replayed <= Len(stream'[c].sent)
      <4>1. Len(Append(s, Head(q))) = Len(s) + 1 BY <1>0, <2>1, AppendProperties
      <4>2. QED BY <1>0, <2>2, <3>3, <4>1
    <3>10. runner # "ready" BY <2>1 DEF Attached, q
    <3>11. QED BY <1>j, <2>2, <2>3, <3>7, <3>8, <3>9, <3>10 DEF Attached
  <2>4. CASE c \notin subs
    <3>1. q = <<StreamClosed>> BY <2>1, <2>4 DEF Attached
    <3>2. Head(q) = StreamClosed /\ Tail(q) = <<>>
      <4>1. Head(<<StreamClosed>>) = StreamClosed /\ Tail(<<StreamClosed>>) = <<>> OBVIOUS
      <4>2. QED BY <3>1, <4>1
    <3>3. Flow(c) = s /\ Flow(c)' = s BY <2>2, <2>4, <3>2 DEF Flow
    <3>4. FlowOK(c)' BY <1>0, <1>j, <2>2, <2>4, <3>3, FlowKept
    <3>5. QED BY <1>0, <1>j, <2>2, <2>4, <3>2, <3>4 DEF Attached
  <2>5. QED BY <2>3, <2>4
<1>5. CASE TimeOut(c)
  <2>1. /\ subs' = subs /\ queue' = queue /\ stream'[c].at = "sending"
        /\ stream'[c].sent = s /\ stream'[c].replayed = stream[c].replayed
    BY <1>5, <1>t DEF TimeOut, Stream
  <2>2. Flow(c)' = Flow(c) BY <2>1 DEF Flow
  <2>3. FlowOK(c)' BY <1>0, <1>j, <2>1, <2>2, FlowKept
  <2>4. QED BY <1>0, <1>j, <2>1, <2>3 DEF Attached
<1>6. CASE Snapshot(c)
  <2>1. CASE SnapshotEnds
    <3>1. /\ c \notin subs' /\ queue'[c] = <<>> /\ stream'[c].at = "closed"
          /\ stream'[c].sent = s /\ stream'[c].replayed = stream[c].replayed
      BY <1>6, <1>t, <2>1 DEF Snapshot, Stream, Unsubscribed
    <3>2. Flow(c)' = s BY <3>1 DEF Flow
    <3>3. FlowOK(c)' BY <1>0, <1>j, <3>1, <3>2, FlowKept
    <3>4. QED BY <1>0, <1>j, <3>1, <3>3 DEF Attached
  <2>2. CASE ~SnapshotEnds
    <3>1. /\ subs' = subs /\ queue' = queue /\ stream'[c].at = "listening"
          /\ stream'[c].sent = s /\ stream'[c].replayed = stream[c].replayed
      BY <1>6, <1>t, <2>2 DEF Snapshot, Stream
    <3>2. Flow(c)' = Flow(c) BY <3>1 DEF Flow
    <3>3. FlowOK(c)' BY <1>0, <1>j, <3>1, <3>2, FlowKept
    <3>4. QED BY <1>0, <1>j, <3>1, <3>3 DEF Attached
  <2>3. QED BY <2>1, <2>2
<1>7. CASE Disconnect(c)
  <2>1. c \notin subs' /\ queue'[c] = <<>> /\ stream'[c] = Away
    BY <1>7, <1>t DEF Disconnect, Unsubscribed
  <2>2. stream'[c].sent = <<>> /\ stream'[c].replayed = 0 /\ stream'[c].at = "away"
    BY <2>1 DEF Away
  <2>3. FlowOK(c)' BY <2>1, <2>2, FlowEmpty
  <2>4. QED BY <1>e, <2>1, <2>2, <2>3 DEF Attached
<1>8. QED BY <1>1, <1>2, <1>3, <1>4, <1>5, <1>6, <1>7 DEF StreamStep
----------------------------------------------------------------------------
(* The theorems.                                                           *)

Inv == EventTypeOK /\ Numbering /\ StreamInv

LEMMA InvInit == EventInit => Inv
<1> SUFFICES ASSUME EventInit PROVE Inv OBVIOUS
<1>0. <<>> \in Seq(Message) /\ Len(<<>>) = 0 BY EmptySeq
<1>1. EventTypeOK BY <1>0, AwayType DEF EventInit, EventTypeOK
<1>2. Increasing(<<>>) /\ AllPositive(<<>>) BY <1>0 DEF Increasing, AllPositive
<1>3. Numbering BY <1>2 DEF EventInit, Numbering, CacheIsFreshest
<1>4. ASSUME NEW c \in Client PROVE Attached(c) /\ FlowOK(c)
  <2>1. /\ subs = {} /\ queue[c] = <<>> /\ stream[c].sent = <<>> /\ stream[c].replayed = 0
        /\ stream[c].at = "away" /\ Flow(c) = <<>>
    BY DEF EventInit, Away, Flow
  <2>2. 0 + 2..0 = {} /\ 1..0 = {} OBVIOUS
  <2>3. FlowOK(c) BY <1>0, <1>2, <2>1, <2>2 DEF FlowOK
  <2>4. QED BY <1>0, <2>1, <2>3 DEF Attached
<1>5. QED BY <1>1, <1>3, <1>4 DEF Inv, StreamInv

LEMMA InvStep == Inv /\ [EventNext]_eventVars => Inv'
<1> SUFFICES ASSUME Inv, [EventNext]_eventVars PROVE Inv' OBVIOUS
<1>1. EventTypeOK /\ Numbering /\ StreamInv BY DEF Inv
<1>2. EventTypeOK' /\ Numbering' BY <1>1, TypeStep, NumberingStep
<1>3. ASSUME NEW c \in Client PROVE Attached(c)' /\ FlowOK(c)'
  <2>0. Attached(c) /\ FlowOK(c) BY <1>1 DEF StreamInv
  <2>1. CASE RunStep \/ CancelJob \/ DeleteJob \/ ProcessDies BY <1>1, <1>2, <2>0, <2>1, RunFlow
  <2>2. ASSUME NEW d \in Client, Connect(d) \/ StreamStep(d) \/ Disconnect(d)
        PROVE  Attached(c)' /\ FlowOK(c)'
    <3>1. CASE d = c BY <1>1, <1>2, <2>0, <2>2, <3>1, OwnFlow
    <3>2. CASE d # c BY <1>1, <2>0, <2>2, <3>2, OtherFlow
    <3>3. QED BY <3>1, <3>2
  <2>3. CASE UNCHANGED eventVars BY <2>0, <2>3, FlowUnmoved DEF eventVars
  <2>4. QED BY <2>1, <2>2, <2>3 DEF EventNext
<1>4. QED BY <1>2, <1>3 DEF Inv, StreamInv

LEMMA Invariance == EventSpec => []Inv
BY InvInit, InvStep, PTL DEF EventSpec

\* Every reachable state has its types: in particular the cache and the record never hold
\* more than the limit of events.
THEOREM TypeCorrect == EventSpec => []EventTypeOK
<1>1. Inv => EventTypeOK BY DEF Inv
<1>2. QED BY <1>1, Invariance, PTL

\* While the cache holds anything, no event of the record is newer (what
\* _send_cached_research_job_events relies on to replay the cache instead of the record).
THEOREM FreshestCache == EventSpec => []CacheIsFreshest
<1>1. Inv => CacheIsFreshest BY DEF Inv, Numbering
<1>2. QED BY <1>1, Invariance, PTL

\* No queue is fed for a stream that is gone (_unsubscribe_research_job_events).
THEOREM NoOrphans == EventSpec => []NoOrphanSubscription
<1>1. Inv => NoOrphanSubscription
  BY DEF Inv, StreamInv, Attached, NoOrphanSubscription, EventTypeOK
<1>2. QED BY <1>1, Invariance, PTL

\* What any stream has sent is in order and without repetition, however its replay and its
\* subscription overlap with the run that publishes, across crashes and reconnections
\* (stream_research_job, _publish_research_job_event).
THEOREM OrderedStreams == EventSpec => []StreamsAreInOrder
<1>1. Inv => StreamsAreInOrder
  <2> SUFFICES ASSUME Inv, status # "deleted", NEW c \in Client
               PROVE  Increasing(stream[c].sent)
    BY DEF StreamsAreInOrder
  <2>1. EventTypeOK /\ FlowOK(c) BY DEF Inv, StreamInv
  <2>2. Increasing(Flow(c)) BY <2>1 DEF FlowOK
  <2> DEFINE s == stream[c].sent
  <2>3. /\ Len(s) \in Nat /\ Len(Flow(c)) \in Nat /\ Len(s) <= Len(Flow(c))
        /\ \A i \in 1..Len(s) : Flow(c)[i] = s[i]
    BY <2>1, FlowFacts
  <2> HIDE DEF s
  <2>4. \A i \in 1..Len(s) : i \in 1..Len(Flow(c)) BY <2>3
  <2>5. Increasing(s) BY <2>2, <2>3, <2>4 DEF Increasing
  <2>6. QED BY <2>5 DEF s
<1>2. QED BY <1>1, Invariance, PTL

\* What a stream gets from its queue, after what was replayed, has no holes
\* (_next_research_job_event).
THEOREM ConsecutiveEvents == EventSpec => []LiveEventsAreConsecutive
<1>1. Inv => LiveEventsAreConsecutive
  <2> SUFFICES ASSUME Inv, NEW c \in Client,
                      NEW i \in stream[c].replayed + 2..Len(stream[c].sent)
               PROVE  stream[c].sent[i] = stream[c].sent[i - 1] + 1
    BY DEF LiveEventsAreConsecutive
  <2>1. EventTypeOK /\ FlowOK(c) BY DEF Inv, StreamInv
  <2>2. /\ Len(stream[c].sent) \in Nat /\ Len(Flow(c)) \in Nat
        /\ Len(stream[c].sent) <= Len(Flow(c)) /\ stream[c].replayed \in Nat
    BY <2>1, FlowFacts
  <2>3. \A k \in 1..Len(stream[c].sent) : Flow(c)[k] = stream[c].sent[k] BY <2>1, FlowFacts
  <2>4. /\ i \in stream[c].replayed + 2..Len(Flow(c))
        /\ i \in 1..Len(stream[c].sent) /\ i - 1 \in 1..Len(stream[c].sent)
    BY <2>2
  <2>5. Flow(c)[i] = Flow(c)[i - 1] + 1 BY <2>1, <2>4 DEF FlowOK
  <2>6. QED BY <2>3, <2>4, <2>5
<1>2. QED BY <1>1, Invariance, PTL
----------------------------------------------------------------------------
(***************************************************************************)
(* The jobs in memory and their file.                                      *)
(***************************************************************************)

\* An object of a job, with a status of its own or set anew.
LEMMA ObjectType ==
    /\ Blank \in Object
    /\ \A n \in Nat : [status |-> "queued", order |-> n] \in Object
    /\ [status |-> "lost", order |-> 0] \in Object
    /\ \A o \in Object : Loaded(o) \in Object
    /\ \A o \in Object, s \in {"running", "cancelled", "succeeded", "failed"} :
          [o EXCEPT !.status = s] \in Object
<1> USE DEF Object, Active, Terminal
<1>1. Blank \in Object BY DEF Blank
<1>2. \A n \in Nat : [status |-> "queued", order |-> n] \in Object OBVIOUS
<1>3. [status |-> "lost", order |-> 0] \in Object OBVIOUS
<1>4. \A o \in Object, s \in {"running", "cancelled", "succeeded", "failed"} :
         [o EXCEPT !.status = s] \in Object
  OBVIOUS
<1>5. \A o \in Object : Loaded(o) \in Object BY <1>4 DEF Loaded
<1>6. QED BY <1>1, <1>2, <1>3, <1>4, <1>5

\* Pruning only ever takes jobs out of the dictionary.
LEMMA PrunedIsSubset == \A o, t : Pruned(o, t) \subseteq t
BY DEF Pruned

LEMMA ImageType ==
    ASSUME NEW o \in [Job -> Object], NEW t \in SUBSET Job, NEW n \in Nat
    PROVE  /\ Image(o, t, n) \in Disk
           /\ [Image(o, t, n) EXCEPT !.readable = FALSE] \in Disk
BY ObjectType DEF Image, Disk

\* What may become of the file under an operation: it is the image of the dictionary,
\* or what it was, or unreadable.
FileStep(o, t, n) ==
    \/ disk' = Image(o, t, n)
    \/ disk' = disk
    \/ disk' = [Image(obj, {}, 0) EXCEPT !.readable = FALSE]

LEMMA SavesAreFileSteps ==
    ASSUME NEW o, NEW t, NEW n
    PROVE  /\ Saved(o, t, n) => FileStep(o, t, n)
           /\ BestEffort(o, t, n) => FileStep(o, t, n)
           /\ SaveFailed => FileStep(o, t, n)
BY DEF Saved, BestEffort, SaveFailed, FileStep

LEMMA FileType ==
    ASSUME TypeOK, NEW o \in [Job -> Object], NEW t \in SUBSET Job, NEW n \in Nat,
           FileStep(o, t, n)
    PROVE  disk' \in Disk
<1>1. Image(o, t, n) \in Disk BY ImageType
<1>2. [Image(obj, {}, 0) EXCEPT !.readable = FALSE] \in Disk
  BY ImageType DEF TypeOK
<1>3. QED BY <1>1, <1>2 DEF FileStep, TypeOK

\* Setting the status of one job.
LEMMA StatusSet ==
    ASSUME TypeOK, NEW j \in Job, NEW s \in {"running", "cancelled", "succeeded", "failed"},
           obj' = [obj EXCEPT ![j].status = s]
    PROVE  /\ obj' \in [Job -> Object]
           /\ obj'[j].status = s
           /\ \A k \in Job : k # j => obj'[k] = obj[k]
<1>1. obj \in [Job -> Object] /\ obj[j] \in Object BY DEF TypeOK
<1>2. [obj[j] EXCEPT !.status = s] \in Object BY <1>1, ObjectType
<1>3. obj' = [obj EXCEPT ![j] = [obj[j] EXCEPT !.status = s]] BY <1>1
<1>4. obj'[j] = [obj[j] EXCEPT !.status = s] BY <1>1, <1>3
<1>5. \A k \in Job : k # j => obj'[k] = obj[k] BY <1>1, <1>3
<1>6. obj'[j].status = s BY <1>1, <1>4 DEF Object
<1>7. obj' \in [Job -> Object] BY <1>1, <1>2, <1>3
<1>8. QED BY <1>5, <1>6, <1>7

\* While the executor works it has a job, and a verdict once the workflow has ended.
RunInv ==
    /\ run.at # "idle" => run.job \in Job
    /\ run.at \in {"failing", "ending"} => run.verdict \in Verdicts

JobsInv ==
    /\ TypeOK
    /\ RunInv
    /\ JobsAreStored
    /\ CancelIsDurable
    /\ NoneStranded

LEMMA JobsInit == Init => JobsInv
<1> SUFFICES ASSUME Init PROVE JobsInv
  OBVIOUS
<1>1. obj \in [Job -> Object] BY ObjectType DEF Init
<1>2. disk \in Disk BY <1>1, ImageType DEF Init
<1>3. run \in Run /\ run.at = "idle" /\ pool \in Seq(Job)
  BY DEF Init, Run, Idle
<1>4. TypeOK /\ RunInv BY <1>1, <1>2, <1>3 DEF Init, TypeOK, RunInv
<1>5. tab = {} BY DEF Init
<1>6. QED
  BY <1>4, <1>5 DEF JobsInv, JobsAreStored, CancelIsDurable, NoneStranded,
     WithStatus

\* The head of the queue and the rest.
LEMMA PoolFacts ==
    ASSUME TypeOK, pool # <<>>
    PROVE  /\ Head(pool) \in Job /\ Head(pool) = pool[1] /\ Tail(pool) \in Seq(Job)
           /\ Len(pool) \in Nat \ {0} /\ Len(Tail(pool)) = Len(pool) - 1
           /\ \A i \in 1..Len(pool) - 1 : Tail(pool)[i] = pool[i + 1]
<1>1. pool \in Seq(Job) BY DEF TypeOK
<1>2. QED BY <1>1, HeadTailProperties, EmptySeq

\* What a step does to the file, seen from the dictionary: the file becomes its image or
\* unreadable; or it stays, and the dictionary gains no job and no cancellation, or is
\* the one loaded from it.
StoreStep ==
    \/ ~HasStore
    \/ disk' = Image(obj', tab', seq')
    \/ ~disk'.readable
    \/ /\ disk' = disk /\ tab' \subseteq tab
       /\ \A j \in tab' : obj'[j].status = "cancelled" => obj[j].status = "cancelled"
    \/ /\ disk' = disk /\ tab' = disk.jobs
       /\ \A j \in tab' : obj'[j] = Loaded(disk.obj[j])

LEMMA FileCases ==
    ASSUME NEW o, NEW t, NEW n, FileStep(o, t, n)
    PROVE  disk' = Image(o, t, n) \/ disk' = disk \/ ~disk'.readable
BY DEF FileStep, Image

LEMMA StoreKept ==
    ASSUME TypeOK, (TypeOK)', JobsAreStored, CancelIsDurable, StoreStep
    PROVE  (JobsAreStored)' /\ (CancelIsDurable)'
<1> USE DEF JobsAreStored, CancelIsDurable, WithStatus
<1>1. CASE ~HasStore BY <1>1
<1>2. CASE disk' = Image(obj', tab', seq')
  <2>1. disk'.jobs = tab' BY <1>2 DEF Image
  <2>2. \A j \in tab' : disk'.obj[j] = obj'[j] BY <1>2 DEF Image, TypeOK
  <2>3. QED BY <2>1, <2>2
<1>3. CASE ~disk'.readable BY <1>3
<1>4. CASE /\ disk' = disk /\ tab' \subseteq tab
           /\ \A j \in tab' : obj'[j].status = "cancelled" => obj[j].status = "cancelled"
  BY <1>4
<1>5. CASE /\ disk' = disk /\ tab' = disk.jobs
           /\ \A j \in tab' : obj'[j] = Loaded(disk.obj[j])
  <2>1. \A j \in tab' : obj'[j].status = "cancelled" => disk.obj[j].status = "cancelled"
    <3> SUFFICES ASSUME NEW j \in tab', obj'[j].status = "cancelled"
                 PROVE  disk.obj[j].status = "cancelled"
      OBVIOUS
    <3>1. j \in Job /\ disk.obj[j] \in Object
      BY <1>5 DEF TypeOK, Disk
    <3>2. Loaded(disk.obj[j]).status = "cancelled" BY <1>5
    <3>3. disk.obj[j].status \in Active => Loaded(disk.obj[j]).status = "failed"
      BY <3>1 DEF Loaded, Object
    <3>4. QED BY <3>2, <3>3 DEF Loaded
  <2>2. QED BY <1>5, <2>1
<1>6. QED BY <1>1, <1>2, <1>3, <1>4, <1>5 DEF StoreStep

\* What a step owes to the invariant.
GoodStep == (TypeOK)' /\ RunInv' /\ StoreStep /\ (NoneStranded)'

LEMMA CreateIsGood ==
    ASSUME JobsInv, NEW j \in Job, Create(j)
    PROVE  GoodStep
<1> USE DEF JobsInv
<1>1. /\ obj' = [obj EXCEPT ![j] = [status |-> "queued", order |-> seq + 1]]
      /\ seq' = seq + 1 /\ tab' = Pruned(obj', tab \cup {j}) /\ pool' = Append(pool, j)
      /\ Saved(obj', tab', seq') /\ UNCHANGED <<phase, run>>
  BY DEF Create
<1>2. seq' \in Nat /\ [status |-> "queued", order |-> seq + 1] \in Object
  BY <1>1, ObjectType DEF TypeOK
<1>3. /\ obj' \in [Job -> Object] /\ obj'[j].status = "queued"
      /\ \A k \in Job : k # j => obj'[k] = obj[k]
  BY <1>1, <1>2 DEF TypeOK
<1>4. tab' \subseteq tab \cup {j} /\ tab' \subseteq Job
  BY <1>1, PrunedIsSubset DEF TypeOK
<1>5. /\ pool' \in Seq(Job) /\ Len(pool) \in Nat /\ Len(pool') = Len(pool) + 1
      /\ pool'[Len(pool) + 1] = j /\ \A i \in 1..Len(pool) : pool'[i] = pool[i]
  BY <1>1, AppendProperties, LenProperties DEF TypeOK
<1>6. disk' \in Disk BY <1>1, <1>2, <1>3, <1>4, SavesAreFileSteps, FileType
<1>7. (TypeOK)' BY <1>1, <1>2, <1>3, <1>4, <1>5, <1>6 DEF TypeOK
<1>8. RunInv' BY <1>1 DEF RunInv
<1>9. StoreStep BY <1>1 DEF StoreStep, Saved
<1>10. ASSUME NEW k \in tab'
       PROVE  /\ obj'[k].status = "running" => run'.job = k
              /\ obj'[k].status = "queued" => \E i \in 1..Len(pool') : pool'[i] = k
  <2>1. CASE k = j
    <3>1. Len(pool) + 1 \in 1..Len(pool') BY <1>5
    <3>2. QED BY <1>3, <1>5, <2>1, <3>1
  <2>2. CASE k # j
    <3>1. k \in tab /\ k \in Job /\ obj'[k] = obj[k] BY <1>3, <1>4, <2>2 DEF TypeOK
    <3>2. \A i \in 1..Len(pool) : i \in 1..Len(pool') BY <1>5
    <3>3. QED BY <1>1, <1>5, <3>1, <3>2 DEF NoneStranded
  <2>3. QED BY <2>1, <2>2
<1>11. (NoneStranded)' BY <1>10 DEF NoneStranded
<1>12. QED BY <1>7, <1>8, <1>9, <1>11 DEF GoodStep

\* A status is set and the dictionary pruned, and the file follows at best; the queue and
\* the executor go on to what still covers the other jobs.
LEMMA SettingIsGood ==
    ASSUME JobsInv, NEW j \in Job,
           NEW s \in {"running", "cancelled", "succeeded", "failed"},
           obj' = [obj EXCEPT ![j].status = s], tab' \subseteq tab, UNCHANGED <<seq, phase>>,
           BestEffort(obj', tab', seq), s = "cancelled" => Saved(obj', tab', seq),
           pool' \in Seq(Job), run' \in Run, RunInv',
           s = "running" => run'.job = j,
           \A k \in tab' : /\ k # j /\ obj[k].status = "running" => run'.job = k
                           /\ k # j /\ obj[k].status = "queued"
                                => \E i \in 1..Len(pool') : pool'[i] = k
    PROVE  GoodStep
<1> USE DEF JobsInv
<1>1. /\ obj' \in [Job -> Object] /\ obj'[j].status = s
      /\ \A k \in Job : k # j => obj'[k] = obj[k]
  BY StatusSet
<1>2. tab' \subseteq Job /\ seq' \in Nat BY DEF TypeOK
<1>3. FileStep(obj', tab', seq) BY SavesAreFileSteps
<1>4. disk' \in Disk BY <1>1, <1>2, <1>3, FileType
<1>5. (TypeOK)' BY <1>1, <1>2, <1>4 DEF TypeOK
<1>6. StoreStep
  <2>1. CASE s = "cancelled" BY <2>1 DEF StoreStep, Saved
  <2>2. CASE s # "cancelled"
    <3>1. \A k \in tab' : obj'[k].status = "cancelled" => obj[k].status = "cancelled"
      BY <1>1, <1>2, <2>2
    <3>2. disk' = Image(obj', tab', seq') \/ disk' = disk \/ ~disk'.readable
      BY <1>3, FileCases
    <3>3. QED BY <3>1, <3>2 DEF StoreStep
  <2>3. QED BY <2>1, <2>2
<1>7. (NoneStranded)' BY <1>1, <1>2 DEF NoneStranded
<1>8. QED BY <1>5, <1>6, <1>7 DEF GoodStep

\* Nothing changes in the objects; the dictionary loses jobs at most.
LEMMA KeepingIsGood ==
    ASSUME JobsInv, UNCHANGED <<obj, seq>>, tab' \subseteq tab,
           FileStep(obj, tab', seq), phase' \in {"serving", "cleaning", "down"},
           pool' \in Seq(Job), run' \in Run, RunInv',
           \A k \in tab' : /\ obj[k].status = "running" => run'.job = k
                           /\ obj[k].status = "queued" => \E i \in 1..Len(pool') : pool'[i] = k
    PROVE  GoodStep
<1> USE DEF JobsInv
<1>1. tab' \in SUBSET Job /\ seq \in Nat /\ obj \in [Job -> Object] BY DEF TypeOK
<1>2. disk' \in Disk BY <1>1, FileType
<1>3. (TypeOK)' BY <1>1, <1>2 DEF TypeOK
<1>4. disk' = Image(obj', tab', seq') \/ disk' = disk \/ ~disk'.readable
  BY FileCases
<1>5. StoreStep BY <1>4 DEF StoreStep
<1>6. (NoneStranded)' BY DEF NoneStranded
<1>7. QED BY <1>3, <1>5, <1>6 DEF GoodStep

\* The requests other than a create.
LEMMA RequestsAreGood ==
    ASSUME JobsInv
    PROVE  /\ \A j \in Job : Cancel(j) => GoodStep
           /\ \A j \in Job : Delete(j) => GoodStep
           /\ RequestFails => GoodStep
<1> USE DEF JobsInv
<1>0. pool \in Seq(Job) /\ run \in Run /\ tab \subseteq Job
  BY DEF TypeOK
<1>1. ASSUME NEW j \in Job, Cancel(j) PROVE GoodStep
  <2>1. /\ obj' = [obj EXCEPT ![j].status = "cancelled"] /\ tab' = Pruned(obj', tab)
        /\ Saved(obj', tab', seq) /\ UNCHANGED <<seq, phase, pool, run>>
    BY <1>1 DEF Cancel
  <2>2. tab' \subseteq tab BY <2>1, PrunedIsSubset
  <2>3. BestEffort(obj', tab', seq) BY <2>1 DEF BestEffort
  <2>4. RunInv' BY <2>1 DEF RunInv
  <2>5. \A k \in tab' : /\ obj[k].status = "running" => run'.job = k
                        /\ obj[k].status = "queued" => \E i \in 1..Len(pool') : pool'[i] = k
    BY <2>1, <2>2 DEF NoneStranded
  <2>6. QED BY <1>0, <2>1, <2>2, <2>3, <2>4, <2>5, SettingIsGood
<1>2. ASSUME NEW j \in Job, Delete(j) PROVE GoodStep
  <2>1. /\ tab' = tab \ {j} /\ BestEffort(obj, tab', seq)
        /\ UNCHANGED <<obj, seq, phase, pool, run>>
    BY <1>2 DEF Delete
  <2>2. FileStep(obj, tab', seq) BY <2>1, SavesAreFileSteps
  <2>3. RunInv' BY <2>1 DEF RunInv
  <2>4. phase' \in {"serving", "cleaning", "down"} BY <2>1 DEF TypeOK
  <2>5. QED BY <1>0, <2>1, <2>2, <2>3, <2>4, KeepingIsGood DEF NoneStranded
<1>3. ASSUME RequestFails PROVE GoodStep
  <2>1. SaveFailed /\ UNCHANGED <<obj, tab, seq, phase, pool, run>>
    BY <1>3 DEF RequestFails
  <2>2. FileStep(obj, tab', seq) BY <2>1, SavesAreFileSteps
  <2>3. RunInv' BY <2>1 DEF RunInv
  <2>4. phase' \in {"serving", "cleaning", "down"} BY <2>1 DEF TypeOK
  <2>5. QED BY <1>0, <2>1, <2>2, <2>3, <2>4, KeepingIsGood DEF NoneStranded
<1>4. QED BY <1>1, <1>2, <1>3

\* The executor takes its next task.
LEMMA TakingIsGood ==
    ASSUME JobsInv
    PROVE  /\ SkipTask => GoodStep
           /\ Begin => GoodStep
           /\ BeginFails => GoodStep
<1> USE DEF JobsInv
<1> DEFINE j == Head(pool)
<1>1. Idle \in Run /\ Idle.at = "idle" /\ Idle.job = NoJob
  BY DEF Idle, Run
<1>2. ASSUME Ready, pool' = Tail(pool)
      PROVE  /\ run = Idle /\ j \in Job /\ pool' \in Seq(Job) /\ pool # <<>>
             /\ \A k \in tab : obj[k].status # "running"
             /\ \A k \in tab : k # j /\ obj[k].status = "queued"
                                  => \E i \in 1..Len(pool') : pool'[i] = k
  <2>1. run = Idle /\ pool # <<>> BY <1>2 DEF Ready
  <2>2. \A k \in tab : k \in Job /\ k # NoJob BY ConstantsAssumption DEF TypeOK
  <2>3. \A k \in tab : obj[k].status # "running" BY <1>1, <2>1, <2>2 DEF NoneStranded
  <2>4. ASSUME NEW k \in tab, k # j, obj[k].status = "queued"
        PROVE  \E i \in 1..Len(pool') : pool'[i] = k
    <3>1. PICK i \in 1..Len(pool) : pool[i] = k BY <2>4 DEF NoneStranded
    <3>2. i # 1 BY <2>1, <2>4, <3>1, PoolFacts
    <3>3. /\ i - 1 \in 1..Len(pool) - 1 /\ pool'[i - 1] = pool[(i - 1) + 1]
          /\ Len(pool') = Len(pool) - 1 /\ (i - 1) + 1 = i
      BY <1>2, <2>1, <3>2, PoolFacts
    <3>4. QED BY <3>1, <3>3
  <2>5. QED BY <1>2, <2>1, <2>3, <2>4, PoolFacts
<1>3. ASSUME SkipTask PROVE GoodStep
  <2>1. /\ Ready /\ pool' = Tail(pool) /\ UNCHANGED <<obj, tab, seq, disk, phase, run>>
        /\ j \notin WithStatus(obj, tab, {"queued", "running", "succeeded", "failed"})
    BY <1>3 DEF SkipTask
  <2>2. \A k \in tab : obj[k].status = "queued" => k # j BY <2>1 DEF WithStatus
  <2>3. RunInv' /\ run' \in Run BY <2>1 DEF RunInv, TypeOK
  <2>4. phase' \in {"serving", "cleaning", "down"} BY <2>1 DEF TypeOK
  <2>5. FileStep(obj, tab', seq) BY <2>1 DEF FileStep
  <2>6. QED BY <1>2, <2>1, <2>2, <2>3, <2>4, <2>5, KeepingIsGood
<1>4. ASSUME Begin PROVE GoodStep
  <2>1. /\ Ready /\ pool' = Tail(pool) /\ UNCHANGED <<tab, seq, phase>>
        /\ obj' = [obj EXCEPT ![j].status = "running"] /\ Saved(obj', tab', seq)
        /\ run' = [Idle EXCEPT !.at = "working", !.job = j]
    BY <1>4 DEF Begin
  <2>2. run'.at = "working" /\ run'.job = j /\ run' \in Run
    BY <1>2, <2>1 DEF Idle, Run
  <2>3. RunInv' BY <1>2, <2>1, <2>2 DEF RunInv
  <2>4. BestEffort(obj', tab', seq) BY <2>1 DEF BestEffort
  <2>5. QED BY <1>2, <2>1, <2>2, <2>3, <2>4, SettingIsGood
<1>5. ASSUME BeginFails PROVE GoodStep
  <2>1. /\ Ready /\ pool' = Tail(pool) /\ UNCHANGED <<seq, phase, run>>
        /\ obj' = [obj EXCEPT ![j].status = "failed"] /\ BestEffort(obj', tab', seq)
        /\ tab' = Pruned(obj', tab)
    BY <1>5 DEF BeginFails
  <2>2. tab' \subseteq tab BY <2>1, PrunedIsSubset
  <2>3. RunInv' /\ run' \in Run BY <2>1 DEF RunInv, TypeOK
  <2>4. QED BY <1>2, <2>1, <2>2, <2>3, SettingIsGood
<1>6. QED BY <1>3, <1>4, <1>5

\* The executor works on its task and ends it.
LEMMA WorkingIsGood ==
    ASSUME JobsInv
    PROVE  /\ AppendEvent \/ NoFailureEvent => GoodStep
           /\ \A verdict \in Verdicts : EndWorkflow(verdict) => GoodStep
           /\ RejectReport => GoodStep
           /\ WriteVerdict => GoodStep
<1> USE DEF JobsInv
<1>0. /\ pool \in Seq(Job) /\ run \in Run /\ tab \subseteq Job
      /\ phase \in {"serving", "cleaning", "down"}
  BY DEF TypeOK
<1>1. /\ Idle \in Run /\ Idle.at = "idle"
      /\ \A at \in {"failing", "ending"} : /\ [run EXCEPT !.at = at] \in Run
                                           /\ [run EXCEPT !.at = at].at = at
                                           /\ [run EXCEPT !.at = at].job = run.job
                                           /\ [run EXCEPT !.at = at].verdict = run.verdict
  BY <1>0 DEF Idle, Run
<1>2. ASSUME UNCHANGED <<obj, tab, seq, phase, pool>>, FileStep(obj, tab', seq),
             run' \in Run, RunInv',
             \A k \in tab : obj[k].status = "running" => run'.job = k
      PROVE  GoodStep
  BY <1>0, <1>2, KeepingIsGood DEF NoneStranded
<1>3. ASSUME NEW verdict \in Verdicts, Conclude(verdict), run.at = "working"
      PROVE  run' \in Run /\ RunInv' /\ run'.job = run.job
  <2>1. PICK at \in {"failing", "ending"} : run' = [run EXCEPT !.at = at, !.verdict = verdict]
    BY <1>3 DEF Conclude
  <2>2. /\ run' \in Run /\ run'.at = at /\ run'.job = run.job /\ run'.verdict = verdict
    BY <1>0, <2>1 DEF Run
  <2>3. QED BY <1>3, <2>2 DEF RunInv
<1>4. ASSUME AppendEvent \/ NoFailureEvent PROVE GoodStep
  <2>1. UNCHANGED <<obj, tab, seq, phase, pool>> /\ FileStep(obj, tab', seq)
    BY <1>4, SavesAreFileSteps DEF AppendEvent, NoFailureEvent, FileStep
  <2>2. \/ run' = run
        \/ run.at = "failing" /\ run' = [run EXCEPT !.at = "ending"]
    BY <1>4 DEF AppendEvent, NoFailureEvent
  <2>3. run' \in Run /\ RunInv' /\ run'.job = run.job
    BY <1>0, <1>1, <2>2 DEF RunInv
  <2>4. QED BY <1>2, <2>1, <2>3 DEF NoneStranded
<1>5. ASSUME NEW verdict \in Verdicts, EndWorkflow(verdict) PROVE GoodStep
  <2>1. /\ run.at = "working" /\ UNCHANGED <<obj, tab, seq, phase, pool>>
        /\ FileStep(obj, tab', seq)
    BY <1>5 DEF EndWorkflow, FileStep
  <2>2. CASE run.job \in WithStatus(obj, tab, {"cancelled"})
    <3>1. run' = Idle /\ obj[run.job].status = "cancelled"
      BY <1>5, <2>2 DEF EndWorkflow, WithStatus
    <3>2. run' \in Run /\ RunInv' BY <1>1, <3>1 DEF RunInv
    <3>3. \A k \in tab : obj[k].status # "running" BY <3>1 DEF NoneStranded
    <3>4. QED BY <1>2, <2>1, <3>2, <3>3
  <2>3. CASE run.job \notin WithStatus(obj, tab, {"cancelled"})
    <3>1. Conclude(verdict) BY <1>5, <2>3 DEF EndWorkflow
    <3>2. QED BY <1>2, <1>3, <2>1, <3>1 DEF NoneStranded
  <2>4. QED BY <2>2, <2>3
<1>6. ASSUME RejectReport PROVE GoodStep
  <2>1. /\ run.at = "working" /\ UNCHANGED <<obj, tab, seq, phase, pool>>
        /\ FileStep(obj, tab', seq) /\ Conclude("failed") /\ "failed" \in Verdicts
    BY <1>6 DEF RejectReport, FileStep, Verdicts
  <2>2. QED BY <1>2, <1>3, <2>1 DEF NoneStranded
<1>7. ASSUME WriteVerdict PROVE GoodStep
  <2>1. /\ run.at = "ending" /\ obj' = [obj EXCEPT ![run.job].status = run.verdict]
        /\ tab' = Pruned(obj', tab) /\ BestEffort(obj', tab', seq)
        /\ run' = Idle /\ UNCHANGED <<seq, phase, pool>>
    BY <1>7 DEF WriteVerdict
  <2>2. run.job \in Job /\ run.verdict \in {"succeeded", "failed"}
    BY <2>1 DEF RunInv, Verdicts
  <2>3. tab' \subseteq tab BY <2>1, PrunedIsSubset
  <2>4. run' \in Run /\ RunInv' BY <1>1, <2>1 DEF RunInv
  <2>5. \A k \in tab : k # run.job => obj[k].status # "running" BY DEF NoneStranded
  <2>6. \A k \in tab : obj[k].status = "queued" => \E i \in 1..Len(pool') : pool'[i] = k
    BY <2>1 DEF NoneStranded
  <2>7. pool' \in Seq(Job) BY <1>0, <2>1
  <2>8. \A k \in tab' :
           /\ k # run.job /\ obj[k].status = "running" => run'.job = k
           /\ k # run.job /\ obj[k].status = "queued" => \E i \in 1..Len(pool') : pool'[i] = k
    BY <2>3, <2>5, <2>6
  <2>9. PICK j \in Job, s \in {"succeeded", "failed"} : j = run.job /\ s = run.verdict
    BY <2>2
  <2>10. /\ s \in {"running", "cancelled", "succeeded", "failed"} /\ s # "cancelled"
         /\ s # "running" /\ obj' = [obj EXCEPT ![j].status = s]
    BY <2>1, <2>9
  <2>11. QED BY <2>1, <2>3, <2>4, <2>7, <2>8, <2>9, <2>10, SettingIsGood
<1>8. QED BY <1>4, <1>5, <1>6, <1>7

\* The process dies and comes back.
LEMMA LifetimeIsGood ==
    ASSUME JobsInv
    PROVE  /\ Crash => GoodStep
           /\ Restart => GoodStep
           /\ \A S \in SUBSET Job : CleanUp(S) => GoodStep
           /\ NoCleanUp => GoodStep
<1> USE DEF JobsInv
<1>0. /\ pool \in Seq(Job) /\ run \in Run /\ tab \subseteq Job
  BY DEF TypeOK
<1>1. ASSUME Crash PROVE GoodStep
  <2>1. /\ tab' = {} /\ seq' = 0 /\ pool' = <<>> /\ run' = Idle /\ phase' = "down"
        /\ disk' = disk
        /\ obj' = [j \in Job |-> IF obj[j].status = "unborn" THEN Blank
                                 ELSE [status |-> "lost", order |-> 0]]
    BY <1>1 DEF Crash
  <2>2. obj' \in [Job -> Object] BY <2>1, ObjectType
  <2>3. /\ run' \in Run /\ run'.at = "idle" /\ pool' \in Seq(Job)
    BY <2>1 DEF Idle, Run
  <2>4. (TypeOK)' BY <2>1, <2>2, <2>3 DEF TypeOK
  <2>5. RunInv' /\ StoreStep BY <2>1, <2>3 DEF RunInv, StoreStep
  <2>6. (NoneStranded)' BY <2>1 DEF NoneStranded
  <2>7. QED BY <2>4, <2>5, <2>6 DEF GoodStep
<1>2. ASSUME Restart PROVE GoodStep
  <2>1. /\ tab' = disk.jobs /\ seq' = disk.seq /\ phase' = "cleaning"
        /\ UNCHANGED <<disk, pool, run>>
        /\ obj' = [j \in Job |-> IF j \in disk.jobs THEN Loaded(disk.obj[j]) ELSE obj[j]]
    BY <1>2 DEF Restart
  <2>2. disk.jobs \subseteq Job /\ disk.seq \in Nat /\ disk.obj \in [Job -> Object]
    BY DEF TypeOK, Disk
  <2>3. \A j \in Job : Loaded(disk.obj[j]) \in Object BY <2>2, ObjectType
  <2>4. obj' \in [Job -> Object] BY <2>1, <2>3 DEF TypeOK
  <2>5. (TypeOK)' BY <2>1, <2>2, <2>4 DEF TypeOK
  <2>6. \A j \in tab' : obj'[j] = Loaded(disk.obj[j]) BY <2>1, <2>2
  <2>7. RunInv' /\ StoreStep BY <2>1, <2>6 DEF RunInv, StoreStep
  <2>8. \A o \in Object : Loaded(o).status \notin {"queued", "running"}
    <3>1. \A o \in Object : [o EXCEPT !.status = "failed"].status = "failed"
      BY DEF Object
    <3>2. QED BY <3>1 DEF Loaded, Active
  <2>9. (NoneStranded)' BY <2>1, <2>2, <2>6, <2>8 DEF NoneStranded
  <2>10. QED BY <2>5, <2>7, <2>9 DEF GoodStep
<1>3. ASSUME NEW S \in SUBSET Job, CleanUp(S) PROVE GoodStep
  <2>1. /\ tab' \subseteq tab /\ BestEffort(obj, tab', seq) /\ phase' = "serving"
        /\ UNCHANGED <<obj, seq, pool, run>>
    BY <1>3 DEF CleanUp
  <2>2. FileStep(obj, tab', seq) BY <2>1, SavesAreFileSteps
  <2>3. RunInv' BY <2>1 DEF RunInv
  <2>4. QED BY <1>0, <2>1, <2>2, <2>3, KeepingIsGood DEF NoneStranded
<1>4. ASSUME NoCleanUp PROVE GoodStep
  <2>1. phase' = "serving" /\ UNCHANGED <<obj, tab, seq, disk, pool, run>>
    BY <1>4 DEF NoCleanUp
  <2>2. FileStep(obj, tab', seq) /\ RunInv' BY <2>1 DEF FileStep, RunInv
  <2>3. QED BY <1>0, <2>1, <2>2, KeepingIsGood DEF NoneStranded
<1>5. QED BY <1>1, <1>2, <1>3, <1>4

LEMMA JobsStep == JobsInv /\ [Next]_vars => JobsInv'
<1> SUFFICES ASSUME JobsInv, [Next]_vars PROVE JobsInv'
  OBVIOUS
<1>1. CASE UNCHANGED vars
  BY <1>1 DEF vars, JobsInv, TypeOK, RunInv, JobsAreStored,
     CancelIsDurable, NoneStranded, WithStatus
<1>2. CASE GoodStep BY <1>2, StoreKept DEF GoodStep, JobsInv
<1>3. CASE Request
  BY <1>2, <1>3, CreateIsGood, RequestsAreGood DEF Request, Retry
<1>4. CASE Executor BY <1>2, <1>4, TakingIsGood, WorkingIsGood DEF Executor
<1>5. CASE Crash \/ StartUp BY <1>2, <1>5, LifetimeIsGood DEF StartUp
<1>6. QED BY <1>1, <1>3, <1>4, <1>5 DEF Next

LEMMA JobsInvariance == Spec => []JobsInv
<1>1. Init => JobsInv BY JobsInit
<1>2. JobsInv /\ [Next]_vars => JobsInv' BY JobsStep
<1>3. QED BY <1>1, <1>2, PTL DEF Spec

\* The job objects, the file and the executor always have the declared types, through
\* failing saves, crashes and restarts.
THEOREM JobsTypeCorrect == Spec => []TypeOK
<1>1. JobsInv => TypeOK BY DEF JobsInv
<1>2. QED BY JobsInvariance, <1>1, PTL

\* Every job the API answers for is in a readable file: best-effort saves that fail leave
\* more jobs in the file than in the dictionary, never fewer.
THEOREM StoredJobs == Spec => []JobsAreStored
<1>1. JobsInv => JobsAreStored BY DEF JobsInv
<1>2. QED BY JobsInvariance, <1>1, PTL

\* A cancelled job is cancelled in a readable file too: the cancellation was saved before
\* it was acknowledged, and later failures leave that image or a newer one.
THEOREM DurableCancel == Spec => []CancelIsDurable
<1>1. JobsInv => CancelIsDurable BY DEF JobsInv
<1>2. QED BY JobsInvariance, <1>1, PTL

\* A running job is the executor's and a queued one is in its queue, whatever is
\* cancelled, deleted, pruned, refused by the store or lost in a crash.
THEOREM NobodyStranded == Spec => []NoneStranded
<1>1. JobsInv => NoneStranded BY DEF JobsInv
<1>2. QED BY JobsInvariance, <1>1, PTL
====
