---- MODULE DocumentsProofs ----
(* What Documents says of files and answers, for any number of processes, files,       *)
(* contents and edits.                                                                 *)
EXTENDS Documents, FiniteSetTheorems, SequenceTheorems, TLAPS

Fields == {"at", "paths", "todo", "indexed", "entries", "stamp", "text", "found", "answer"}
Entries == [Path -> [stamp : Nat, hash : Content, chunks : Content]]
Founds == Seq([path : Path, content : Content])

\* The stages of a call with a file at hand, ...
Handling == {"load", "stat", "hash", "read", "stamp", "store", "save", "write", "create", "fill"}
\* ... those that come after an index was found usable, ...
Indexing == {"load", "stat", "hash", "stamp", "store", "save", "write"}
\* ... and those with the chunks of the file that has been read.
Holding == {"stamp", "store", "save", "write"}

CallOk(c) ==
    /\ DOMAIN c = Fields
    /\ c.todo \in Seq(Path)
    /\ c.at \in Handling => c.todo # <<>>
    /\ c.entries \in Entries
    /\ c.text \in Content /\ c.stamp \in Nat
    /\ c.found \in Founds

DataOk ==
    /\ doc \in [Path -> [content : Content, stamp : Nat]]
    /\ index \in [is : {"missing", "foreign", "torn", "index"}, entries : Entries]
    /\ DOMAIN call = Process
    /\ \A w \in Process : CallOk(call[w])
    /\ seen \in [Process -> [Path -> SUBSET Content]]
    /\ edits \in Nat

\* The parts of a list of paths that is not empty.
LEMMA HeadAndTail ==
    ASSUME NEW s \in Seq(Path), s # <<>>
    PROVE  Head(s) \in Path /\ Tail(s) \in Seq(Path)
  BY HeadTailProperties

\* A worker without a call is well-typed.
LEMMA IdleOk == CallOk(Idle) /\ Blank \in Entries
  <1>1. NoEntry \in [stamp : Nat, hash : Content, chunks : Content]
    BY ContentAssumption DEF NoEntry
  <1>2. Blank \in Entries
    BY <1>1 DEF Blank, Entries
  <1>3. /\ Idle.at = "idle" /\ Idle.todo = <<>> /\ Idle.entries = Blank /\ Idle.text = Gone
        /\ Idle.stamp = 0 /\ Idle.found = <<>> /\ DOMAIN Idle = Fields
    BY DEF Idle, Fields
  <1>4. <<>> \in Seq(Path) /\ <<>> \in Founds
    BY DEF Founds
  <1> QED BY <1>2, <1>3, <1>4, ContentAssumption DEF CallOk, Handling

\* Types: the initial state.
LEMMA DataInit == Init => DataOk
  <1> SUFFICES ASSUME Init PROVE DataOk
    OBVIOUS
  <1>1. doc \in [Path -> [content : Content, stamp : Nat]]
    BY DEF Init
  <1>2. index \in [is : {"missing", "foreign", "torn", "index"}, entries : Entries]
    BY IdleOk DEF Init, Missing, Foreign
  <1>3. seen \in [Process -> [Path -> SUBSET Content]]
    BY DEF Init, Unseen
  <1> QED BY <1>1, <1>2, <1>3, IdleOk DEF Init, DataOk

\* One worker moves, and the files stay as they are.
Moves(w) ==
    /\ DOMAIN call' = Process
    /\ \A v \in Process \ {w} : call'[v] = call[v]

\* What the steps of a worker look like from its record.
LEMMA GoesMoves ==
    ASSUME DataOk, NEW w \in Process, NEW at, Goes(w, at)
    PROVE  /\ Moves(w) /\ DOMAIN call'[w] = Fields /\ call'[w].at = at
           /\ call'[w].todo = call[w].todo /\ call'[w].entries = call[w].entries
           /\ call'[w].text = call[w].text /\ call'[w].stamp = call[w].stamp
           /\ call'[w].found = call[w].found /\ call'[w].indexed = call[w].indexed
  BY DEF DataOk, CallOk, Goes, Moves, Fields

LEMMA NextFileMoves ==
    ASSUME DataOk, NEW w \in Process, NEW found, NextFile(w, found)
    PROVE  /\ Moves(w) /\ DOMAIN call'[w] = Fields /\ call'[w].at = "file"
           /\ call'[w].todo = Tail(call[w].todo) /\ call'[w].entries = Blank
           /\ call'[w].text = Gone /\ call'[w].stamp = 0
           /\ call'[w].found = found /\ call'[w].indexed = FALSE
  BY DEF DataOk, NextFile, Moves, Fields, Idle

LEMMA EndsMoves ==
    ASSUME DataOk, NEW w \in Process, Ends(w)
    PROVE  /\ Moves(w) /\ call'[w] = Idle
           /\ \A v \in Process \ {w} : seen'[v] = seen[v]
           /\ seen' \in [Process -> [Path -> SUBSET Content]]
  BY DEF DataOk, Ends, Moves, Unseen

\* Types: a step of one worker whose record stays well-typed.
LEMMA DataKept ==
    ASSUME DataOk, NEW w \in Process, Moves(w), CallOk(call'[w]),
           UNCHANGED <<doc, edits, seen>>,
           UNCHANGED index \/ index' = Torn \/ index' = Index(call[w].entries)
    PROVE  DataOk'
  <1>1. index' \in [is : {"missing", "foreign", "torn", "index"}, entries : Entries]
    BY IdleOk DEF DataOk, CallOk, Torn, Index
  <1>2. ASSUME NEW v \in Process PROVE CallOk(call'[v])
    BY DEF DataOk, Moves
  <1> QED BY <1>1, <1>2 DEF DataOk, Moves, CallOk

LEMMA GoesKeepsData ==
    ASSUME DataOk, NEW w \in Process, NEW at, Goes(w, at), call[w].at \in Handling \/ at \notin Handling,
           UNCHANGED <<doc, edits, seen>>,
           UNCHANGED index \/ index' = Torn \/ index' = Index(call[w].entries)
    PROVE  DataOk'
  <1>1. CallOk(call'[w])
    BY GoesMoves DEF DataOk, CallOk
  <1> QED BY <1>1, GoesMoves, DataKept

LEMMA NextFileKeepsData ==
    ASSUME DataOk, NEW w \in Process, NEW found \in Founds, NextFile(w, found),
           call[w].at \in Handling,
           UNCHANGED <<doc, edits, seen>>,
           UNCHANGED index \/ index' = Torn \/ index' = Index(call[w].entries)
    PROVE  DataOk'
  <1>1. Tail(call[w].todo) \in Seq(Path)
    BY HeadAndTail DEF DataOk, CallOk
  <1>2. Blank \in Entries /\ Gone \in Content /\ 0 \in Nat /\ "file" \notin Handling
    BY IdleOk, ContentAssumption DEF Handling
  <1>3. CallOk(call'[w])
    BY <1>1, <1>2, NextFileMoves DEF CallOk
  <1> QED BY <1>3, NextFileMoves, DataKept

\* What a chunk adds to the findings of a call.
LEMMA FoundOk ==
    ASSUME DataOk, NEW w \in Process, NEW content \in Content, call[w].at \in Handling
    PROVE  /\ Found(w, content) \in Founds
           /\ Len(Found(w, content)) = Len(call[w].found) + 1
           /\ \A i \in 1..Len(call[w].found) : Found(w, content)[i] = call[w].found[i]
           /\ Found(w, content)[Len(call[w].found) + 1] = [path |-> Head1(w), content |-> content]
  <1>1. Head1(w) \in Path /\ call[w].found \in Founds
    BY HeadAndTail DEF DataOk, CallOk, Head1
  <1> QED BY <1>1, AppendProperties DEF Found, Founds

LEMMA TextIsContent == \A w \in Process : DataOk => call[w].text \in Content
  BY DEF DataOk, CallOk

\* What changes a file.
LEMMA ChangedKeepsData ==
    ASSUME DataOk, NEW p \in Path, NEW content \in Content, NEW stamp \in Nat,
           Changed(p, content, stamp), UNCHANGED index, edits' \in Nat,
           DOMAIN call' = Process, \A w \in Process : CallOk(call'[w])
    PROVE  DataOk'
  <1>1. doc' \in [Path -> [content : Content, stamp : Nat]]
    BY DEF DataOk, Changed
  <1>2. seen' \in [Process -> [Path -> SUBSET Content]]
    BY DEF DataOk, Changed, Unseen
  <1> QED BY <1>1, <1>2 DEF DataOk, CallOk

\* Types: one step for each access of a reading call.
LEMMA ReadKeepsData == ASSUME DataOk, NEW w \in Process, Read(w) PROVE DataOk'
  <1>1. /\ doc \in [Path -> [content : Content, stamp : Nat]]
        /\ call[w].at \in Handling \/ (call[w].at = "file" /\ call[w].todo # <<>>) => Head1(w) \in Path
    BY HeadAndTail DEF DataOk, CallOk, Head1
  <1>2. CASE OpenFile(w)
    <2>1. /\ At(w, "file") /\ call[w].todo # <<>> /\ UNCHANGED <<doc, edits, seen, index>>
          /\ call[w].found \in Founds
      BY <1>2 DEF OpenFile, counts, DataOk, CallOk
    <2>2. CASE NextFile(w, call[w].found)
      <3>1. Tail(call[w].todo) \in Seq(Path)
        BY <2>1, HeadAndTail DEF DataOk, CallOk
      <3>2. Blank \in Entries /\ Gone \in Content /\ 0 \in Nat /\ "file" \notin Handling
        BY IdleOk, ContentAssumption DEF Handling
      <3>3. CallOk(call'[w])
        BY <2>1, <2>2, <3>1, <3>2, NextFileMoves DEF CallOk
      <3> QED BY <2>1, <2>2, <3>3, NextFileMoves, DataKept
    <2>3. ASSUME NEW at, NEW usable,
                 call' = [call EXCEPT ![w] = [@ EXCEPT !.at = at, !.indexed = usable]]
          PROVE  DataOk'
      <3>1. Moves(w) /\ CallOk(call'[w])
        BY <2>1, <2>3 DEF Moves, DataOk, CallOk, Fields
      <3> QED BY <2>1, <3>1, DataKept
    <2> QED BY <1>2, <2>2, <2>3 DEF OpenFile
  <1>3. CASE LoadIndex(w)
    <2>1. Moves(w) /\ CallOk(call'[w])
      BY <1>3 DEF LoadIndex, At, Moves, DataOk, CallOk, Fields, Handling
    <2> QED BY <1>3, <2>1, DataKept DEF LoadIndex, counts
  <1>4. CASE CheckStamp(w)
    BY <1>4, GoesKeepsData DEF CheckStamp, At, Handling, counts
  <1>5. CASE CheckHash(w)
    <2>1. call[w].at \in Handling /\ UNCHANGED <<doc, edits, seen, index>>
      BY <1>5 DEF CheckHash, At, Handling, counts
    <2>2. call[w].entries[Head1(w)].chunks \in Content
      BY <1>1, <2>1 DEF DataOk, CallOk, Entries
    <2>3. Found(w, call[w].entries[Head1(w)].chunks) \in Founds
      BY <2>1, <2>2, FoundOk
    <2> QED BY <1>5, <2>1, <2>3, GoesKeepsData, NextFileKeepsData DEF CheckHash
  <1>6. CASE ReadFile(w)
    <2> DEFINE content == doc[Head1(w)].content
    <2>1. /\ call[w].at \in Handling /\ UNCHANGED <<doc, edits, seen, index>> /\ call[w].at = "read"
      BY <1>6 DEF ReadFile, At, Handling, counts
    <2>2. content \in Content /\ call[w].found \in Founds
      BY <1>1, <2>1 DEF DataOk, CallOk
    <2>3. Found(w, content) \in Founds
      BY <2>1, <2>2, FoundOk
    <2>4. ASSUME call' = [call EXCEPT ![w] = [@ EXCEPT !.at = "stamp", !.text = content]]
          PROVE  DataOk'
      <3>1. Moves(w) /\ CallOk(call'[w])
        BY <2>1, <2>2, <2>4 DEF Moves, DataOk, CallOk, Fields, Handling
      <3> QED BY <2>1, <3>1, DataKept
    <2>5. \/ NextFile(w, call[w].found) \/ NextFile(w, Found(w, content))
          \/ call' = [call EXCEPT ![w] = [@ EXCEPT !.at = "stamp", !.text = content]]
      BY <1>6 DEF ReadFile
    <2> QED BY <2>1, <2>2, <2>3, <2>4, <2>5, NextFileKeepsData
  <1>7. CASE StoreStamp(w)
    <2>1. /\ call[w].at \in Handling /\ UNCHANGED <<doc, edits, seen, index>> /\ call[w].at = "stamp"
          /\ Found(w, call[w].text) \in Founds
      BY <1>7, TextIsContent, FoundOk DEF StoreStamp, At, Handling, counts
    <2>2. ASSUME NEW stamp \in Nat,
                 call' = [call EXCEPT ![w] = [@ EXCEPT !.at = "store", !.stamp = stamp]]
          PROVE  DataOk'
      <3>1. Moves(w) /\ CallOk(call'[w])
        BY <2>1, <2>2 DEF Moves, DataOk, CallOk, Fields, Handling
      <3> QED BY <2>1, <3>1, DataKept
    <2>3. doc[Head1(w)].stamp \in Nat
      BY <1>1, <2>1
    <2> QED BY <1>7, <2>1, <2>2, <2>3, NextFileKeepsData DEF StoreStamp
  <1>8. CASE StoreHash(w)
    <2>1. /\ call[w].at \in Handling /\ UNCHANGED <<doc, edits, seen, index>> /\ call[w].at = "store"
          /\ Found(w, call[w].text) \in Founds
      BY <1>8, TextIsContent, FoundOk DEF StoreHash, At, Handling, counts
    <2>2. ASSUME NEW entry \in [stamp : Nat, hash : Content, chunks : Content],
                 call' = [call EXCEPT ![w] = [@ EXCEPT !.at = "save", !.entries[Head1(w)] = entry]]
          PROVE  DataOk'
      <3>1. [call[w].entries EXCEPT ![Head1(w)] = entry] \in Entries
        BY <2>2 DEF DataOk, CallOk, Entries
      <3>2. /\ Moves(w) /\ DOMAIN call'[w] = Fields /\ call'[w].at = "save"
            /\ call'[w].entries = [call[w].entries EXCEPT ![Head1(w)] = entry]
            /\ call'[w].todo = call[w].todo /\ call'[w].text = call[w].text
            /\ call'[w].stamp = call[w].stamp /\ call'[w].found = call[w].found
        BY <2>2 DEF Moves, DataOk, CallOk, Fields
      <3>3. CallOk(call'[w])
        BY <2>1, <3>1, <3>2 DEF DataOk, CallOk
      <3> QED BY <2>1, <3>2, <3>3, DataKept
    <2>3. [stamp |-> call[w].stamp, hash |-> doc[Head1(w)].content, chunks |-> call[w].text]
            \in [stamp : Nat, hash : Content, chunks : Content]
      BY <1>1, <2>1 DEF DataOk, CallOk
    <2> QED BY <1>8, <2>1, <2>2, <2>3, NextFileKeepsData DEF StoreHash
  <1>9. CASE Truncate(w)
    BY <1>9, GoesKeepsData DEF Truncate, At, Handling, counts
  <1>10. CASE WriteOut(w) \/ SaveFails(w)
    <2>1. /\ call[w].at \in Handling /\ UNCHANGED <<doc, edits, seen>>
          /\ UNCHANGED index \/ index' = Torn \/ index' = Index(call[w].entries)
          /\ NextFile(w, Found(w, call[w].text))
      BY <1>10 DEF WriteOut, SaveFails, At, Handling, counts
    <2>2. Found(w, call[w].text) \in Founds
      BY <2>1, TextIsContent, FoundOk
    <2> QED BY <2>1, <2>2, NextFileKeepsData
  <1>11. CASE Answer(w)
    <2>1. UNCHANGED <<doc, edits, seen, index>>
      BY <1>11 DEF Answer, counts
    <2>2. CASE Goes(w, "raised")
      BY <2>1, <2>2, GoesKeepsData DEF Handling
    <2>3. ASSUME NEW answer, call' = [call EXCEPT ![w].at = "answered", ![w].answer = answer]
          PROVE  DataOk'
      <3>1. Moves(w) /\ CallOk(call'[w])
        BY <2>3 DEF Moves, DataOk, CallOk, Fields, Handling
      <3> QED BY <2>1, <3>1, DataKept
    <2> QED BY <1>11, <2>2, <2>3 DEF Answer
  <1> QED
    BY <1>2, <1>3, <1>4, <1>5, <1>6, <1>7, <1>8, <1>9, <1>10, <1>11 DEF Read

LEMMA BeginKeepsData == ASSUME DataOk, NEW w \in Process, Begin(w) PROVE DataOk'
  <1>1. PICK q \in Queries :
          call' = [call EXCEPT ![w] = [Idle EXCEPT !.at = "file", !.paths = q, !.todo = q]]
    BY DEF Begin
  <1>2. q \in Seq(Path)
    BY PathsAssumption
  <1>3. Moves(w) /\ CallOk(call'[w])
    BY <1>1, <1>2, IdleOk DEF Moves, DataOk, CallOk, Fields, Handling
  <1>4. seen' \in [Process -> [Path -> SUBSET Content]]
    BY DEF Begin, DataOk
  <1> QED BY <1>3, <1>4 DEF Begin, DataOk, Moves

LEMMA BeginWriteKeepsData ==
    ASSUME DataOk, NEW w \in Process, NEW p \in New, BeginWrite(w, p) PROVE DataOk'
  <1>1. call' = [call EXCEPT ![w] = [Idle EXCEPT !.at = "create", !.todo = <<p>>]]
    BY DEF BeginWrite
  <1>2. <<p>> \in Seq(Path) /\ <<p>> # <<>>
    BY PathsAssumption
  <1>3. Moves(w) /\ CallOk(call'[w])
    BY <1>1, <1>2, IdleOk DEF Moves, DataOk, CallOk, Fields
  <1> QED BY <1>3, DataKept DEF BeginWrite

\* The making of a file: it is left as it was, or it is changed at a stage of write_file.
LEMMA WriteCases ==
    ASSUME DataOk, NEW w \in Process, Create(w) \/ Fill(w)
    PROVE  /\ call[w].at \in {"create", "fill"} /\ Quiet(Head1(w)) /\ Head1(w) \in Path
           /\ UNCHANGED <<index, mixed, edits>>
           /\ \/ Goes(w, "refused") /\ UNCHANGED <<doc, seen>>
              \/ /\ call[w].at = "create" /\ doc[Head1(w)].content = Gone
                 /\ Changed(Head1(w), Empty, doc[Head1(w)].stamp + 1) /\ Goes(w, "fill")
              \/ /\ call[w].at = "fill"
                 /\ \E content \in Content : Changed(Head1(w), content, doc[Head1(w)].stamp)
                 /\ Goes(w, "written")
  <1>1. call[w].at \in {"create", "fill"} => Head1(w) \in Path
    BY HeadAndTail DEF DataOk, CallOk, Head1, Handling
  <1>2. CASE Create(w)
    BY <1>1, <1>2 DEF Create, At, counts
  <1>3. CASE Fill(w)
    BY <1>1, <1>3 DEF Fill, At, counts
  <1> QED BY <1>2, <1>3

\* Types: the tool that makes a file.
LEMMA WriteKeepsData == ASSUME DataOk, NEW w \in Process, Create(w) \/ Fill(w) PROVE DataOk'
  <1>1. Head1(w) \in Path /\ doc[Head1(w)].stamp \in Nat /\ Empty \in Content
    BY WriteCases, ContentAssumption DEF DataOk
  <1>2. CASE Goes(w, "refused") /\ UNCHANGED <<doc, seen>>
    BY <1>2, WriteCases, GoesKeepsData DEF Handling
  <1>3. ASSUME NEW content \in Content, NEW stamp \in Nat, NEW at \in {"fill", "written"},
               Changed(Head1(w), content, stamp), Goes(w, at)
        PROVE  DataOk'
    <2>1. CallOk(call'[w]) /\ Moves(w)
      BY <1>3, WriteCases, GoesMoves DEF DataOk, CallOk, Handling
    <2>2. \A v \in Process : CallOk(call'[v])
      BY <2>1 DEF DataOk, Moves
    <2> QED BY <1>1, <1>3, <2>1, <2>2, WriteCases, ChangedKeepsData DEF Moves, DataOk
  <1>4. doc[Head1(w)].stamp + 1 \in Nat
    BY <1>1
  <1> QED BY <1>1, <1>2, <1>3, <1>4, WriteCases

LEMMA EndKeepsData == ASSUME DataOk, NEW w \in Process, Return(w) \/ Crash(w) PROVE DataOk'
  <1>1. Ends(w) /\ UNCHANGED <<doc, index, edits>>
    BY DEF Return, Crash, counts
  <1> QED BY <1>1, EndsMoves, IdleOk DEF DataOk, Moves

LEMMA EditKeepsData == ASSUME DataOk, NEW p \in Edited, Edit(p) PROVE DataOk'
  <1>1. p \in Path /\ doc[p].stamp \in Nat
    BY PathsAssumption DEF DataOk
  <1>2. PICK content \in Content, stamp \in {doc[p].stamp, doc[p].stamp + 1} :
          Changed(p, content, stamp)
    BY DEF Edit
  <1>3. stamp \in Nat /\ edits' \in Nat /\ UNCHANGED <<call, index>>
    BY <1>1, <1>2 DEF Edit, DataOk
  <1> QED BY <1>1, <1>2, <1>3, ChangedKeepsData DEF DataOk

\* Types: every step.
LEMMA DataStep == DataOk /\ [Next]_vars => DataOk'
  <1> SUFFICES ASSUME DataOk, [Next]_vars PROVE DataOk'
    OBVIOUS
  <1>1. CASE UNCHANGED vars
    BY <1>1 DEF vars, counts, DataOk, CallOk
  <1> QED
    BY <1>1, ReadKeepsData, BeginKeepsData, BeginWriteKeepsData, WriteKeepsData, EndKeepsData,
       EditKeepsData DEF Next

----------------------------------------------------------------------------
(* No tool takes the place of a file *)

\* A file that is being filled is empty and is filled by one tool only; and whoever is
\* about to write the index has found that it is not somebody else's.
KeepInv ==
    /\ \A w \in Process : call[w].at = "fill" => doc[Head1(w)].content = Empty
    /\ \A v, w \in Process :
          v # w /\ call[v].at = "fill" /\ call[w].at = "fill" => Head1(v) # Head1(w)
    /\ \A w \in Process : call[w].at \in Indexing => call[w].indexed
    /\ \A w \in Process : call[w].indexed => index # Foreign

\* Files: no call has begun, so none is at a file.
LEMMA KeepInit == Init => KeepInv
  BY DEF Init, KeepInv, Idle, Indexing

\* A step of a worker that changes no file and does not come to fill one.
LEMMA KeepMoves ==
    ASSUME KeepInv, NEW w \in Process, Moves(w), UNCHANGED doc,
           call'[w].at # "fill",
           call'[w].at \in Indexing => call'[w].indexed,
           call'[w].indexed => index' # Foreign,
           index' = Foreign => index = Foreign
    PROVE  KeepInv'
  BY DEF KeepInv, Moves, Head1

\* What an index is marked with is never taken for another.
LEMMA Markers == Torn # Foreign /\ \A entries : Index(entries) # Foreign
  BY DEF Torn, Foreign, Index

\* Files: a call that reads writes nothing but an index that it could load.
LEMMA ReadKeepsFiles ==
    ASSUME DataOk, KeepInv, NEW w \in Process, Read(w)
    PROVE  UNCHANGED <<doc, edits>> /\ (index = Foreign => index' = Foreign) /\ KeepInv'
  <1>1. CASE OpenFile(w)
    <2>1. UNCHANGED <<doc, edits, index>>
      BY <1>1 DEF OpenFile, counts
    <2>2. ASSUME NEW at \in {"load", "read"},
                 call' = [call EXCEPT ![w] = [@ EXCEPT !.at = at,
                                                       !.indexed = index \notin {Foreign, Torn}]],
                 at = "load" => index \notin {Foreign, Torn}
          PROVE  KeepInv'
      <3>1. /\ Moves(w) /\ call'[w].at = at
            /\ call'[w].indexed = (index \notin {Foreign, Torn})
        BY <2>2 DEF DataOk, CallOk, Fields, Moves
      <3> QED BY <2>1, <2>2, <3>1, KeepMoves DEF Indexing
    <2> QED BY <1>1, <2>1, <2>2, NextFileMoves, KeepMoves DEF OpenFile, Indexing
  <1>2. CASE LoadIndex(w)
    <2>1. /\ Moves(w) /\ call'[w].at = "stat" /\ call'[w].indexed = call[w].indexed
          /\ UNCHANGED <<doc, edits, index>> /\ call[w].at = "load"
      BY <1>2 DEF LoadIndex, At, Moves, DataOk, CallOk, Fields, counts
    <2> QED BY <2>1, KeepMoves DEF KeepInv, Indexing
  <1>3. CASE CheckStamp(w) \/ CheckHash(w)
    <2>1. UNCHANGED <<doc, edits, index>> /\ call[w].at \in {"stat", "hash"}
      BY <1>3 DEF CheckStamp, CheckHash, At, counts
    <2>2. \/ \E at \in {"hash", "read"} : Goes(w, at)
          \/ \E found : NextFile(w, found)
      BY <1>3 DEF CheckStamp, CheckHash
    <2> QED BY <2>1, <2>2, GoesMoves, NextFileMoves, KeepMoves DEF KeepInv, Indexing
  <1>4. CASE ReadFile(w)
    <2>1. UNCHANGED <<doc, edits, index>>
      BY <1>4 DEF ReadFile, counts
    <2>2. ASSUME NEW text, call[w].indexed,
                 call' = [call EXCEPT ![w] = [@ EXCEPT !.at = "stamp", !.text = text]]
          PROVE  KeepInv'
      <3>1. Moves(w) /\ call'[w].at = "stamp" /\ call'[w].indexed = call[w].indexed
        BY <2>2 DEF Moves, DataOk, CallOk, Fields
      <3> QED BY <2>1, <2>2, <3>1, KeepMoves DEF KeepInv
    <2>3. \/ \E found : NextFile(w, found)
          \/ call[w].indexed /\ \E text :
                call' = [call EXCEPT ![w] = [@ EXCEPT !.at = "stamp", !.text = text]]
      BY <1>4 DEF ReadFile
    <2> QED BY <2>1, <2>2, <2>3, NextFileMoves, KeepMoves DEF Indexing
  <1>5. CASE StoreStamp(w)
    <2>1. UNCHANGED <<doc, edits, index>> /\ call[w].at = "stamp"
      BY <1>5 DEF StoreStamp, At, counts
    <2>2. ASSUME NEW stamp, call' = [call EXCEPT ![w] = [@ EXCEPT !.at = "store", !.stamp = stamp]]
          PROVE  KeepInv'
      <3>1. Moves(w) /\ call'[w].at = "store" /\ call'[w].indexed = call[w].indexed
        BY <2>2 DEF Moves, DataOk, CallOk, Fields
      <3> QED BY <2>1, <3>1, KeepMoves DEF KeepInv, Indexing
    <2> QED BY <1>5, <2>1, <2>2, NextFileMoves, KeepMoves DEF StoreStamp, Indexing
  <1>6. CASE StoreHash(w)
    <2>1. UNCHANGED <<doc, edits, index>> /\ call[w].at = "store"
      BY <1>6 DEF StoreHash, At, counts
    <2>2. ASSUME NEW entry,
                 call' = [call EXCEPT ![w] = [@ EXCEPT !.at = "save", !.entries[Head1(w)] = entry]]
          PROVE  KeepInv'
      <3>1. Moves(w) /\ call'[w].at = "save" /\ call'[w].indexed = call[w].indexed
        BY <2>2 DEF Moves, DataOk, CallOk, Fields
      <3> QED BY <2>1, <3>1, KeepMoves DEF KeepInv, Indexing
    <2> QED BY <1>6, <2>1, <2>2, NextFileMoves, KeepMoves DEF StoreHash, Indexing
  <1>7. CASE Truncate(w)
    <2>1. /\ UNCHANGED <<doc, edits>> /\ index' = Torn /\ call[w].at = "save" /\ Goes(w, "write")
      BY <1>7 DEF Truncate, At, counts
    <2> QED BY <2>1, Markers, GoesMoves, KeepMoves DEF KeepInv, Indexing
  <1>8. CASE WriteOut(w)
    <2>1. /\ UNCHANGED <<doc, edits>> /\ index' # Foreign /\ call[w].at = "write"
          /\ \E found : NextFile(w, found)
      BY <1>8, Markers DEF WriteOut, At, counts
    <2> QED BY <2>1, NextFileMoves, KeepMoves DEF KeepInv, Indexing
  <1>9. CASE SaveFails(w)
    BY <1>9, NextFileMoves, KeepMoves DEF SaveFails, counts, Indexing
  <1>10. CASE Answer(w)
    <2>1. UNCHANGED <<doc, edits, index>> /\ call[w].at = "file"
      BY <1>10 DEF Answer, At, counts
    <2>2. ASSUME NEW answer, call' = [call EXCEPT ![w].at = "answered", ![w].answer = answer]
          PROVE  KeepInv'
      <3>1. Moves(w) /\ call'[w].at = "answered" /\ call'[w].indexed = call[w].indexed
        BY <2>2 DEF Moves, DataOk, CallOk, Fields
      <3> QED BY <2>1, <3>1, KeepMoves DEF KeepInv, Indexing
    <2> QED BY <1>10, <2>1, <2>2, GoesMoves, KeepMoves DEF Answer, KeepInv, Indexing
  <1> QED
    BY <1>1, <1>2, <1>3, <1>4, <1>5, <1>6, <1>7, <1>8, <1>9, <1>10 DEF Read

\* What a step may do to the files (FilesAreKept).
FileStep ==
    /\ \A p \in Path :
          /\ doc[p].content # Gone /\ doc'[p] # doc[p] /\ edits' = edits
          => doc[p].content = Empty /\ \E w \in Process : At(w, "fill") /\ Head1(w) = p
    /\ index = Foreign => index' = Foreign

\* Files: a file is made only where none is, and filled by the call that made it.
LEMMA WriteKeepsFiles ==
    ASSUME DataOk, KeepInv, NEW w \in Process, Create(w) \/ Fill(w)
    PROVE  FileStep /\ KeepInv'
  <1>1. call[w].at \in {"create", "fill"} /\ Head1(w) \in Path /\ UNCHANGED <<index, edits>>
    BY WriteCases
  <1>2. CASE Goes(w, "refused") /\ UNCHANGED <<doc, seen>>
    BY <1>1, <1>2, GoesMoves, KeepMoves DEF FileStep, KeepInv, Indexing
  <1>3. CASE /\ call[w].at = "create" /\ doc[Head1(w)].content = Gone
             /\ Changed(Head1(w), Empty, doc[Head1(w)].stamp + 1) /\ Goes(w, "fill")
    <2>1. /\ doc'[Head1(w)].content = Empty
          /\ \A p \in Path \ {Head1(w)} : doc'[p] = doc[p]
      BY <1>1, <1>3 DEF Changed, DataOk
    <2>2. \A v \in Process : call[v].at = "fill" => Head1(v) # Head1(w) /\ Head1(v) \in Path
      BY <1>3, HeadAndTail DEF KeepInv, Gone, Empty, DataOk, CallOk, Head1, Handling
    <2>3. /\ Moves(w) /\ call'[w].at = "fill" /\ call'[w].todo = call[w].todo
          /\ call'[w].indexed = call[w].indexed
      BY <1>3, GoesMoves
    <2>4. KeepInv'
      <3>1. ASSUME NEW v \in Process, call'[v].at = "fill"
            PROVE  doc'[Head(call'[v].todo)].content = Empty
        BY <2>1, <2>2, <2>3, <3>1 DEF KeepInv, Moves, Head1
      <3>2. ASSUME NEW u \in Process, NEW v \in Process, u # v,
                   call'[u].at = "fill", call'[v].at = "fill"
            PROVE  Head(call'[u].todo) # Head(call'[v].todo)
        BY <2>2, <2>3, <3>2 DEF KeepInv, Moves, Head1
      <3>3. \A v \in Process : call'[v].at \in Indexing => call'[v].indexed
        BY <2>3 DEF KeepInv, Moves, Indexing
      <3>4. \A v \in Process : call'[v].indexed => index' # Foreign
        BY <1>1, <2>3 DEF KeepInv, Moves
      <3> QED BY <3>1, <3>2, <3>3, <3>4 DEF KeepInv, Head1
    <2> QED BY <1>1, <1>3, <2>1, <2>4 DEF FileStep
  <1>4. ASSUME NEW content \in Content, call[w].at = "fill",
               Changed(Head1(w), content, doc[Head1(w)].stamp), Goes(w, "written")
        PROVE  FileStep /\ KeepInv'
    <2>1. \A p \in Path \ {Head1(w)} : doc'[p] = doc[p]
      BY <1>1, <1>4 DEF Changed, DataOk
    <2>2. \A v \in Process \ {w} : call[v].at = "fill" => Head1(v) # Head1(w) /\ Head1(v) \in Path
      BY <1>4, HeadAndTail DEF KeepInv, DataOk, CallOk, Head1, Handling
    <2>3. /\ Moves(w) /\ call'[w].at = "written" /\ call'[w].indexed = call[w].indexed
      BY <1>4, GoesMoves
    <2>4. KeepInv'
      <3>1. ASSUME NEW v \in Process, call'[v].at = "fill"
            PROVE  doc'[Head(call'[v].todo)].content = Empty
        BY <2>1, <2>2, <2>3, <3>1 DEF KeepInv, Moves, Head1
      <3>2. ASSUME NEW u \in Process, NEW v \in Process, u # v,
                   call'[u].at = "fill", call'[v].at = "fill"
            PROVE  Head(call'[u].todo) # Head(call'[v].todo)
        BY <2>3, <3>2 DEF KeepInv, Moves, Head1
      <3>3. \A v \in Process : call'[v].at \in Indexing => call'[v].indexed
        BY <2>3 DEF KeepInv, Moves, Indexing
      <3>4. \A v \in Process : call'[v].indexed => index' # Foreign
        BY <1>1, <2>3 DEF KeepInv, Moves
      <3> QED BY <3>1, <3>2, <3>3, <3>4 DEF KeepInv, Head1
    <2>5. doc[Head1(w)].content = Empty
      BY <1>4 DEF KeepInv
    <2> QED BY <1>1, <1>4, <2>1, <2>4, <2>5 DEF FileStep, At
  <1> QED BY <1>2, <1>3, <1>4, WriteCases

\* Files: calls that begin, return or die.
LEMMA OtherKeepsFiles ==
    ASSUME DataOk, KeepInv, NEW w \in Process,
           Begin(w) \/ Return(w) \/ Crash(w) \/ \E p \in New : BeginWrite(w, p)
    PROVE  FileStep /\ KeepInv'
  <1>1. UNCHANGED <<doc, index>>
    BY DEF Begin, BeginWrite, Return, Crash
  <1>2. /\ Moves(w) /\ call'[w].at \in {"file", "create", "idle"} /\ ~call'[w].indexed
    <2>1. CASE Begin(w)
      <3>1. PICK q : call' = [call EXCEPT ![w] = [Idle EXCEPT !.at = "file", !.paths = q, !.todo = q]]
        BY <2>1 DEF Begin
      <3> QED BY <3>1 DEF DataOk, Moves, Idle
    <2>2. CASE \E p \in New : BeginWrite(w, p)
      <3>1. PICK p : call' = [call EXCEPT ![w] = [Idle EXCEPT !.at = "create", !.todo = <<p>>]]
        BY <2>2 DEF BeginWrite
      <3> QED BY <3>1 DEF DataOk, Moves, Idle
    <2>3. CASE Return(w) \/ Crash(w)
      BY <2>3, EndsMoves DEF Return, Crash, Idle
    <2> QED BY <2>1, <2>2, <2>3
  <1>3. KeepInv'
    BY <1>1, <1>2, KeepMoves DEF Indexing
  <1> QED BY <1>1, <1>3 DEF FileStep

\* Files: their owner edits only what no call is making.
LEMMA EditKeepsFiles ==
    ASSUME DataOk, KeepInv, NEW p \in Edited, Edit(p)
    PROVE  FileStep /\ KeepInv'
  <1>1. /\ UNCHANGED <<index, call>> /\ edits' # edits
        /\ \A q \in Path \ {p} : doc'[q] = doc[q]
        /\ \A w \in Process : call[w].at = "fill" => Head1(w) # p
    BY DEF Edit, DataOk, Changed, At
  <1>2. \A w \in Process : call[w].at = "fill" => Head1(w) \in Path
    BY HeadAndTail DEF DataOk, CallOk, Head1, Handling
  <1> QED BY <1>1, <1>2 DEF FileStep, KeepInv, Head1

\* Files: every step.
LEMMA KeepStep == DataOk /\ KeepInv /\ [Next]_vars => [FileStep]_vars /\ KeepInv'
  <1> SUFFICES ASSUME DataOk, KeepInv, [Next]_vars PROVE [FileStep]_vars /\ KeepInv'
    OBVIOUS
  <1>1. CASE UNCHANGED vars
    BY <1>1 DEF vars, KeepInv, Head1
  <1>2. ASSUME NEW w \in Process, Read(w) PROVE FileStep /\ KeepInv'
    BY <1>2, ReadKeepsFiles DEF FileStep
  <1> QED
    BY <1>1, <1>2, WriteKeepsFiles, OtherKeepsFiles, EditKeepsFiles DEF Next

\* No tool takes the place of a file or makes a file that is no index one, for every
\* number of processes that write files and save indexes at the same time.
THEOREM FilesKept == Spec => FilesAreKept
  <1>1. DataOk /\ KeepInv /\ [Next]_vars => [FileStep]_vars /\ KeepInv' /\ DataOk'
    BY KeepStep, DataStep
  <1>2. Spec => [][FileStep]_vars
    BY DataInit, KeepInit, <1>1, PTL DEF Spec
  <1> QED BY <1>2 DEF FilesAreKept, FileStep

----------------------------------------------------------------------------
(* Answers are current, while nobody changes a file between its reading and its hash *)

\* The stages of a call that reads.
Reading == {"file", "load", "stat", "hash", "read", "stamp", "store", "save", "write"}

TrueEntries(entries) == \A p \in Path : entries[p].hash = entries[p].chunks

CurrentCall(w) ==
    /\ call[w].at = "idle" => call[w].found = <<>>
    /\ call[w].at \in Reading => \A p \in Path : doc[p].content \in seen[w][p]
    /\ call[w].at \in Holding => call[w].text \in seen[w][Head1(w)]
    /\ call[w].at \in {"stamp", "store"} => call[w].text = doc[Head1(w)].content
    /\ TrueEntries(call[w].entries)
    /\ \A i \in DOMAIN call[w].found :
          call[w].found[i].content \in seen[w][call[w].found[i].path]

\* Chunks are filed under the hash of the content they were cut from, so that a hash
\* that fits the file says that the chunks do, too.
CurrentInv ==
    /\ \A w \in Process : CurrentCall(w)
    /\ TrueEntries(index.entries)

\* An index without entries has no entry that is false.
LEMMA BlankIsTrue == TrueEntries(Blank) /\ Idle.entries = Blank /\ Idle.found = <<>> /\ Idle.at = "idle"
  BY DEF TrueEntries, Blank, NoEntry, Idle

\* Answers: there is none yet, and no entry.
LEMMA CurrentInit == Init => CurrentInv
  <1> SUFFICES ASSUME Init PROVE CurrentInv
    OBVIOUS
  <1>1. call = [w \in Process |-> Idle]
    BY DEF Init
  <1>2. index.entries = Blank
    BY DEF Init, Missing, Foreign
  <1>3. ASSUME NEW w \in Process PROVE CurrentCall(w)
    BY <1>1, BlankIsTrue DEF CurrentCall, Reading, Holding
  <1> QED BY <1>2, <1>3, BlankIsTrue DEF CurrentInv

\* A step of a worker that changes no file.
LEMMA CurrentMoves ==
    ASSUME CurrentInv, NEW w \in Process, Moves(w), UNCHANGED doc,
           \A v \in Process \ {w} : seen'[v] = seen[v],
           call'[w].at = "idle" => call'[w].found = <<>>,
           call'[w].at \in Reading => \A p \in Path : doc[p].content \in seen'[w][p],
           call'[w].at \in Holding => call'[w].text \in seen'[w][Head(call'[w].todo)],
           call'[w].at \in {"stamp", "store"} => call'[w].text = doc[Head(call'[w].todo)].content,
           TrueEntries(call'[w].entries),
           \A i \in DOMAIN call'[w].found :
              call'[w].found[i].content \in seen'[w][call'[w].found[i].path],
           UNCHANGED index \/ index' = Torn \/ index' = Index(call[w].entries)
    PROVE  CurrentInv'
  <1>1. ASSUME NEW v \in Process PROVE CurrentCall(v)'
    <2>1. CASE v = w
      BY <2>1 DEF CurrentCall, TrueEntries, Head1
    <2>2. CASE v # w
      BY <2>2 DEF CurrentInv, CurrentCall, TrueEntries, Head1, Moves
    <2> QED BY <2>1, <2>2
  <1>2. TrueEntries(index'.entries)
    BY BlankIsTrue DEF CurrentInv, CurrentCall, Torn, Index
  <1> QED BY <1>1, <1>2 DEF CurrentInv, TrueEntries

\* ... and that goes to another stage with what it has.
LEMMA CurrentGoes ==
    ASSUME DataOk, CurrentInv, NEW w \in Process, NEW at, Goes(w, at),
           UNCHANGED <<doc, seen>>,
           at # "idle",
           at \in Reading => call[w].at \in Reading,
           at \in Holding => call[w].at \in Holding,
           at \notin {"stamp", "store"},
           UNCHANGED index \/ index' = Torn \/ index' = Index(call[w].entries)
    PROVE  CurrentInv'
  <1>1. CurrentCall(w)
    BY DEF CurrentInv
  <1> QED BY <1>1, GoesMoves, CurrentMoves DEF CurrentCall, Head1

\* ... and that leaves a file, with chunks of what the file has held.
LEMMA CurrentNext ==
    ASSUME DataOk, CurrentInv, NEW w \in Process, NEW found, NextFile(w, found),
           UNCHANGED <<doc, seen>>, call[w].at \in Reading,
           \A i \in DOMAIN found : found[i].content \in seen[w][found[i].path],
           UNCHANGED index \/ index' = Torn \/ index' = Index(call[w].entries)
    PROVE  CurrentInv'
  <1>1. CurrentCall(w)
    BY DEF CurrentInv
  <1>2. /\ Moves(w) /\ call'[w].at = "file" /\ call'[w].entries = Blank /\ call'[w].found = found
    BY NextFileMoves
  <1> QED BY <1>1, <1>2, BlankIsTrue, CurrentMoves DEF CurrentCall, Holding

\* A chunk of what the file has held is added.
LEMMA CurrentFound ==
    ASSUME DataOk, CurrentInv, NEW w \in Process, NEW content \in Content,
           call[w].at \in Handling, content \in seen[w][Head1(w)]
    PROVE  \A i \in DOMAIN Found(w, content) :
              Found(w, content)[i].content \in seen[w][Found(w, content)[i].path]
  <1>1. /\ Found(w, content) \in Founds /\ call[w].found \in Founds
        /\ Len(Found(w, content)) = Len(call[w].found) + 1
        /\ \A i \in 1..Len(call[w].found) : Found(w, content)[i] = call[w].found[i]
        /\ Found(w, content)[Len(call[w].found) + 1] = [path |-> Head1(w), content |-> content]
    BY FoundOk DEF DataOk, CallOk
  <1>2. /\ DOMAIN Found(w, content) = 1..(Len(call[w].found) + 1)
        /\ DOMAIN call[w].found = 1..Len(call[w].found) /\ Len(call[w].found) \in Nat
    BY <1>1 DEF Founds
  <1>3. ASSUME NEW i \in 1..(Len(call[w].found) + 1)
        PROVE  Found(w, content)[i].content \in seen[w][Found(w, content)[i].path]
    <2>1. CASE i = Len(call[w].found) + 1
      BY <1>1, <2>1
    <2>2. CASE i \in 1..Len(call[w].found)
      BY <1>1, <1>2, <2>2 DEF CurrentInv, CurrentCall
    <2> QED BY <1>2, <2>1, <2>2
  <1> QED BY <1>2, <1>3

\* Answers: a chunk comes from the file or from an entry whose hash is the file's.
LEMMA ReadKeepsCurrent ==
    ASSUME DataOk, CurrentInv, NEW w \in Process, Read(w)
    PROVE  CurrentInv'
  <1>1. UNCHANGED <<doc, seen>>
    BY DEF Read, OpenFile, LoadIndex, CheckStamp, CheckHash, ReadFile, StoreStamp, StoreHash,
           Truncate, WriteOut, SaveFails, Answer
  <1>2. CurrentCall(w)
    BY DEF CurrentInv
  <1>3. call[w].at \in Handling => Head1(w) \in Path
    BY HeadAndTail DEF DataOk, CallOk, Head1
  <1>4. CASE OpenFile(w)
    <2>1. UNCHANGED index /\ call[w].at = "file"
      BY <1>4 DEF OpenFile, At
    <2>2. ASSUME NEW at \in {"load", "read"}, NEW usable,
                 call' = [call EXCEPT ![w] = [@ EXCEPT !.at = at, !.indexed = usable]]
          PROVE  CurrentInv'
      <3>1. /\ Moves(w) /\ call'[w].at = at /\ call'[w].entries = call[w].entries
            /\ call'[w].found = call[w].found
        BY <2>2 DEF DataOk, CallOk, Fields, Moves
      <3> QED BY <1>1, <1>2, <2>1, <2>2, <3>1, CurrentMoves DEF CurrentCall, Reading, Holding
    <2>3. CASE NextFile(w, call[w].found)
      BY <1>1, <1>2, <2>1, <2>3, CurrentNext DEF CurrentCall, Reading
    <2> QED BY <1>4, <2>2, <2>3 DEF OpenFile
  <1>5. CASE LoadIndex(w)
    <2>1. /\ Moves(w) /\ call'[w].at = "stat" /\ call'[w].entries = index.entries
          /\ call'[w].found = call[w].found /\ UNCHANGED index /\ call[w].at = "load"
      BY <1>5 DEF LoadIndex, At, Moves, DataOk, CallOk, Fields
    <2>2. TrueEntries(call'[w].entries)
      BY <2>1 DEF CurrentInv
    <2> QED BY <1>1, <1>2, <2>1, <2>2, CurrentMoves DEF CurrentCall, Reading, Holding
  <1>6. CASE CheckStamp(w)
    BY <1>1, <1>6, CurrentGoes DEF CheckStamp, At, Reading, Holding
  <1>7. CASE CheckHash(w)
    <2> DEFINE entry == call[w].entries[Head1(w)]
    <2>1. UNCHANGED index /\ call[w].at = "hash" /\ call[w].at \in Handling /\ call[w].at \in Reading
      BY <1>7 DEF CheckHash, At, Handling, Reading
    <2>2. CASE Goes(w, "read")
      BY <1>1, <2>1, <2>2, CurrentGoes DEF Reading, Holding
    <2>3. CASE doc[Head1(w)].content = entry.hash /\ NextFile(w, Found(w, entry.chunks))
      <3>1. entry.chunks = doc[Head1(w)].content
        BY <1>2, <1>3, <2>1, <2>3 DEF CurrentCall, TrueEntries
      <3>2. entry.chunks \in seen[w][Head1(w)] /\ entry.chunks \in Content
        BY <1>2, <1>3, <2>1, <3>1 DEF CurrentCall, DataOk
      <3> HIDE DEF entry
      <3> QED BY <1>1, <2>1, <2>3, <3>2, CurrentFound, CurrentNext
    <2> QED BY <1>7, <2>2, <2>3 DEF CheckHash
  <1>8. CASE ReadFile(w)
    <2> DEFINE content == doc[Head1(w)].content
    <2>1. UNCHANGED index /\ call[w].at = "read" /\ call[w].at \in Handling /\ call[w].at \in Reading
      BY <1>8 DEF ReadFile, At, Handling, Reading
    <2>2. content \in Content /\ content \in seen[w][Head1(w)]
      BY <1>2, <1>3, <2>1 DEF CurrentCall, DataOk
    <2>3. CASE NextFile(w, call[w].found)
      BY <1>1, <1>2, <2>1, <2>3, CurrentNext DEF CurrentCall
    <2>4. CASE NextFile(w, Found(w, content))
      <3> HIDE DEF content
      <3> QED BY <1>1, <2>1, <2>2, <2>4, CurrentFound, CurrentNext
    <2>5. CASE call' = [call EXCEPT ![w] = [@ EXCEPT !.at = "stamp", !.text = content]]
      <3>1. /\ Moves(w) /\ call'[w].at = "stamp" /\ call'[w].entries = call[w].entries
            /\ call'[w].found = call[w].found /\ call'[w].text = content
            /\ call'[w].todo = call[w].todo
        BY <2>5 DEF DataOk, CallOk, Fields, Moves
      <3> QED BY <1>1, <1>2, <2>1, <2>2, <3>1, CurrentMoves DEF CurrentCall, Head1
    <2> QED BY <1>8, <2>3, <2>4, <2>5 DEF ReadFile
  <1>9. CASE StoreStamp(w) \/ StoreHash(w) \/ WriteOut(w) \/ SaveFails(w)
    <2>1. /\ call[w].at \in Holding /\ call[w].at \in Handling /\ call[w].at \in Reading
          /\ UNCHANGED index \/ index' = Torn \/ index' = Index(call[w].entries)
      BY <1>9 DEF StoreStamp, StoreHash, WriteOut, SaveFails, At, Holding, Handling, Reading
    <2>2. CASE NextFile(w, Found(w, call[w].text))
      <3>1. call[w].text \in seen[w][Head1(w)] /\ call[w].text \in Content
        BY <1>2, <2>1, TextIsContent DEF CurrentCall
      <3> QED BY <1>1, <2>1, <2>2, <3>1, CurrentFound, CurrentNext
    <2>3. ASSUME NEW stamp, call[w].at = "stamp", UNCHANGED index,
                 call' = [call EXCEPT ![w] = [@ EXCEPT !.at = "store", !.stamp = stamp]]
          PROVE  CurrentInv'
      <3>1. /\ Moves(w) /\ call'[w].at = "store" /\ call'[w].entries = call[w].entries
            /\ call'[w].found = call[w].found /\ call'[w].text = call[w].text
            /\ call'[w].todo = call[w].todo
        BY <2>3 DEF DataOk, CallOk, Fields, Moves
      <3> QED BY <1>1, <1>2, <2>1, <2>3, <3>1, CurrentMoves DEF CurrentCall, Head1
    <2>4. ASSUME NEW stamp, call[w].at = "store", UNCHANGED index,
                 call' = [call EXCEPT ![w] = [@ EXCEPT !.at = "save", !.entries[Head1(w)] =
                    [stamp |-> stamp, hash |-> doc[Head1(w)].content, chunks |-> call[w].text]]]
          PROVE  CurrentInv'
      <3> DEFINE entry ==
            [stamp |-> stamp, hash |-> doc[Head1(w)].content, chunks |-> call[w].text]
      <3>1. /\ Moves(w) /\ call'[w].at = "save"
            /\ call'[w].entries = [call[w].entries EXCEPT ![Head1(w)] = entry]
            /\ call'[w].found = call[w].found /\ call'[w].text = call[w].text
            /\ call'[w].todo = call[w].todo
        BY <2>4 DEF DataOk, CallOk, Fields, Moves
      <3>2. entry.hash = entry.chunks
        BY <1>2, <2>4 DEF CurrentCall
      <3>3. TrueEntries(call'[w].entries)
        BY <1>2, <3>1, <3>2 DEF CurrentCall, TrueEntries, DataOk, CallOk, Entries
      <3> QED BY <1>1, <1>2, <2>1, <2>4, <3>1, <3>3, CurrentMoves DEF CurrentCall, Head1
    <2> QED BY <1>9, <2>2, <2>3, <2>4 DEF StoreStamp, StoreHash, WriteOut, SaveFails, At
  <1>10. CASE Truncate(w)
    BY <1>1, <1>10, CurrentGoes DEF Truncate, At, Reading, Holding
  <1>11. CASE Answer(w)
    <2>1. UNCHANGED index
      BY <1>11 DEF Answer
    <2>2. CASE Goes(w, "raised")
      BY <1>1, <2>1, <2>2, CurrentGoes DEF Reading, Holding
    <2>3. ASSUME NEW answer, call' = [call EXCEPT ![w].at = "answered", ![w].answer = answer]
          PROVE  CurrentInv'
      <3>1. /\ Moves(w) /\ call'[w].at = "answered" /\ call'[w].entries = call[w].entries
            /\ call'[w].found = call[w].found
        BY <2>3 DEF DataOk, CallOk, Fields, Moves
      <3> QED BY <1>1, <1>2, <2>1, <3>1, CurrentMoves DEF CurrentCall, Reading, Holding
    <2> QED BY <1>11, <2>2, <2>3 DEF Answer
  <1> QED
    BY <1>4, <1>5, <1>6, <1>7, <1>8, <1>9, <1>10, <1>11 DEF Read

\* A file changes that nobody has read without having hashed it.
LEMMA ChangedKeepsCurrent ==
    ASSUME QuietFiles, DataOk, CurrentInv, NEW p \in Path, NEW content \in Content, NEW stamp,
           Changed(p, content, stamp), Quiet(p), UNCHANGED index,
           \A v \in Process :
              \/ call'[v] = call[v]
              \/ /\ call'[v].at \in {"fill", "written"} /\ call[v].at # "idle"
                 /\ call'[v].found = call[v].found /\ call'[v].entries = call[v].entries
    PROVE  CurrentInv'
  <1>1. /\ doc'[p].content = content /\ \A q \in Path \ {p} : doc'[q] = doc[q]
        /\ \A v \in Process : call[v].at # "idle" =>
              seen'[v] = [seen[v] EXCEPT ![p] = @ \cup {content}]
    BY DEF Changed, DataOk, At
  <1>2. ASSUME NEW v \in Process PROVE CurrentCall(v)'
    <2>1. CurrentCall(v) /\ CallOk(call[v])
      BY DEF CurrentInv, DataOk
    <2>2. CASE call[v].at = "idle"
      BY <2>1, <2>2 DEF CurrentCall, Reading, Holding, TrueEntries
    <2>3. CASE call[v].at # "idle"
      <3>1. /\ \A q \in Path : seen[v][q] \subseteq seen'[v][q]
            /\ content \in seen'[v][p]
        <4>1. seen'[v] = [seen[v] EXCEPT ![p] = @ \cup {content}]
          BY <1>1, <2>3
        <4>2. seen[v] \in [Path -> SUBSET Content]
          BY DEF DataOk
        <4> QED BY <4>1, <4>2
      <3>2. ASSUME NEW i \in DOMAIN call[v].found PROVE call[v].found[i].path \in Path
        <4>1. call[v].found \in Seq([path : Path, content : Content])
          BY <2>1 DEF CallOk, Founds
        <4>2. i \in 1 .. Len(call[v].found)
          BY <4>1, LenProperties
        <4>3. call[v].found[i] \in [path : Path, content : Content]
          BY <4>1, <4>2, ElementOfSeq
        <4> QED BY <4>3
      <3>3. call'[v].found = call[v].found
        OBVIOUS
      <3>4. ASSUME NEW i \in DOMAIN call'[v].found
            PROVE  call'[v].found[i].content \in seen'[v][call'[v].found[i].path]
        <4>1. i \in DOMAIN call[v].found /\ call'[v].found[i] = call[v].found[i]
          BY <3>3
        <4>2. call[v].found[i].content \in seen[v][call[v].found[i].path]
          BY <2>1, <4>1 DEF CurrentCall
        <4> QED BY <3>1, <3>2, <4>1, <4>2
      <3>5. CASE call'[v] = call[v]
        <4>1. call[v].at \in Reading => \A q \in Path : doc'[q].content \in seen'[v][q]
          BY <1>1, <2>1, <3>1 DEF CurrentCall
        <4>2. call[v].at \in Holding => Head1(v) \in Path
          BY <2>1, HeadAndTail DEF CallOk, Head1, Holding, Handling
        <4>3. call[v].at \in Holding => call[v].text \in seen'[v][Head1(v)]
          BY <2>1, <3>1, <4>2 DEF CurrentCall
        <4>4. call[v].at \in {"stamp", "store"} => Head1(v) # p
          BY DEF Quiet
        <4>5. call[v].at \in {"stamp", "store"} => call[v].text = doc'[Head1(v)].content
          BY <1>1, <2>1, <4>2, <4>4 DEF CurrentCall, Holding
        <4> QED BY <2>1, <2>3, <3>4, <3>5, <4>1, <4>3, <4>5 DEF CurrentCall, TrueEntries, Head1
      <3>6. CASE call'[v].at \in {"fill", "written"} /\ call'[v].entries = call[v].entries
        BY <2>1, <3>4, <3>6 DEF CurrentCall, Reading, Holding, TrueEntries
      <3> QED BY <2>3, <3>5, <3>6
    <2> QED BY <2>2, <2>3
  <1> QED BY <1>2 DEF CurrentInv, TrueEntries

\* Answers: a file that is made or filled has one more content that calls may see.
LEMMA WriteKeepsCurrent ==
    ASSUME QuietFiles, DataOk, CurrentInv, NEW w \in Process, Create(w) \/ Fill(w)
    PROVE  CurrentInv'
  <1>1. /\ call[w].at \in {"create", "fill"} /\ Quiet(Head1(w)) /\ Head1(w) \in Path
        /\ UNCHANGED index
    BY WriteCases
  <1>2. CASE Goes(w, "refused") /\ UNCHANGED <<doc, seen>>
    BY <1>1, <1>2, CurrentGoes DEF Reading, Holding
  <1>3. ASSUME NEW content \in Content, NEW stamp, NEW at \in {"fill", "written"},
               Changed(Head1(w), content, stamp), Goes(w, at)
        PROVE  CurrentInv'
    <2>1. /\ Moves(w) /\ call'[w].at = at
          /\ call'[w].found = call[w].found /\ call'[w].entries = call[w].entries
      BY <1>3, GoesMoves
    <2>2. \A v \in Process :
             \/ call'[v] = call[v]
             \/ /\ call'[v].at \in {"fill", "written"} /\ call[v].at # "idle"
                /\ call'[v].found = call[v].found /\ call'[v].entries = call[v].entries
      BY <1>1, <1>3, <2>1 DEF Moves
    <2> QED BY <1>1, <1>3, <2>2, ChangedKeepsCurrent
  <1>4. Empty \in Content
    BY ContentAssumption
  <1> QED BY <1>2, <1>3, <1>4, WriteCases

\* Answers: calls that begin, return or die.
LEMMA OtherKeepsCurrent ==
    ASSUME DataOk, CurrentInv, NEW w \in Process,
           Begin(w) \/ Return(w) \/ Crash(w) \/ \E p \in New : BeginWrite(w, p)
    PROVE  CurrentInv'
  <1>1. UNCHANGED <<doc, index>>
    BY DEF Begin, BeginWrite, Return, Crash
  <1>2. CASE Begin(w)
    <2>1. PICK q : call' = [call EXCEPT ![w] = [Idle EXCEPT !.at = "file", !.paths = q, !.todo = q]]
      BY <1>2 DEF Begin
    <2>2. /\ Moves(w) /\ call'[w].at = "file" /\ call'[w].found = <<>> /\ call'[w].entries = Blank
      BY <2>1 DEF DataOk, Moves, Idle
    <2>3. /\ seen'[w] = [p \in Path |-> {doc[p].content}]
          /\ \A v \in Process \ {w} : seen'[v] = seen[v]
      BY <1>2 DEF Begin, DataOk
    <2> QED BY <1>1, <2>2, <2>3, BlankIsTrue, CurrentMoves DEF Holding
  <1>3. CASE \E p \in New : BeginWrite(w, p)
    <2>1. PICK p : call' = [call EXCEPT ![w] = [Idle EXCEPT !.at = "create", !.todo = <<p>>]]
      BY <1>3 DEF BeginWrite
    <2>2. /\ Moves(w) /\ call'[w].at = "create" /\ call'[w].found = <<>> /\ call'[w].entries = Blank
          /\ UNCHANGED seen
      BY <1>3, <2>1 DEF BeginWrite, DataOk, Moves, Idle
    <2> QED BY <1>1, <2>2, BlankIsTrue, CurrentMoves DEF Holding, Reading
  <1>4. CASE Return(w) \/ Crash(w)
    BY <1>1, <1>4, EndsMoves, BlankIsTrue, CurrentMoves DEF Return, Crash, Holding, Reading
  <1> QED BY <1>2, <1>3, <1>4

\* Answers: every step.
LEMMA CurrentStep == QuietFiles /\ DataOk /\ CurrentInv /\ [Next]_vars => CurrentInv'
  <1> SUFFICES ASSUME QuietFiles, DataOk, CurrentInv, [Next]_vars PROVE CurrentInv'
    OBVIOUS
  <1>1. CASE UNCHANGED vars
    BY <1>1 DEF vars, CurrentInv, CurrentCall, TrueEntries, Head1
  <1>2. ASSUME NEW p \in Edited, Edit(p) PROVE CurrentInv'
    <2>1. UNCHANGED <<call, index>> /\ Quiet(p) /\ p \in Path
      BY <1>2, PathsAssumption DEF Edit
    <2>2. PICK content \in Content : \E stamp : Changed(p, content, stamp)
      BY <1>2 DEF Edit
    <2> QED BY <2>1, <2>2, ChangedKeepsCurrent
  <1> QED
    BY <1>1, <1>2, ReadKeepsCurrent, WriteKeepsCurrent, OtherKeepsCurrent DEF Next

\* An index that processes load, change and write back without a lock, that may be torn
\* or lost at any time, never answers with what is not in the files, provided that no
\* file changes between its reading and its hash.
THEOREM CurrentAnswers ==
    ASSUME QuietFiles
    PROVE  Spec => []AnswersAreCurrent
  <1>1. CurrentInv => AnswersAreCurrent
    BY DEF CurrentInv, CurrentCall, AnswersAreCurrent
  <1>2. DataOk /\ CurrentInv /\ [Next]_vars => CurrentInv' /\ DataOk'
    BY CurrentStep, DataStep
  <1> QED BY DataInit, CurrentInit, <1>1, <1>2, PTL DEF Spec
----------------------------------------------------------------------------
(* No readable file is left out *)

\* The stages of a call that has read, too.
Answering == Reading \cup {"answered", "raised"}

Used(found) == {f.path : f \in ToSet(found)}

\* What a call owes: a file it was asked for is found, or still to do, or could not be read
\* at some time since the call began.
OwedCall(w) ==
    LET c == call[w] IN
    /\ c.paths \in Seq(Path)
    /\ c.at \in Reading => \A p \in Path : doc[p].content \in seen[w][p]
    /\ c.at \in Holding => Chunked(c.text)
    /\ \A i \in DOMAIN c.found : Chunked(c.found[i].content)
    /\ c.at \in Answering =>
          \A p \in ToSet(c.paths) :
              (\A x \in seen[w][p] : Chunked(x)) => p \in Used(c.found) \cup ToSet(c.todo)
    /\ c.at \in {"answered", "raised"} => c.todo = <<>>
    /\ c.at = "answered" /\ c.found # <<>> => c.answer # <<>>
    /\ c.at = "raised" => Len(c.found) > 1

OwedInv == \A w \in Process : OwedCall(w)

\* A set with a member for each of finitely many is finite.
LEMMA FiniteImage ==
    ASSUME NEW S, IsFiniteSet(S), NEW f, S = DOMAIN f
    PROVE  IsFiniteSet({f[x] : x \in S})
  <1> DEFINE T == {f[x] : x \in S}
             g == [x \in S |-> f[x]]
  <1>1. g \in Surjection(S, T)
    BY DEF Surjection
  <1> QED BY <1>1, FS_Surjection

\* The chunks of what has been found: finitely many, and some.
LEMMA SomeCandidates ==
    ASSUME NEW found \in Founds
    PROVE  /\ IsFiniteSet(Candidates(found))
           /\ \A c \in Candidates(found) :
                 c.document \in 1..Len(found) /\ c.chunk \in Nat /\ c.score \in Nat
           /\ found # <<>> /\ (\A i \in DOMAIN found : Chunked(found[i].content)) =>
                 Candidates(found) # {}
  <1> DEFINE scores(i) == Scores[found[i].content]
             piece(i, k) == [document |-> i, chunk |-> k, score |-> scores(i)[k]]
             pieces(i) == {piece(i, k) : k \in DOMAIN scores(i)}
             all == {pieces(i) : i \in DOMAIN found}
  <1>1. Len(found) \in Nat /\ DOMAIN found = 1..Len(found)
    BY DEF Founds
  <1>2. \A i \in DOMAIN found : scores(i) \in Seq(Nat)
    <2>1. ASSUME NEW i \in DOMAIN found PROVE found[i].content \in Content
      <3>1. found[i] \in [path : Path, content : Content]
        BY <1>1, ElementOfSeq DEF Founds
      <3> QED BY <3>1
    <2> QED BY <2>1, ContentAssumption
  <1>3. Candidates(found) = UNION all
    BY DEF Candidates
  <1>4. ASSUME NEW i \in DOMAIN found PROVE IsFiniteSet(pieces(i))
    <2> DEFINE f == [k \in DOMAIN scores(i) |-> piece(i, k)]
               S == DOMAIN scores(i)
    <2>1. IsFiniteSet(S)
      <3>1. DOMAIN scores(i) = 1..Len(scores(i)) /\ Len(scores(i)) \in Nat
        BY <1>2
      <3> QED BY <3>1, FS_Interval
    <2>2. S = DOMAIN f
      OBVIOUS
    <2>3. pieces(i) = {f[x] : x \in S}
      OBVIOUS
    <2> HIDE DEF f, S
    <2>4. IsFiniteSet({f[x] : x \in S})
      BY <2>1, <2>2, FiniteImage
    <2> QED BY <2>3, <2>4, Zenon
  <1>5. IsFiniteSet(all)
    <2> DEFINE f == [i \in DOMAIN found |-> pieces(i)]
               S == DOMAIN found
    <2>1. IsFiniteSet(S)
      BY <1>1, FS_Interval
    <2>2. S = DOMAIN f
      OBVIOUS
    <2>3. all = {f[x] : x \in S}
      OBVIOUS
    <2> HIDE DEF f, S, all
    <2> QED BY <2>1, <2>2, <2>3, FiniteImage
  <1>6. \A T \in all : IsFiniteSet(T)
    BY <1>4
  <1>7. IsFiniteSet(Candidates(found))
    <2> HIDE DEF all
    <2> QED BY <1>3, <1>5, <1>6, FS_UNION
  <1>8. ASSUME NEW c \in Candidates(found)
        PROVE  c.document \in 1..Len(found) /\ c.chunk \in Nat /\ c.score \in Nat
    <2>1. PICK i \in DOMAIN found : c \in pieces(i)
      BY <1>3
    <2>2. PICK k \in DOMAIN scores(i) : c = piece(i, k)
      BY <2>1
    <2>3. scores(i) \in Seq(Nat)
      BY <1>2
    <2> QED BY <1>1, <2>2, <2>3
  <1>9. ASSUME found # <<>>, \A i \in DOMAIN found : Chunked(found[i].content)
        PROVE  Candidates(found) # {}
    <2>1. 1 \in DOMAIN found
      BY <1>1, <1>9 DEF Founds
    <2>2. scores(1) \in Seq(Nat) /\ scores(1) # <<>>
      BY <1>2, <1>9, <2>1 DEF Chunked
    <2>3. 1 \in DOMAIN scores(1)
      BY <2>2
    <2>4. piece(1, 1) \in pieces(1) /\ pieces(1) \in all
      BY <2>1, <2>3
    <2> HIDE DEF piece, pieces, all
    <2> QED BY <1>3, <2>4
  <1> QED BY <1>7, <1>8, <1>9

\* Where there are chunks, some are selected; and chunks tie only with those of
\* another document that was found.
LEMMA SomeSelected ==
    ASSUME NEW found \in Founds
    PROVE  /\ found # <<>> /\ (\A i \in DOMAIN found : Chunked(found[i].content)) =>
                 Selected(found) # <<>>
           /\ Tied(found) => Len(found) > 1
  <1>1. ASSUME NEW S, IsFiniteSet(S), S # {}, NEW ranked, DOMAIN ranked = 1..Cardinality(S)
        PROVE  Upto(Limit, ranked) # <<>>
    <2>1. Cardinality(S) \in Nat \ {0}
      BY <1>1, FS_EmptySet, FS_CardinalityType
    <2>2. PICK n \in Nat \ {0} : n = Cardinality(S)
      BY <2>1
    <2>3. 1 \in DOMAIN Upto(Limit, ranked)
      BY <1>1, <2>2, LimitAssumption DEF Upto
    <2>4. 1 \notin DOMAIN <<>>
      OBVIOUS
    <2> QED BY <2>3, <2>4
  <1>2. ASSUME found # <<>>, \A i \in DOMAIN found : Chunked(found[i].content)
        PROVE  Selected(found) # <<>>
    <2>1. IsFiniteSet(Candidates(found)) /\ Candidates(found) # {}
      BY <1>2, SomeCandidates
    <2>2. IsFiniteSet(Matching(found))
      <3>1. Matching(found) \in SUBSET Candidates(found)
        BY DEF Matching
      <3> QED BY <2>1, <3>1, FS_Subset
    <2>3. PICK ranked : /\ Selected(found) = Upto(Limit, ranked)
                        /\ \/ /\ Matching(found) = {}
                              /\ DOMAIN ranked = 1..Cardinality(Candidates(found))
                           \/ /\ Matching(found) # {}
                              /\ DOMAIN ranked = 1..Cardinality(Matching(found))
      <3>1. CASE Matching(found) = {}
        <4> DEFINE S == Candidates(found)
                   ranked == [i \in 1..Cardinality(S) |->
                       CHOOSE x \in S : Cardinality({y \in S : Earlier(y, x)}) = i - 1]
        <4>1. Selected(found) = Upto(Limit, ranked)
          BY <3>1, Zenon DEF Selected, Ranked
        <4>2. DOMAIN ranked = 1..Cardinality(S)
          OBVIOUS
        <4> HIDE DEF ranked
        <4> QED BY <3>1, <4>1, <4>2
      <3>2. CASE Matching(found) # {}
        <4> DEFINE S == Matching(found)
                   ranked == [i \in 1..Cardinality(S) |->
                       CHOOSE x \in S : Cardinality({y \in S : Better(y, x)}) = i - 1]
        <4>1. Selected(found) = Upto(Limit, ranked)
          BY <3>2, Zenon DEF Selected, Ranked
        <4>2. DOMAIN ranked = 1..Cardinality(S)
          OBVIOUS
        <4> HIDE DEF ranked
        <4> QED BY <3>2, <4>1, <4>2
      <3> QED BY <3>1, <3>2
    <2> QED BY <1>1, <2>1, <2>2, <2>3
  <1>3. ASSUME Tied(found) PROVE Len(found) > 1
    <2>1. PICK c, d \in Matching(found) : c # d /\ ~Better(c, d) /\ ~Better(d, c)
      BY <1>3 DEF Tied
    <2>2. c \in Candidates(found) /\ d \in Candidates(found)
      BY DEF Matching
    <2>3. /\ c.score \in Nat /\ d.score \in Nat /\ c.chunk \in Nat /\ d.chunk \in Nat
          /\ c.document \in 1..Len(found) /\ d.document \in 1..Len(found)
      BY <2>2, SomeCandidates
    <2>4. c.score = d.score /\ c.chunk = d.chunk
      BY <2>1, <2>3 DEF Better
    <2>5. /\ c = [document |-> c.document, chunk |-> c.chunk, score |-> c.score]
          /\ d = [document |-> d.document, chunk |-> d.chunk, score |-> d.score]
      BY <2>2 DEF Candidates
    <2>6. c.document # d.document
      BY <2>1, <2>4, <2>5
    <2>7. Len(found) \in Nat
      BY DEF Founds
    <2> QED BY <2>3, <2>6, <2>7
  <1> QED BY <1>2, <1>3

\* A step of a worker that changes no file.
LEMMA OwedMoves ==
    ASSUME OwedInv, NEW w \in Process, Moves(w), UNCHANGED doc,
           \A v \in Process \ {w} : seen'[v] = seen[v],
           OwedCall(w)'
    PROVE  OwedInv'
  <1>1. ASSUME NEW v \in Process \ {w} PROVE OwedCall(v)'
    BY DEF OwedInv, OwedCall, Moves
  <1> QED BY <1>1 DEF OwedInv

\* ... and that goes to another stage with what it has.
LEMMA OwedGoes ==
    ASSUME DataOk, OwedInv, NEW w \in Process, NEW at, Goes(w, at), UNCHANGED <<doc, seen>>,
           at \in Reading => call[w].at \in Reading,
           at \in Holding => call[w].at \in Holding,
           at \in {"answered", "raised"} => at = "raised" /\ call[w].todo = <<>>
                                            /\ call[w].at \in Reading /\ Len(call[w].found) > 1
    PROVE  OwedInv'
  <1>1. OwedCall(w)
    BY DEF OwedInv
  <1>2. call'[w].paths = call[w].paths
    BY DEF DataOk, CallOk, Goes, Fields
  <1>3. OwedCall(w)'
    BY <1>1, <1>2, GoesMoves DEF OwedCall, Answering
  <1> QED BY <1>3, GoesMoves, OwedMoves

\* What there is to do is the file at hand and the rest.
LEMMA TodoParts ==
    ASSUME NEW s \in Seq(Path), s # <<>>
    PROVE  ToSet(s) = {Head(s)} \cup ToSet(Tail(s))
  <1>1. /\ Len(s) \in Nat \ {0} /\ DOMAIN s = 1..Len(s) /\ Head(s) = s[1]
        /\ Tail(s) \in Seq(Path) /\ Len(Tail(s)) = Len(s) - 1
        /\ \A i \in 1..Len(Tail(s)) : Tail(s)[i] = s[i + 1]
    BY HeadTailProperties
  <1>2. DOMAIN Tail(s) = 1..Len(s) - 1
    BY <1>1
  <1>3. ASSUME NEW p \in ToSet(s) PROVE p = Head(s) \/ p \in ToSet(Tail(s))
    <2>1. PICK i \in 1..Len(s) : p = s[i]
      BY <1>1 DEF ToSet
    <2>2. CASE i = 1
      BY <1>1, <2>1, <2>2
    <2>3. CASE i # 1
      <3>1. i - 1 \in 1..Len(s) - 1 /\ (i - 1) + 1 = i
        BY <1>1, <2>3
      <3>2. Tail(s)[i - 1] = s[i]
        BY <1>1, <3>1
      <3> QED BY <1>2, <2>1, <3>1, <3>2 DEF ToSet
    <2> QED BY <2>2, <2>3
  <1>4. ASSUME NEW p, p = Head(s) \/ p \in ToSet(Tail(s)) PROVE p \in ToSet(s)
    <2>1. CASE p = Head(s)
      BY <1>1, <2>1 DEF ToSet
    <2>2. CASE p \in ToSet(Tail(s))
      <3>1. PICK i \in 1..Len(s) - 1 : p = Tail(s)[i]
        BY <1>2, <2>2 DEF ToSet
      <3>2. i + 1 \in 1..Len(s) /\ Tail(s)[i] = s[i + 1]
        BY <1>1, <3>1
      <3> QED BY <1>1, <3>1, <3>2 DEF ToSet
    <2> QED BY <1>4, <2>1, <2>2
  <1> QED BY <1>3, <1>4

\* ... and that leaves a file, which has been found or could not be read once.
LEMMA OwedNext ==
    ASSUME DataOk, OwedInv, NEW w \in Process, NEW found, NextFile(w, found),
           UNCHANGED <<doc, seen>>, call[w].at \in Reading, call[w].todo # <<>>,
           \A i \in DOMAIN found : Chunked(found[i].content),
           Used(call[w].found) \subseteq Used(found),
           Head1(w) \in Used(found) \/ \E x \in seen[w][Head1(w)] : ~Chunked(x)
    PROVE  OwedInv'
  <1>1. OwedCall(w) /\ call[w].todo \in Seq(Path)
    BY DEF OwedInv, DataOk, CallOk
  <1>2. /\ call'[w].paths = call[w].paths /\ call'[w].at = "file" /\ call'[w].found = found
        /\ call'[w].todo = Tail(call[w].todo) /\ Moves(w)
    BY NextFileMoves DEF DataOk, NextFile, Idle
  <1>3. ToSet(call[w].todo) = {Head1(w)} \cup ToSet(Tail(call[w].todo))
    BY <1>1, TodoParts DEF Head1
  <1>4. ASSUME NEW p \in ToSet(call[w].paths), \A x \in seen[w][p] : Chunked(x)
        PROVE  p \in Used(found) \cup ToSet(Tail(call[w].todo))
    <2>1. p \in Used(call[w].found) \cup ToSet(call[w].todo)
      BY <1>1, <1>4 DEF OwedCall, Answering
    <2>2. p = Head1(w) => p \in Used(found)
      BY <1>4
    <2> QED BY <1>3, <2>1, <2>2
  <1>5. OwedCall(w)'
    BY <1>1, <1>2, <1>4 DEF OwedCall, Answering, Reading, Holding
  <1> QED BY <1>2, <1>5, OwedMoves

LEMMA OwedFound ==
    ASSUME DataOk, OwedInv, NEW w \in Process, NEW content \in Content, Chunked(content),
           call[w].at \in Handling, call[w].at \in Reading,
           NextFile(w, Found(w, content)), UNCHANGED <<doc, seen>>
    PROVE  OwedInv'
  <1>1. /\ Found(w, content) \in Founds /\ call[w].found \in Founds
        /\ Len(Found(w, content)) = Len(call[w].found) + 1
        /\ \A i \in 1..Len(call[w].found) : Found(w, content)[i] = call[w].found[i]
        /\ Found(w, content)[Len(call[w].found) + 1] = [path |-> Head1(w), content |-> content]
    BY FoundOk DEF DataOk, CallOk
  <1> DEFINE found == Found(w, content)
             n == Len(call[w].found)
  <1>2. DOMAIN found = 1..(n + 1) /\ DOMAIN call[w].found = 1..n /\ n \in Nat
    BY <1>1 DEF Founds
  <1>3. OwedCall(w) /\ call[w].todo # <<>>
    BY DEF OwedInv, DataOk, CallOk
  <1> HIDE DEF found, n
  <1>4. ASSUME NEW i \in DOMAIN found PROVE Chunked(found[i].content)
    <2>1. CASE i = n + 1
      BY <1>1, <2>1 DEF found, n
    <2>2. CASE i \in 1..n
      BY <1>1, <1>2, <1>3, <2>2 DEF found, n, OwedCall
    <2> QED BY <1>2, <2>1, <2>2
  <1>5. Used(call[w].found) \subseteq Used(found)
    <2>1. ASSUME NEW f \in ToSet(call[w].found) PROVE f \in ToSet(found)
      <3>1. PICK i \in 1..n : f = call[w].found[i]
        BY <1>2 DEF ToSet
      <3>2. i \in 1..(n + 1) /\ found[i] = f
        BY <1>1, <1>2, <3>1 DEF found, n
      <3> QED BY <1>2, <3>2 DEF ToSet
    <2> QED BY <2>1 DEF Used
  <1>6. Head1(w) \in Used(found)
    <2>1. n + 1 \in DOMAIN found /\ found[n + 1].path = Head1(w)
      BY <1>1, <1>2 DEF found, n
    <2> QED BY <2>1 DEF Used, ToSet
  <1>7. NextFile(w, found)
    BY DEF found
  <1> QED BY <1>3, <1>4, <1>5, <1>6, <1>7, OwedNext

LEMMA OwedInit == Init => OwedInv
  <1> SUFFICES ASSUME Init, NEW w \in Process PROVE OwedCall(w)
    BY DEF OwedInv
  <1>1. call[w] = Idle
    BY DEF Init
  <1>2. Idle.at = "idle" /\ Idle.paths = <<>> /\ Idle.found = <<>>
    BY DEF Idle
  <1>3. <<>> \in Seq(Path) /\ DOMAIN <<>> = {}
    OBVIOUS
  <1> QED BY <1>1, <1>2, <1>3 DEF OwedCall, Reading, Holding, Answering

\* A call reads on: what is not found has not been there, or had no text.
LEMMA ReadKeepsOwed ==
    ASSUME DataOk, OwedInv, NEW w \in Process, Read(w)
    PROVE  OwedInv'
  <1>1. UNCHANGED <<doc, seen>>
    BY DEF Read, OpenFile, LoadIndex, CheckStamp, CheckHash, ReadFile, StoreStamp, StoreHash,
           Truncate, WriteOut, SaveFails, Answer
  <1>2. OwedCall(w) /\ CallOk(call[w])
    BY DEF OwedInv, DataOk
  <1>3. call[w].at \in Handling \/ call[w].todo # <<>> => Head1(w) \in Path /\ call[w].todo # <<>>
    BY <1>2, HeadAndTail DEF CallOk, Head1
  <1>4. ~Chunked(Gone)
    BY ContentAssumption DEF Chunked
  <1>5. \A q \in Path : doc[q].content \in Content
    BY DEF DataOk
  <1>6. ASSUME call[w].at \in Reading, call[w].todo # <<>>, NextFile(w, call[w].found),
               ~Chunked(doc[Head1(w)].content)
        PROVE  OwedInv'
    <2>1. \A i \in DOMAIN call[w].found : Chunked(call[w].found[i].content)
      BY <1>2 DEF OwedCall
    <2>2. doc[Head1(w)].content \in seen[w][Head1(w)]
      BY <1>2, <1>3, <1>6 DEF OwedCall
    <2> QED BY <1>1, <1>6, <2>1, <2>2, OwedNext
  <1>7. ASSUME NEW c, NEW at \in Reading, call' = [call EXCEPT ![w] = c],
               c.at = at, c.paths = call[w].paths, c.todo = call[w].todo, c.found = call[w].found,
               call[w].at \in Reading, at \in Holding => Chunked(c.text)
        PROVE  OwedInv'
    <2>1. Moves(w) /\ call'[w] = c
      BY <1>7 DEF Moves, DataOk
    <2>2. OwedCall(w)'
      BY <1>1, <1>2, <1>7, <2>1 DEF OwedCall, Answering, Reading
    <2> QED BY <1>1, <2>1, <2>2, OwedMoves
  <1>8. CASE OpenFile(w)
    <2>1. call[w].at = "file" /\ call[w].todo # <<>> /\ call[w].at \in Reading
      BY <1>8 DEF OpenFile, At, Reading
    <2>2. CASE doc[Head1(w)].content = Gone /\ NextFile(w, call[w].found)
      BY <1>4, <1>6, <2>1, <2>2
    <2>3. ASSUME NEW at \in {"load", "read"}, NEW usable,
                 call' = [call EXCEPT ![w] = [@ EXCEPT !.at = at, !.indexed = usable]]
          PROVE  OwedInv'
      <3> DEFINE c == [call[w] EXCEPT !.at = at, !.indexed = usable]
      <3>1. /\ c.at = at /\ c.paths = call[w].paths /\ c.todo = call[w].todo
            /\ c.found = call[w].found /\ call' = [call EXCEPT ![w] = c]
        BY <1>2, <2>3 DEF CallOk, Fields
      <3>2. at \in Reading /\ at \notin Holding
        BY DEF Reading, Holding
      <3> HIDE DEF c
      <3> QED BY <1>7, <2>1, <3>1, <3>2
    <2> QED BY <1>8, <2>2, <2>3 DEF OpenFile
  <1>9. CASE LoadIndex(w)
    <2> DEFINE c == [call[w] EXCEPT !.at = "stat", !.entries = index.entries]
    <2>1. /\ c.at = "stat" /\ c.paths = call[w].paths /\ c.todo = call[w].todo
          /\ c.found = call[w].found /\ call' = [call EXCEPT ![w] = c] /\ call[w].at = "load"
      BY <1>2, <1>9 DEF CallOk, Fields, LoadIndex, At
    <2> HIDE DEF c
    <2> QED BY <1>7, <2>1 DEF Reading, Holding
  <1>10. CASE CheckStamp(w) \/ Truncate(w)
    BY <1>1, <1>10, OwedGoes DEF CheckStamp, Truncate, At, Reading, Holding
  <1>11. CASE CheckHash(w)
    <2> DEFINE entry == call[w].entries[Head1(w)]
    <2>1. call[w].at = "hash" /\ call[w].at \in Handling /\ call[w].at \in Reading
      BY <1>11 DEF CheckHash, At, Handling, Reading
    <2>2. CASE Goes(w, "read")
      BY <1>1, <2>1, <2>2, OwedGoes DEF Reading, Holding
    <2>3. CASE Chunked(entry.chunks) /\ NextFile(w, Found(w, entry.chunks))
      <3>1. entry.chunks \in Content
        BY <1>2, <1>3, <2>1 DEF CallOk, Entries
      <3> HIDE DEF entry
      <3> QED BY <1>1, <2>1, <2>3, <3>1, OwedFound
    <2> QED BY <1>11, <2>2, <2>3 DEF CheckHash
  <1>12. CASE ReadFile(w)
    <2> DEFINE content == doc[Head1(w)].content
    <2>1. call[w].at = "read" /\ call[w].at \in Handling /\ call[w].at \in Reading
      BY <1>12 DEF ReadFile, At, Handling, Reading
    <2>2. CASE ~Chunked(content) /\ NextFile(w, call[w].found)
      BY <1>3, <1>6, <2>1, <2>2
    <2>3. CASE Chunked(content) /\ NextFile(w, Found(w, content))
      <3>1. content \in Content
        BY <1>3, <1>5, <2>1
      <3> HIDE DEF content
      <3> QED BY <1>1, <2>1, <2>3, <3>1, OwedFound
    <2>4. CASE Chunked(content) /\ call' = [call EXCEPT ![w] = [@ EXCEPT !.at = "stamp", !.text = content]]
      <3> DEFINE c == [call[w] EXCEPT !.at = "stamp", !.text = content]
      <3>1. /\ c.at = "stamp" /\ c.paths = call[w].paths /\ c.todo = call[w].todo
            /\ c.found = call[w].found /\ c.text = content /\ call' = [call EXCEPT ![w] = c]
        BY <1>2, <2>4 DEF CallOk, Fields
      <3> HIDE DEF c
      <3> QED BY <1>7, <2>1, <2>4, <3>1 DEF Reading
    <2>5. \/ ~Chunked(content) /\ NextFile(w, call[w].found)
          \/ Chunked(content) /\ NextFile(w, Found(w, content))
          \/ Chunked(content) /\ call' = [call EXCEPT ![w] = [@ EXCEPT !.at = "stamp", !.text = content]]
      BY <1>12 DEF ReadFile
    <2> QED BY <2>2, <2>3, <2>4, <2>5
  <1>13. CASE StoreStamp(w) \/ StoreHash(w) \/ WriteOut(w) \/ SaveFails(w)
    <2>1. /\ call[w].at \in Holding /\ call[w].at \in Handling /\ call[w].at \in Reading
      BY <1>13 DEF StoreStamp, StoreHash, WriteOut, SaveFails, At, Holding, Handling, Reading
    <2>2. Chunked(call[w].text) /\ call[w].text \in Content
      BY <1>2, <2>1 DEF OwedCall, CallOk
    <2>3. CASE NextFile(w, Found(w, call[w].text))
      BY <1>1, <2>1, <2>2, <2>3, OwedFound
    <2>4. ASSUME NEW stamp,
                 call' = [call EXCEPT ![w] = [@ EXCEPT !.at = "store", !.stamp = stamp]]
          PROVE  OwedInv'
      <3> DEFINE c == [call[w] EXCEPT !.at = "store", !.stamp = stamp]
      <3>1. /\ c.at = "store" /\ c.paths = call[w].paths /\ c.todo = call[w].todo
            /\ c.found = call[w].found /\ c.text = call[w].text /\ call' = [call EXCEPT ![w] = c]
        BY <1>2, <2>4 DEF CallOk, Fields
      <3> HIDE DEF c
      <3> QED BY <1>7, <2>1, <2>2, <3>1 DEF Reading
    <2>5. ASSUME NEW entry,
                 call' = [call EXCEPT ![w] = [@ EXCEPT !.at = "save", !.entries[Head1(w)] = entry]]
          PROVE  OwedInv'
      <3> DEFINE c == [call[w] EXCEPT !.at = "save", !.entries[Head1(w)] = entry]
      <3>1. /\ c.at = "save" /\ c.paths = call[w].paths /\ c.todo = call[w].todo
            /\ c.found = call[w].found /\ c.text = call[w].text /\ call' = [call EXCEPT ![w] = c]
        BY <1>2, <2>5 DEF CallOk, Fields
      <3> HIDE DEF c
      <3> QED BY <1>7, <2>1, <2>2, <3>1 DEF Reading
    <2> QED BY <1>13, <2>3, <2>4, <2>5 DEF StoreStamp, StoreHash, WriteOut, SaveFails
  <1>14. CASE Answer(w)
    <2>1. call[w].at = "file" /\ call[w].todo = <<>> /\ call[w].at \in Reading
      BY <1>14 DEF Answer, At, Reading
    <2>2. CASE Tied(call[w].found) /\ Goes(w, "raised")
      <3>1. Len(call[w].found) > 1
        BY <1>2, <2>2, SomeSelected DEF CallOk
      <3> QED BY <1>1, <2>1, <2>2, <3>1, OwedGoes DEF Reading, Holding
    <2>3. CASE call' = [call EXCEPT ![w].at = "answered", ![w].answer = Selected(call[w].found)]
      <3>1. PICK answer : answer = Selected(call[w].found)
        OBVIOUS
      <3>2. call[w].found # <<>> => answer # <<>>
        BY <1>2, <3>1, SomeSelected DEF CallOk, OwedCall
      <3>3. call' = [call EXCEPT ![w].at = "answered", ![w].answer = answer]
        BY <2>3, <3>1, Zenon
      <3>4. /\ Moves(w) /\ call'[w].at = "answered" /\ call'[w].paths = call[w].paths
            /\ call'[w].todo = call[w].todo /\ call'[w].found = call[w].found
            /\ call'[w].answer = answer
        BY <3>3 DEF Moves, DataOk, CallOk, Fields
      <3>5. OwedCall(w)'
        BY <1>1, <1>2, <2>1, <3>2, <3>4 DEF OwedCall, Answering, Reading, Holding
      <3> QED BY <1>1, <3>4, <3>5, OwedMoves
    <2> QED BY <1>14, <2>2, <2>3, Zenon DEF Answer
  <1> QED
    BY <1>8, <1>9, <1>10, <1>11, <1>12, <1>13, <1>14 DEF Read

\* A file changes: calls that are under way have one more content to be readable in.
LEMMA ChangedKeepsOwed ==
    ASSUME DataOk, OwedInv, NEW p \in Path, NEW content \in Content, NEW stamp,
           Changed(p, content, stamp),
           \A v \in Process :
              \/ call'[v] = call[v]
              \/ /\ call'[v].at \in {"fill", "written"}
                 /\ call'[v].found = call[v].found /\ call'[v].paths = call[v].paths
    PROVE  OwedInv'
  <1>1. /\ doc'[p].content = content /\ \A q \in Path \ {p} : doc'[q] = doc[q]
        /\ \A v \in Process : call[v].at # "idle" =>
              seen'[v] = [seen[v] EXCEPT ![p] = @ \cup {content}]
    BY DEF Changed, DataOk, At
  <1>2. ASSUME NEW v \in Process PROVE OwedCall(v)'
    <2>1. OwedCall(v)
      BY DEF OwedInv
    <2>2. CASE call'[v] = call[v] /\ call[v].at \in Answering
      <3>1. seen'[v] = [seen[v] EXCEPT ![p] = @ \cup {content}]
        BY <1>1, <2>2 DEF Answering, Reading
      <3>2. seen[v] \in [Path -> SUBSET Content]
        BY DEF DataOk
      <3>3. (\A q \in Path : seen[v][q] \subseteq seen'[v][q]) /\ content \in seen'[v][p]
        BY <3>1, <3>2
      <3>4. \A q \in ToSet(call[v].paths) : q \in Path
        BY <2>1 DEF OwedCall, ToSet
      <3>5. call[v].at \in Reading => \A q \in Path : doc'[q].content \in seen'[v][q]
        BY <1>1, <2>1, <3>3 DEF OwedCall
      <3>6. \A q \in ToSet(call[v].paths) :
               (\A x \in seen'[v][q] : Chunked(x)) =>
                  q \in Used(call[v].found) \cup ToSet(call[v].todo)
        BY <2>1, <2>2, <3>3, <3>4 DEF OwedCall
      <3> QED BY <2>1, <2>2, <3>5, <3>6 DEF OwedCall
    <2>3. CASE call'[v] = call[v] /\ call[v].at \notin Answering
      BY <2>1, <2>3 DEF OwedCall, Answering
    <2>4. CASE /\ call'[v].at \in {"fill", "written"}
               /\ call'[v].found = call[v].found /\ call'[v].paths = call[v].paths
      BY <2>1, <2>4 DEF OwedCall, Answering, Reading, Holding
    <2> QED BY <2>2, <2>3, <2>4
  <1> QED BY <1>2 DEF OwedInv

LEMMA WriteKeepsOwed ==
    ASSUME DataOk, OwedInv, NEW w \in Process, Create(w) \/ Fill(w)
    PROVE  OwedInv'
  <1>1. CASE Goes(w, "refused") /\ UNCHANGED <<doc, seen>>
    BY <1>1, OwedGoes DEF Reading, Holding
  <1>2. ASSUME NEW content \in Content, NEW stamp, NEW at \in {"fill", "written"},
               Changed(Head1(w), content, stamp), Goes(w, at)
        PROVE  OwedInv'
    <2>1. /\ Moves(w) /\ call'[w].at = at /\ call'[w].found = call[w].found
          /\ call'[w].paths = call[w].paths
      BY <1>2, GoesMoves DEF DataOk, CallOk, Goes, Fields
    <2>2. \A v \in Process :
             \/ call'[v] = call[v]
             \/ /\ call'[v].at \in {"fill", "written"}
                /\ call'[v].found = call[v].found /\ call'[v].paths = call[v].paths
      BY <2>1 DEF Moves
    <2>3. Head1(w) \in Path
      BY WriteCases
    <2> QED BY <1>2, <2>2, <2>3, ChangedKeepsOwed
  <1>3. Empty \in Content
    BY ContentAssumption
  <1> QED BY <1>1, <1>2, <1>3, WriteCases

LEMMA OtherKeepsOwed ==
    ASSUME DataOk, OwedInv, NEW w \in Process,
           Begin(w) \/ Return(w) \/ Crash(w) \/ \E p \in New : BeginWrite(w, p)
    PROVE  OwedInv'
  <1>1. UNCHANGED doc /\ <<>> \in Seq(Path) /\ DOMAIN <<>> = {}
    <2>1. UNCHANGED doc
      BY DEF Begin, BeginWrite, Return, Crash
    <2> QED BY <2>1
  <1>2. CASE Begin(w)
    <2>1. PICK q \in Queries :
            call' = [call EXCEPT ![w] = [Idle EXCEPT !.at = "file", !.paths = q, !.todo = q]]
      BY <1>2 DEF Begin
    <2>2. /\ Moves(w) /\ call'[w].at = "file" /\ call'[w].found = <<>>
          /\ call'[w].paths = q /\ call'[w].todo = q
      BY <2>1 DEF DataOk, Moves, Idle
    <2>3. /\ seen'[w] = [p \in Path |-> {doc[p].content}]
          /\ \A v \in Process \ {w} : seen'[v] = seen[v]
      BY <1>2 DEF Begin, DataOk
    <2>4. q \in Seq(Path)
      BY PathsAssumption
    <2>5. OwedCall(w)'
      BY <1>1, <2>2, <2>3, <2>4 DEF OwedCall, Holding
    <2> QED BY <1>1, <2>2, <2>3, <2>5, OwedMoves
  <1>3. CASE \E p \in New : BeginWrite(w, p)
    <2>1. PICK p : call' = [call EXCEPT ![w] = [Idle EXCEPT !.at = "create", !.todo = <<p>>]]
      BY <1>3 DEF BeginWrite
    <2>2. /\ Moves(w) /\ call'[w].at = "create" /\ call'[w].found = <<>> /\ call'[w].paths = <<>>
          /\ UNCHANGED seen
      BY <1>3, <2>1 DEF BeginWrite, DataOk, Moves, Idle
    <2>3. OwedCall(w)'
      BY <1>1, <2>2 DEF OwedCall, Holding, Reading, Answering
    <2> QED BY <1>1, <2>2, <2>3, OwedMoves
  <1>4. CASE Return(w) \/ Crash(w)
    <2>1. Moves(w) /\ call'[w] = Idle /\ \A v \in Process \ {w} : seen'[v] = seen[v]
      BY <1>4, EndsMoves DEF Return, Crash
    <2>2. Idle.at = "idle" /\ Idle.paths = <<>> /\ Idle.found = <<>>
      BY DEF Idle
    <2>3. OwedCall(w)'
      BY <1>1, <2>1, <2>2 DEF OwedCall, Holding, Reading, Answering
    <2> QED BY <1>1, <2>1, <2>3, OwedMoves
  <1> QED BY <1>2, <1>3, <1>4

LEMMA OwedStep == DataOk /\ OwedInv /\ [Next]_vars => OwedInv'
  <1> SUFFICES ASSUME DataOk, OwedInv, [Next]_vars PROVE OwedInv'
    OBVIOUS
  <1>1. CASE UNCHANGED vars
    BY <1>1 DEF vars, OwedInv, OwedCall
  <1>2. ASSUME NEW p \in Edited, Edit(p) PROVE OwedInv'
    <2>1. UNCHANGED call /\ p \in Path
      BY <1>2, PathsAssumption DEF Edit
    <2>2. PICK content \in Content : \E stamp : Changed(p, content, stamp)
      BY <1>2 DEF Edit
    <2> QED BY <2>1, <2>2, ChangedKeepsOwed
  <1> QED
    BY <1>1, <1>2, ReadKeepsOwed, WriteKeepsOwed, OtherKeepsOwed DEF Next

\* A search leaves out no file that it was asked for and that could be read all the while,
\* for any number of files and processes and whatever becomes of the index; it answers if
\* it has found something, and fails only over two documents.  Nobody has to keep the
\* files quiet for that.
THEOREM ReadableAnswered == Spec => []ReadableIsAnswered
  <1>1. DataOk /\ OwedInv => ReadableIsAnswered
    <2> SUFFICES ASSUME DataOk, OwedInv, NEW w \in Process
                 PROVE  LET used == Used(call[w].found) IN
                        /\ At(w, "answered") =>
                              /\ \A p \in ToSet(call[w].paths) :
                                    (\A c \in seen[w][p] : Chunked(c)) => p \in used
                              /\ used # {} => call[w].answer # <<>>
                        /\ At(w, "raised") => Len(call[w].found) > 1
      BY DEF ReadableIsAnswered, Used
    <2>1. OwedCall(w)
      BY DEF OwedInv
    <2>2. ToSet(<<>>) = {} /\ Used(<<>>) = {}
      BY DEF ToSet, Used
    <2> QED BY <2>1, <2>2 DEF OwedCall, Answering, At
  <1> QED BY DataInit, DataStep, OwedInit, OwedStep, <1>1, PTL DEF Spec
====
