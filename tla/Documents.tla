---- MODULE Documents ----
(***************************************************************************)
(* Local documents as evidence: document_reader and search_document read   *)
(* files through an index of their chunks, one JSON file that all          *)
(* processes load, change and write back without a lock, and write_file    *)
(* makes new files, while their owner edits them.                          *)
(*                                                                         *)
(* A document is its content, its time stamp, and nothing else: size and   *)
(* mtime are one stamp, which an edit may leave as it is (same size, coarse *)
(* clock).  A content is cut into chunks; all that counts of a chunk is    *)
(* how well it matches the query.                                          *)
(***************************************************************************)
EXTENDS Naturals, Sequences, FiniteSets, SequencesExt, Rankings

CONSTANTS
    Process,    \* service processes, each with one tool call at a time
    Path,       \* the files below the working directory,
    Edited,     \* those that somebody works on,
    New,        \* and those that a run may want to write
    Content,    \* what a file may hold
    Scores,     \* content -> the score of each of its chunks for the query, in order
    Queries,    \* the paths a call may ask for, in order
    Limit,      \* of the chunks in an answer
    QuietFiles, \* whether nobody changes a file while a process indexes it
    MaxEdits, MaxCalls, MaxCrashes   \* bounds

Gone == "gone"      \* the content of a file that does not exist
Empty == "empty"    \* and of one that write_file has just made
ASSUME ContentAssumption ==
    /\ {Gone, Empty} \subseteq Content
    /\ Scores \in [Content -> Seq(Nat)]
    /\ Scores[Gone] = <<>> /\ Scores[Empty] = <<>>
ASSUME PathsAssumption == New \cup Edited \subseteq Path /\ Queries \subseteq Seq(Path)
ASSUME LimitAssumption == Limit \in Nat \ {0}

NoEntry == [stamp |-> 0, hash |-> Gone, chunks |-> Gone]
Blank == [p \in Path |-> NoEntry]

\* The index file: missing, somebody else's, a write that did not end, or an index.
Missing == [is |-> "missing", entries |-> Blank]
Foreign == [is |-> "foreign", entries |-> Blank]
Torn == [is |-> "torn", entries |-> Blank]
Index(entries) == [is |-> "index", entries |-> entries]

VARIABLES
    doc,    \* path -> its content and stamp
    index,  \* the index file
    call,   \* process -> its tool call
    seen,   \* process -> path -> the contents it has had since the call began
    mixed,  \* the writers of the index that another one has come in between
    edits, calls, crashes

counts == <<edits, calls, crashes>>
vars == <<doc, index, call, seen, mixed, counts>>

Idle == [at |-> "idle", paths |-> <<>>, todo |-> <<>>, indexed |-> FALSE, entries |-> Blank,
         stamp |-> 0, text |-> Gone, found |-> <<>>, answer |-> <<>>]

Unseen == [p \in Path |-> {}]

Init ==
    /\ doc \in [Path -> [content : Content \ {Empty}, stamp : {0}]]
    /\ index \in {Missing, Foreign}
    /\ call = [w \in Process |-> Idle]
    /\ seen = [w \in Process |-> Unseen]
    /\ mixed = {}
    /\ edits = 0
    /\ calls = 0
    /\ crashes = 0

At(w, at) == call[w].at = at
Head1(w) == Head(call[w].todo)
Chunked(content) == Scores[content] # <<>>

\* Leaves the file at hand, with its chunks if it has any, for the next one.
NextFile(w, found) ==
    call' = [call EXCEPT ![w] =
        [Idle EXCEPT !.at = "file", !.found = found,
                     !.paths = call[w].paths, !.todo = Tail(call[w].todo)]]
Found(w, content) == Append(call[w].found, [path |-> Head1(w), content |-> content])
Goes(w, at) == call' = [call EXCEPT ![w].at = at]

Ends(w) == call' = [call EXCEPT ![w] = Idle] /\ seen' = [seen EXCEPT ![w] = Unseen]
----------------------------------------------------------------------------
(* A call of document_reader or search_document *)

Begin(w) ==
    /\ At(w, "idle")
    /\ calls < MaxCalls
    /\ calls' = calls + 1
    /\ \E q \in Queries : call' = [call EXCEPT ![w] = [Idle EXCEPT !.at = "file", !.paths = q, !.todo = q]]
    /\ seen' = [seen EXCEPT ![w] = [p \in Path |-> {doc[p].content}]]
    /\ UNCHANGED <<doc, index, mixed, edits, crashes>>

\* is_file, and _usable_document_index_path: a file without the schema of an index
\* is left alone, whosever it is.
OpenFile(w) ==
    /\ At(w, "file") /\ call[w].todo # <<>>
    /\ IF doc[Head1(w)].content = Gone THEN NextFile(w, call[w].found)
       ELSE LET usable == index \notin {Foreign, Torn}
            IN  call' = [call EXCEPT ![w] = [@ EXCEPT !.at = IF usable THEN "load" ELSE "read",
                                                      !.indexed = usable]]
    /\ UNCHANGED <<doc, index, seen, mixed, counts>>

\* DocumentVectorIndex.load: what cannot be read any more is an empty index.
LoadIndex(w) ==
    /\ At(w, "load")
    /\ call' = [call EXCEPT ![w] =
          [@ EXCEPT !.at = "stat", !.entries = index.entries]]
    /\ UNCHANGED <<doc, index, seen, mixed, counts>>

\* get_fresh_chunks: the stamp, ...
CheckStamp(w) ==
    LET entry == call[w].entries[Head1(w)] IN
    /\ At(w, "stat")
    /\ Goes(w, IF entry # NoEntry /\ doc[Head1(w)].content # Gone
                  /\ doc[Head1(w)].stamp = entry.stamp
               THEN "hash" ELSE "read")
    /\ UNCHANGED <<doc, index, seen, mixed, counts>>

\* ... and then the content.
TrustStamp(w) ==                                                    \* mutant
    /\ At(w, "hash")
    /\ NextFile(w, Found(w, call[w].entries[Head1(w)].chunks))
    /\ UNCHANGED <<doc, index, seen, mixed, counts>>
CheckHash(w) ==
    LET entry == call[w].entries[Head1(w)] IN
    /\ At(w, "hash")
    /\ IF doc[Head1(w)].content = entry.hash /\ Chunked(entry.chunks)
       THEN NextFile(w, Found(w, entry.chunks))
       ELSE Goes(w, "read")
    /\ UNCHANGED <<doc, index, seen, mixed, counts>>

\* _read_document_chunks
ReadFile(w) ==
    LET content == doc[Head1(w)].content IN
    /\ At(w, "read")
    /\ CASE ~Chunked(content) -> NextFile(w, call[w].found)
         [] Chunked(content) /\ ~call[w].indexed -> NextFile(w, Found(w, content))
         [] Chunked(content) /\ call[w].indexed ->
               call' = [call EXCEPT ![w] = [@ EXCEPT !.at = "stamp", !.text = content]]
    /\ UNCHANGED <<doc, index, seen, mixed, counts>>

\* store_document takes the stamp and the hash of the file as it is by now; if it is
\* gone, the chunks are used without the index.
StoreStamp(w) ==
    LET now == doc[Head1(w)] IN
    /\ At(w, "stamp")
    /\ IF now.content = Gone THEN NextFile(w, Found(w, call[w].text))
       ELSE call' = [call EXCEPT ![w] = [@ EXCEPT !.at = "store", !.stamp = now.stamp]]
    /\ UNCHANGED <<doc, index, seen, mixed, counts>>
StoreHash(w) ==
    LET now == doc[Head1(w)]
        entry == [stamp |-> call[w].stamp, hash |-> now.content, chunks |-> call[w].text]
    IN
    /\ At(w, "store")
    /\ IF now.content = Gone THEN NextFile(w, Found(w, call[w].text))
       ELSE call' = [call EXCEPT ![w] = [@ EXCEPT !.at = "save", !.entries[Head1(w)] = entry]]
    /\ UNCHANGED <<doc, index, seen, mixed, counts>>

\* save: write_text truncates the file and then fills it.  Whoever else is writing
\* may find the two texts one over the other.
Writers == {w \in Process : At(w, "write")}
Disturbed(w) == (IF w \in Writers THEN mixed \cup Writers ELSE mixed) \ {w}
Truncate(w) ==
    /\ At(w, "save")
    /\ index' = Torn
    /\ mixed' = mixed \cup Writers
    /\ Goes(w, "write")
    /\ UNCHANGED <<doc, seen, counts>>
WriteOut(w) ==
    /\ At(w, "write")
    /\ index' \in {Index(call[w].entries)} \cup (IF w \in mixed THEN {Torn} ELSE {})
    /\ mixed' = Disturbed(w)
    /\ NextFile(w, Found(w, call[w].text))
    /\ UNCHANGED <<doc, seen, counts>>

\* The directory or the disk does not allow it: the chunks are used all the same.
DropUnsaved(w) ==                                                   \* mutant
    /\ call[w].at \in {"save", "write"}
    /\ mixed' = Disturbed(w)
    /\ NextFile(w, call[w].found)
    /\ UNCHANGED <<doc, index, seen, counts>>
SaveFails(w) ==
    /\ call[w].at \in {"save", "write"}
    /\ mixed' = Disturbed(w)
    /\ NextFile(w, Found(w, call[w].text))
    /\ UNCHANGED <<doc, index, seen, counts>>

(* The answer: rank_document_chunks, and the first chunks if none matches *)

Candidates(found) ==
    UNION {{[document |-> i, chunk |-> k, score |-> Scores[found[i].content][k]] :
                k \in DOMAIN Scores[found[i].content]} : i \in DOMAIN found}
Matching(found) == {c \in Candidates(found) : c.score > 0}

Earlier(c, d) == c.document < d.document \/ (c.document = d.document /\ c.chunk < d.chunk)
Better(c, d) == c.score > d.score \/ (c.score = d.score /\ c.chunk < d.chunk)

\* The sort compares the chunks themselves when score and number are the same, which
\* they do not support.
Tied(found) ==
    \E c, d \in Matching(found) : c # d /\ ~Better(c, d) /\ ~Better(d, c)

Selected(found) ==
    Upto(Limit, IF Matching(found) = {} THEN Ranked(Candidates(found), Earlier)
                ELSE Ranked(Matching(found), Better))

Answer(w) ==
    /\ At(w, "file") /\ call[w].todo = <<>>
    /\ IF Tied(call[w].found) THEN Goes(w, "raised")
       ELSE call' = [call EXCEPT ![w].at = "answered", ![w].answer = Selected(call[w].found)]
    /\ UNCHANGED <<doc, index, seen, mixed, counts>>
----------------------------------------------------------------------------
(* write_file, and whoever else works on the files *)

\* Nobody is between the reading of a file and the hash that is stored for it.
Quiet(p) == QuietFiles => \A w \in Process : call[w].at \in {"stamp", "store"} => Head1(w) # p

Changed(p, content, stamp) ==
    /\ doc' = [doc EXCEPT ![p] = [content |-> content, stamp |-> stamp]]
    /\ seen' = [w \in Process |->
          IF At(w, "idle") THEN Unseen ELSE [seen[w] EXCEPT ![p] = @ \cup {content}]]

\* The path is free ...
BeginWrite(w, p) ==
    /\ At(w, "idle")
    /\ calls < MaxCalls
    /\ calls' = calls + 1
    /\ doc[p].content = Gone
    /\ call' = [call EXCEPT ![w] = [Idle EXCEPT !.at = "create", !.todo = <<p>>]]
    /\ UNCHANGED <<doc, index, seen, mixed, edits, crashes>>

\* ... and is taken only if it still is (open with "x"), ...
CreateAnyway(w) ==                                                  \* mutant
    /\ At(w, "create")
    /\ Quiet(Head1(w))
    /\ Changed(Head1(w), Empty, doc[Head1(w)].stamp + 1)
    /\ Goes(w, "fill")
    /\ UNCHANGED <<index, mixed, counts>>
Create(w) ==
    /\ At(w, "create")
    /\ Quiet(Head1(w))
    /\ IF doc[Head1(w)].content = Gone
       THEN Changed(Head1(w), Empty, doc[Head1(w)].stamp + 1) /\ Goes(w, "fill")
       ELSE Goes(w, "refused") /\ UNCHANGED <<doc, seen>>
    /\ UNCHANGED <<index, mixed, counts>>

\* ... and then filled, unless the disk is full.
Fill(w) ==
    /\ At(w, "fill")
    /\ Quiet(Head1(w))
    /\ \/ \E content \in {c \in Content : Chunked(c)} :
             Changed(Head1(w), content, doc[Head1(w)].stamp) /\ Goes(w, "written")
       \/ Goes(w, "refused") /\ UNCHANGED <<doc, seen>>
    /\ UNCHANGED <<index, mixed, counts>>

Return(w) ==
    /\ call[w].at \in {"answered", "raised", "written", "refused"}
    /\ Ends(w)
    /\ UNCHANGED <<doc, index, mixed, counts>>

\* The process dies while it writes, and what it was writing stays as it is.  At any
\* other point its call leaves nothing behind.
Crash(w) ==
    /\ call[w].at \in {"write", "fill"}
    /\ crashes < MaxCrashes
    /\ crashes' = crashes + 1
    /\ Ends(w)
    /\ mixed' = Disturbed(w)
    /\ UNCHANGED <<doc, index, edits, calls>>

\* The owner makes, edits or removes a file; not in the moment a tool is making it.
Edit(p) ==
    /\ edits < MaxEdits
    /\ Quiet(p)
    /\ \A w \in Process : At(w, "fill") => Head1(w) # p
    /\ edits' = edits + 1
    /\ \E content \in Content \ {Empty, doc[p].content} :
          \E stamp \in {doc[p].stamp, doc[p].stamp + 1} : Changed(p, content, stamp)
    /\ UNCHANGED <<index, call, mixed, calls, crashes>>

Read(w) ==
    \/ OpenFile(w) \/ LoadIndex(w) \/ CheckStamp(w) \/ CheckHash(w) \/ ReadFile(w)
    \/ StoreStamp(w) \/ StoreHash(w) \/ Truncate(w) \/ WriteOut(w) \/ SaveFails(w) \/ Answer(w)

Next ==
    \/ \E w \in Process :
          \/ Begin(w) \/ Read(w) \/ Create(w) \/ Fill(w) \/ Return(w) \/ Crash(w)
          \/ \E p \in New : BeginWrite(w, p)
    \/ \E p \in Edited : Edit(p)

Spec == Init /\ [][Next]_vars
----------------------------------------------------------------------------
(* Properties *)

\* An index answers for a file only with what is in the file: the chunks of an answer
\* are of a content the file has had since the call began, whoever indexed it when,
\* through edits that leave no trace in the stamp, edits that bring an old content
\* back, and index files written over one another.
AnswersAreCurrent ==
    \A w \in Process : \A i \in DOMAIN call[w].found :
        LET f == call[w].found[i] IN f.content \in seen[w][f.path]

\* A file that could be read all the while is in the answer, whatever the state of the
\* index: torn, somebody else's, out of date, or refused by the disk.  The search fails
\* only over chunks of two documents that tie, which may be one that is asked for twice.
ReadableIsAnswered ==
    \A w \in Process :
        LET used == {f.path : f \in ToSet(call[w].found)} IN
        /\ At(w, "answered") =>
              /\ \A p \in ToSet(call[w].paths) : (\A c \in seen[w][p] : Chunked(c)) => p \in used
              /\ used # {} => call[w].answer # <<>>
        /\ At(w, "raised") => Len(call[w].found) > 1

\* A tool never takes the place of a file: an existing document changes only by its
\* owner or by the write that has just made it, and a file that is no index is never
\* made one.
FilesAreKept ==
    [][/\ \A p \in Path :
             /\ doc[p].content # Gone /\ doc'[p] # doc[p] /\ edits' = edits
             => doc[p].content = Empty /\ \E w \in Process : At(w, "fill") /\ Head1(w) = p
       /\ index = Foreign => index' = Foreign]_vars
====
