---- MODULE MCDocuments ----
(* Small instances of Documents for TLC. *)
EXTENDS Documents, TLC

Alike == Permutations(Process)

\* Two contents with chunks, of which the second of "report" matches the query, and
\* no other.
FileContents == {"gone", "empty", "report", "notes"}
ChunkScores == [c \in FileContents |->
    CASE c = "report" -> <<0, 2>> [] c = "notes" -> <<0>> [] OTHER -> <<>>]
OneOrTwo == {<<"a.md">>, <<"a.md", "b.md">>, <<"a.md", "a.md">>}
====
