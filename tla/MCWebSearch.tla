---- MODULE MCWebSearch ----
(* Small instances of WebSearch for TLC. *)
EXTENDS WebSearch, TLC

\* A page, the same page with a tracking key, one whose path differs in case, and one
\* that may redirect to the first.
Urls == {"a", "a-tracked", "A", "moved"}
CanonicalUrl == ("a" :> "a" @@ "a-tracked" :> "a" @@ "A" :> "A" @@ "moved" :> "moved")
FoldedUrl == ("a" :> "a" @@ "a-tracked" :> "a-tracked" @@ "A" :> "a" @@ "moved" :> "moved")
LandsAt == ("a" :> {"a"} @@ "a-tracked" :> {"a-tracked"} @@ "A" :> {"A"}
            @@ "moved" :> {"moved", "a"})

\* A page in Latin-1, which matches the query unless it is read as UTF-8, a long one whose
\* second chunk matches best, and one with no text.
ContentScores == ("latin" :> <<1>> @@ "garbled" :> <<0>> @@ "long" :> <<1, 2>> @@ "blank" :> <<>>)
Utf8 == [c \in DOMAIN ContentScores |-> IF c = "latin" THEN "garbled" ELSE c]
ServedAt == ("a" :> {"long"} @@ "a-tracked" :> {"latin"} @@ "A" :> {"latin"}
             @@ "moved" :> {"blank"})

TwoProviders == <<"serpapi", "duckduckgo">>
ResultLists == ("serpapi" :> {<<"a-tracked", "moved">>} @@ "duckduckgo" :> {<<"a", "A">>})
OnePerDay == ("serpapi" :> 1)
TenEach == ("serpapi" :> 10 @@ "duckduckgo" :> 10)
OneListed == {<<"moved">>}
CachedOrNot == {[caching |-> TRUE, rendered |-> FALSE], [caching |-> FALSE, rendered |-> TRUE]}
====
