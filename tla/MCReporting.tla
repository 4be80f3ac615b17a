---- MODULE MCReporting ----
(* Small instances of Reporting for TLC. *)
EXTENDS Reporting

\* A page, a repository and a rumour.  Nothing, all of it, the repository only, or two
\* pages with one id.
Collected == {<<>>, <<"rumour", "page", "repo">>, <<"repo">>, <<"page", "repo", "page">>}
SnippetTerms == ("page" :> {"t1", "t2"} @@ "repo" :> {"t3"} @@ "rumour" :> {"t4"})
EvidenceSection == ("page" :> "s1" @@ "repo" :> "none" @@ "rumour" :> "none")
PositioningScore == ("page" :> 2 @@ "repo" :> 0 @@ "rumour" :> 3)
RepositoryScore == ("page" :> 1 @@ "repo" :> 2 @@ "rumour" :> 0)
OneProduct == <<{"page", "rumour"}>>
OnePlan == <<[id |-> "s1", name |-> "trend"], [id |-> "s2", name |-> "sources"]>>
NoneOrOne == {<<>>, OnePlan}

\* Findings of which one is supported and one in part; claims in other words, or none;
\* a finding on a rumour.
Conclude(title, terms, cites) == [title |-> title, terms |-> terms, cites |-> cites]
TwoFindings == <<Conclude("f1", {"t1", "t2"}, <<"page">>), Conclude("f2", {"t3", "t4"}, <<"repo">>)>>
ModelAnalyses ==
    {[findings |-> TwoFindings],
     [findings |-> <<Conclude("f2", {"t3"}, <<"repo">>)>>,
      claims |-> <<[claim |-> "c1", cites |-> <<"repo">>]>>, matrix |-> << <<"repo">> >>],
     [findings |-> TwoFindings, claims |-> <<>>],
     [findings |-> <<Conclude("f3", {"t4"}, <<"rumour">>)>>]}

\* A draft that is cut short and claims what has no support, two in English with a matrix
\* that cites nothing in one row or in all, one with a matrix and a diagnosis, and one
\* that cites what is not there.
Piece(name, cites) == [name |-> name, cites |-> cites, claims |-> {}, rows |-> {}]
Table(name, rows) == [Piece(name, UNION rows) EXCEPT !.rows = rows]
ModelDrafts ==
    {<<[Piece("findings", {1}) EXCEPT !.claims = {"f3"}], Piece("summary", {}),
       Piece("sources", {}), Piece("risks", {1})>>,
     <<Piece("Key Findings", {1}), Table("Competitive Matrix", {{1}, {}}), Piece("support", {}),
       Piece("Critic Assessment", {}), Piece("Outlook", {1})>>,
     <<Piece("summary", {}), Piece("findings", {2}), Table("matrix", {{1}}),
       Piece("diagnosis", {1})>>,
     <<Piece("findings", {4})>>}

Does(relevance, analyst, judge, reporter, review, key, plan) ==
    [relevance |-> relevance, analyst |-> analyst, judge |-> judge, reporter |-> reporter,
     review |-> review, key |-> key, plan |-> plan]
\* Without any configuration, no model is asked; planner.py sets a plan always.
Offline == Does("off", "deterministic", "deterministic", "deterministic", "deterministic",
                FALSE, OnePlan)
SomeSettings ==
    {Does("off", "llm", "llm", "llm", "llm", TRUE, OnePlan),
     Does("llm", "llm", "deterministic", "deterministic", "llm", TRUE, OnePlan),
     Does("llm", "llm", "deterministic", "deterministic", "deterministic", TRUE, <<>>),
     Does("off", "llm", "deterministic", "deterministic", "deterministic", TRUE, OnePlan),
     Does("llm", "deterministic", "deterministic", "llm", "llm", TRUE, <<>>),
     Does("deterministic", "llm", "llm", "llm", "llm", FALSE, <<>>),
     Offline}
====
