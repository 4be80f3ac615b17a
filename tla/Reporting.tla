---- MODULE Reporting ----
(***************************************************************************)
(* From the evidence to the report: what is collected may be filtered for  *)
(* relevance, an analysis is drawn from it, the critic judges whether each *)
(* finding is supported, and once it passes, or the retries are used up,   *)
(* the reporter writes a report, reviews it and appends a diagnosis.  Each *)
(* of these stages may ask a language model, whose answers may be useless, *)
(* through a client that tries again and falls back to other models, and   *)
(* under a budget of tokens.                                               *)
(*                                                                         *)
(* A report is a sequence of sections, of which are kept the citations,    *)
(* the claims and, of a matrix, what each row cites.                       *)
(***************************************************************************)
EXTENDS Naturals, Sequences, FiniteSets, SequencesExt, TLC, Rankings

CONSTANTS
    Pools,          \* what a collection may come to: sequences of evidence
    Verified,       \* the evidence that is,
    Terms,          \* evidence -> the meaningful terms of its snippet,
    SectionOf,      \* evidence -> the section it was collected for,
    Positioning, Repository, \* evidence -> how well it suits either finding
    Mentions,       \* and product, of those in order -> the evidence that mentions it
    Plans,          \* section plans, <<>> for none
    Analyses,       \* what a model may answer the analyst,
    Drafts,         \* and the reporter or the reviewer
    Settings,       \* who does what
    Models,         \* the model and those to fall back to
    Retries,        \* of a call, with each of them
    Costs,          \* the tokens of an answer; 0 if the provider does not tell
    MaxTokens, MaxPasses, MaxRetries, MinVerified, MaxWeak

ASSUME CountsAssumption ==
    /\ {Models, MaxTokens, MaxPasses} \subseteq Nat \ {0}
    /\ {Retries, MaxRetries, MinVerified, MaxWeak} \subseteq Nat /\ Costs \subseteq Nat
ASSUME SettingsAssumption ==
    LET Provider == {"deterministic", "llm"}
    IN  Settings \subseteq [relevance : Provider \cup {"off"}, analyst : Provider,
                            judge : Provider, reporter : Provider, review : Provider,
                            key : BOOLEAN, plan : Plans]

Evidence == DOMAIN Terms
ASSUME EvidenceAssumption ==
    /\ Pools \subseteq Seq(Evidence) /\ Verified \subseteq Evidence
    /\ {Positioning, Repository} \subseteq [Evidence -> Nat]
    /\ Mentions \in Seq(SUBSET Evidence)

\* What a model says may be unfounded, but it has this form.
FindingForm == [title : STRING, terms : SUBSET STRING, cites : Seq(Evidence)]
ClaimForm == [claim : STRING, cites : Seq(Evidence)]
ASSUME FormAssumption ==
    /\ Terms \in [Evidence -> SUBSET STRING]
    /\ \A answer \in Analyses :
          /\ answer.findings \in Seq(FindingForm)
          /\ "claims" \in DOMAIN answer => answer.claims \in Seq(ClaimForm)
          /\ "matrix" \in DOMAIN answer => answer.matrix \in Seq(Seq(Evidence))
    /\ Drafts \subseteq Seq([name : STRING, cites : SUBSET Nat,
                             claims : SUBSET STRING, rows : SUBSET SUBSET Nat])
    /\ Plans \subseteq Seq([id : STRING, name : STRING \ {"diagnosis"}])

VARIABLES
    setting,
    at,         \* the stage of the run
    todo,       \* the evidence that is still to be filtered
    pool,       \* the evidence there is
    analysis,   \* what the analyst has made of it
    support,    \* the critic's judgements of the findings, in order
    iterations,
    report,
    pass,       \* of the review
    tokens,     \* recorded in the log of calls
    call,       \* the call to a model that has not been answered yet
    model       \* the model the client at hand is set to

results == <<pool, analysis, support, report>>
vars == <<setting, at, todo, results, iterations, pass, tokens, call, model>>

NoAnalysis == [findings |-> <<>>, claims |-> <<>>, matrix |-> <<>>]
\* No step looks at who is the author of a report, only the properties do.
Report(author, body, references) ==
    [author |-> author, body |-> body, references |-> references,
     missing |-> {}, cut |-> FALSE]
NoReport == Report("nobody", <<>>, <<>>)
NoCall == [left |-> <<>>, attempt |-> 0, open |-> FALSE]
\* An answer that is not what was asked for says nothing.
NoFindings == [findings |-> <<>>]
NoDraft == <<>>

Init ==
    /\ setting \in Settings
    /\ at = "collect"
    /\ todo = <<>> /\ pool = <<>>
    /\ analysis = NoAnalysis /\ support = <<>> /\ report = NoReport
    /\ iterations = 0 /\ pass = 0 /\ tokens = 0
    /\ call = NoCall /\ model = 1

Without(seq, S) == Those(seq, ToSet(seq) \ S)
VerifiedIn(seq) == Those(seq, Verified)
Waiting(stage) == at = stage /\ ~call.open
Asking(stage) == at = stage /\ call.open
----------------------------------------------------------------------------
(* The client *)

MayCall == tokens < MaxTokens

\* _candidate_configs: the model the client is set to, then the others of the fallbacks.
Candidates(first) == <<first>> \o Without([i \in 1..(Models - 1) |-> i + 1], {first})
CallWith(first) ==
    /\ call' = [left |-> Tail(Candidates(first)), attempt |-> 0, open |-> TRUE]
    /\ model' = first
NewClient == CallWith(1)

GivenUp == call.attempt = Retries /\ call.left = <<>>

TryAgain ==
    /\ call.open /\ call.attempt < Retries
    /\ call' = [call EXCEPT !.attempt = @ + 1]
    /\ UNCHANGED <<setting, at, todo, results, iterations, pass, tokens, model>>

FallBackForever ==                                                  \* mutant
    /\ call.open /\ call.attempt = Retries /\ call.left # <<>>
    /\ model' = Head(call.left)
    /\ call' = [call EXCEPT !.attempt = 0]
    /\ UNCHANGED <<setting, at, todo, results, iterations, pass, tokens>>
TryNext ==
    /\ call.open /\ call.attempt = Retries /\ call.left # <<>>
    /\ model' = Head(call.left)
    /\ call' = [call EXCEPT !.attempt = 0, !.left = Tail(@)]
    /\ UNCHANGED <<setting, at, todo, results, iterations, pass, tokens>>

Hangup == call' = NoCall /\ UNCHANGED model
Records(cost) == tokens' = tokens + cost
----------------------------------------------------------------------------
(* The relevance filter, of which no other stage knows *)

Collect ==
    /\ at = "collect"
    /\ \E evidence \in Pools :
          CASE setting.relevance = "off" -> pool' = evidence /\ todo' = <<>>
            [] setting.relevance = "deterministic" ->
                  pool' = VerifiedIn(evidence) /\ todo' = <<>>
            [] setting.relevance = "llm" -> pool' = <<>> /\ todo' = evidence
    /\ at' = "filter"
    /\ model' = 1
    /\ UNCHANGED <<setting, analysis, support, report, iterations, pass, tokens, call>>

\* One client serves all the evidence, so that a call starts with the model that the
\* one before it ended with.
AskRelevance ==
    /\ Waiting("filter") /\ todo # <<>>
    /\ IF setting.key /\ MayCall
       THEN CallWith(model) /\ UNCHANGED todo
       ELSE todo' = Tail(todo) /\ UNCHANGED <<call, model>>
    /\ UNCHANGED <<setting, at, results, iterations, pass, tokens>>

\* What cannot be judged is not relevant.
RelevanceAnswered ==
    /\ Asking("filter")
    /\ \/ \E cost \in Costs : Records(cost) /\ pool' \in {pool, Append(pool, Head(todo))}
       \/ GivenUp /\ UNCHANGED <<tokens, pool>>
    /\ todo' = Tail(todo)
    /\ Hangup
    /\ UNCHANGED <<setting, at, analysis, support, report, iterations, pass>>
----------------------------------------------------------------------------
(* The analyst *)

\* Those with a score, best first, and no more than the limit.
Best(items, excluded, score, limit) ==
    LET Lower(e) == {other \in ToSet(items) : score[other] < score[e]}
        sorted[n \in 0..Len(items)] ==
            IF n = 0 THEN <<>>
            ELSE IF score[items[n]] = 0 \/ items[n] \in excluded THEN sorted[n - 1]
            ELSE Without(sorted[n - 1], Lower(items[n])) \o <<items[n]>>
                     \o Those(sorted[n - 1], Lower(items[n]))
    IN  Upto(limit, sorted[Len(items)])

FirstNonEmpty(options) ==
    options[CHOOSE i \in DOMAIN options :
                options[i] # <<>> /\ \A j \in 1..(i - 1) : options[j] = <<>>]

\* A finding sums up the evidence it cites.
Finding(title, items) ==
    [title |-> title, terms |-> UNION {Terms[e] : e \in ToSet(items)}, cites |-> items]
DrawnFrom(items) ==
    LET best == Best(items, {}, Positioning, 2)
        positioning == FirstNonEmpty(<<best, Upto(1, items)>>)
        repository == FirstNonEmpty(<<Best(items, ToSet(best), Repository, 3),
                                      Upto(2, Without(items, ToSet(positioning))),
                                      Upto(1, positioning)>>)
    IN  <<Finding("positioning", positioning), Finding("repositories", repository)>>

\* _build_grounded_claims: what the findings claim
ClaimsOf(findings) ==
    LET verified == ToSet(pool) \cap Verified
        cited == Those(findings, {f \in ToSet(findings) : ToSet(f.cites) \cap verified # {}})
    IN  [i \in DOMAIN cited |-> [claim |-> cited[i].title,
                                 cites |-> Those(cited[i].cites, verified)]]

\* build_competitive_matrix: the evidence of each row
MatrixOf(items) ==
    LET Of(mentions) == Upto(3, Those(items, mentions))
        rows == Without([p \in DOMAIN Mentions |-> Of(Mentions[p])], {<<>>})
    IN  IF rows = <<>> THEN <<Upto(3, items)>> ELSE rows

Analysed(result) == analysis' = result /\ at' = "criticise" /\ support' = <<>>

Deterministic ==
    \/ VerifiedIn(pool) = <<>> /\ Analysed(NoAnalysis)
    \/ \E items \in {VerifiedIn(pool)} \ {<<>>} : \E findings \in {DrawnFrom(items)} :
          Analysed([findings |-> findings, claims |-> ClaimsOf(findings),
                    matrix |-> MatrixOf(items)])

\* _parse_analyst_response: there are findings, and all that is said cites verified
\* evidence; the claims and the matrix may be left to the program.
Grounded(cites) == cites # <<>> /\ ToSet(cites) \subseteq ToSet(VerifiedIn(pool))
Parses(answer) ==
    /\ answer.findings # <<>>
    /\ \A f \in ToSet(answer.findings) : Grounded(f.cites)
    /\ "claims" \in DOMAIN answer => \A c \in ToSet(answer.claims) : Grounded(c.cites)
    /\ "matrix" \in DOMAIN answer => \A row \in ToSet(answer.matrix) : Grounded(row)
Parsed(answer) ==
    [findings |-> answer.findings,
     claims |-> IF "claims" \in DOMAIN answer THEN answer.claims ELSE ClaimsOf(answer.findings),
     matrix |-> IF "matrix" \in DOMAIN answer THEN answer.matrix ELSE MatrixOf(VerifiedIn(pool))]

Analyse ==
    /\ Waiting("filter") /\ todo = <<>>
    /\ IF setting.analyst = "llm" /\ MayCall /\ setting.key
       THEN NewClient /\ at' = "analyse" /\ UNCHANGED <<analysis, support>>
       ELSE Deterministic /\ UNCHANGED <<call, model>>
    /\ UNCHANGED <<setting, todo, pool, report, iterations, pass, tokens>>

KeepOnFailure ==                                                    \* mutant
    /\ Asking("analyse")
    /\ \/ \E answer \in Analyses \cup {NoFindings}, cost \in Costs :
             /\ Records(cost)
             /\ Analysed(IF Parses(answer) THEN Parsed(answer) ELSE analysis)
       \/ GivenUp /\ UNCHANGED tokens /\ Deterministic
    /\ Hangup
    /\ UNCHANGED <<setting, todo, pool, report, iterations, pass>>
AnalysisAnswered ==
    /\ Asking("analyse")
    /\ \/ \E answer \in Analyses \cup {NoFindings}, cost \in Costs :
             /\ Records(cost)
             /\ IF Parses(answer) THEN Analysed(Parsed(answer)) ELSE Deterministic
       \/ GivenUp /\ UNCHANGED tokens /\ Deterministic
    /\ Hangup
    /\ UNCHANGED <<setting, todo, pool, report, iterations, pass>>
----------------------------------------------------------------------------
(* The critic *)

\* How much of what a finding says is in the evidence it cites: half of it or more is
\* partial support, four fifths or more support.
Lexical(finding, cited) ==
    LET matched == Cardinality(finding.terms \cap UNION {Terms[e] : e \in ToSet(cited)})
        all == Cardinality(finding.terms)
    IN  CASE all = 0 \/ 2 * matched < all -> "unsupported"
          [] all > 0 /\ 2 * matched >= all /\ 5 * matched < 4 * all -> "partial"
          [] all > 0 /\ 5 * matched >= 4 * all -> "supported"

Judged == Len(support)
JudgedNow == analysis.findings[Judged + 1]
Cited(finding) == Those(finding.cites, ToSet(pool) \cap Verified)
Judgement(finding, status) ==
    [claim |-> finding.title, status |-> status,
     cites |-> IF Cited(finding) = <<>> THEN finding.cites ELSE Cited(finding)]

\* The model is only asked about findings with evidence; neither the budget nor the log
\* knows of the call.
Judge ==
    /\ Waiting("criticise") /\ Judged < Len(analysis.findings)
    /\ IF setting.judge = "llm" /\ setting.key /\ Cited(JudgedNow) # <<>>
       THEN CallWith(IF Judged = 0 THEN 1 ELSE model) /\ UNCHANGED support
       ELSE /\ support' = Append(support, Judgement(JudgedNow, Lexical(JudgedNow, Cited(JudgedNow))))
            /\ UNCHANGED <<call, model>>
    /\ UNCHANGED <<setting, at, todo, pool, analysis, report, iterations, pass, tokens>>

\* No answer, or one that is no JSON, is an exception that ends the run; a status that
\* does not exist leaves it to the terms.
JudgeAnswered ==
    /\ Asking("criticise")
    /\ \/ \E status \in {"supported", "partial", "unsupported"} :
             support' = Append(support, Judgement(JudgedNow, status)) /\ UNCHANGED at
       \/ at' = "failed" /\ UNCHANGED support
    /\ Hangup
    /\ UNCHANGED <<setting, todo, pool, analysis, report, iterations, pass, tokens>>

\* build_fact_conclusion_mapping: what does not rest on verified evidence alone
Conclusions ==
    [i \in DOMAIN analysis.findings |-> analysis.findings[i].cites] \o analysis.matrix
        \o [i \in DOMAIN analysis.claims |-> analysis.claims[i].cites]
Weak == {i \in DOMAIN Conclusions : ~Grounded(Conclusions[i])}

\* Whether sections and entities are covered is not modelled here.
Passes(covered) ==
    /\ Len(VerifiedIn(pool)) >= MinVerified
    /\ analysis.findings # <<>>
    /\ \A judgement \in ToSet(support) : judgement.status = "supported"
    /\ Cardinality(Weak) <= MaxWeak
    /\ covered

\* The critique, and where the graph goes with it.
Criticise ==
    /\ Waiting("criticise") /\ Judged = Len(analysis.findings)
    /\ \E covered \in BOOLEAN :
          IF Passes(covered) \/ iterations = MaxRetries
          THEN at' = "write" /\ UNCHANGED iterations
          ELSE at' = "collect" /\ iterations' = iterations + 1
    /\ UNCHANGED <<setting, todo, results, pass, tokens, call, model>>
----------------------------------------------------------------------------
(* The parts of a report *)

Required == <<"summary", "background", "findings", "analysis",
              "landscape", "trend", "risks", "outlook">>
Section(name, cites, claims) ==
    [name |-> name, cites |-> cites, claims |-> claims, rows |-> {}]
Text(name) == Section(name, {}, {})
Names(body) == {s.name : s \in ToSet(body)}
\* The place of the first section of one of the names; 0 if there is none.
Find(body, names) ==
    IF names \cap Names(body) = {} THEN 0
    ELSE CHOOSE i \in DOMAIN body :
             body[i].name \in names /\ \A j \in 1..(i - 1) : body[j].name \notin names
CutAt(body, names) ==
    IF names \cap Names(body) = {} THEN body ELSE SubSeq(body, 1, Find(body, names) - 1)

\* The number of a piece of evidence is its place in the references; that of the last
\* of its place, if the id is there twice.
References == VerifiedIn(pool)
Number(e) == CHOOSE i \in DOMAIN References :
                /\ References[i] = e
                /\ \A j \in DOMAIN References : References[j] = e => j <= i
Numbers(cites) == {Number(e) : e \in ToSet(cites) \cap ToSet(References)}
Listed == [i \in DOMAIN References |-> Number(References[i])]

IsSupported(title) ==
    support # <<>> =>
        \E judgement \in ToSet(support) : judgement.claim = title /\ judgement.status = "supported"

\* The claims a report may state: those of the analysis, or its findings.
AsClaims(findings) ==
    [i \in DOMAIN findings |-> [claim |-> findings[i].title, cites |-> findings[i].cites]]
StateAll(claims) == Those(claims, {c \in ToSet(claims) : Numbers(c.cites) # {}}) \* mutant
Stated(claims) ==
    Those(claims, {c \in ToSet(claims) : IsSupported(c.claim) /\ Numbers(c.cites) # {}})
Stating(name, claims) ==
    Section(name, UNION {Numbers(c.cites) : c \in ToSet(claims)}, {c.claim : c \in ToSet(claims)})

MatrixSection ==
    LET rows == {Numbers(row) : row \in ToSet(analysis.matrix)} \ {{}}
    IN  IF rows = {} THEN <<>>
        ELSE <<[Section("matrix", UNION rows, {}) EXCEPT !.rows = rows]>>
SupportSection ==
    IF support = <<>> \/ \E j \in ToSet(support) : Numbers(j.cites) # {}
    THEN <<Text("support")>> ELSE <<>>

\* _complete_required_report_sections: some of the required sections are moved to their
\* place, and those that are missing filled in.
CompleteNothing(body, withAnalysis) == body                         \* mutant
Complete(body, withAnalysis) ==
    LET Missing(name) == IF name \in Names(body) THEN <<>> ELSE <<Text(name)>>
        Placed(name) ==
            <<IF name \in Names(body) THEN body[Find(body, {name})] ELSE Text(name)>>
        moved == {Find(body, {name}) : name \in {"summary", "findings", "landscape",
                                                 "trend", "risks", "outlook"}}
        rest == Without([i \in DOMAIN body |-> i], moved)
    IN  Placed("summary") \o Missing("background") \o Placed("findings")
            \o (IF withAnalysis THEN Missing("analysis") ELSE <<>>)
            \o [i \in DOMAIN rest |-> body[rest[i]]]
            \o Placed("landscape") \o Placed("trend") \o Placed("risks") \o Placed("outlook")
----------------------------------------------------------------------------
(* The report of the program *)

StandardBody ==
    LET claims == IF analysis.claims # <<>> THEN analysis.claims ELSE AsClaims(analysis.findings)
        risky == {c \in ToSet(analysis.claims) : IsSupported(c.claim)}
    IN  <<Stating("summary", Upto(2, Stated(claims))), Text("background"),
          Stating("findings", Stated(claims)), Stating("analysis", Stated(claims)),
          Text("landscape"), Text("trend"),
          Section("risks", {}, {c.claim : c \in risky}), Text("outlook")>>

ClaimsBody == <<Stating("findings", Stated(analysis.claims))>>

\* A finding goes to the section of the first evidence it cites that has one.
Place(finding) ==
    LET cited == Those(finding.cites, {e \in ToSet(References) : SectionOf[e] # "none"})
    IN  IF cited = <<>> THEN "none" ELSE SectionOf[Head(cited)]
Planned == Those(setting.plan, {s \in ToSet(setting.plan) :
                                     s.name \notin {"references", "sources"}})
PlannedBody ==
    LET Of(id) == Those(analysis.findings, {f \in ToSet(analysis.findings) : Place(f) = id})
    IN  [i \in DOMAIN Planned |->
            Stating(Planned[i].name, Stated(AsClaims(Of(Planned[i].id))))]

DeterministicBody ==
    IF setting.plan = <<>> THEN StandardBody
    ELSE IF analysis.claims # <<>> THEN ClaimsBody
    ELSE Complete(PlannedBody, FALSE)

DeterministicReport ==
    Report("program",
           DeterministicBody \o MatrixSection \o <<Text("critic")>> \o SupportSection, Listed)
----------------------------------------------------------------------------
(* The report of a model *)

\* _normalize_report_language_headings: the headings in English are known, too.
Localized(name) ==
    CASE name = "Executive Summary" -> "summary" [] name = "Background" -> "background"
      [] name = "Key Findings" -> "findings" [] name = "Analysis" -> "analysis"
      [] name = "Competitive Landscape" -> "landscape" [] name = "Competitive Matrix" -> "matrix"
      [] name = "Risks" -> "risks" [] name = "Outlook" -> "outlook"
      [] name = "Citation Support" -> "support" [] name = "Critic Assessment" -> "critic"
      [] OTHER -> name
Normalized(body) == [i \in DOMAIN body |-> [body[i] EXCEPT !.name = Localized(@)]]

\* Nothing that comes after a heading that begins with References or Sources is kept.
WithoutReferences(body) == CutAt(body, {"references", "sources"})

\* The model's matrix stays if it has rows and each of them cites what it may, else the
\* program's takes its place; that comes after the key findings.  A heading of the table
\* counts as a row if it has more columns than the plain one.
RowsCite(section) ==
    section.rows # {} /\ \A row \in section.rows : row \cap ToSet(Listed) # {}
WithMatrix(body) ==
    LET given == Find(body, {"matrix"})
        kept == IF given = 0 \/ RowsCite(body[given]) THEN body ELSE RemoveAt(body, given)
        findings == Find(kept, {"findings"})
        place == IF findings = 0 THEN Len(kept) ELSE findings
    IN  IF "matrix" \in Names(kept) THEN kept
        ELSE SubSeq(kept, 1, place) \o MatrixSection \o SubSeq(kept, place + 1, Len(kept))

\* _validate_llm_report_body
IsValid(body) ==
    LET findings == Find(body, {"findings"})
    IN  /\ findings # 0 /\ body[findings].cites # {}
        /\ \A s \in ToSet(body) : s.cites \subseteq ToSet(Listed)

WrittenBody(draft) == Complete(WithMatrix(Normalized(WithoutReferences(draft))), TRUE)
WrittenReport(body) ==
    Report("model", body \o (IF "critic" \in Names(body) THEN <<>> ELSE <<Text("critic")>>)
                         \o SupportSection, Listed)

Writes(written) == report' = written /\ at' = "review" /\ pass' = 0

Write ==
    /\ Waiting("write")
    /\ IF setting.reporter = "llm" /\ MayCall /\ setting.key /\ References # <<>>
       THEN NewClient /\ UNCHANGED <<at, report, pass>>
       ELSE Writes(DeterministicReport) /\ UNCHANGED <<call, model>>
    /\ UNCHANGED <<setting, todo, pool, analysis, support, iterations, tokens>>

\* An error of the client that is a ValueError or a TypeError ends the run, any other
\* leaves the report to the program, as does a draft that is not valid.
Written ==
    /\ Asking("write")
    /\ \/ \E draft \in Drafts \cup {NoDraft}, cost \in Costs :
          \E body \in {WrittenBody(draft)} :
             /\ Records(cost)
             /\ Writes(IF IsValid(body) THEN WrittenReport(body) ELSE DeterministicReport)
       \/ GivenUp /\ UNCHANGED tokens /\ Writes(DeterministicReport)
       \/ GivenUp /\ at' = "failed" /\ UNCHANGED <<tokens, report, pass>>
    /\ Hangup
    /\ UNCHANGED <<setting, todo, pool, analysis, support, iterations>>
----------------------------------------------------------------------------
(* The review *)

WithoutDiagnosis(body) == CutAt(body, {"diagnosis"})
ReviewedBody(draft) ==
    Complete(Normalized(WithoutDiagnosis(WithoutReferences(draft))), TRUE)

Reviewed == at' = "diagnose"

\* After the first pass, the report may have as many words as it should.
ReviewUnbudgeted ==                                                 \* mutant
    /\ Waiting("review")
    /\ LET may == setting.review = "llm" /\ References # <<>> /\ setting.key
                  /\ pass < MaxPasses /\ (pass > 0 \/ MayCall)
       IN  \/ may /\ NewClient /\ UNCHANGED at
           \/ (may => pass > 0) /\ Reviewed /\ UNCHANGED <<call, model>>
    /\ UNCHANGED <<setting, todo, results, iterations, pass, tokens>>
Review ==
    /\ Waiting("review")
    /\ LET may == setting.review = "llm" /\ References # <<>> /\ setting.key
                  /\ pass < MaxPasses /\ MayCall
       IN  \/ may /\ NewClient /\ UNCHANGED at
           \/ (may => pass > 0) /\ Reviewed /\ UNCHANGED <<call, model>>
    /\ UNCHANGED <<setting, todo, results, iterations, pass, tokens>>

\* A review takes the place of the report, with references of its own; if it fails, the
\* report stays and the tokens are not recorded.
ForgetReferences ==                                                 \* mutant
    /\ Asking("review")
    /\ \/ \E draft \in Drafts, cost \in Costs :
          \E body \in {ReviewedBody(draft)} :
             /\ IsValid(body)
             /\ Records(cost)
             /\ report' = Report("model", body, <<>>)
             /\ pass' = pass + 1
             /\ UNCHANGED at
       \/ Reviewed /\ UNCHANGED <<tokens, report, pass>>
    /\ Hangup
    /\ UNCHANGED <<setting, todo, pool, analysis, support, iterations>>
ReviewAnswered ==
    /\ Asking("review")
    /\ \/ \E draft \in Drafts, cost \in Costs :
          \E body \in {ReviewedBody(draft)} :
             /\ IsValid(body)
             /\ Records(cost)
             /\ report' = Report("model", body, Listed)
             /\ pass' = pass + 1
             /\ UNCHANGED at
       \/ Reviewed /\ UNCHANGED <<tokens, report, pass>>
    /\ Hangup
    /\ UNCHANGED <<setting, todo, pool, analysis, support, iterations>>

\* append_report_quality_diagnostics: what it finds to be a diagnosis already, as a model
\* may have written it, is cut off with all that follows it, and that is recorded in cut.
Diagnose ==
    /\ at = "diagnose"
    /\ LET diagnosed == "diagnosis" \in Names(report.body)
           body == WithoutDiagnosis(report.body)
       IN  report' = [author |-> report.author, body |-> Append(body, Text("diagnosis")),
                      references |-> IF diagnosed THEN <<>> ELSE report.references,
                      missing |-> ToSet(Required) \ Names(body), cut |-> diagnosed]
    /\ at' = "done"
    /\ UNCHANGED <<setting, todo, pool, analysis, support, iterations, pass, tokens, call, model>>
----------------------------------------------------------------------------
Next ==
    \/ TryAgain \/ TryNext
    \/ Collect \/ AskRelevance \/ RelevanceAnswered
    \/ Analyse \/ AnalysisAnswered
    \/ Judge \/ JudgeAnswered \/ Criticise
    \/ Write \/ Written
    \/ Review \/ ReviewAnswered \/ Diagnose

Spec == Init /\ [][Next]_vars

\* One thread does all of this, and a call to a model comes back, if only with an error.
FairSpec == Spec /\ WF_vars(Next)
----------------------------------------------------------------------------
(* Properties *)

\* Whatever round, model or fallback it comes from, the report can be checked: its
\* references are the verified evidence of the last round, and each number that it cites
\* is that of a reference, of exactly one if no two pieces of evidence have the same id.
\* Only a report with a diagnosis by the model that wrote it has lost its references.
CitationsResolve ==
    at = "done" =>
        /\ report.cut => setting.reporter = "llm"
        /\ ~report.cut =>
              /\ report.references = Listed
              /\ \A s \in ToSet(report.body) : \A n \in s.cites :
                    LET places == {i \in DOMAIN Listed : Listed[i] = n}
                    IN  places # {} /\ (IsInjective(pool) => Cardinality(places) = 1)

\* What the critic judges and the reporter presents rests on verified evidence that
\* there is: nothing of the analysis of an earlier round, whose evidence has been
\* replaced, is left in it, though each way to an analysis may fail.
ConclusionsAreGrounded ==
    at \in {"criticise", "write", "review", "diagnose", "done"} => Weak = {}

\* A report that the program has written, of its own accord or in place of a model that
\* has failed, states nothing but what the critic found supported, and all of that but
\* what it has no room for: it states the claims of the analysis, if there are any, so
\* that a finding is left out that none of them repeats; else, to a plan, the findings
\* with evidence for one of the sections.  What a model puts into its report, or into
\* its review of the program's, is not held against the judgements by anyone.
LeftOut(title) ==
    IF analysis.claims # <<>> THEN \A c \in ToSet(analysis.claims) : c.claim # title
    ELSE /\ setting.plan # <<>>
         /\ \A f \in ToSet(analysis.findings) :
               f.title = title => Place(f) \notin {s.id : s \in ToSet(Planned)}
SupportedClaimsAreStated ==
    LET supported == {j.claim : j \in {j \in ToSet(support) : j.status = "supported"}}
        stated == UNION {s.claims : s \in ToSet(report.body)}
    IN  at = "done" /\ report.author = "program" =>
            /\ stated \subseteq supported
            /\ \A title \in supported : title \in stated \/ LeftOut(title)

\* A report that is not cut off at a diagnosis has all the sections that a report must
\* have if a model has written or reviewed it, whatever that has left out or has been
\* cut off with a heading like Sources, and if the program has written it without a plan.
\* Its report to a plan may lack the analysis if there are no claims to state; if there
\* are, it has the findings of all those sections and no other.
SectionsAreComplete ==
    at = "done" /\ ~report.cut =>
        /\ report.author = "model" \/ setting.plan = <<>> => report.missing = {}
        /\ analysis.claims = <<>> => report.missing \subseteq {"analysis"}
        /\ report.author = "program" /\ setting.plan # <<>> /\ analysis.claims # <<>> =>
              report.missing = ToSet(Required) \ {"findings"}

\* What docs/report-quality-roadmap.md says of it, line 475: "Deterministic Reporter now
\* follows `section_research_plan` when present".  A report of the program has the
\* sections of its plan; but with claims to state, it has none of them.
PlansAreFollowed ==
    at = "done" /\ report.author = "program" => Names(Planned) \subseteq Names(report.body)

\* The tokens in the log of calls exceed the budget by those of one answer at most, as all
\* stages whose answers are logged stop asking once the log has reached the budget, in
\* whatever round and pass.  That bounds neither the tokens of the judge, whose calls no
\* log knows, nor those of a review that fails, which are not recorded.
TokensWithinBudget ==
    \A cost \in Costs : (\A c \in Costs : c <= cost) => tokens < MaxTokens + cost

\* What docs/report-quality-roadmap.md says, line 549: "LLM paths enforce token caps".  No
\* call is open unless it was begun below the budget, as nothing is recorded while it is.
CallsRespectBudget == call.open => MayCall

\* Each run ends, through all the tries with all the models of all its calls.
RunsEnd == <>(at \in {"done", "failed"})
====
