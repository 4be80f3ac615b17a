# InsightGraph: a TLA+ model of the research-job service

InsightGraph answers a research question by running a graph of stages (plan,
collect evidence, analyse, criticise, report). A FastAPI service runs such
workflows in the background as *research jobs*, on a single process or on several
that share a SQLite database. This directory holds TLA+ models of the parts of
that program where the order of things matters, the TLC configurations that
check them on small instances, and TLAPS proofs of what matters most for
instances of any size. Paths below are relative to `src/src/insight_graph/`,
those under `docs/` and `tests/` to `src/`.

## 1. Inventory

| Component | State it keeps | Operations | Hard behaviour | Model |
|---|---|---|---|---|
| Job service `research_jobs.py` | `_JOBS`, `_NEXT_JOB_SEQUENCE`, worker id, the two limits, `_JOBS_LOCK` | create, retry, cancel, delete, start, append event, verdict, restart load | read and write in separate transactions, rollback and best effort, stale counter | `JobLifecycle`, `SqliteJobs`, `MemoryJobs` |
| SQLite backend `research_jobs_sqlite_backend.py` | tables `research_jobs`, `research_job_meta` | the transactions behind the above; claim, requeue, heartbeat, fenced verdict | several processes, leases, crashes | `SqliteJobs` |
| In-memory backend and JSON store `research_jobs_backend.py`, `research_jobs_store.py` | the dictionary, the file | prune, retention, save, load | failed and truncated writes, restart | `MemoryJobs` |
| Service `api.py` | `_JOB_EXECUTOR` (one thread), heartbeat threads, start-up worker | endpoints, `_run_research_job`, `_run_claimed_research_job` | cancellation against verdict, liveness of every exit | both job modules |
| Events `api.py` 690-870, 1561-1641 | event cache, subscriber queues, event copy in the record | clear, publish, store; connect, replay, subscribe, receive, snapshot, disconnect | replay against live delivery, numbering across crashes, dropped subscriptions | `EventStream` |
| Graph `graph.py`, `state.py` | `GraphState` | six stages and the routing | bounded retries, parts of different rounds in one report | `ResearchState`, `Pipeline` |
| Loop with checkpoints `graph.py` 75-184, `persistence/checkpoints.py`, `memory/writeback.py` | checkpoint row, memory records | run stage and save, resume, remember | crash between any two steps, takeover by another worker | `Workflow` |
| Evidence collection `agents/executor.py`, with the strategies of `agents/planner.py` and the requests of `agents/critic.py` | evidence pool, tool call log, strategies, requests, tried keys | seed, run tool, end a round, stop; plan strategies; request, retry | tool budget over rounds and retries, order of the stop reasons, selection under three caps, strategies that never come due | `Collection` |
| Web tools `tools/web_search.py`, `search_providers.py`, `pre_fetch.py`, `fetch_url.py`, `fetch_cache.py`, `http_client.py`, `rendered_fetch.py`, `sec_filings.py`, `github_search.py` | cache files, counters of daily calls | ask providers, merge, fetch through the cache, retry, render, cut into chunks, deduplicate | redirects, cache files shared by processes, failures half-way through a list | `WebSearch` |
| Local documents `tools/document_reader.py`, `search_document.py`, `file_tools.py`, `report_quality/document_index.py` | the index file, the documents | read and search through the index, write a file | an index without a lock, edits that leave the time stamp alone, crashes while writing | `Documents` |
| From evidence to report `agents/relevance.py`, `analyst.py`, `critic.py`, `reporter.py`, `report_quality/citation_support.py`, `fact_mapping.py`, `report_review.py`, `budgeting.py` | analysis, citation support, report | filter, analyse, judge, criticise, write, review, diagnose | each stage by a model or by the program, answers that are useless, citations that must survive rewriting | `Reporting` |
| LLM `llm/*.py` | the log of calls, trace files | route, complete with retries and fallbacks, record | fallbacks, token budget | `Reporting` (client, log, budget) |
| Other report quality `report_quality/*.py` | none | scoring, entities, source types, URL validation, compression | numeric edges | constants of the modules |
| Memory store `memory/store.py`, `embeddings.py` | records | upsert, search | | upsert by id, in `Workflow` |
| Migrations, CLI, evaluation, smoke tests, dashboard `persistence/migrations.py`, `cli.py`, `eval.py`, `smoke.py`, `dashboard.py` | none of their own | | sequential | no (section 5) |

How they interact: a request thread creates a job and submits it to the executor
of its process; the executor thread claims the job (SQLite) or marks it running
(memory), runs the workflow loop, whose every event goes to the event cache, to
the subscribed queues and, by `append_research_job_event`, into the job record;
at the end it writes the verdict. A heartbeat thread renews the lease meanwhile.
The loop saves a checkpoint after every stage under the job's id, which is how a
later worker continues the run. The collector calls tools; they reach the network
and files that all processes of an installation share: the cache of pages and the
index of documents, both written in place and without a lock. WebSocket tasks read
the job record and the queues. All shared state of a process is under `_JOBS_LOCK`
or `_RESEARCH_JOB_EVENT_LOCK`; of what processes share only the database has
transactions (`BEGIN IMMEDIATE`).

What makes each part correct:

* jobs: a job moves `queued -> running -> succeeded | failed`, may be cancelled
  while active, may go back to the queue only when its worker lost the lease, and
  a terminal status is final; the caps hold; a submitted job is settled; nobody
  works on a job somebody else works on; finished work is recorded;
* store: what was acknowledged survives a restart, and the file stays loadable;
* events: a stream sees increasing numbers, no holes in what is delivered live,
  and ends when the job does;
* workflow: retries are bounded and used, a report never mixes rounds, neither
  crashes nor resumption change the path through the graph, and a run with a live worker ends;
* memories: those of one report, completely;
* collection: the budget of tool calls bounds a whole run, coverage is given up only for
  better evidence, what the critique asks for is looked for as far as the rounds and
  their cap allow, every run ends;
* web evidence: no candidate disappears, verified evidence quotes what its URL served
  (or what the cache made of it, which reads every page as UTF-8);
* documents: an answer is of what is in the files, whatever the index says, and
  no tool overwrites a file;
* reports: citations resolve, conclusions rest on verified evidence there is, a report of
  the program states what the critic found supported and nothing else, the required
  sections are there, the stages with a log keep to the token budget.

## 2. Modules

**`JobLifecycle`** is the abstract contract: only the status of each job, from
`unborn` to `deleted`. `Start(j, S)` takes a set `S` of jobs whose lease ran out
along, because one claim does both in one transaction. `Create` is guarded by the cap
on active jobs, so that the refinement covers the cap too.

**`SqliteJobs`** (`db`, `nextSeq`, `phase`, `pool`, `run`, `section`). A row keeps
status, created order, worker and lease. One transaction is one action. An
operation that takes two, `create_job` then prune, read then `update`, check then
delete, verdict then prune, counter read then written, is two actions, and
`section[p]` holds what the process carries from the first to the second;
meanwhile `_JOBS_LOCK` keeps the other threads of *that* process out, and nobody
else. `run[p]` is the executor thread: `working` inside the workflow, `failing`
before the failure event, `ending` before the verdict. The clock is abstracted:
a lease is `live` until it `Lapse`s. `TimelyHeartbeats` says that a lease does not
lapse while its owner is alive and at work on the job, or idle and about to begin it: that
is a heartbeat interval shorter than the lease, the thread alive and scheduled,
the database reachable. `ShortWaits` says that it does not lapse either while a job
claimed at start-up waits for the executor. Without them a lease may lapse at any time. A process is
one incarnation: a restart is another member of `Proc` with a worker id of its own.

**`MemoryJobs`** (`obj`, `tab`, `seq`, `disk`, `phase`, `pool`, `run`). An operation
under `_JOBS_LOCK` is one action. Objects (`obj`) and dictionary (`tab`) are apart,
because the executor holds a reference to its job and writes the verdict into it
even after it was deleted or pruned. A save succeeds, fails without effect, or,
with `DirectWrite`, fails and leaves a truncated file. Creation, cancellation and
the start of a run roll back when the save fails (the start then fails the job);
deletion, events and verdicts are saved on a best-effort basis. `Crash` keeps
only `disk`.

**`EventStream`** (`status`, `cache`, `stored`, `runner`, `crashes`, `subs`, `queue`,
`stream`). One job, its run, and any number of WebSocket clients. An event is its
sequence number; `Publish` is what happens under the event lock, `Store` the append
that follows it and may fail silently. `stream[c].sent` is what a connection has
sent, `replayed` how many of those came from the replay.

**`ResearchState`** holds the stages as operators on a state in which contents are
replaced by their *lineage*: the evidence is the set of planning rounds it came
from, findings remember their evidence, a critique its findings, a report its
critique. That is what it takes to say that a report mixes nothing. Answers of
models, tools and quality checks are choices. A gap has a strategy key or has not
(`Keyed`), since the critic deduplicates its requests by key only.

**`Pipeline`** runs them as `build_graph` connects them. **`Workflow`** is
`run_research_with_events`: worker, checkpoint, memories, crashes. A stage and its
checkpoint are one action: a stage whose checkpoint was not saved leaves nothing
behind but events, so a crash in between is the crash before the stage. `Progress(w)` is the work
of a live worker, as opposed to the takeover of a run (`Start`), which nobody has to do.

**`Collection`** (`node`, `iterations`, `requests`, `tried`, `verdict`, `strategies`, `pool`,
`records`, `round`, `todo`, `collected`, `stop`) takes the collector apart: `Plan` is
`plan_research`, `Begin` the seeding before the first round, `RunTool` one work item,
`EndRound` what follows a round that was worked off (select the pool, look for a reason
to stop, or go on), `ExhaustBudget` the way out between two work items; `Criticise` is
the critic, `RecordRetry` and `Report` the edges after it. Evidence is a record of what
selection and coverage look at: the key it is deduplicated by, section, source type, verified,
whether the fetch failed, and the rank of its score. What a tool answers, which
claims and entities want evidence and whether the findings are sound are choices; how
evidence is scored and attributed to a section is fixed with the record, as it is by
its text. What is wanted, by the plan (`SectionWants`) or by the requests, has a slot for each
source type (`Slots`), and `StrategiesFor` puts the slots in order, as the loops of
`_build_query_strategies` and `_build_replan_query_strategies` do: want after want, and the types
of each. `todo` and `asked` hold what queries are about, not their text. `heard` is the
fetch statuses of a round, `called` counts the tool runs, an auxiliary variable for
the budget. The stop reason `no_section_plan` does not occur: every domain profile has
sections. `Settings` are the situations of a run: offline with `mock_search` alone,
which plans no strategies at first, or live with one entity or several, whose official
sources are seeded.

**`WebSearch`** (`setting`, `call`, `cache`, `mixed`, `usage`, `served`). A worker is a
process with one tool call at a time: `DoNotAsk` and `Ask` go through the providers in
order, `Merge` interleaves their results as `_merge_provider_results` does, then each
candidate is looked up in the cache, rendered or requested, tried again, stored, cut
into chunks (`Lookup`, `Render`, `Request`, `Retry`, `Truncate`, `WriteOut`, `Extract`),
and `Keep` is the deduplication of the collector. `Lands` says where a request for a
URL may end, `Serves` what is there; `served` is an auxiliary variable: the pages that
have come back whole. A fresh page is read by the charset of its response
(`http_client.py:91`), a cached one as UTF-8 with replacements whatever it was
(`fetch_url.py:87`): the constant `Reread` says what text comes out of that, and `Reading`
applies it to what `Lookup` finds. The cache itself keeps bytes, so that a page is
misread each time it is looked up and never twice over. PDFs are read from their bytes
and come out the same; rendered pages are never cached. A cache file is emptied and filled in two steps, and two writers
may leave a file that is no entry (`mixed`). `List` and `TakeRepository` are
`sec_filings` and `github_search`.

**`Documents`** (`doc`, `index`, `call`, `seen`, `mixed`). A document is a content and a
stamp (size and mtime); the index file is missing, foreign, torn, or a map from paths
to entries. A call of `document_reader` or `search_document` loads the index, compares
stamp and hash, or reads the file, takes stamp and hash for the entry, and saves the
whole index: one action for each access to the disk, because the owner of the files and
other processes may come in between any two. `seen` is auxiliary: the contents a file
has had since the call began. `write_file` is `BeginWrite`, `Create` (open with `x`) and
`Fill`. `QuietFiles` says that nobody changes a file between the reading of its chunks
and the hash that is taken for them.

**`Reporting`** (`setting`, `at`, `todo`, `pool`, `analysis`, `support`, `iterations`,
`report`, `pass`, `tokens`, `call`, `model`). One run from collected evidence to the
report. Every stage that may ask a model is two actions, the decision to ask
(`AskRelevance`, `Analyse`, `Judge`, `Write`, `Review`), with the checks of key and budget,
and the answer, between which the client tries again and falls back (`TryAgain`,
`TryNext`). A report is a sequence of sections, each with its citations, the claims it
states and, for a matrix, the citations of each of its rows, a list of references, and
whether it was cut off at a diagnosis; `Complete`, `WithMatrix`, `WithoutReferences`,
`Normalized` are the rewritings a draft goes through. `author` is auxiliary: who has written the
report there is, the program (also in the place of a model that failed) or a model that wrote or
reviewed it. What a model may answer is given as small sets of analyses and drafts, well-formed and
not; a draft may claim anything.

`MC*.tla` give the constants that are too large for a configuration and the symmetry sets; each `.cfg` is named after its run.
`SqliteJobsProofs`, `PipelineProofs`, `WorkflowProofs`, `CollectionProofs`,
`DocumentsProofs`, `WebSearchProofs` and `ReportingProofs` hold the proofs about the module each is named after;
`ServiceProofs` those about what one process of the service keeps in memory, `EventStream` and
`MemoryJobs`.

Composition: `SqliteJobs` instantiates `JobLifecycle` (refinement mapping: the
status column); `Workflow` instantiates `Pipeline` (mapping: the checkpoint row), and
both are built from `ResearchState`. Neither abstract module has a run of its own: what the detailed one does is
checked against it. `Rankings`, finite sets put in order and filters of
sequences, is what `WebSearch` and `Documents` sort and `Reporting` filters with. `WebSearch` and `Documents` refine what
`Collection` leaves to chance, the answer of a tool; `Reporting` takes what
`Pipeline` has as single stages apart.

## 3. What the runs check

| Run | Question | Answer |
|---|---|---|
| `sqlite_single` | One process at a time, crashing anywhere, start-up worker, heartbeats as late as they like: is the contract kept? | Yes: `LifecycleContract` (refinement), `TerminalIsFinal`, `RunningIsRecoverable` |
| `sqlite_shared` | Two processes alive: exclusive work, no lost work, submitted jobs settled? | Yes, with timely heartbeats and short waits |
| `sqlite_stale_append` | Can an event append undo what a newer attempt wrote? | **Yes**: `update()` reads outside its transaction and writes the status, unfenced |
| `memory_stored` | Memory and file consistent through failures and restarts, submitted jobs settled? | Yes |
| `events_stream` | Numbering, replay, live delivery, subscriptions, end of a stream | Yes |
| `workflow_resume` | Crashes and takeovers on a durable store | The loop implements the graph, and ends unless its worker dies and none takes over; a retry answers the critique before it, reports are of one round, memories of one report, all of them |
| `collection` | Three passes of up to three rounds, with a budget that runs out, caps that bind, seeds and fetches that fail | Calls within budget; sources stay diverse, evidence is outdone only by better evidence; gaps are followed up when their strategies come due; nothing gets stuck before the report |
| `collection_one_round` | Does a retry ask about what the critique requested, with the default of one round? | **No**: its strategies are for a round that does not come |
| `documents` | Two processes on one index that is loaded, changed and written back without a lock, while files are edited and made | Answers are of what is in the files, no readable file is left out, no tool takes the place of a file |
| `websearch` | Two processes searching with one cache, redirects, retries, write errors, a crash, midnight | Each candidate leaves evidence or a report of its failure, quotes are pages that were served (or their bytes read as UTF-8), the best chunk is kept, every call ends |
| `websearch_chunks` | Does a long page become several pieces of evidence? | **No**: the collector keeps one piece for a URL |
| `reporting` | Each stage by program or model, good, bad and no answers, fallbacks, a retry, two review passes, a token budget | Citations resolve, conclusions are grounded, the program states what is supported and nothing else, what is missing of the sections is what each way of writing leaves out, the log keeps to the budget, the run ends |

The runs in bold find what the repository says of itself violated; `PROJECT.json`
quotes the lines under `findings`. In `sqlite_single` the property `TerminalIsFinal`
holds: the whole-row write is harmless while one process serves, because
`_JOBS_LOCK` covers both its transactions. With two processes the same write undoes
verdicts (`sqlite_stale_append`) and cancellations alike.

A submitted job is settled *unless a process that had it dies*
(`SubmittedJobsSettle`). That is as much as the code gives: a claim that a dead
process leaves is requeued by the claim of any other job, but only a start-up worker
takes it up again.

`FilesAreKept` and `AnswersAreCurrent` hold although the index itself may be lost at any
time: an entry is only used while the hash of the file is the one it was made with.
`ReadableIsAnswered` allows one exception, which is in the code: when two chunks tie in
score and number, the sort compares the chunks and raises a `TypeError`; a document that a query
names twice always ties with itself.

`RunEnds`, of the checkpointed loop, is no more than the code gives either: once a run has a worker, it ends, or it
is abandoned for good (`Abandoned`: nobody works on it and it is not over). Neither
`api.py:848` nor the job service promises that a run whose worker died is taken up again.

`FollowedWhenDue` says of a retry that it asks about every request that has a strategy within
the cap of its round (`Fitting`), unless it ends before that round comes (`EndsBeforeDue`)
or its calls are used up. What it says depends on the bounds as the code's behaviour does. With three
rounds the strategies of both retries can come due, and a stop for want of strategies before they do would
violate it; with one round they never do, and that is the disagreement
`collection_one_round` shows. With the five rounds and two retries of the live preset
(`cli.py:68`, `:78`) a second retry may still stop at "no_new_evidence" (`executor.py:160`) after its second round,
when its strategies are due in the third; and the cap (`executor.py:432`, 4 to 24 by the
defaults of 435) drops the strategies of later sections, of which the
built-in profiles want four or five source types each.

`QuotesArePages` allows two texts for a piece of verified evidence: that of a page that came
back whole from its URL, and that of its bytes read as UTF-8. The second is not what the
URL served if the page has another charset, but it is what the code quotes when the page
comes from the cache (`fetch_url.py:87`). The property is about everything else that might get
between a page and its quotation: redirects, the two names of a cached page, torn and mixed files.

The properties of the report distinguish who has written it.

* `SupportedClaimsAreStated` is about reports of the program, with or without a
  plan, by configuration or after a model has failed. Nothing is stated that the
  critic has not found supported; everything supported is, but for what `LeftOut` names:
  a title that no claim repeats, as the claims of a model have words of their own while the
  critic judges titles of findings; and, where the analysis gave an empty list of claims, a
  finding whose evidence belongs to no section of the plan (`reporter.py:451`). Reports that a
  model has written or reviewed are not held to it: the prompt lists the accepted findings
  (`reporter.py:863`), and nothing checks the answer against them.
* `SectionsAreComplete` is about all reports that are not cut off at a diagnosis. If a
  model had a hand in it, or there is no plan, no required section is missing. If the program wrote to a plan
  and there are no claims, only the analysis may be missing, which that body is not given. If the program wrote
  with a plan and with claims, the report has the findings and *none* of the other required
  sections. That is the default run, since `planner.py:40` always sets a plan and the analyst of the
  program makes a claim of each of its findings (`PlansAreFollowed`, among the disagreements below).
* `TokensWithinBudget` bounds the log. The tokens of the judge (`citation_support.py:98`) and of a review that
  failed (`reporter.py:714`) are in no log, so that they neither count nor are
  bounded by it (`CallsRespectBudget`, among the disagreements below).

Every property of a passing run has a mutated definition in the module (marked
"Mutated form" or "mutant"), a plausible bug, that violates it under the same
configuration. The mutants are not part of any specification.

### Disagreements without a run of their own

Five modules state a property that no run checks because it does not hold, can be
configured so that a property fails, or have a property with an exception for what the code
does. Adding the definition to the configuration named, or dropping the exception, shows the trace.

* `MemoryJobs!TerminalIsFinal` with `memory_stored`. `api.py:1742` looks at the status and
  then marks the job as succeeded; a cancellation acknowledged in between is overwritten.
  `docs/research-job-repository-contract.md:9` lists `cancelled` among the terminal
  statuses, and `docs/research-jobs-api.md:108` says "Terminal jobs return `409`".
* `SqliteJobs!StartsUnderClaim` with `sqlite_shared` and `ShortWaits = FALSE`. `api.py:1181`
  claims jobs at start-up and submits them; while they wait for the one executor thread no
  heartbeat renews their leases, so that a job may begin whose claim another process
  has taken. The contract says "Workers claim queued jobs before running workflows."
  (`docs/research-job-repository-contract.md:47`) and "Heartbeats extend leases while
  workflows run." (line 50).
* `EventStream!ListenersAreSubscribed` with `events_stream`. A run clears the events of its job
  (`api.py:711`, called from the start of the run), and with them the queues of clients that
  connected while the job was queued: they get no event, though snapshots go on.
  `docs/research-jobs-api.md:159` says "The stream sends safe JSON snapshots and safe event
  records."
* `Documents!AnswersAreCurrent` with `QuietFiles = FALSE`: `document_reader.py:82` reads the
  chunks, `document_index.py:116` then takes stamp and hash of the file as it is by then. An edit
  in between files the old chunks under the new hash, and they are served as
  fresh until the next edit. `tests/test_tools.py:1383` has the test that a changed
  document is read again.
* `Reporting!PlansAreFollowed` with `reporting`. `_build_deterministic_body` writes the one section
  Key Findings whenever there are grounded claims (`reporter.py:142`), and the body that follows the plan
  only if there are none. The default run has a plan and claims, so that it has no planned section,
  and of the required ones only the findings. `docs/report-quality-roadmap.md:475` says
  "Deterministic Reporter now follows `section_research_plan` when present. Planned section titles
  replace the fixed `Key Findings` body", and line 443 "Reports contain stable sections from the
  selected domain profile."
* `Reporting!CallsRespectBudget` with `reporting`. The judge of citations asks its model for every finding
  with evidence (`citation_support.py:98`) without a look at the budget, and no log has its tokens.
  `docs/report-quality-roadmap.md:549` says "Executor enforces tool/evidence caps and LLM paths enforce
  token caps."
* `Reporting!CitationsResolve` excepts two kinds of reports. The id of a page leaves out the
  query string (`fetch_url.py:154`), so that two pages may share one; numbers are kept by id
  (`reporter.py:1048`), and the references then list one number twice, which
  `scripts/validate_sources.py:224` reports as `duplicate_reference`. And if a model writes a
  diagnosis into its draft, what the program appends as the last step takes its place with all
  that follows (`report_review.py:137`), the references included, which
  `docs/report-quality-roadmap.md:22` lists among the sections of a report. Without
  `IsInjective(pool)` or `report.cut` in the property, `reporting` shows either.

The model also has, without a property: a review of the report (`reporter.py:747`) drops
the table of citation support that `docs/report-quality-roadmap.md:432` lists; and two
processes that start at once on one database read the order counter and write it back in two
transactions, so that increments in between are undone and the next creation may fail on the UNIQUE constraint.

Not modelled, but next to what is: a search result whose URL cannot be parsed
raises its `ValueError` from `canonicalize_url` at `pre_fetch.py:28`, before the `try` for
that candidate, and so ends the whole call of the tool as a failed one
(`executor.py:711`), with what its other candidates would have brought. `Candidate` has
only URLs that parse, and `CandidatesAreAccounted` speaks of those. And
`CitationsResolve` is about structured citations: numbers in brackets that stand in the text of a
model's claim, summary or matrix are copied as they are (`reporter.py:216`, `:240`).

### Bounds

* `Proc` 2, of which `MaxUp` are alive: an owner of a lease and a thief, or a process
  and its replacement. `MaxPool` bounds only what the start-up worker queues,
  which the code leaves unbounded; 2 is one waiting job more than the executor runs.
* `Job` 2 to 4 with `MaxActive = 2`, `MaxRetained = 1`: both limits are reached with
  two and three jobs; 4 in `memory_stored` let the table reach the sum of the
  limits. Ids are never reused, as UUIDs are not.
* `MaxEvents = 3`, `Limit = 2`: the cache is trimmed and loses its first event. `MaxCrashes = 1`: numbering
  continues across one crash; a second one meets the same states.
* `MaxRetries = 2`: a first, a middle and a last round. Two gaps, one of them with a
  key; two claims, so that a repeated stage can answer differently.
* `collection`: two sections that need two source types each, a budget of two items per
  section and of four for the run, and seven pieces of evidence: the seed and the
  locator that stands in for it, two items of one section and type that compete, and a
  page with the failed fetch of the same page. The pool, the sections and the diversity items all
  run into their caps; 6 tool calls run out in the second pass or the third; 5 strategies per
  round are fewer than some plans have. Two retries and three rounds: the last retry is
  one that may end for want of new evidence, and its strategies are for the last round. `collection_one_round`
  has the defaults of the code, one round and one retry, and 8 calls.
* `documents`: two processes, a file that is edited and one that is written, three calls, so that a
  call can use what an earlier one indexed while a third writes over it; one edit, to any
  content, with the stamp kept or not; one crash while writing; queries that name one file, both, or one of
them twice. The index starts out missing
  or foreign.
* `websearch`: two calls that share the cache; two providers, one of them with one call a day;
  four URLs: a page, the same page with a tracking key, one whose path differs in case
  and one that may redirect to the first; a short content, one whose second chunk matches
  best, one that is not UTF-8 and reads as another text from the cache, and one without
  text. `Limit = 3`, `Fetches = 2`, `Chunks = 2` are all smaller
  than what there is; `Retries = 1`; one crash and one midnight.
* `reporting`: two models, one retry each, answers of 0 or 2 tokens on a budget of 3, so
  that the second recorded answer overruns it and an unrecorded one does not; two passes
  of the review, one retry of the graph; two pieces of verified evidence and a rumour, of
  which a collection finds none, all, one, or two with the same id; analyses with claims of their own, with
  none, and on the rumour; a plan with a section for one of the pages and one that is named like the
  references; drafts that are cut short, in English, with a diagnosis, with a claim that has no
  support, with a matrix of which all rows, one or none cite, or that cite what is not there;
  seven settings, in which each stage is done by program and by model, with a plan and
  without.
* Symmetry is used only where no liveness property is checked, over model values the
  modules treat alike (processes, jobs, clients, claims, workers, items).
* `CHECK_DEADLOCK FALSE` where incarnations, jobs, calls or events may be used up, which is
  a limit of the instance, or where a run is over. `collection` checks deadlock.

### Fairness

Weak fairness of the executor's own steps (a thread that can go on does), strong
fairness of `EndWorkflow`, which appends disable for a moment while they hold the
lock: a workflow emits finitely many events, so it cannot append for ever. Weak
fairness of `Lapse` (time passes) and of stream steps (the event loop; a receive
always has a timeout). Weak fairness of the work of a tool call in `WebSearch` and of the
run in `Reporting`: each is one thread, and every request it waits for has a timeout
(`http_client.py`, the client's `timeout`, the browser's). Weak fairness of `Progress(w)` in
`Workflow`, the stages, memories and end of a run in the hands of a live worker. None on
requests, crashes, start of a process, the takeover of a run (`Start`), rejected reports, failures of the store, disconnection, midnight: nothing
promises them. `Collection` states no liveness; that nothing gets stuck on
the way to the report is its deadlock check.

### Assumptions and what the modules leave out

* SQLite errors other than the UNIQUE constraint (a lock held longer than 30 s, a full disk)
  are not modelled; nor is a claim whose follow-up `get` finds the row deleted in between.
* The submission to the executor is part of the last step of a creation: a crash
  between the two is the crash right after it, the pool is lost either way.
* Leases are compared as ISO strings; the model takes the comparison at its word. A
  heartbeat thread that dies of an exception is a heartbeat that is never timely.
* The import of a JSON store into SQLite at start, and requests served while the
  start-up clean-up runs, are left out.
* `StreamsAreInOrder` excepts a job deleted under its run after a restart: the record
  to number from is gone, and numbers begin at one again.
* The parameters of the checkpoint's SQL statement and its JSON are taken to work.
* `Collection` gives no two pieces of evidence the same rank: ties go by the order of
  arrival in the code, which a set does not keep. What every query of a tool names anyway, whatever is missing,
  is not counted as asking. `SectionsAssumption` says that the ids of sections are none of
  "entity", "claim" and "weak", the names the model has for other requests, and that each
  section requires finitely many source types.
* `Workflow` models the durable checkpoint store. The default one lives as long as a
  run, so that a job that is taken over starts at the planner.
* The memory store fails as a whole or writes; a partial record does not occur.
* `WebSearch`: a news search is a search, without its mock; the sections of a filing that matter are the
  chunks that match; the URLs of readme and release stand for the repository's; every
  URL can be parsed; `Reread` may be any function on contents, the same for every page with that content;
  extraction may fail for any page; a page in the cache never gets old, as in the code. The
  daily count is per process and starts from zero after a restart, as in the code.
* `Documents`: size and mtime are one stamp; a chunk is its score; that entries of the index
  lose the offsets of a snippet is left out.
* `Reporting`: whether sections and entities are covered, and whether a reviewed report
  is long enough, are choices; validation of URLs, wording, the score of the diagnosis and the trace
  files are left out; thresholds are exact fractions, where the code rounds to two
  decimals; headings of any level are sections; titles of findings are distinct in the run (the theorems do
  not need it); a draft without a title does not occur, nor a plan with a section named
  like the diagnosis. The header of a wide matrix counts as a row of it. The router only
  chooses the first model. The judge of citations has no budget and no log, as in the code.

## 4. What is proved

`tlapm` checks the following for every value of the constants that satisfies the
named assumptions of the modules. TLC evaluates those assumptions in the runs.

**`SqliteJobsProofs`.** `TypeCorrect`. `OneWorker` and `FinishedRecorded` assume
`TimelyHeartbeats` and `ShortWaits`. `OneWorkerPerJob` is not inductive: that no
other executor begins a job somebody runs follows only from what the row says
while it runs, or waits to run. A process holds the claims of its *slots*: slot 0 is
its executor, slot i the i-th task of its queue if that was claimed at start-up. The
strengthening `ClaimInv` says

* `ClaimsAreHeld`: the row of every slot's job names the process, is `running` (or
  `cancelled` meanwhile) and its lease is live, or the row is gone for good. Requeues
  touch lapsed leases only, and the two assumptions keep these from lapsing;
* `ClaimsAreDistinct`: no job is in two slots, of one process or of two. The verdict of
  one slot releases the claim in the row, and no other slot may have relied on it;
* `AppendsOfOwnRun`: an append in flight is of the job its process works on, and writes
  back `running` or `cancelled`, so that the whole-row write leaves the claim as it is.

The steps that could let a second worker in are `ClaimAndRun` and `StartupClaim`
(lemma `ClaimSuffices`): both need a queued row, which `ClaimsAreHeld` denies for
every slot. All other steps move slots at most one place on (`NoneBegins`) and
keep the claimed rows (`RowsKept`). `FinishedRecorded` is an action property from the
same invariant: at the end, an active row is still the worker's own, so the fence
lets the verdict pass.

`RecoverableRows`, `ContractKept` and `FinalTerminals` assume instead that one process is alive at
a time (`MaxUp = 1`), and nothing about heartbeats. `SingleInv` says what that gives: no other
process is up, one that is starting or claiming has no executor and no queue yet, and what a
critical section carries from its first transaction to its second is still what the table says,
since `_JOBS_LOCK` keeps the threads of the process out and there is no other. A lemma then
reduces every step to a `TableStep`, one of the few things that may happen to the rows of the
table (a row is born, started with what lapsed requeued, ended, deleted, written back
unchanged), and each of the three theorems is a case analysis of those. `ContractKept` is the
refinement: initial states map to initial states of `JobLifecycle`, a `TableStep` to a step or a stutter.

**`PipelineProofs`.** `TypeCorrect`, `CurrentReports`, `RetriesUsed`, `RetryAnswered`, for every
`MaxRetries`. The invariant `Lineage` states for each node what the state looks like
when it has run: how far evidence, findings and critique have come in the round.
`RetriesUsed` says that a failed critique is reported only when the retries are used
up and that a passed one is never sent back. `RetryAnswered` needs `AskedOnce` besides: the plan is
never ahead of the retries, and everything with a key that a plan or a critique has asked for is
in the critic's list of tried keys, so that the next critique leaves it out.

**`WorkflowProofs`.** `GraphFollowed` is the refinement of `Pipeline`. Its invariant is that of the
graph, read on the checkpoint, with `LoopInv`: at most one worker is at work, it holds the state
of the checkpoint and stands where a worker that loads it would resume. A stage is then a step of
the graph, or the reporter once more, which writes the report that is there. `SavedReportIsCurrent` and
`RetriesAnswered` follow from that and what is proved of the graph: the same invariants and the lemma
about its steps, read on the checkpoints. `OneReport` and `FinishedRemembered` rest on the rest of
`LoopInv`: every memory is of the findings of the saved report, and what of them is missing
in the store is what the worker has left to write.

**`CollectionProofs`.** `BudgetHolds`: the budget check looks at the records, which
include the seeds and are carried from pass to pass; `BudgetInv` adds to the bound that
no call goes unrecorded (`called <= records`), without which a full budget would not
show. `DiverseSources` and `OutdoneEvidence` are about the
selection: `PoolInv` says that from the critic on the pool is `Selected` of what was
collected, and that before the end of a round it is part of it. The lemmas below it are about rankings: the
first n of a set under `Better` are as many as there are, up to n, and each item left out has n
better ones before it. They need that ranks are numbers, that no two items have the same
(section 3, assumptions), and that the code attributes every item to a section of the plan
(`EvidenceAssumption`); that a set of numbers has a least one comes from the well-foundedness of the naturals, not
from an induction of our own.

`GapsFollowed` (`FollowedWhenDue`) is about the way from a request to a query, through four lists: the requests, the
strategies made of them, those due in a round, and the work items. It assumes nothing of the
bounds. `FollowInv` follows them. The requests are in the order of the plan (`InSectionOrder`, from `Criticise`). The plan of a retry
is due in the round after as many as there have been retries, and has a strategy for each
request that fits, within the first `StrategiesPerRound` (`Planned`, from `Plan`). From that
round on each such request has been asked about or is in what is left to do (`AllPursued`).
A round before it can end the collection only as sufficient, without network, for want of rounds or,
in a later retry, without new evidence, which is `EndsBeforeDue` (`OtherRoundOfRetry`); a stop because
all strategies are used up cannot happen, as those of the requests are still ahead. Filters and slots are treated as
rankings, like the pool: the n-th element kept is the one with n - 1 before it
(`RankingOrder`, `ThoseSelected`, `StrategiesParts`).

**`DocumentsProofs`.** `FilesKept` and `CurrentAnswers`, for any number of processes,
files, contents, edits and crashes. Both rest on the types (`DataOk`). For `FilesKept`,
`KeepInv` says that a file a tool is about to fill is empty and that no other tool is about to
fill it, since `open` with `x` lets only one of two through; and that whoever is on
the way to write the index has found it to be none of somebody else's. For
`CurrentAnswers`, which assumes `QuietFiles`, `CurrentInv` says that every entry, in the
index file and in every copy a process has of it, holds the chunks of the very content whose
hash it is filed under, so that the comparison of hashes (`CheckHash`) vouches for the chunks
even when the stamp lies. The index may be lost, torn or overwritten by an older copy
at any step: nothing in the invariant depends on which entries there are.

`ReadableAnswered` needs no quiet files. `OwedInv` says what a call still owes: each file it was
asked for is found, still to be done, or was not readable at some time since the call began, which
`seen` remembers whatever happens to the file later. Once all are done, an answer that is empty
would have selected nothing from something (`SomeSelected`: the first of a ranking exists), and
one that fails has met a tie, which takes two documents with equal chunks, or one that was
asked for twice.

**`WebSearchProofs`.** `QuotesServed`, for any number of workers, providers, redirects
and failures, and any `Reread`. `QuoteInv` says that everything in the cache has been served for
the URL it carries, and every page a call has in hand is `Quotable`: it has been served, or
is the UTF-8 reading of one that has; and that the evidence of a call is good so far. A page
that comes from the cache is not written to it again, so that the cache holds what was served. A lookup may return a page that was fetched under another spelling of the URL, and
a request may land elsewhere; the invariant holds because the evidence takes its URL from
the page and not from the candidate.

`CandidatesAccounted` and `BestChunkKept` rest on `AccountInv`, what the record of a call says of
itself: every candidate before the one that is looked at has left a piece of evidence, a listed
filing also while its pages are fetched, and a chunk of a found page is the best one of the page or
comes after something of the same URL. Each step leaves that as it is or adds evidence at
the end. What the collector makes of it is `FirstsAreKept`: it keeps the first of those that are
the same, so something like each piece is kept, and what is kept has nothing like it before it. That
the first chunk is the best is `BestIsFirst`. Both are about `Ranked`, a finite set in order; that
each of its ranks is taken (`RanksAreTaken`) is the one counting argument: different elements have
different numbers of others ahead of them, so these are all the numbers below that of the elements.

**`ReportingProofs`.** All five safety properties of `Reporting`, for any evidence, plans,
settings, bounds and answers of models. Of the answers only the form is assumed
(`FormAssumption`): a finding is a title with citations, a draft a sequence of
sections with citations, claims and rows; what they cite and claim may be anything. Four invariants hold together.

`BudgetInv` relates the log to the call that is under way: a call at a stage that records
its tokens was begun below the budget and nothing was recorded since, through all
retries and fallbacks. From it, `BudgetOfTokens`: the log exceeds the budget by less than
one answer.

`GroundInv`, from the critic on, says that findings, claims and matrix are not empty of
citations and cite verified evidence of the *present* pool only (`Sound`). It is kept because the
pool changes only where `at` leaves these stages and every way back is a new analysis, which is
sound whichever of three ways it came about: `ParsedSound` for an answer that parses,
`DeterministicSound` for the program, and nothing without verified evidence. That gives
`GroundedConclusions`.

`SupportInv` says that the critic has judged the findings in their order and each of them
before there is a report. `ReportInv` says that a report before its diagnosis lists the references
of the pool, that its body is *publishable* for its author, and that only the model of the reporter can
have written a diagnosis. Publishable means, whoever the author is, that each section cites listed
numbers (`Citing`) and the required sections are there as far as `SectionsAreComplete` says; for the program
also that it claims supported findings only and leaves out nothing but what `LeftOut` allows. A
model's draft has and claims whatever it has; it becomes publishable by `CutAt`, `Normalized`, `WithMatrix` and
`Complete` in this order and by the check of its citations (`WrittenParts`, `ValidBody`), a
review likewise (`ReviewedParts`), and what a fallback writes is a report of the
program like any other. `ResolvingCitations`, `StatedClaims` and
`CompleteSections` follow once the diagnosis has been appended (`DiagnoseStep`). None of the three is
inductive: what a report may claim depends on support and analysis, and that these belong together
on all that has happened since the evidence came in.

The proofs rest on what the filter `Those` does to a sequence of any length: elements, order and
injectivity. `Those` is defined by recursion over the length. `Recursion` (such a function exists)
and `UpToBound` (what holds for 0 and from each to the next holds up to the end)
are stated for *sets* of numbers and proved from the well-foundedness of the naturals, since the
library's own theorems of induction take an operator, which the provers cannot
instantiate.

**`ServiceProofs`.** For the events, with any number of streams and events and every `Limit`:
`TypeCorrect`, `FreshestCache`, `OrderedStreams`, `ConsecutiveEvents`, `NoOrphans`. `Numbering` says that cache
and record are consecutive, end where the run has got to, and that the cache ends no earlier. For
a stream the notion is its *flow*, what it has sent followed by what is in its queue: receiving
leaves the flow as it is, publishing adds the next number at its end. `StreamInv` says that a flow
increases, that it has no holes after the replayed part, and that the flow of a subscriber ends
with the last event published. That is why replay and subscription may overlap with the run: both happen under the
event lock, so the flow that the replay starts is the one that live delivery continues.

For the jobs in memory, with any number of jobs, both limits, with
and without a file that may be truncated: `JobsTypeCorrect`, `StoredJobs`, `DurableCancel`, `NobodyStranded`. `JobsInv` adds to the three properties that the
executor has a job while it works and a verdict once the workflow has ended. Every step is a
`StoreStep`: the file becomes the image of the dictionary, or unreadable; or it stays, and then the
dictionary gains neither a job nor a cancellation; or the dictionary is the one loaded. A
best-effort save in the place of a strict one breaks exactly this.

Only model-checked: everything under fairness (`SubmittedJobsSettle`, the ends of streams, runs,
calls and workflows), which is out of the prover's reach. Every invariant and every
action property of the runs that pass is a theorem.

## 5. Not modelled

* `dashboard.py` is one string of HTML, CSS and JavaScript that a route returns; the state it has
  lives in a browser.
* `cli.py`, `eval.py`, `smoke.py` and the scripts are sequential drivers: they call the
  workflow, compare numbers, print. Nothing runs beside them.
* `persistence/migrations.py` executes DDL with `IF NOT EXISTS`, each statement of which
  may be repeated.
* Search in the memory store and the embeddings are arithmetic on vectors or calls of an
  external service; only the upsert of a report's records is modelled.
* Validation of URLs, source types, scoring, entity resolution, compression of conversations,
  parsing of HTML, PDF and SEC financial data are pure functions of text. Where a
  property depends on their result it is a constant or a choice of the module.
* Code execution, the registries, the mock tools, and the read-only file tools keep no
  state that another step reads.
* The import of a JSON store into SQLite at start (`research_jobs.py:285`), which two processes may
  do at once.

Other places where a test hardly reaches and no property does either: the fallback that
overwrites the JSON store in place can be interrupted (`research_jobs_store.py:259`, the
truncated file is in `MemoryJobs` as a failed save, not as a crash); a heartbeat thread ends
with the first database exception (`api.py:1105`, covered as a heartbeat that is not
timely); leases are compared as ISO strings (`research_jobs_sqlite_backend.py:531`);
the default checkpoint store ends with the run (`persistence/checkpoints.py:98`); a worker that
lags behind overwrites a newer checkpoint of the same run (`:58`; `Workflow` has one worker at
a time, which is what `SqliteJobs` shows under timely heartbeats); daily counts are per process
(`search_providers.py:619`); a page in the cache never expires.

## 6. Plan

Done: the job service on both backends, events, graph, checkpointed loop, collection,
the web tools with their cache, the local documents with their index, the way from
evidence to report with the client of the models; proofs of exclusive work, of both
refinements, of the invariants of one process (rows, files, queues, events, memories),
of current reports, tool budget, selection, the follow-up of gaps, quotes, the candidates of a search, answers from documents, the
token budget, and of reports whose citations, conclusions, claims and sections are what they must be.

Next, in this order:

1. `Collection` as an implementation of `Pipeline`'s `Collected` and `Criticised`, and
   `Reporting` of its analysis and report.
2. The start-up of two processes on one database, with a JSON store to import and the order
   counter they write back.
3. Scoring, source types, URL canonicalization and entity resolution as operators,
   against reference definitions over bounded inputs.
