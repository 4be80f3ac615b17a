---- MODULE WebSearch ----
(***************************************************************************)
(* Web evidence: a tool call asks the search providers, merges what they   *)
(* find, fetches the first candidates through a cache of pages, cuts each  *)
(* page into chunks, best first, and the collector keeps one piece of      *)
(* evidence for each URL.  Filings and repositories are looked up at one   *)
(* place instead, and what is known of each fetched afterwards.            *)
(*                                                                         *)
(* A worker is a service process, which has one tool call at a time.  All  *)
(* of them share the cache, files that are written in place; each counts   *)
(* on its own the calls it has made to a provider with a daily limit.      *)
(***************************************************************************)
EXTENDS Naturals, Sequences, FiniteSets, SequencesExt, Rankings

CONSTANTS
    Worker,
    Providers,  \* the search providers, a sequence,
    Keyed,      \* those of them that have what they need, like an API key,
    PerRun,     \* provider -> the results it may be asked for,
    Daily,      \* provider with a daily limit -> that limit,
    Answers,    \* provider -> the lists of URLs it may come back with
    Listings,   \* and the lists of filings or repositories the SEC or GitHub may
    Url,
    Canonical,  \* URL -> the same without case of the host, default port, fragment, tracking keys
    Folded,     \* URL -> the same in lower case
    Allowed,    \* the URLs the domain and recency policies let through
    Lands,      \* URL -> the URLs a request for it may end at
    Content,    \* what a page may hold
    Serves,     \* URL -> the contents it may have
    Scores,     \* content -> the score of each of its chunks for the query, in order
    Cacheable,  \* the contents of a type and size that are cached
    Reread,     \* content -> what its bytes are in UTF-8: the same, unless they are text
                \* in another charset, which a response names and the cache does not heed
    Settings,   \* whether there is a cache, whether pages are rendered
    Limit,      \* INSIGHT_GRAPH_SEARCH_LIMIT
    Fetches,    \* the candidates fetched for one query
    Chunks,     \* the chunks taken from one page
    Retries,    \* of a request
    MaxCalls, MaxCrashes, MaxDays   \* bounds

Provider == {Providers[i] : i \in DOMAIN Providers}
ASSUME UrlAssumption ==
    /\ DOMAIN Canonical = Url
    /\ Lands \in [Url -> SUBSET Url]
    /\ Serves \in [Url -> SUBSET Content]
    /\ Scores \in [Content -> Seq(Nat)]
    /\ Reread \in [Content -> Content]
    /\ Listings \subseteq Seq(Url)
ASSUME SettingsAssumption == Settings \subseteq [caching : BOOLEAN, rendered : BOOLEAN]
ASSUME LimitsAssumption ==
    /\ {Limit, Fetches, Chunks} \subseteq Nat \ {0} /\ Retries \in Nat
    /\ Daily \in [DOMAIN Daily -> Nat] /\ DOMAIN Daily \subseteq Provider

\* A page is a content and the URL it came from.
Page == [url : Url, content : Content]
None == [url |-> "none"]

VARIABLES
    setting,
    call,       \* worker -> its tool call
    cache,      \* the pages in the cache, one for a canonical URL
    mixed,      \* the writers of a cache file that another one has come in between
    usage,      \* worker -> provider -> the calls it has counted today
    served,     \* the pages that have come back whole, ever
    calls, crashes, days

counts == <<calls, crashes, days>>
vars == <<setting, call, cache, mixed, usage, served, counts>>

Idle == [at |-> "idle", kind |-> "search", buckets |-> <<>>, candidates |-> <<>>, rank |-> 0,
         attempt |-> 0, page |-> None, evidence |-> <<>>, kept |-> <<>>]

NoCalls == [p \in DOMAIN Daily |-> 0]

Init ==
    /\ setting \in Settings
    /\ call = [w \in Worker |-> Idle]
    /\ cache = {}
    /\ mixed = {}
    /\ usage = [w \in Worker |-> NoCalls]
    /\ served = {}
    /\ calls = 0 /\ crashes = 0 /\ days = 0

At(w, at) == call[w].at = at
Goes(w, at) == call' = [call EXCEPT ![w].at = at]
----------------------------------------------------------------------------
(* The providers *)

Begin(w) ==
    /\ At(w, "idle")
    /\ calls < MaxCalls
    /\ calls' = calls + 1
    /\ \E kind \in {"search", "filings", "repositories"} :
          call' = [call EXCEPT ![w] = [Idle EXCEPT !.at = "ask", !.kind = kind]]
    /\ UNCHANGED <<setting, cache, mixed, usage, served, crashes, days>>

Asked(w) == Len(call[w].buckets)
AskingFor(w) == Providers[Asked(w) + 1]
Searching(w) == At(w, "ask") /\ call[w].kind = "search" /\ Asked(w) < Len(Providers)
Bucket(w, urls) == call' = [call EXCEPT ![w].buckets = Append(@, urls)]

\* What a provider with an answer puts in its bucket: no more than it is asked for,
\* of which the policies may leave less.
Room(p) == IF PerRun[p] < Limit THEN PerRun[p] ELSE Limit
Filtered(p, urls) == SelectSeq(Upto(Room(p), urls), LAMBDA u : u \in Allowed)

HasQuota(w, p) == p \in DOMAIN Daily => usage[w][p] < Daily[p]
Plus1(f, p) == IF p \in DOMAIN Daily THEN [f EXCEPT ![p] = @ + 1] ELSE f

\* Nothing is asked of the provider, though a call may be counted: it is, before
\* anybody looks for the key.
DoNotAsk(w) ==
    LET p == AskingFor(w) IN
    /\ Searching(w)
    /\ Room(p) = 0 \/ ~HasQuota(w, p) \/ p \notin Keyed
    /\ usage' = IF Room(p) > 0 /\ HasQuota(w, p) THEN [usage EXCEPT ![w] = Plus1(@, p)] ELSE usage
    /\ Bucket(w, <<>>)
    /\ UNCHANGED <<setting, cache, mixed, served, counts>>

\* The call is counted, and either answered or not.
Ask(w) ==
    LET p == AskingFor(w) IN
    /\ Searching(w)
    /\ Room(p) > 0 /\ HasQuota(w, p) /\ p \in Keyed
    /\ \E urls \in Answers[p] \cup {<<>>} : Bucket(w, Filtered(p, urls))
    /\ usage' = [usage EXCEPT ![w] = Plus1(@, p)]
    /\ UNCHANGED <<setting, cache, mixed, served, counts>>

\* The results in turn, the first of each provider, then the second of each; of those
\* with the same URL but for its case, the first counts; no more than the limit.
Merged(buckets) ==
    LET turns == {t \in (DOMAIN buckets) \X (1..Limit) : t[2] <= Len(buckets[t[1]])}
        Before(s, t) == s[2] < t[2] \/ (s[2] = t[2] /\ s[1] < t[1])
        UrlOf(t) == buckets[t[1]][t[2]]
        first == {t \in turns :
                     ~\E s \in turns : Before(s, t) /\ Folded[UrlOf(s)] = Folded[UrlOf(t)]}
        order == Ranked(first, Before)
    IN  [i \in DOMAIN order \cap 1..Limit |-> UrlOf(order[i])]

\* Of the merged results, those that are fetched.
Merge(w) ==
    /\ At(w, "ask") /\ call[w].kind = "search" /\ Asked(w) = Len(Providers)
    /\ call' = [call EXCEPT ![w].at = "next", ![w].rank = 1,
                            ![w].candidates = Upto(Fetches, Merged(call[w].buckets))]
    /\ UNCHANGED <<setting, cache, mixed, usage, served, counts>>

\* sec_filings and github_search ask one service, whose failure is an empty answer.
List(w) ==
    /\ At(w, "ask") /\ call[w].kind # "search"
    /\ \E listed \in Listings \cup {<<>>} :
          call' = [call EXCEPT ![w].at = "next", ![w].rank = 1, ![w].candidates = listed]
    /\ UNCHANGED <<setting, cache, mixed, usage, served, counts>>
----------------------------------------------------------------------------
(* The candidates, one after the other *)

Candidate(w) == call[w].candidates[call[w].rank]
Wanting(w) == At(w, "next") /\ call[w].rank <= Len(call[w].candidates)

\* A piece of evidence: where it is from, by which candidate, and which chunk of what
\* it is; none, for the report of a failure or for what a listing says.
Item(w, url, verified, content, chunk) ==
    [source |-> url, rank |-> call[w].rank, listed |-> call[w].kind # "search",
     verified |-> verified, content |-> content, chunk |-> chunk]
Entry(w) == Item(w, Candidate(w), TRUE, "entry", 0)
Diagnostic(w) == Item(w, Candidate(w), FALSE, "failed", 0)

GoesOn(w, evidence) ==
    call' = [call EXCEPT ![w].at = "next", ![w].rank = @ + 1, ![w].attempt = 0,
                         ![w].page = None, ![w].evidence = @ \o evidence]

SameAsEarlier(w) ==
    \E i \in 1..(call[w].rank - 1) : Canonical[call[w].candidates[i]] = Canonical[Candidate(w)]

Skip(w) ==
    /\ Wanting(w) /\ call[w].kind = "search" /\ SameAsEarlier(w)
    /\ GoesOn(w, <<>>)
    /\ UNCHANGED <<setting, cache, mixed, usage, served, counts>>

Take(w) ==
    /\ Wanting(w)
    /\ \/ call[w].kind = "search" /\ ~SameAsEarlier(w) /\ Goes(w, "lookup")
       \/ /\ call[w].kind = "filings"
          /\ call' = [call EXCEPT ![w].at = "lookup", ![w].evidence = Append(@, Entry(w))]
       \/ call[w].kind = "filings" /\ GoesOn(w, <<Entry(w)>>)  \* an 8-K, or no content wanted
    /\ UNCHANGED <<setting, cache, mixed, usage, served, counts>>

\* Mutated form: an exception ends the search.
Abandon(w) ==
    call' = [call EXCEPT ![w].at = "next", ![w].rank = Len(call[w].candidates) + 1]

\* Of a repository, GitHub may also tell the readme and the latest release.
TakeRepository(w) ==
    /\ Wanting(w) /\ call[w].kind = "repositories"
    /\ \E told \in {<<>>, <<"readme">>, <<"release">>, <<"readme", "release">>} :
          GoesOn(w, <<Entry(w)>> \o [i \in DOMAIN told |-> Item(w, Candidate(w), TRUE, told[i], 0)])
    /\ UNCHANGED <<setting, cache, mixed, usage, served, counts>>

\* The fetch has raised an exception, or there is no text in the page.
Fails(w) == GoesOn(w, IF call[w].kind = "search" THEN <<Diagnostic(w)>> ELSE <<>>)

\* load_cached_fetch looks for the URL that is asked for; a file that was not written
\* to its end is no entry.  What is found are bytes, which are read as UTF-8.
Filed(url) == {p \in cache : Canonical[p.url] = Canonical[url]}
Reading(page) == [page EXCEPT !.content = Reread[@]]
Lookup(w) ==
    /\ At(w, "lookup")
    /\ \/ \E page \in Filed(Candidate(w)) :
             /\ setting.caching
             /\ call' = [call EXCEPT ![w].at = "extract", ![w].page = Reading(page)]
       \/ /\ setting.caching => Filed(Candidate(w)) = {}
          /\ Goes(w, IF setting.rendered THEN "render" ELSE "request")
    /\ UNCHANGED <<setting, cache, mixed, usage, served, counts>>

Responses(url) == {p \in Page : p.url \in Lands[url] /\ p.content \in Serves[p.url]}
Got(w, page, at) ==
    /\ call' = [call EXCEPT ![w].at = at, ![w].page = page]
    /\ served' = served \cup {page}

\* render_page: what a browser shows is used but never cached.
Render(w) ==
    /\ At(w, "render")
    /\ \/ \E page \in Responses(Candidate(w)) : Got(w, page, "extract")
       \/ Goes(w, "request") /\ UNCHANGED served
       \/ Fails(w) /\ UNCHANGED served
    /\ UNCHANGED <<setting, cache, mixed, usage, counts>>

\* fetch_text: a page, an error that is tried again, if there are tries left, or one
\* that is not.
AttributeToCandidate(w) ==                                          \* mutant
    /\ At(w, "request")
    /\ \E page \in Responses(Candidate(w)) :
          /\ call' = [call EXCEPT ![w].at = "extract",
                         ![w].page = [url |-> Candidate(w), content |-> page.content]]
          /\ served' = served \cup {page}
    /\ UNCHANGED <<setting, cache, mixed, usage, counts>>
Request(w) ==
    /\ At(w, "request")
    /\ \/ \E page \in Responses(Candidate(w)) :
             Got(w, page, IF setting.caching /\ page.content \in Cacheable
                          THEN "store" ELSE "extract")
       \/ Goes(w, "retry") /\ UNCHANGED served
       \/ Fails(w) /\ UNCHANGED served
    /\ UNCHANGED <<setting, cache, mixed, usage, counts>>

RetryAlways(w) ==                                                   \* mutant
    /\ At(w, "retry")
    /\ Goes(w, "request")
    /\ UNCHANGED <<setting, cache, mixed, usage, served, counts>>
Retry(w) ==
    /\ At(w, "retry")
    /\ IF call[w].attempt = Retries THEN Fails(w)
       ELSE call' = [call EXCEPT ![w].at = "request", ![w].attempt = @ + 1]
    /\ UNCHANGED <<setting, cache, mixed, usage, served, counts>>

\* store_cached_fetch files the page under the URL it came from.  The file is emptied
\* and then filled, and whoever else is writing it may spoil it.
PageUrl(w) == call[w].page.url
Writers(url) == {w \in Worker : At(w, "write") /\ Canonical[PageUrl(w)] = Canonical[url]}
Disturbed(w) == (IF At(w, "write") THEN mixed \cup Writers(PageUrl(w)) ELSE mixed) \ {w}

Truncate(w) ==
    /\ At(w, "store")
    /\ cache' = cache \ Filed(PageUrl(w))
    /\ mixed' = mixed \cup Writers(PageUrl(w))
    /\ Goes(w, "write")
    /\ UNCHANGED <<setting, usage, served, counts>>
WriteOut(w) ==
    /\ At(w, "write")
    /\ \/ cache' = (cache \ Filed(PageUrl(w))) \cup {call[w].page}
       \/ w \in mixed /\ cache' = cache \ Filed(PageUrl(w))
    /\ mixed' = Disturbed(w)
    /\ Goes(w, "extract")
    /\ UNCHANGED <<setting, usage, served, counts>>

\* The cache cannot be written: nobody catches that short of pre_fetch_results, which
\* reports the page as a failure.
StoreFails(w) ==
    /\ call[w].at \in {"store", "write"}
    /\ mixed' = Disturbed(w)
    /\ Fails(w)
    /\ UNCHANGED <<setting, cache, usage, served, counts>>

\* The chunks that match the query, the best first; all of them if none does, of which
\* none scores, in order.
Matching(content) == {k \in DOMAIN Scores[content] : Scores[content][k] > 0}
Preferred(content, k, l) ==
    LET scores == Scores[content] IN
    \/ scores[k] > scores[l]
    \/ scores[k] = scores[l] /\ k < l
InOrder(content) == [k \in DOMAIN Scores[content] \cap 1..Chunks |-> k]     \* mutant
RankedChunks(content) ==
    LET chosen == IF Matching(content) = {} THEN DOMAIN Scores[content] ELSE Matching(content)
    IN  Upto(Chunks, Ranked(chosen, LAMBDA k, l : Preferred(content, k, l)))

\* Of a filing, at most two chunks of the sections that matter, which are taken to be
\* those that match.
Quoted(w, content) ==
    IF call[w].kind = "search" THEN RankedChunks(content)
    ELSE IF Matching(content) = {} THEN <<>>
    ELSE Upto(2, RankedChunks(content))

Extract(w) ==
    LET page == call[w].page
        quoted == Quoted(w, page.content)
    IN
    /\ At(w, "extract")
    /\ \/ /\ quoted # <<>>
          /\ GoesOn(w, [i \in DOMAIN quoted |-> Item(w, page.url, TRUE, page.content, quoted[i])])
       \/ Fails(w)  \* no text, or none that can be made out
    /\ UNCHANGED <<setting, cache, mixed, usage, served, counts>>
----------------------------------------------------------------------------
(* The collector *)

\* Evidence from a search is the same if it is from the same URL; other evidence if
\* it has the same id and URL.
SameItem(e, f) ==
    IF e.listed THEN <<e.rank, e.content, e.chunk>> = <<f.rank, f.content, f.chunk>>
    ELSE Canonical[e.source] = Canonical[f.source]

Deduplicated(evidence) ==
    LET first == {i \in DOMAIN evidence : \A j \in 1..(i - 1) : ~SameItem(evidence[j], evidence[i])}
        order == Ranked(first, <)
    IN  [i \in DOMAIN order |-> evidence[order[i]]]

Keep(w) ==
    /\ At(w, "next") /\ call[w].rank > Len(call[w].candidates)
    /\ call' = [call EXCEPT ![w].at = "kept", ![w].kept = Deduplicated(call[w].evidence)]
    /\ UNCHANGED <<setting, cache, mixed, usage, served, counts>>

Return(w) ==
    /\ At(w, "kept")
    /\ call' = [call EXCEPT ![w] = Idle]
    /\ UNCHANGED <<setting, cache, mixed, usage, served, counts>>

\* The process dies and is started anew; a cache file it was writing stays as it is,
\* and the calls it had counted are forgotten.  At any other point its call leaves
\* nothing behind.
Crash(w) ==
    /\ crashes < MaxCrashes
    /\ call[w].at \in {"ask", "write"}
    /\ crashes' = crashes + 1
    /\ call' = [call EXCEPT ![w] = Idle]
    /\ mixed' = Disturbed(w)
    /\ usage' = [usage EXCEPT ![w] = NoCalls]
    /\ UNCHANGED <<setting, cache, served, calls, days>>

\* A new day, in UTC.  It makes itself felt only when somebody asks a provider.
Midnight ==
    /\ days < MaxDays
    /\ \E w \in Worker : At(w, "ask")
    /\ days' = days + 1
    /\ usage' = [w \in Worker |-> NoCalls]
    /\ UNCHANGED <<setting, call, cache, mixed, served, calls, crashes>>

Work(w) ==
    \/ DoNotAsk(w) \/ Ask(w) \/ Merge(w) \/ List(w)
    \/ Skip(w) \/ Take(w) \/ TakeRepository(w) \/ Lookup(w) \/ Render(w) \/ Request(w) \/ Retry(w)
    \/ Truncate(w) \/ WriteOut(w) \/ StoreFails(w) \/ Extract(w)
    \/ Keep(w) \/ Return(w)

Next == (\E w \in Worker : Begin(w) \/ Work(w) \/ Crash(w)) \/ Midnight

Spec == Init /\ [][Next]_vars

\* A tool call is one thread, and all it waits for has a timeout.
FairSpec == Spec /\ \A w \in Worker : WF_vars(Work(w))
----------------------------------------------------------------------------
(* Properties *)

\* Nothing that was to be fetched disappears: when the collector has done with a
\* call, each search result in it, or one that is the same page, has left a chunk or
\* the report of its failure, through redirects onto each other, failures half-way
\* and caches that cannot be written; and each listed filing or repository is there,
\* whatever its pages did.
CandidatesAreAccounted ==
    \A w \in Worker : At(w, "kept") =>
        LET c == call[w]
            IsKept(e) == \E k \in ToSet(c.kept) : SameItem(k, e)
        IN  \A i \in DOMAIN c.candidates : \E e \in ToSet(c.evidence) :
                /\ IF e.listed THEN e.rank = i /\ e.content = "entry"
                   ELSE Canonical[c.candidates[e.rank]] = Canonical[c.candidates[i]]
                /\ IsKept(e)

\* The pages that can be quoted: those that have come back and, where there is a cache,
\* what the bytes of those are in UTF-8.
Quotable == served \cup {Reading(page) : page \in {p \in served : setting.caching}}

\* Verified evidence quotes its source: what it quotes are the bytes of a page that has
\* come back, whole, from the very URL it names, be it to this process or to another
\* one, lately or long ago, after redirects and through cache files that others were
\* writing.  They are read by the charset of the response or, if they were in the cache,
\* as UTF-8: of a page in another charset that is not the text it had.
QuotesArePages ==
    \A w \in Worker : \A e \in ToSet(call[w].evidence) :
        e.verified => \/ [url |-> e.source, content |-> e.content] \in Quotable
                      \/ e.listed /\ e.chunk = 0

\* The one chunk of a page that the collector keeps is one that matches the query
\* best, though it only keeps the first that comes.
BestChunkIsKept ==
    \A w \in Worker : \A e \in ToSet(call[w].kept) :
        e.chunk > 0 /\ ~e.listed =>
            LET scores == Scores[e.content]
            IN  \A k \in DOMAIN scores : scores[k] <= scores[e.chunk]

\* Every call ends, through all the tries of all its candidates.
SearchesEnd == \A w \in Worker : ~At(w, "idle") ~> At(w, "idle")

\* The roadmap says that a long page found by web_search becomes several pieces of
\* evidence.  They share one canonical URL, and the collector keeps one of those.
LongPagesKeepTheirChunks ==
    \A w \in Worker : \A e \in ToSet(call[w].kept) :
        e.chunk > 0 /\ ~e.listed /\ Len(RankedChunks(e.content)) > 1 =>
            \E f \in ToSet(call[w].kept) : f.source = e.source /\ f.chunk # e.chunk
====
