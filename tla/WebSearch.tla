----------------------------- MODULE WebSearch -----------------------------
(***************************************************************************)
(* One web_search call: web-search/WebSearch.searchProviders() over the    *)
(* configured backends, requestSearchHttp() with its redirects and policy  *)
(* questions, and what each provider makes of the answer, up to the        *)
(* normalised result list.                                                 *)
(*                                                                         *)
(* A link is a site, a page on it and whether tracking parameters are      *)
(* attached; site "none" stands for a URL that is no plain HTTP(S) one.    *)
(* The credential headers of a request are one flag.  Servers, and the     *)
(* policy the user decides, answer as they like.                           *)
(***************************************************************************)
EXTENDS Integers, Sequences, FiniteSets, SequencesExt

CONSTANTS
    Plans,          \* [order, configured, filtered]: backends, those with credentials, domains given
    Pages,          \* sequences of links a backend may list
    Streams,        \* sequences of [kind, link]: events of a native model's stream
    Sites,          \* origins a redirect may lead to
    Matching,       \* sites that pass the domain filters
    MaxResults,     \* request.maxResults
    MaxRedirects    \* MAX_REDIRECTS

VARIABLES
    search,         \* the loop of searchProviders()
    call,           \* the HTTP request under way
    searchAborted   \* request.signal.aborted

searchVars == <<search, call, searchAborted>>

\* createSearchProviders(): for each backend the method of its search request
\* and whether that carries credentials.
SearXng    == [method |-> "GET",  secret |-> FALSE]
Brave      == [method |-> "GET",  secret |-> TRUE]
Tavily     == [method |-> "POST", secret |-> TRUE]
Serper     == [method |-> "POST", secret |-> TRUE]
Native     == [method |-> "POST", secret |-> TRUE]
DuckDuckGo == [method |-> "GET",  secret |-> FALSE]

Backends == [searxng |-> SearXng, brave |-> Brave, tavily |-> Tavily, serper |-> Serper,
             native |-> Native, duckduckgo |-> DuckDuckGo]

\* parseProviders(): a configuration names known backends, each once.
ParsedProviders(order) ==
    order # <<>> /\ IsInjective(order) /\ ToSet(order) \subseteq DOMAIN Backends

NoCall == [step |-> "none"]

\* requestSearchHttp() before its first policy question.  History: `asked`, what
\* the policy allowed last, and `strayed`, whether another origin was visited.
NewCall(site, method, secret) ==
    [step |-> "policy", site |-> site, method |-> method, secret |-> secret,
     body |-> method = "POST", hop |-> 0, asked |-> <<>>, strayed |-> FALSE]

NoPlan == [order |-> <<>>, configured |-> {}, filtered |-> FALSE]
NewSearch(plan, phase) ==
    [plan |-> plan, attempts |-> <<>>, phase |-> phase, stage |-> "next", links |-> <<>>, left |-> <<>>,
     cited |-> <<>>, answered |-> FALSE, results |-> <<>>, heard |-> <<>>]

SearchInit == search = NewSearch(NoPlan, "idle") /\ call = NoCall /\ searchAborted = FALSE

\* search(): the tool is called with the configuration of that moment.
StartSearch(plan) ==
    /\ search.phase = "idle" /\ ParsedProviders(plan.order)
    /\ search' = NewSearch(plan, "running")
    /\ UNCHANGED <<call, searchAborted>>

-----------------------------------------------------------------------------
Running(stage) == search.phase = "running" /\ search.stage = stage
Backend == search.plan.order[Len(search.attempts) + 1]

End(phase) == search' = [search EXCEPT !.phase = phase] /\ call' = NoCall

Attempted(status) ==
    /\ search' = [search EXCEPT !.attempts = Append(@, status), !.stage = "next",
                                !.links = <<>>, !.left = <<>>, !.cited = <<>>, !.answered = FALSE]
    /\ call' = NoCall

\* The catch of the loop: an abort ends the search, as a denial does; any other
\* error leaves it to the next backend.
Caught(error) ==
    IF searchAborted THEN End("aborted")
    ELSE IF error = "denied" THEN End("denied")
    ELSE Attempted("error")

\* available() of every provider.
Eligible(p) == p = "duckduckgo" \/ p \in search.plan.configured

NextProvider ==
    /\ Running("next")
    /\ IF Len(search.attempts) = Len(search.plan.order) THEN End("exhausted")
       ELSE IF searchAborted THEN End("aborted")
       ELSE IF ~Eligible(Backend) THEN Attempted("unavailable")
       ELSE /\ search' = [search EXCEPT !.stage = "calling"]
            /\ call' = NewCall(Backend, Backends[Backend].method, Backends[Backend].secret)
    /\ UNCHANGED searchAborted

\* The native provider finds no usable credential before any request.
NativeUnauthorized ==
    /\ Running("calling") /\ Backend = "native" /\ call.step = "policy" /\ call.hop = 0
    /\ Caught("error")
    /\ UNCHANGED searchAborted

-----------------------------------------------------------------------------
\* What an error of the HTTP request means: the provider fails, except that a
\* source which cannot be resolved keeps its URL.
KeepSource ==
    /\ search' = [search EXCEPT !.links = Append(@, Head(search.left)), !.left = Tail(@)]
    /\ call' = NoCall

HttpFails(error) ==
    IF search.stage = "sources" /\ error # "denied" /\ ~searchAborted
    THEN KeepSource ELSE Caught(error)

\* The policy is asked for the very URL and access of the next request; it may
\* fail because the call was aborted.
AskPolicy ==
    /\ call.step = "policy"
    /\ \/ /\ call' = [call EXCEPT !.step = "send", !.asked = <<call.site, call.method>>]
          /\ UNCHANGED search
       \/ HttpFails("denied")
       \/ searchAborted /\ HttpFails("error")
    /\ UNCHANGED searchAborted

\* fetch(): an aborted signal rejects it before anything is sent.
SendRequest ==
    /\ call.step = "send"
    /\ IF searchAborted THEN HttpFails("error")
       ELSE call' = [call EXCEPT !.step = "sent"] /\ UNCHANGED search
    /\ UNCHANGED searchAborted

\* A network error, the timeout of this hop, an abort, an oversized body.
FetchFails ==
    /\ call.step \in {"sent", "body"}
    /\ HttpFails("error")
    /\ UNCHANGED searchAborted

\* Mutant: credentials follow a redirect.
HeadersKept(secret, crossed) == secret

\* headersWithout(): credentials do not cross origins.
HeadersWithout(secret, crossed) == secret /\ ~crossed

\* redirectChangesToGet()
ChangesToGet(status, method) == status = 303 \/ (status \in {301, 302} /\ method = "POST")

NextHop(hop) == hop + 1

Redirect(status, site) ==
    /\ call.step = "sent"
    /\ IF call.hop = MaxRedirects \/ site = "none" THEN HttpFails("error")
       ELSE /\ call' = [call EXCEPT
                  !.step   = "policy", !.site = site, !.hop = NextHop(@),
                  !.secret = HeadersWithout(@, site # call.site),
                  !.method = IF ChangesToGet(status, @) THEN "GET" ELSE @,
                  !.body   = @ /\ ~ChangesToGet(status, call.method),
                  !.strayed = @ \/ site # call.site]
            /\ UNCHANGED search
    /\ UNCHANGED searchAborted

HttpResponds ==
    /\ call.step = "sent"
    /\ call' = [call EXCEPT !.step = "body"]
    /\ UNCHANGED <<search, searchAborted>>

-----------------------------------------------------------------------------
\* matchesSearchDomainFilters() and normalizedResultUrl(); canonicalResultKey().
Passes(link) == link.site # "none" /\ (search.plan.filtered => link.site \in Matching)
Key(link) == <<link.site, link.page>>

UpTo(s, n) == SubSeq(s, 1, IF Len(s) < n THEN Len(s) ELSE n)

\* The first element of each key.
Firsts(s, K(_)) ==
    LET index == SelectSeq([i \in DOMAIN s |-> i], LAMBDA i : \A j \in 1..(i - 1) : K(s[j]) # K(s[i]))
    IN  [n \in DOMAIN index |-> s[index[n]]]

\* normalizeResults()
Normalized(links) == UpTo(Firsts(SelectSeq(links, Passes), Key), MaxResults)

\* The rest of the loop body: no usable result leaves it to the next backend; an
\* answer without sources will do unless domains were asked for.  `heard` is history.
Concluded(links, answered, stream) ==
    LET results == Normalized(links) IN
    IF results = <<>> /\ (~answered \/ search.plan.filtered)
    THEN Attempted("empty")
    ELSE /\ search' = [search EXCEPT !.attempts = Append(@, "success"), !.phase = "found",
                                     !.results = results, !.answered = answered, !.heard = stream]
         /\ call' = NoCall

Has(links, link) == \E i \in DOMAIN links : links[i] = link
Without(links, gone) == SelectSeq(links, LAMBDA l : ~Has(gone, l))

\* pushResult(), pushCitation(), prioritizeAnswerLinks().
PushResult(links, link) == IF Has(links, link) THEN links ELSE Append(links, link)

PushCitation(links, link) == <<link>> \o Without(links, <<link>>)

Prioritized(cited, links) ==
    LET once == Firsts(cited, LAMBDA l : l) IN once \o Without(links, once)

\* The events of a stream, in order: sources are collected, citations move to the
\* front; links in the text of the answer come first of all.
Collected(stream) ==
    LET step(links, e) == CASE e.kind = "source"   -> PushResult(links, e.link)
                            [] e.kind = "citation" -> PushCitation(links, e.link)
                            [] OTHER               -> links
        text == SelectSeq(stream, LAMBDA e : e.kind = "text")
    IN  Prioritized([i \in DOMAIN text |-> text[i].link], FoldLeft(step, <<>>, stream))

\* A page of a search backend, or one it cannot be parsed as.
PlainResults(page) ==
    /\ Running("calling") /\ call.step = "body" /\ Backend # "native"
    /\ IF page = <<>> /\ Backend = "duckduckgo" THEN Caught("error")
       ELSE Concluded(IF Backend = "duckduckgo" THEN UpTo(SelectSeq(page, Passes), MaxResults) ELSE page,
                      FALSE, <<>>)
    /\ UNCHANGED searchAborted

ResponseRejected ==
    /\ Running("calling") /\ call.step = "body"
    /\ Caught("error")
    /\ UNCHANGED searchAborted

\* searchOpenAI() and searchAnthropic(): an error event rejects the stream.
StreamResults(stream) ==
    /\ Running("calling") /\ call.step = "body" /\ Backend = "native"
    /\ IF \E i \in DOMAIN stream : stream[i].kind = "error" THEN Caught("error")
       ELSE Concluded(Collected(stream), \E i \in DOMAIN stream : stream[i].kind = "text", stream)
    /\ UNCHANGED searchAborted

\* searchGoogle(): the grounding chunks are resolved one after the other.
GroundedResults(page, cited) ==
    /\ Running("calling") /\ call.step = "body" /\ Backend = "native"
    /\ search' = [search EXCEPT !.stage = "sources", !.left = page, !.cited = cited,
                                !.answered = cited # <<>>]
    /\ call' = NoCall
    /\ UNCHANGED searchAborted

\* resolveGoogleSourceUrl(): the redirector's own links are followed by HEAD.
NextSource ==
    /\ Running("sources") /\ call = NoCall
    /\ IF search.left = <<>> THEN Concluded(Prioritized(search.cited, search.links), search.answered, <<>>)
       ELSE IF Head(search.left).site # "redirector" THEN KeepSource
       ELSE call' = NewCall("redirector", "HEAD", FALSE) /\ UNCHANGED search
    /\ UNCHANGED searchAborted

SourceResolved ==
    /\ Running("sources") /\ call.step = "body"
    /\ search' = [search EXCEPT !.left = Tail(@),
                    !.links = Append(@, [Head(search.left) EXCEPT !.site = call.site])]
    /\ call' = NoCall
    /\ UNCHANGED searchAborted

AbortSearch ==
    /\ search.phase = "running" /\ ~searchAborted
    /\ searchAborted' = TRUE
    /\ UNCHANGED <<search, call>>

SearchStep ==
    \/ NextProvider \/ NativeUnauthorized \/ AskPolicy \/ SendRequest \/ FetchFails \/ HttpResponds
    \/ \E status \in {301, 302, 303, 307, 308}, site \in Sites \cup {"none"} : Redirect(status, site)
    \/ ResponseRejected \/ NextSource \/ SourceResolved
    \/ \E page \in Pages : PlainResults(page) \/ \E cited \in Pages : GroundedResults(page, cited)
    \/ \E stream \in Streams : StreamResults(stream)

SearchNext == SearchStep \/ AbortSearch \/ \E plan \in Plans : StartSearch(plan)

\* The loop goes on, policy questions are answered and a request that is not
\* answered times out.
Unaided == NextProvider \/ NextSource \/ AskPolicy \/ SendRequest \/ FetchFails
SearchFairness == WF_searchVars(Unaided)

-----------------------------------------------------------------------------
\* Through any chain of redirects: a request that is on its way is the one the
\* policy allowed, with that method; it carries credentials only while no other
\* origin was visited, even when a later redirect leads back; it has a body only
\* as a POST; and nothing is on its way after a denial or the end of the search.
RequestsAllowed ==
    call.step \in {"sent", "body"} =>
        /\ search.phase = "running"
        /\ call.asked = <<call.site, call.method>>
        /\ call.secret => ~call.strayed
        /\ call.body => call.method = "POST"

\* The results reported pass the domain filters, redirected sources included,
\* name no page twice and stay within the limit; links of the answer and
\* citations are only cut off when nothing but those is reported; and every
\* backend before the one that answered was tried in vain.
ResultsRanked ==
    search.phase = "found" =>
        /\ \A i \in DOMAIN search.results : Passes(search.results[i])
        /\ Cardinality({Key(search.results[i]) : i \in DOMAIN search.results}) = Len(search.results)
        /\ Len(search.results) <= MaxResults
        /\ \A i \in DOMAIN search.attempts : search.attempts[i] = "success" <=> i = Len(search.attempts)
        /\ LET cited == {Key(search.heard[i].link) : i \in {j \in DOMAIN search.heard :
                            search.heard[j].kind \in {"citation", "text"} /\ Passes(search.heard[j].link)}}
               shown == {Key(search.results[i]) : i \in DOMAIN search.results}
           IN  search.heard # <<>> => shown \subseteq cited \/ cited \subseteq shown

\* Every search ends, with results, a denial, an abort or after the last backend.
SearchEnds == search.phase = "running" ~> search.phase # "running"

\* A search asks only what it may and reports only what it should.
SearchSound == RequestsAllowed /\ ResultsRanked
=============================================================================
