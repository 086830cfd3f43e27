------------------------------ MODULE GoogleNews ------------------------------
(***************************************************************************)
(* The Google News router.  Six endpoints list articles, each of whose     *)
(* links may have to be decoded, concurrently; one reads an article that   *)
(* is fetched redirect by redirect and summarised where nltk and its       *)
(* corpus are there.                                                       *)
(***************************************************************************)
EXTENDS CachedFetch

CONSTANTS
  MaxArticles,   \* bound: articles gnews lists
  MaxRedirects   \* ARTICLE_MAX_REDIRECTS

ASSUME NewsAssumption == MaxArticles \in Nat \ {0} /\ MaxRedirects \in Nat

VARIABLE corpus  \* nltk and its corpus: see Corpora

\* No nltk; setup_nltk not run yet; run, and the corpus found or not.
Corpora == {"noNltk", "notSetUp", "missing", "found"}
NewsInit == corpus \in {"noNltk", "notSetUp"}

ListOps == {"source", "search", "top", "topic", "location", "articles"}
NewsOps == ListOps \cup {"article_details"}
NewsQuestion(op) == {Question(op, c, Plain) : c \in Choices}

\* A source is a domain or an URL; it is normalised to its domain.
AskSource(r) ==
  \E q \in NewsQuestion("source") : Ask(r, "lookup", q) \/ Refuse(r, 400, q)

AskNewsSearch(r) == \E q \in NewsQuestion("search") : Ask(r, "lookup", q)

AskTop(r) == \E q \in NewsQuestion("top") : Ask(r, "lookup", q)

\* A topic is one of the catalogue's.
AskTopic(r) ==
  \E q \in NewsQuestion("topic") : Ask(r, "lookup", q) \/ Refuse(r, 400, q)

AskLocation(r) == \E q \in NewsQuestion("location") : Ask(r, "lookup", q)

AskArticles(r) == \E q \in NewsQuestion("articles") : Ask(r, "lookup", q)

---------------------------------------------------------------------------
Listing(r, n) ==
  inquiry' = [inquiry EXCEPT ![r] = [at |-> "decode", q |-> @.q, left |-> n, good |-> 0,
                                     failed |-> 0, filtered |-> 0]]

\* run_gnews_call: a 429 of Google's is told as one, any other exception is the
\* handler's 500; no article at all is a 404.
RunGnewsCall(r) ==
  /\ inquiry[r].at = "fetch" /\ Asked(r).op \in ListOps
  /\ \/ Raised(r, Reply(Asked(r), 429, "limited", "limited"))
     \/ Raised(r, Reply(Asked(r), 500, "error", "failed"))
     \/ Raised(r, Reply(Asked(r), 404, "nothing", "nothing"))
     \/ \E n \in 1 .. MaxArticles : Listing(r, n)
  /\ UNCHANGED <<kept, corpus>>

\* A link: none, the publisher's, Google's, or Google's of a form unknown.
Links == {"none", "publisher", "redirect", "oddRedirect"}

\* get_decoding_params and decode_url: two requests to Google, each of which may be
\* refused, not get through, or bring a page or a payload of another form.
Pages == {"params", "noElement", "error"}
Payloads == {"url", "unparsed", "error"}

\* decode_google_news_url
DecodeNewsUrl(link, page, payload) ==
  IF link = "redirect" /\ page = "params" /\ payload = "url" THEN "decoded" ELSE "failed"

\* decode_single_article; only /source/ filters by domain.
FateOf(op, link, page, payload, domain) ==
  CASE link = "none" -> "failed"
    [] link \in {"redirect", "oddRedirect"} /\ DecodeNewsUrl(link, page, payload) = "failed" -> "failed"
    [] OTHER -> IF op = "source" /\ domain = "other" THEN "filtered" ELSE "good"

\* decode_and_process_articles: every article has an outcome, and they are counted.
DecodeArticle(r) ==
  /\ inquiry[r].at = "decode" /\ inquiry[r].left > 0
  /\ \E link \in Links, page \in Pages, payload \in Payloads, domain \in {"asked", "other"} :
       LET fate == FateOf(Asked(r).op, link, page, payload, domain) IN
       inquiry' = [inquiry EXCEPT ![r][fate] = @ + 1, ![r].left = @ - 1]
  /\ UNCHANGED <<kept, corpus>>

\* build_news_response
BuildNewsResponse(q, good, failed) ==
  CASE good = 0 /\ failed > 0 -> Reply(q, 502, "unresolved", "failed")
    [] good = 0 /\ failed = 0 -> Reply(q, 404, "nothing", "nothing")
    [] good > 0 /\ failed > 0 -> Reply(q, 200, "partial", "some")
    [] OTHER -> Reply(q, 200, "articles", "full")

\* A slip: every result that is returned is worth keeping.
IsCacheableAlways(answer) == answer.status = 200

\* is_cacheable: no partial list, no article whose summary may come yet.
IsCacheable(answer) == answer.status = 200 /\ answer.says \notin {"partial", "noCorpus"}

\* get_cached_or_fetch of the News service
Concludes(r, answer) ==
  IF IsCacheable(answer) THEN Returned(r, answer) ELSE Raised(r, answer)

RespondNews(r) ==
  /\ inquiry[r].at = "decode" /\ inquiry[r].left = 0
  /\ Concludes(r, BuildNewsResponse(Asked(r), inquiry[r].good, inquiry[r].failed))
  /\ UNCHANGED <<kept, corpus>>

---------------------------------------------------------------------------
\* /article-details/: an URL that is not allowed is refused before anything else.
AskDetails(r) ==
  \E q \in NewsQuestion("article_details") : Ask(r, "lookup", q) \/ Refuse(r, 400, q)

\* ensure_nltk_setup: the first request starts the one set-up of the worker, every
\* other waits for it; it ends with or without the corpus.
EnsureNltk(r) ==
  /\ inquiry[r].at = "fetch" /\ Asked(r).op = "article_details"
  /\ corpus' \in IF corpus = "notSetUp" THEN {"missing", "found"} ELSE {corpus}
  /\ inquiry' = [inquiry EXCEPT ![r] = [at |-> "page", q |-> @.q, hops |-> 0]]
  /\ UNCHANGED kept

Unread(r) == Raised(r, Reply(Asked(r), 502, "unread", "failed"))

\* fetch_allow_listed_html: every hop is validated like the URL asked for, and one
\* too many, an error, or a body too large ends in the same 502.
FetchHtml(r) ==
  /\ inquiry[r].at = "page"
  /\ \/ inquiry[r].hops < MaxRedirects + 1 /\ inquiry' = [inquiry EXCEPT ![r].hops = @ + 1]
     \/ inquiry[r].hops < MaxRedirects + 1 /\ Turn(r, "parse")
     \/ Unread(r)
  /\ UNCHANGED <<kept, corpus>>

\* What is said of an article: nltk missing is a steady state and kept, a corpus
\* missing is not.
Summary == [found |-> "summary", noNltk |-> "noNltk", missing |-> "noCorpus"]

ParseArticle(r) ==
  /\ inquiry[r].at = "parse"
  /\ \/ Unread(r)
     \/ Concludes(r, Reply(Asked(r), 200, Summary[corpus],
                           IF corpus = "missing" THEN "some" ELSE "full"))
  /\ UNCHANGED <<kept, corpus>>

NewsAsk(r) == \/ AskSource(r) \/ AskNewsSearch(r) \/ AskTop(r) \/ AskTopic(r)
              \/ AskLocation(r) \/ AskArticles(r) \/ AskDetails(r)
NewsStep(r) == \/ RunGnewsCall(r) \/ DecodeArticle(r) \/ RespondNews(r)
               \/ EnsureNltk(r) \/ FetchHtml(r) \/ ParseArticle(r)
=============================================================================
