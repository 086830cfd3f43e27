----------------------------- MODULE UpstreamFeeds -----------------------------
(***************************************************************************)
(* The three routers over one cache: concurrent requests, of which two may *)
(* ask the same, and what may be kept for those that come after them.      *)
(* The routers' keys are disjoint, so a behaviour is about one of them.    *)
(***************************************************************************)
EXTENDS GoogleTrends, GoogleNews, Autocomplete

VARIABLE router  \* whose requests these are

feedsVars == <<inquiry, kept, corpus, router>>

FeedsInit == FetchInit /\ NewsInit /\ router \in {"trends", "news", "autocomplete"}

Feeds ==
  \/ \E r \in Inquirers :
       \/ Lookup(r) /\ UNCHANGED corpus
       \/ Store(r) /\ UNCHANGED corpus
       \/ router = "trends" /\ (TrendsAsk(r) \/ TrendsStep(r)) /\ UNCHANGED corpus
       \/ router = "news" /\ NewsAsk(r) /\ UNCHANGED corpus
       \/ router = "news" /\ NewsStep(r)
       \/ router = "autocomplete" /\ (AskSuggestions(r) \/ AutocompleteStep(r)) /\ UNCHANGED corpus
  \/ Expire /\ UNCHANGED corpus

FeedsNext == Feeds /\ UNCHANGED router

FeedsSpec == FeedsInit /\ [][FeedsNext]_feedsVars

Operations == TrendsOps \cup NewsOps \cup Formats \cup {"variations"}
Questions == [op : Operations, choice : Choices, extra : Extras]
Replies == [status : {200, 400, 404, 422, 429, 500, 502}, of : Questions, heard : Heard,
            says : {"rows", "nothing", "articles", "partial", "summary", "noNltk", "noCorpus",
                    "suggestions", "raw", "unparseable_jsonp", "keywords", "invalid", "limited",
                    "rejected", "unavailable", "error", "unresolved", "unread"}]

FeedsTypeOK ==
  /\ corpus \in Corpora
  /\ \A k \in DOMAIN kept : kept[k] \in Replies /\ k = KeyOf(kept[k].of)
  /\ \A r \in Inquirers :
       LET i == inquiry[r] IN
       /\ i.at # "new" => i.q \in Questions
       /\ i.at \in {"store", "geoStore", "geoFilter", "told"} => i.answer \in Replies
       /\ i.at = "decode" => i.left + i.good + i.failed + i.filtered \in 1 .. MaxArticles
       /\ i.at = "page" => i.hops \in 0 .. MaxRedirects + 1
       /\ i.at = "vary" => i.left + i.lost \in 0 .. Variations

\* The questions whose answer is made of what the upstream sent though its shape is
\* unknown: the locations, of which there are none then, and the suggestions.
TakenAsSent == {"geo", "geo_all"} \cup Formats

\* "Caching a failure as if it were a result is how one upstream blip becomes an
\* hour of wrong answers" (google_news_service.py:131-134, and google_trends_api.py:
\* 165-179): whatever two requests for the same do, and whichever of them is done
\* last, no entry is of a failed call, of a rate limit or of a part of what there
\* was.  An upstream answer of a shape unknown is kept by TakenAsSent, and by no other.
LossIsNotKept ==
  \A k \in DOMAIN kept :
    /\ kept[k].status = 200 /\ kept[k].heard \in {"full", "nothing", "odd"}
    /\ kept[k].heard = "odd" => kept[k].of.op \in TakenAsSent

\* A caller of Trends, News or the suggestions of one query can tell from the answer
\* what became of the question, also when it was fetched for someone else
\* (run_trends_call, build_news_response): 429 is a rate limit, 5xx a failed call or
\* an answer that could not be read, and a list that lost some of its articles says
\* so; "nothing" is the upstream's own word, but for a search among the locations,
\* and a shape unknown is hidden by TakenAsSent only.  The variations of a query are
\* a 200 whatever became of them (docs/TROUBLESHOOTING.md:234-235 says it of the 429).
AnswerTellsTheCause ==
  \A r \in Inquirers : inquiry[r].at = "told" =>
    LET a == inquiry[r].answer IN a.of.op # "variations" =>
    /\ (a.status = 429) <=> (a.heard = "limited")
    /\ (a.status >= 500) <=> (a.heard = "failed")
    /\ (a.says \in {"partial", "noCorpus"}) <=> (a.heard = "some")
    /\ a.says = "nothing" /\ a.of.op \notin {"geo", "geo_all"} => a.heard = "nothing"
    /\ a.heard = "odd" => a.of.op \in TakenAsSent

\* google_autocomplete_api.py:550-553, where neither parser could read the answer:
\* "Returning it as a 200 with a raw_response field made an upstream format change
\* look like a successful call to every client."
UnreadableIsNotASuccess ==
  \A r \in Inquirers :
    inquiry[r].at = "told" /\ inquiry[r].answer.says = "unparseable_jsonp" =>
      inquiry[r].answer.status # 200

\* docs/GOOGLE_SERVICES.md:41, "Identical requests within the TTL are served from
\* cache": the answer out of the cache is to the question asked.
CachedAnswersTheQuestion ==
  \A r \in Inquirers :
    inquiry[r].at = "told" => inquiry[r].answer.of = inquiry[r].q
=============================================================================
