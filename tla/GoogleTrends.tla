----------------------------- MODULE GoogleTrends -----------------------------
(***************************************************************************)
(* The Google Trends router: ten endpoints over trendspy calls that run in *)
(* a thread, told apart by how they fail.                                  *)
(***************************************************************************)
EXTENDS CachedFetch

Series   == {"interest_over_time", "interest_by_region"}
Related  == {"related_queries", "related_topics"}
Trending == {"trending_now", "trending_now_by_rss"}
TrendsOps == Series \cup Related \cup Trending
             \cup {"news_by_ids", "showcase", "categories", "geo", "geo_all"}

TrendsQuestion(op) == {Question(op, c, Plain) : c \in Choices}

\* The two endpoints that take a list of keywords refuse one of blanks.
AskSeries(r) ==
  \/ \E op \in Series : \E q \in TrendsQuestion(op) : Ask(r, "lookup", q)
  \/ \E q \in TrendsQuestion("interest_over_time") : Refuse(r, 400, q)

AskRelated(r) == \E op \in Related : \E q \in TrendsQuestion(op) : Ask(r, "lookup", q)

AskTrending(r) == \E op \in Trending : \E q \in TrendsQuestion(op) : Ask(r, "lookup", q)

\* parse_news_tokens: the tokens are normalised before they become the key, or
\* are not of Google's shape, none, or more than 50.
ParseNewsTokens == {"tokens", "InvalidNewsTokens"}

AskNewsByIds(r) ==
  \E parsed \in ParseNewsTokens : \E q \in TrendsQuestion("news_by_ids") :
    IF parsed = "tokens" THEN Ask(r, "lookup", q) ELSE Refuse(r, 400, q)

AskShowcase(r) ==
  \E q \in TrendsQuestion("showcase") : Ask(r, "lookup", q) \/ Refuse(r, 400, q)

AskCategories(r) == \E q \in TrendsQuestion("categories") : Ask(r, "lookup", q)

AskGeo(r) == \E q \in TrendsQuestion("geo") : Ask(r, "lookup", q)

---------------------------------------------------------------------------
\* What a trendspy call ends in: rows or none, rows of a kind no JSON is made of, an
\* HTTP error, its own quota error, or a failure with no response behind it.
TrendspyEnds(op) ==
  {"rows", "nothing", "unencodable", "http429", "http400", "error"}
  \cup (IF op \in Related THEN {"quota"} ELSE {})

\* The news RPC is called here: Google refuses tokens with a null payload, and what
\* is not an envelope, a payload or an article of the known shape is unusable.
FetchTrendingNews ==
  [rows |-> "rows", nothing |-> "nothing", unencodable |-> "unencodable", http429 |-> "http429",
   http400 |-> "http400", error |-> "error", nullPayload |-> "rejected",
   noEnvelope |-> "unavailable", oddPayload |-> "unavailable", oddArticle |-> "unavailable"]

CallEnds(op) == IF op = "news_by_ids" THEN DOMAIN FetchTrendingNews ELSE TrendspyEnds(op)

\* classify_trends_failure
ClassifyTrendsFailure(end) ==
  CASE end \in {"quota", "http429"} -> "limited"
    [] end = "http400" -> "rejected"
    [] OTHER -> "unavailable"

\* A slip: a failed call counts as a call without data.
RunTrendsCallSwallowing(op, end) ==
  LET made == IF op = "news_by_ids" THEN FetchTrendingNews[end] ELSE end IN
  IF made \in {"rows", "unencodable", "rejected", "unavailable"} THEN made ELSE "nothing"

\* run_trends_call: a result, even an empty one, is returned as it is; a failure
\* that a helper classified passes, any other is classified.
RunTrendsCall(op, end) ==
  LET made == IF op = "news_by_ids" THEN FetchTrendingNews[end] ELSE end IN
  IF made \in {"rows", "nothing", "unencodable", "rejected", "unavailable"} THEN made
  ELSE ClassifyTrendsFailure(made)

\* is_empty_result comes first, encode_trends_payload after it.
EncodeTrendsPayload(result) == IF result = "unencodable" THEN "unavailable" ELSE result

\* UpstreamUnavailable becomes a 502 outside the cache, rate limiting is a 429.
TrendsFailure(q, says) ==
  IF says = "limited" THEN Reply(q, 429, says, "limited") ELSE Reply(q, 502, says, "failed")

\* (history) how much the upstream gave
TrendsHeard(end) ==
  CASE end = "rows" -> "full"
    [] end = "nothing" -> "nothing"
    [] end = "oddTree" -> "odd"
    [] end \in {"quota", "http429"} -> "limited"
    [] OTHER -> "failed"

FetchTrends(r) ==
  /\ inquiry[r].at = "fetch" /\ Asked(r).op \in TrendsOps \ {"geo"}
  /\ \E end \in CallEnds(Asked(r).op) :
       LET says == EncodeTrendsPayload(RunTrendsCall(Asked(r).op, end)) IN
       IF says \in {"rows", "nothing"}
       THEN Returned(r, Reply(Asked(r), 200, says, TrendsHeard(end)))
       ELSE Raised(r, TrendsFailure(Asked(r), says))
  /\ UNCHANGED kept

---------------------------------------------------------------------------
\* get_geo: the tree as a whole is an entry of its own, the answer to every search
\* is made from it and kept beside it.
WholeTree == Question("geo_all", CHOOSE c \in Choices : TRUE, Plain)

GeoLookup(r) ==
  /\ inquiry[r].at = "fetch" /\ Asked(r).op = "geo"
  /\ IF KeyOf(WholeTree) \in DOMAIN kept
     THEN inquiry' = [inquiry EXCEPT ![r] =
            [at |-> "geoFilter", q |-> @.q, answer |-> kept[KeyOf(WholeTree)]]]
     ELSE Turn(r, "geoFetch")
  /\ UNCHANGED kept

\* flatten_geo_tree finds no location in a tree of a shape it does not know.
FlattenGeoTree(end) == IF end = "oddTree" THEN "nothing" ELSE end

GeoFetch(r) ==
  /\ inquiry[r].at = "geoFetch"
  /\ \E end \in {"rows", "oddTree", "http429", "http400", "error"} :
       LET says == RunTrendsCall("geo", FlattenGeoTree(end)) IN
       IF says \in {"rows", "nothing"}
       THEN inquiry' = [inquiry EXCEPT ![r] = [at |-> "geoStore", q |-> @.q,
              answer |-> Reply(WholeTree, 200, says, TrendsHeard(end))]]
       ELSE Raised(r, TrendsFailure(Asked(r), says))
  /\ UNCHANGED kept

GeoStore(r) ==
  /\ inquiry[r].at = "geoStore"
  /\ Keep(KeyOf(WholeTree), inquiry[r].answer)
  /\ Turn(r, "geoFilter")

\* A search may match no location.
GeoFilter(r) ==
  /\ inquiry[r].at = "geoFilter"
  /\ \E says \in {inquiry[r].answer.says, "nothing"} :
       Returned(r, Reply(Asked(r), 200, says, inquiry[r].answer.heard))
  /\ UNCHANGED kept

TrendsAsk(r) == \/ AskSeries(r) \/ AskRelated(r) \/ AskTrending(r) \/ AskNewsByIds(r)
                \/ AskShowcase(r) \/ AskCategories(r) \/ AskGeo(r)
TrendsStep(r) == FetchTrends(r) \/ GeoLookup(r) \/ GeoFetch(r) \/ GeoStore(r) \/ GeoFilter(r)
=============================================================================
