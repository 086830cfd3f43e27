----------------------------- MODULE Autocomplete -----------------------------
(***************************************************************************)
(* The autocomplete router: one endpoint, which gives the suggestions of   *)
(* one query, or of every variation of it, in batches of parallel queries. *)
(***************************************************************************)
EXTENDS CachedFetch

CONSTANTS
  Variations,   \* queries a keyword is varied into
  MaxParallel   \* AUTOCOMPLETE_MAX_PARALLEL_REQUESTS

ASSUME AutocompleteAssumption == Variations \in Nat \ {0} /\ MaxParallel \in Nat \ {0}

\* The formats a caller asks for: a client's JSON, XML, XML together with a client,
\* and in a callback, with a client or as XML alone.
Formats == {"json", "xml", "clientXml", "jsonp", "xmlp"}
Xml     == {"xml", "clientXml", "xmlp"}

\* The key carries the query and sixteen parameters; lr, safe, nfpr, filter, ie, oe,
\* pws, authuser, oq, sclient, aqs and xssi are sent on, but not in it.
SuggestQuestions == {Question(f, c, e) : f \in Formats, c \in Choices, e \in Extras}

\* A blank query is refused; with variations the cache is not asked.
AskSuggestions(r) ==
  \/ \E q \in SuggestQuestions : Ask(r, "lookup", q) \/ Refuse(r, 422, q)
  \/ /\ inquiry[r].at = "new"
     /\ inquiry' = [inquiry EXCEPT ![r] = [at |-> "vary", left |-> Variations, lost |-> 0,
                      q |-> Question("variations", CHOOSE c \in Choices : TRUE, Plain)]]
     /\ UNCHANGED kept

---------------------------------------------------------------------------
\* The text of a 200: a list of suggestions or other JSON, a call around a list, around
\* one too short, around other JSON or around none, a document with suggestions or with
\* none, and what is no document and no JSON.
Texts == {"list", "oddJson", "call", "shortCall", "oddCall", "noCall", "xml", "oddXml", "neither"}

\* Other JSON is handed on in raw_response, and so is, in a callback, what is not JSON;
\* a document is parsed where XML was asked for; the rest is an error.
ParseSuggestions(format, text) ==
  CASE text \in {"list", "call", "shortCall"} -> "suggestions"
    [] text = "oddJson" -> "raw"
    [] text = "noCall" /\ format \in {"jsonp", "xmlp"} -> "unparseable_jsonp"
    [] text \in {"xml", "oddXml"} /\ format \in Xml -> "suggestions"
    [] text \in {"xml", "oddXml", "neither"} /\ format = "jsonp" -> "unparseable_jsonp"
    [] OTHER -> "unparsed"

\* (history) a list too short and a document of another kind read as no suggestions.
SuggestionsHeard(text) == IF text \in {"list", "call", "xml"} THEN "full" ELSE "odd"

\* The handler's catch-all makes a 500 of every error but a rate limit, the 502 and
\* the upstream's own status that the fetcher raises among them.
FetchSuggestions(r) ==
  /\ inquiry[r].at = "fetch" /\ Asked(r).op \in Formats
  /\ \/ Raised(r, Reply(Asked(r), 429, "limited", "limited"))
     \/ Raised(r, Reply(Asked(r), 500, "error", "failed"))
     \/ \E text \in Texts :
          LET says == ParseSuggestions(Asked(r).op, text) IN
          IF says = "unparsed" THEN Raised(r, Reply(Asked(r), 500, "error", "failed"))
          ELSE Returned(r, Reply(Asked(r), 200, says, SuggestionsHeard(text)))
  /\ UNCHANGED kept

\* A slip: the last batch is as full as the others.
RunFullBatch(r) ==
  /\ inquiry[r].at = "vary" /\ inquiry[r].left > 0
  /\ \E lost \in 0 .. MaxParallel :
       inquiry' = [inquiry EXCEPT ![r].left = @ - MaxParallel, ![r].lost = @ + lost]
  /\ UNCHANGED kept

\* fetch_suggestions_async: a query that fails has no suggestions.  A batch ends when
\* every query of it did.
RunBatch(r) ==
  /\ inquiry[r].at = "vary" /\ inquiry[r].left > 0
  /\ LET batch == IF inquiry[r].left < MaxParallel THEN inquiry[r].left ELSE MaxParallel IN
     \E lost \in 0 .. batch :
       inquiry' = [inquiry EXCEPT ![r].left = @ - batch, ![r].lost = @ + lost]
  /\ UNCHANGED kept

\* However many failed, and be it of rate limits: "Success! Keywords Generated".
VariationsHeard(lost) ==
  CASE lost = 0 -> {"full"}
    [] lost \in 1 .. Variations - 1 -> {"some"}
    [] OTHER -> {"failed", "limited"}

AnswerVariations(r) ==
  /\ inquiry[r].at = "vary" /\ inquiry[r].left = 0
  /\ \E heard \in VariationsHeard(inquiry[r].lost) :
       Raised(r, Reply(Asked(r), 200, "keywords", heard))
  /\ UNCHANGED kept

AutocompleteStep(r) == FetchSuggestions(r) \/ RunBatch(r) \/ AnswerVariations(r)
=============================================================================
