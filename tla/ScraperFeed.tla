------------------------------ MODULE ScraperFeed ------------------------------
(***************************************************************************)
(* One GoogleMapsScraper.search: which of three extraction paths it takes, *)
(* what it counts on the way, and how the counts decide between places, an *)
(* empty area and a page it can no longer read.                            *)
(*                                                                         *)
(* The page is live: every count of its cards or links may differ from the *)
(* one before.  The browser the page is in is BrowserPool's.               *)
(***************************************************************************)
EXTENDS Naturals, Sequences, FiniteSets

CONSTANTS
  Names,       \* the aria-labels of cards and links
  NoName,      \* a card with no link, or a link with no label
  MaxResults,  \* max_results
  MaxCards,    \* bound: cards or links on the page at once
  MaxScrolls   \* max_scrolls: max(5, max_results // 4) in the code

ASSUME FeedAssumption ==
  /\ MaxResults \in Nat \ {0} /\ MaxCards \in Nat /\ MaxScrolls \in Nat \ {0}
  /\ NoName \notin Names

VARIABLES
  path,     \* where the search is
  loaded,   \* results_loaded: a results selector matched in time
  counts,   \* _candidates, _attempted, _extracted, _partial
  unsure,   \* _unverified_empty
  seen,     \* seen_names
  results,  \* the places, with the fields read of each
  turn,     \* the card or link to open next, and how many were counted
  scrolls,  \* scroll_count
  spotted,  \* history: a card or a link was counted as a candidate
  glimpsed  \* history: link_count saw place links

feedVars == <<path, loaded, counts, unsure, seen, results, turn, scrolls, spotted, glimpsed>>

NoCounts == [candidates |-> 0, attempted |-> 0, extracted |-> 0, partial |-> 0]
NoTurn   == [next |-> 1, of |-> 0]

\* search() resets the bookkeeping of the scraper.
FeedInit ==
  /\ path = "load" /\ loaded = FALSE
  /\ counts = NoCounts /\ unsure = FALSE
  /\ seen = {} /\ results = <<>>
  /\ turn = NoTurn /\ scrolls = 0
  /\ spotted = FALSE /\ glimpsed = FALSE

AtLeast(n, m) == IF n < m THEN m ELSE n
AtMost(n, m)  == IF n > m THEN m ELSE n

---------------------------------------------------------------------------
(* One place.                                                              *)

\* What _extract_place_details may find: any field may be missing, or its
\* selector may raise, which _optional records.  CORE_PLACE_FIELDS are one here.
PlaceFields == SUBSET {"title", "core"}

\* _finalise_place: without the title PlaceExtractionError; without any core
\* field a partial record.
Extracts(fields) == "title" \in fields
IsPartial(fields) == "core" \notin fields

\* A place was opened and read, or not.
NotePlace(name, fields) ==
  /\ counts' = [counts EXCEPT
                  !.attempted = @ + 1,
                  !.extracted = IF Extracts(fields) THEN @ + 1 ELSE @,
                  !.partial = IF Extracts(fields) /\ IsPartial(fields) THEN @ + 1 ELSE @]
  /\ results' = IF Extracts(fields) THEN Append(results, [name |-> name, fields |-> fields])
                ELSE results

---------------------------------------------------------------------------
(* search().                                                               *)

\* The results selectors are waited for, one after the other.
LoadPage ==
  /\ path = "load"
  /\ loaded' \in BOOLEAN
  /\ path' = "choose"
  /\ UNCHANGED <<counts, unsure, seen, results, turn, scrolls, spotted, glimpsed>>

\* page.goto or a count raised: the search raises.
PageFails ==
  /\ path \in {"load", "choose", "links", "scan"}
  /\ path' = "error"
  /\ UNCHANGED <<loaded, counts, unsure, seen, results, turn, scrolls, spotted, glimpsed>>

\* feed_count, then link_count: what that one sees is no candidate yet.
ChoosePath ==
  /\ path = "choose"
  /\ path' \in {"scan", "links", "single"}
  /\ glimpsed' = (path' = "links")
  /\ UNCHANGED <<loaded, counts, unsure, seen, results, turn, scrolls, spotted>>

\* The page is a place's own.
ReadSingle ==
  /\ path = "single"
  /\ \E fields \in PlaceFields :
       LET extracted == Extracts(fields) IN
       /\ counts' = [candidates |-> 1, attempted |-> 1,
                     extracted |-> IF extracted THEN 1 ELSE 0,
                     partial |-> IF extracted /\ IsPartial(fields) THEN 1 ELSE 0]
       /\ results' = IF extracted THEN <<[name |-> NoName, fields |-> fields]>> ELSE <<>>
  /\ path' = "judge" /\ spotted' = TRUE
  /\ UNCHANGED <<loaded, unsure, seen, turn, scrolls, glimpsed>>

---------------------------------------------------------------------------
(* _extract_from_place_links and _extract_search_results.                  *)

\* The links are counted again, and that count is what the path goes by.
CountLinks ==
  /\ path = "links"
  /\ \E n \in 0 .. MaxCards :
       /\ counts' = [counts EXCEPT !.candidates = AtLeast(@, AtMost(n, MaxResults))]
       /\ turn' = [next |-> 1, of |-> AtMost(n, MaxResults)]
       /\ spotted' = (spotted \/ n > 0)
  /\ path' = "open_links"
  /\ UNCHANGED <<loaded, unsure, seen, results, scrolls, glimpsed>>

\* One pass of the while loop: count the cards; with none and no result yet,
\* place links tell a stale card selector from an emptiness nobody can verify.
ScanFeed ==
  /\ path = "scan"
  /\ IF Len(results) < MaxResults /\ scrolls < MaxScrolls
     THEN \E cards \in 0 .. MaxCards, stray \in BOOLEAN :
            /\ spotted' = (spotted \/ cards > 0)
            /\ IF cards = 0 /\ results = <<>>
               THEN /\ path' = IF stray THEN "stale" ELSE "judge"
                    /\ unsure' = (unsure \/ ~stray)
                    /\ UNCHANGED <<counts, turn>>
               ELSE /\ counts' = [counts EXCEPT !.candidates = AtLeast(@, cards)]
                    /\ turn' = [next |-> 1, of |-> cards]
                    /\ path' = "open_cards"
                    /\ UNCHANGED unsure
     ELSE path' = "judge" /\ UNCHANGED <<counts, unsure, turn, spotted>>
  /\ UNCHANGED <<loaded, seen, results, scrolls, glimpsed>>

Opening ==
  /\ path \in {"open_links", "open_cards"} /\ turn.next <= turn.of
  /\ path = "open_cards" => Len(results) < MaxResults

NextTurn == turn' = [turn EXCEPT !.next = @ + 1]

\* No label, one already seen, or the locator raised before it was read.
SkipCard ==
  /\ Opening
  /\ NextTurn
  /\ UNCHANGED <<path, loaded, counts, unsure, seen, results, scrolls, spotted, glimpsed>>

\* The click raised: the name stays seen.
FailCard ==
  /\ Opening
  /\ \E name \in Names \ seen : seen' = seen \cup {name}
  /\ NextTurn
  /\ UNCHANGED <<path, loaded, counts, unsure, results, scrolls, spotted, glimpsed>>

\* The place is opened and extracted; going back may raise, too late to matter.
OpenCard ==
  /\ Opening
  /\ \E name \in Names \ seen, fields \in PlaceFields :
       /\ seen' = seen \cup {name}
       /\ NotePlace(name, fields)
  /\ NextTurn
  /\ UNCHANGED <<path, loaded, unsure, scrolls, spotted, glimpsed>>

EndLinks ==
  /\ path = "open_links" /\ ~Opening
  /\ path' = "judge"
  /\ UNCHANGED <<loaded, counts, unsure, seen, results, turn, scrolls, spotted, glimpsed>>

\* A failing scroll means no more results to load.
ScrollFeed ==
  /\ path = "open_cards" /\ ~Opening
  /\ scrolls' = scrolls + 1
  /\ path' \in {"scan", "judge"}
  /\ UNCHANGED <<loaded, counts, unsure, seen, results, turn, spotted, glimpsed>>

---------------------------------------------------------------------------
(* _assert_selectors_fresh.                                                *)

\* A slip the code warns of: a card that was never opened is no evidence.
StaleByAttempts ==
  \/ ~loaded /\ counts.extracted = 0
  \/ counts.attempted > 0 /\ counts.extracted = 0
  \/ counts.extracted > 0 /\ counts.partial = counts.extracted

SelectorsStale ==
  \/ ~loaded /\ counts.extracted = 0
  \/ counts.candidates > 0 /\ counts.extracted = 0
  \/ counts.extracted > 0 /\ counts.partial = counts.extracted

Judge ==
  /\ path = "judge"
  /\ path' = IF SelectorsStale THEN "stale" ELSE "returned"
  /\ UNCHANGED <<loaded, counts, unsure, seen, results, turn, scrolls, spotted, glimpsed>>

FeedStep ==
  \/ LoadPage \/ ChoosePath \/ ReadSingle \/ CountLinks \/ ScanFeed
  \/ SkipCard \/ FailCard \/ OpenCard \/ EndLinks \/ ScrollFeed \/ Judge

FeedNext == FeedStep \/ PageFails

\* Every page operation ends or times out, so the search's own task runs on.
FeedSpec == FeedInit /\ [][FeedNext]_feedVars /\ WF_feedVars(FeedStep)

---------------------------------------------------------------------------
(* Properties.                                                             *)

FeedTypeOK ==
  /\ path \in {"load", "choose", "single", "links", "open_links", "scan", "open_cards",
               "judge", "returned", "stale", "error"}
  /\ counts \in [candidates : Nat, attempted : Nat, extracted : Nat, partial : Nat]
  /\ loaded \in BOOLEAN /\ unsure \in BOOLEAN /\ spotted \in BOOLEAN /\ glimpsed \in BOOLEAN
  /\ seen \subseteq Names /\ scrolls \in 0 .. MaxScrolls
  /\ turn.next \in 1 .. turn.of + 1

\* _assert_selectors_fresh: a search that counted a card or a link and read none of
\* them raises.  It returns [] only if a results container was there, no candidate
\* was ever counted, and either the emptiness is marked as unverified or the links
\* that link_count saw were gone when they were counted again.  It returns places
\* only if one at least has more than its title, none twice, and no more than it
\* was asked for.
ReturnedMeansRead ==
  path = "returned" =>
    IF results = <<>>
    THEN loaded /\ ~spotted /\ (unsure \/ glimpsed)
    ELSE /\ Len(results) <= MaxResults
         /\ \E i \in DOMAIN results : "core" \in results[i].fields
         /\ \A i, j \in DOMAIN results : results[i].name = results[j].name => i = j

\* scraper.py:403: "Every link is a candidate; extracting none of them is a
\* stale-selector signal, not an empty result": an empty list without its mark comes
\* of a page on which no place link was seen.
SightedIsNotZero ==
  path = "returned" /\ results = <<>> /\ ~unsure => ~spotted /\ ~glimpsed

\* A page whose feed never stops growing, shrinking or hiding its cards does not
\* keep the search, and its browser, for ever.
SearchEnds == <>(path \in {"returned", "stale", "error"})
================================================================================
