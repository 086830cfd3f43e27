------------------------------ MODULE AreaSearch ------------------------------
(***************************************************************************)
(* One request that fans out over search_and_wait: nearby, grid,           *)
(* bounding-box and location searches, bulk search, competitor analysis,   *)
(* autocomplete and batch geocoding, from the request to its HTTP status.  *)
(*                                                                         *)
(* The searches run one after the other.  Each creates a scrape job, which *)
(* waits for a browser and goes on when the caller stops waiting for it.   *)
(* A job's own life is in ScrapeJobs, the browsers' in BrowserPool.        *)
(***************************************************************************)
EXTENDS MapsCommon, Sequences, FiniteSets

CONSTANTS
  Cids,      \* what the scraper reads places' identities from
  Browsers,  \* GOOGLE_MAPS_MAX_CONCURRENT_BROWSERS
  MinSide,   \* bound: the least grid side, 3 in the code
  MaxSide,   \* bound: the greatest, 11 in the code
  MaxItems,  \* bound: queries of a bulk search, addresses of a geocoding
  NoId       \* "the place has no place_id"

ASSUME AreaAssumption ==
  /\ IsFiniteSet(Cids)
  /\ Browsers \in Nat \ {0} /\ MaxItems \in Nat
  /\ MinSide \in Nat \ {0} /\ MaxSide \in Nat /\ MinSide <= MaxSide

Lists   == {"bulk", "geocode"}
Grids   == {"grid", "bounding"}
Singles == {"nearby", "competitors", "autocomplete"}
Kinds   == Lists \cup Grids \cup Singles \cup {"location"}

Most     == IF MaxItems > MaxSide * MaxSide THEN MaxItems ELSE MaxSide * MaxSide
Searches == 1 .. Most

\* What _extract_place_details makes of a place: a cid, and no place_id.
Places == [cid : Cids]

VARIABLES
  wanted,    \* the request: its kind, "none" before it comes, and its searches
  awaited,  \* the search awaited; 0 = none yet
  jobs,     \* the scrape job of each search
  came,     \* what each job came to, once it ended
  got,      \* history: whether each search was told of its job's end
  entries,  \* grid_data, or the results of a list
  merged,   \* all_results: the grid positions of each place_id
  failed,   \* failed_points, or the failed count of a list
  areaReply     \* the response

areaVars == <<wanted, awaited, jobs, came, got, entries, merged, failed, areaReply>>

NoReply == [status |-> 0, partial |-> FALSE, places |-> {}]
Nothing == [error |-> FALSE, code |-> 0, places |-> {}]
Error(code) == [error |-> TRUE, code |-> code, places |-> {}]

AreaInit ==
  /\ wanted = [kind |-> "none", searches |-> 0]
  /\ awaited = 0
  /\ jobs = [k \in Searches |-> "none"] /\ came = [k \in Searches |-> Nothing]
  /\ got = [k \in Searches |-> "none"]
  /\ entries = <<>> /\ merged = <<>> /\ failed = 0
  /\ areaReply = NoReply

---------------------------------------------------------------------------
(* The request.                                                            *)

\* grid_size = min(max(grid_size, 3), 11), and one point per row and column.
GridPoints(size) ==
  LET side == CASE size < MinSide -> MinSide
                [] size > MaxSide -> MaxSide
                [] OTHER          -> size
  IN side * side

SearchesOf(kind, size) ==
  CASE kind \in Grids   -> GridPoints(size)
    [] kind \in Lists   -> size
    [] kind \in Singles -> 1
    [] OTHER            -> 0

AreaAsk ==
  /\ wanted.kind = "none"
  /\ \E kind \in Kinds, size \in 1 .. (IF MaxItems > MaxSide THEN MaxItems ELSE MaxSide) :
       wanted' = [kind |-> kind, searches |-> SearchesOf(kind, size)]
  /\ UNCHANGED <<awaited, jobs, came, got, entries, merged, failed, areaReply>>

---------------------------------------------------------------------------
(* search_and_wait.                                                        *)

Awaiting == awaited # 0 /\ got[awaited] = "none"

\* create_search_job: the job's task is running and waits for a browser.
AreaSearchNext ==
  /\ wanted.kind # "none" /\ areaReply = NoReply /\ ~Awaiting
  /\ awaited < wanted.searches
  /\ awaited' = awaited + 1
  /\ jobs' = [jobs EXCEPT ![awaited + 1] = "queued"]
  /\ UNCHANGED <<wanted, came, got, entries, merged, failed, areaReply>>

\* A permit of the semaphore, first come first served.
JobLaunches(k) ==
  /\ jobs[k] = "queued" /\ \A i \in 1 .. k - 1 : jobs[i] # "queued"
  /\ Cardinality({i \in Searches : jobs[i] = "browsing"}) < Browsers
  /\ jobs' = [jobs EXCEPT ![k] = "browsing"]
  /\ UNCHANGED <<wanted, awaited, came, got, entries, merged, failed, areaReply>>

\* The job completes, fails, or is gone (404) when its results are read.
JobEnds(k) ==
  /\ jobs[k] = "browsing"
  /\ jobs' = [jobs EXCEPT ![k] = "ended"]
  /\ \E outcome \in {[Nothing EXCEPT !.places = ps] : ps \in SUBSET Places}
                      \cup {Error(0), Error(404)} :
       came' = [came EXCEPT ![k] = outcome]
  /\ UNCHANGED <<wanted, awaited, got, entries, merged, failed, areaReply>>

---------------------------------------------------------------------------
(* What the loops make of one search.                                      *)

\* place.get("place_id").
PlaceIdOf(place) == IF "place_id" \in DOMAIN place THEN place.place_id ELSE NoId

\* The first to see a place keeps it, the others add their grid position.
Merge(all, places, k) ==
  LET ids == {PlaceIdOf(p) : p \in places} \ {NoId} IN
  [id \in DOMAIN all \cup ids |->
     (IF id \in DOMAIN all THEN all[id] ELSE <<>>) \o (IF id \in ids THEN <<k>> ELSE <<>>)]

\* A geocoding also fails on an empty list.
Failing(outcome) == outcome.error \/ (wanted.kind = "geocode" /\ outcome.places = {})

\* One entry of grid_data or of results.
Entry(outcome, bad) ==
  [index |-> awaited, count |-> Cardinality(outcome.places), error |-> bad]

\* A slip, once real: a failing point leaves nothing but a count of 0.
NoteSilently(outcome) ==
  /\ entries' = Append(entries, Entry(outcome, FALSE))
  /\ failed' = failed
  /\ merged' = IF wanted.kind \in Grids THEN Merge(merged, outcome.places, awaited) ELSE merged

Note(outcome) ==
  /\ entries' = Append(entries, Entry(outcome, Failing(outcome)))
  /\ failed' = IF Failing(outcome) THEN failed + 1 ELSE failed
  /\ merged' = IF wanted.kind \in Grids THEN Merge(merged, outcome.places, awaited) ELSE merged

Take(outcome, told) ==
  /\ Note(outcome)
  /\ got' = [got EXCEPT ![awaited] = told]

AreaTakeResult ==
  /\ Awaiting /\ jobs[awaited] = "ended"
  /\ Take(came[awaited], IF came[awaited].error THEN "error" ELSE "places")
  /\ UNCHANGED <<wanted, awaited, jobs, came, areaReply>>

\* "Job did not complete within ... seconds"; the job goes on.
AreaTimeOut ==
  /\ Awaiting /\ jobs[awaited] # "ended"
  /\ Take(Error(0), "lost")
  /\ UNCHANGED <<wanted, awaited, jobs, came, areaReply>>

\* store.create raised: an error, and no job.
AreaCreateFails ==
  /\ Awaiting /\ jobs[awaited] = "queued"
  /\ jobs' = [jobs EXCEPT ![awaited] = "none"]
  /\ Take(Error(0), "lost")
  /\ UNCHANGED <<wanted, awaited, came, areaReply>>

\* A read of the job's status or results raised.
AreaReadFails ==
  /\ Awaiting
  /\ Take(Error(0), "lost")
  /\ UNCHANGED <<wanted, awaited, jobs, came, areaReply>>

---------------------------------------------------------------------------
(* The answers.                                                            *)

UpstreamError(code) == [NoReply EXCEPT !.status = PassedOn(code)]

Answered(places, partial) == [status |-> 200, partial |-> partial, places |-> places]

Over == wanted.kind # "none" /\ areaReply = NoReply /\ ~Awaiting /\ awaited = wanted.searches

\* Every point failing is an outage, not an empty neighbourhood.
GridOutcome ==
  IF failed = wanted.searches THEN UpstreamError(502)
  ELSE Answered(DOMAIN merged, failed > 0)

\* nearby_search, and those like it, pass an error on with its code.
SingleOutcome ==
  IF entries[1].error THEN UpstreamError(IF got[1] = "error" THEN came[1].code ELSE 0)
  ELSE Answered({p.cid : p \in came[1].places}, FALSE)

ReplyGrid ==
  /\ Over /\ wanted.kind \in Grids
  /\ areaReply' = GridOutcome
  /\ UNCHANGED <<wanted, awaited, jobs, came, got, entries, merged, failed>>

ReplySingle ==
  /\ Over /\ wanted.kind \in Singles
  /\ areaReply' = SingleOutcome
  /\ UNCHANGED <<wanted, awaited, jobs, came, got, entries, merged, failed>>

\* bulk_search and batch_geocode: each entry says how its own search went.
ReplyList ==
  /\ Over /\ wanted.kind \in Lists
  /\ areaReply' = Answered({}, failed > 0)
  /\ UNCHANGED <<wanted, awaited, jobs, came, got, entries, merged, failed>>

\* location_search calls self.geocode, which no class of the service defines:
\* the AttributeError becomes an error dict.
ReplyLocation ==
  /\ Over /\ wanted.kind = "location"
  /\ areaReply' = UpstreamError(0)
  /\ UNCHANGED <<wanted, awaited, jobs, came, got, entries, merged, failed>>

AreaReply == ReplyGrid \/ ReplySingle \/ ReplyList \/ ReplyLocation

AreaNext ==
  \/ AreaAsk \/ AreaSearchNext \/ AreaTakeResult \/ AreaTimeOut
  \/ AreaCreateFails \/ AreaReadFails \/ AreaReply
  \/ \E k \in Searches : JobLaunches(k) \/ JobEnds(k)

\* The request's own task runs on; a search has a timeout, a browser need not
\* ever answer.
AreaFairness ==
  /\ WF_areaVars(AreaSearchNext) /\ WF_areaVars(AreaTimeOut)
  /\ WF_areaVars(AreaTakeResult) /\ WF_areaVars(AreaReply)

AreaSpec == AreaInit /\ [][AreaNext]_areaVars /\ AreaFairness

---------------------------------------------------------------------------
(* Properties.                                                             *)

AreaTypeOK ==
  /\ wanted \in [kind : Kinds \cup {"none"}, searches : 0 .. Most]
  /\ awaited \in 0 .. Most /\ failed \in 0 .. Most
  /\ jobs \in [Searches -> {"none", "queued", "browsing", "ended"}]
  /\ got \in [Searches -> {"none", "places", "error", "lost"}]
  /\ entries \in Seq([index : Searches, count : Nat, error : BOOLEAN])
  /\ areaReply.status \in {0, 200, 400, 404, 500}

Unanswered == {k \in 1 .. wanted.searches : got[k] # "places"}

\* A total failure never looks like an area with nothing in it, and a partial
\* one says so: a grid is answered with 200 exactly when a point of it was, and
\* is partial exactly when a point was not; a single search is answered exactly
\* when it returned; and a list or a grid has, in order, one entry for each of
\* its searches, with the error or with the count of what was found.
FailuresAreTold ==
  areaReply # NoReply /\ wanted.kind # "location" =>
    /\ wanted.kind \in Grids =>
         /\ areaReply.status = 200 <=> Unanswered # 1 .. wanted.searches
         /\ areaReply.status = 200 => (areaReply.partial <=> Unanswered # {})
    /\ wanted.kind \in Singles => (areaReply.status = 200 <=> Unanswered = {})
    /\ Len(entries) = wanted.searches
    /\ \A k \in 1 .. wanted.searches :
         /\ entries[k].index = k
         /\ k \in Unanswered => entries[k].error
         /\ k \notin Unanswered /\ ~entries[k].error =>
              entries[k].count = Cardinality(came[k].places)

\* The request is answered, although every browser may hang and the jobs it gave
\* up may hold all of them.
RequestIsAnswered == wanted.kind # "none" ~> areaReply # NoReply

\* search.py:395: a grid search answers with the "deduplicated places from all
\* grid points": a place that some point found and counted is among them.
FoundPlacesAreReturned ==
  areaReply.status = 200 /\ wanted.kind \in Grids =>
    Cardinality(areaReply.places) =
      Cardinality(UNION {came[k].places : k \in 1 .. wanted.searches \ Unanswered})

\* search.py:498: a location search resolves the name and then "performs a grid
\* search": it does not fail before it has searched anything.
LocationIsSearched ==
  wanted.kind = "location" /\ areaReply # NoReply =>
    areaReply.status = 200 \/ \E k \in Searches : got[k] # "none"
================================================================================
