------------------------------ MODULE MapsContent ------------------------------
(***************************************************************************)
(* The endpoints about one place: its details, reviews, photos, attributes *)
(* and analytics, read from one load of its page; its questions, menu and  *)
(* reservation slots, read from a second; and directions, read from a page *)
(* of their own.                                                           *)
(*                                                                         *)
(* Every load has a browser of its own, and a permit, from the pool that   *)
(* the searches use too.  BrowserPool is that pool, here it is a count.    *)
(***************************************************************************)
EXTENDS MapsCommon, FiniteSets

CONSTANTS
  Askers,   \* requests
  Permits,  \* GOOGLE_MAPS_MAX_CONCURRENT_BROWSERS
  MaxNodes  \* bound: entries a page renders in one block

ASSUME ContentAssumption == Permits \in Nat \ {0} /\ MaxNodes \in Nat \ {0}

OnePage   == {"details", "reviews", "photos", "attributes", "analytics"}
TwoPages  == {"qa", "menu", "availability"}
Questions == OnePage \cup TwoPages \cup {"directions", "history"}

\* A place's optional fields; "partial" marks a record with no core field.
Facts == {"review_count", "link", "partial"}

VARIABLES
  question,  \* what each request asks
  stage,     \* where it is
  browsers,  \* the browsers open, by request
  place,     \* the place read, as a set of Facts
  page,      \* the second page as it was read
  given     \* the response, as the handler gives it

contentVars == <<question, stage, browsers, place, page, given>>

NoQuestion == [kind |-> "none", first |-> 0]
NoPlace == {"none"}
NoPage == [block |-> FALSE, nodes |-> <<>>, read |-> FALSE]

\* says is menu_available or reservations_available, "yes" or "no", and
\* "unknown" for a total_questions of None; link is a booking_url.
NoAnswer == [status |-> 0, says |-> "nothing", items |-> 0, link |-> FALSE, steps |-> {}]

\* A page whose block (the section, the module or the step list) is rendered or
\* not, with the entries found; TRUE marks one that parses.
Pages == [block : BOOLEAN, nodes : UNION {[1 .. n -> BOOLEAN] : n \in 0 .. MaxNodes},
          read : {TRUE}]

ContentInit ==
  /\ question = [a \in Askers |-> NoQuestion]
  /\ stage = [a \in Askers |-> "new"]
  /\ browsers = [a \in Askers |-> 0]
  /\ place = [a \in Askers |-> NoPlace]
  /\ page = [a \in Askers |-> NoPage]
  /\ given = [a \in Askers |-> NoAnswer]

---------------------------------------------------------------------------
(* Reading a page.                                                         *)

\* Where the entries that parse are, of all those of a page or of the first n.
Parsed(nodes)     == {i \in DOMAIN nodes : nodes[i]}
FirstOf(nodes, n) == {i \in Parsed(nodes) : i <= n}

\* The extractors return None, and not [], when no section was rendered at all.
Missing(p) == ~p.block /\ p.nodes = <<>>

\* process_place_data names the fields it keeps; the freshness marks are not
\* among them.
ProcessedPlace(raw) == raw \ {"partial"}

---------------------------------------------------------------------------
(* The outcomes the services name: qa_status, menu_status and              *)
(* availability_status, of a question q, its second page p and the facts   *)
(* of the place.                                                           *)

QaStatus(q, p) ==
  IF Missing(p) THEN "not_rendered"
  ELSE IF FirstOf(p.nodes, q.first) = {} THEN "no_questions" ELSE "scraped"

MenuStatus(p, facts) ==
  IF Parsed(p.nodes) # {} THEN "scraped"
  ELSE IF ~Missing(p) THEN "unreadable"
  ELSE IF "link" \in facts THEN "external_menu_not_scraped" ELSE "no_menu"

AvailabilityStatus(p, facts) ==
  IF Parsed(p.nodes) # {} THEN "slots_found"
  ELSE IF ~Missing(p) THEN "no_slots"
  ELSE IF "link" \in facts THEN "external_provider" ELSE "no_reservation_integration"

StatusOf(q, p, facts) ==
  CASE q.kind = "qa"           -> QaStatus(q, p)
    [] q.kind = "menu"         -> MenuStatus(p, facts)
    [] q.kind = "availability" -> AvailabilityStatus(p, facts)

---------------------------------------------------------------------------
(* The answers: what the handlers pass on.  They name the fields they take *)
(* of the service's outcome; the statuses above, menu_link, the messages   *)
(* and history's monitored are not among them.                             *)

Served(says, items) == [NoAnswer EXCEPT !.status = 200, !.says = says, !.items = items]
Refused(code) == [NoAnswer EXCEPT !.status = PassedOn(code)]

\* get_place_reviews: with a count rendered it compares a string with a number,
\* and the TypeError becomes an error dict.  The scraper never fills the list.
ReviewsAnswer(facts) ==
  IF "review_count" \in facts THEN Refused(0) ELSE Served("nothing", 0)

OnePageAnswer(q, facts) ==
  IF q.kind = "reviews" THEN ReviewsAnswer(facts) ELSE Served("nothing", 1)

\* total_questions is None where no section was rendered.
QaAnswer(q, p) ==
  Served(IF QaStatus(q, p) = "not_rendered" THEN "unknown" ELSE "yes",
         Cardinality(FirstOf(p.nodes, q.first)))

MenuAnswer(p, facts) ==
  Served(IF MenuStatus(p, facts) = "no_menu" THEN "no" ELSE "yes",
         Cardinality(Parsed(p.nodes)))

\* booking_url is the place's reserve_link, whatever the outcome.
AvailabilityAnswer(p, facts) ==
  LET says == IF AvailabilityStatus(p, facts) = "no_reservation_integration"
              THEN "no" ELSE "yes"
  IN [Served(says, Cardinality(Parsed(p.nodes))) EXCEPT !.link = "link" \in facts]

\* get_directions: the first card, or five; Google renders the steps of the
\* selected route alone.
DirectionsAnswer(q, p) ==
  LET n == Cardinality(FirstOf(p.nodes, q.first)) IN
  IF n = 0 THEN Refused(502)
  ELSE [Served("nothing", n) EXCEPT !.steps = IF p.block THEN {1} ELSE {}]

HandlerAnswer(q, p, facts) ==
  CASE q.kind \in OnePage      -> OnePageAnswer(q, facts)
    [] q.kind = "qa"           -> QaAnswer(q, p)
    [] q.kind = "menu"         -> MenuAnswer(p, facts)
    [] q.kind = "availability" -> AvailabilityAnswer(p, facts)
    [] OTHER                   -> DirectionsAnswer(q, p)

AnswerFromPages(a) == HandlerAnswer(question[a], page[a], place[a])

---------------------------------------------------------------------------
(* The handlers.                                                           *)

Goto(a, where) == stage' = [stage EXCEPT ![a] = where]

\* The parameters FastAPI accepted: refused is a lookup with neither URL nor id,
\* or with a URL off the allow-list, an unknown travel mode or a malformed date.
AskContent(a) ==
  /\ stage[a] = "new"
  /\ \E kind \in Questions, first \in 1 .. MaxNodes, refused \in BOOLEAN :
       /\ refused => kind \in {"details", "directions", "history"}
       /\ first > 1 => kind \in {"qa", "directions"}
       /\ question' = [question EXCEPT ![a] = [kind |-> kind, first |-> first]]
       /\ given' = IF refused THEN [given EXCEPT ![a] = Refused(400)] ELSE given
       /\ Goto(a, IF refused THEN "done"
                  ELSE CASE kind = "directions" -> "second"
                         [] kind = "history"    -> "history"
                         [] OTHER               -> "first")
  /\ UNCHANGED <<browsers, place, page>>

\* _init_browser: a permit, then the launch.
OpenBrowser(a) ==
  /\ stage[a] \in {"first", "second"}
  /\ Cardinality({b \in Askers : browsers[b] > 0}) < Permits
  /\ browsers' = [browsers EXCEPT ![a] = @ + 1]
  /\ Goto(a, IF stage[a] = "first" THEN "reading" ELSE "rereading")
  /\ UNCHANGED <<question, place, page, given>>

\* lookup_place: the details are extracted; PlaceExtractionError, a time-out or a
\* failed launch leaves no place.  _extract_place_details never returns None, so
\* the 404 is not reached.
ReadPlace(a) ==
  /\ stage[a] = "reading"
  /\ \/ \E raw \in SUBSET Facts : place' = [place EXCEPT ![a] = ProcessedPlace(raw)]
     \/ UNCHANGED place
  /\ Goto(a, "closing")
  /\ UNCHANGED <<question, browsers, page, given>>

\* The second page, in TwoPages, or the directions pane.
ReadPage(a) ==
  /\ stage[a] = "rereading"
  /\ \/ \E p \in Pages : page' = [page EXCEPT ![a] = p]
     \/ UNCHANGED page
  /\ Goto(a, "reclosing")
  /\ UNCHANGED <<question, browsers, place, given>>

\* A slip: the place's page stays open while its second page is read.
KeepFirstOpen(a) ==
  /\ stage[a] = "closing"
  /\ browsers' = browsers
  /\ IF place[a] # NoPlace /\ question[a].kind \in TwoPages
     THEN Goto(a, "second") /\ UNCHANGED given
     ELSE /\ Goto(a, "done")
          /\ given' = [given EXCEPT ![a] = IF place[a] = NoPlace THEN Refused(0)
                                             ELSE AnswerFromPages(a)]
  /\ UNCHANGED <<question, place, page>>

\* scraper.close(), in a finally; an error dict ends the request with a 500.
CloseFirst(a) ==
  /\ stage[a] = "closing"
  /\ browsers' = [browsers EXCEPT ![a] = @ - 1]
  /\ IF place[a] # NoPlace /\ question[a].kind \in TwoPages
     THEN Goto(a, "second") /\ UNCHANGED given
     ELSE /\ Goto(a, "done")
          /\ given' = [given EXCEPT ![a] = IF place[a] = NoPlace THEN Refused(0)
                                             ELSE AnswerFromPages(a)]
  /\ UNCHANGED <<question, place, page>>

\* A slip: a page that did not load is a page with nothing on it.
AnswerAnyway(a) ==
  /\ stage[a] = "reclosing"
  /\ browsers' = [browsers EXCEPT ![a] = @ - 1]
  /\ given' = [given EXCEPT ![a] = AnswerFromPages(a)]
  /\ Goto(a, "done")
  /\ UNCHANGED <<question, place, page>>

CloseSecond(a) ==
  /\ stage[a] = "reclosing"
  /\ browsers' = [browsers EXCEPT ![a] = @ - 1]
  /\ given' = [given EXCEPT ![a] = IF page[a].read THEN AnswerFromPages(a) ELSE Refused(502)]
  /\ Goto(a, "done")
  /\ UNCHANGED <<question, place, page>>

\* get_place_history: the entries in the window of the caller's monitors of the
\* place, none if there is no such monitor.  What they hold is in MonitorCheck.
ReadHistory(a) ==
  /\ stage[a] = "history"
  /\ \E n \in 0 .. MaxNodes : given' = [given EXCEPT ![a] = Served("nothing", n)]
  /\ Goto(a, "done")
  /\ UNCHANGED <<question, browsers, place, page>>

ContentStep(a) ==
  OpenBrowser(a) \/ ReadPlace(a) \/ ReadPage(a) \/ CloseFirst(a) \/ CloseSecond(a)
    \/ ReadHistory(a)

ContentNext == \E a \in Askers : AskContent(a) \/ ContentStep(a)

\* Every page operation has a Playwright time-out, and the semaphore serves
\* its waiters in order.
ContentFairness ==
  \A a \in Askers : SF_contentVars(OpenBrowser(a)) /\ WF_contentVars(ContentStep(a))

ContentSpec == ContentInit /\ [][ContentNext]_contentVars /\ ContentFairness

---------------------------------------------------------------------------
(* Properties.                                                             *)

ContentTypeOK ==
  /\ question \in [Askers -> [kind : Questions \cup {"none"}, first : 0 .. MaxNodes]]
  /\ stage \in [Askers -> {"new", "first", "reading", "closing", "second", "rereading",
                          "reclosing", "history", "done"}]
  /\ place \in [Askers -> (SUBSET (Facts \ {"partial"})) \cup {NoPlace}]
  /\ \A a \in Askers : browsers[a] \in 0 .. 2 /\ page[a] \in Pages \cup {NoPage}
  /\ \A a \in Askers : given[a].status \in {0, 200, 400, 404, 500}

\* A request that needs two pages gives its first browser back before it waits
\* for the second, whatever happened to the first: with one permit it would
\* otherwise wait for itself.  Every request is answered, and with it no browser
\* is left open.
ContentIsAnswered ==
  \A a \in Askers :
    question[a].kind # "none" ~> given[a].status # 0 /\ browsers[a] = 0

Link(a) == "link" \in place[a]

\* An answer is of the pages that were read for it: nothing is served of a page
\* that did not load; "there is none", or an unknown total, only where no block and
\* no entry was rendered, and the first only where there was no link either; an
\* empty list of what is said to be there only where a block, an entry or a link was
\* rendered; the booking link if the place has one; and a route only if it was
\* rendered, with steps on none but the first.
AnswersComeFromPages ==
  \A a \in Askers : given[a].status = 200 =>
    /\ question[a].kind \in OnePage \cup TwoPages => place[a] # NoPlace
    /\ question[a].kind \in TwoPages \cup {"directions"} => page[a].read
    /\ given[a].says \in {"no", "unknown"} =>
         Missing(page[a]) /\ given[a].items = 0
    /\ given[a].says = "no" => ~Link(a)
    /\ given[a].says = "yes" /\ given[a].items = 0 =>
         ~Missing(page[a]) \/ (question[a].kind # "qa" /\ Link(a))
    /\ question[a].kind \in TwoPages =>
         (given[a].link <=> question[a].kind = "availability" /\ Link(a))
    /\ question[a].kind = "directions" =>
         given[a].items \in 1 .. question[a].first /\ given[a].steps \subseteq {1}

\* service_menu.py:113: "The four outcomes are now reported distinctly in
\* menu_status"; service_reservations.py:77 and service_place_content.py:205 say so
\* of theirs: whoever gets an empty list can tell from the answer which it was.
EmptyListNamesItsReason ==
  \A a \in Askers :
    given[a].status = 200 /\ question[a].kind \in TwoPages /\ given[a].items = 0 =>
      \A p \in Pages, facts \in SUBSET (Facts \ {"partial"}) :
        HandlerAnswer(question[a], p, facts) = given[a] =>
          StatusOf(question[a], p, facts) = StatusOf(question[a], page[a], place[a])

\* service_place_content.py:60: without a rendered count the total is None, "not
\* 'this place has no reviews'", and with one it is told: a place that was read
\* is served with the reviews its panel shows.
ReviewsAreServed ==
  \A a \in Askers :
    question[a].kind = "reviews" /\ stage[a] = "done" /\ place[a] # NoPlace =>
      given[a].status = 200
================================================================================
