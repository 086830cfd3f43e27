------------------------------ MODULE MapsSearch ------------------------------
(***************************************************************************)
(* POST and GET /google-maps/search: the result budget, the health check,  *)
(* the blocking and the job form, and the cache in front of the GET.       *)
(*                                                                         *)
(* The cache is a map with expiry here; which backend holds it, and how it *)
(* ages, is in ResponseCache.                                              *)
(***************************************************************************)
EXTENDS Naturals, FiniteSets

CONSTANTS
  Searchers,  \* requests for one query
  Budgets,    \* the pairs <<max_results, timeout>> they ask with
  Nobody      \* "no request": nothing cached, no job

VARIABLES
  form,      \* what each request asks
  at,        \* where it is
  response,  \* what it was answered
  kept       \* the cached answers: whose they are, by max_results

searchVars == <<form, at, response, kept>>

Unasked    == [get |-> FALSE, wait |-> FALSE, results |-> 0, timeout |-> 0]
NoResponse == [status |-> 0, found_by |-> Nobody, job |-> Nobody, advice |-> 0]

SearchInit ==
  /\ form = [r \in Searchers |-> Unasked]
  /\ at = [r \in Searchers |-> "new"]
  /\ response = [r \in Searchers |-> NoResponse]
  /\ kept = [n \in {b[1] : b \in Budgets} |-> Nobody]

---------------------------------------------------------------------------
(* The budget, in IEEE doubles.  1.1 is 0.4 units of 2^-52 above 11/10.    *)

PowerBelow(x) == CHOOSE p \in {2 ^ k : k \in 0 .. 12} : p <= x /\ x < 2 * p

\* ceil(n * 12 * 1.1).  Where the product is a whole number the double is the
\* next one up as soon as the excess, 0.4 * 12n, is over half a unit of it.
SecondsNeededFor(n) ==
  LET whole == n % 5 = 0 /\ 8 * 12 * n > 10 * PowerBelow((132 * n) \div 10)
  IN (132 * n + 9) \div 10 + (IF whole THEN 1 ELSE 0)

\* max(1, int(t / (12 * 1.1))).  The divisor is 0.6 units above 13.2: where the
\* quotient is a whole number it may come out one double lower.
AffordableResultsWithin(t) ==
  LET q    == (10 * t) \div 132
      less == (10 * t) % 132 = 0 /\ 8 * q > 11 * PowerBelow(q)
      n    == IF less THEN q - 1 ELSE q
  IN IF n < 1 THEN 1 ELSE n

Affordable(ask) == SecondsNeededFor(ask.results) <= ask.timeout

---------------------------------------------------------------------------
(* The handlers.                                                           *)

Respond(r, what) ==
  /\ response' = [response EXCEPT ![r] = what]
  /\ at' = [at EXCEPT ![r] = "done"]

\* A slip: only search_places checks the budget, behind the cache.
AskUnchecked(r, ask) ==
  /\ at[r] = "new"
  /\ form' = [form EXCEPT ![r] = ask]
  /\ IF ask.get /\ ask.wait
     THEN at' = [at EXCEPT ![r] = "lookup"] /\ UNCHANGED response
     ELSE IF ask.wait /\ ~Affordable(ask)
     THEN Respond(r, [NoResponse EXCEPT !.status = 400,
                                        !.advice = AffordableResultsWithin(ask.timeout)])
     ELSE at' = [at EXCEPT ![r] = "health"] /\ UNCHANGED response
  /\ UNCHANGED kept

\* enforce_result_budget, for the blocking form alone; then the GET's cache.
AskSearch(r, ask) ==
  /\ at[r] = "new"
  /\ form' = [form EXCEPT ![r] = ask]
  /\ IF ask.wait /\ ~Affordable(ask)
     THEN Respond(r, [NoResponse EXCEPT !.status = 400,
                                        !.advice = AffordableResultsWithin(ask.timeout)])
     ELSE at' = [at EXCEPT ![r] = IF ask.get /\ ask.wait THEN "lookup" ELSE "health"]
          /\ UNCHANGED response
  /\ UNCHANGED kept

\* get_cached_or_fetch: the key holds everything of the request but the timeout
\* and the caller.
LookUp(r) ==
  /\ at[r] = "lookup"
  /\ LET whose == kept[form[r].results] IN
       IF whose # Nobody
       THEN Respond(r, [NoResponse EXCEPT !.status = 200, !.found_by = whose, !.job = whose])
       ELSE at' = [at EXCEPT ![r] = "health"] /\ UNCHANGED response
  /\ UNCHANGED <<form, kept>>

CheckHealth(r) ==
  /\ at[r] = "health"
  /\ \/ at' = [at EXCEPT ![r] = "run"] /\ UNCHANGED response
     \/ Respond(r, [NoResponse EXCEPT !.status = 503])
  /\ UNCHANGED <<form, kept>>

\* search_and_wait found places; only the GET's answer goes on to the cache.
SearchFinds(r) ==
  /\ at[r] = "run" /\ form[r].wait
  /\ response' = [response EXCEPT ![r] = [@ EXCEPT !.status = 200, !.found_by = r, !.job = r]]
  /\ at' = [at EXCEPT ![r] = IF form[r].get THEN "store" ELSE "done"]
  /\ UNCHANGED <<form, kept>>

\* wait_for_results=False: the new job's id.
StartJob(r) ==
  /\ at[r] = "run" /\ ~form[r].wait
  /\ Respond(r, [NoResponse EXCEPT !.status = 200, !.job = r])
  /\ UNCHANGED <<form, kept>>

\* An error dict, or a payload that is no list: an HTTPException, which leaves
\* get_cached_or_fetch before it stores anything.
SearchFails(r) ==
  /\ at[r] = "run"
  /\ \E status \in {404, 500} : Respond(r, [NoResponse EXCEPT !.status = status])
  /\ UNCHANGED <<form, kept>>

StoreAnswer(r) ==
  /\ at[r] = "store"
  /\ kept' = [kept EXCEPT ![form[r].results] = r]
  /\ at' = [at EXCEPT ![r] = "done"]
  /\ UNCHANGED <<form, response>>

ExpireAnswer(n) ==
  /\ kept[n] # Nobody
  /\ kept' = [kept EXCEPT ![n] = Nobody]
  /\ UNCHANGED <<form, at, response>>

SearchNext ==
  \/ \E r \in Searchers :
       \/ \E get, wait \in BOOLEAN, b \in Budgets :
            AskSearch(r, [get |-> get, wait |-> wait, results |-> b[1], timeout |-> b[2]])
       \/ LookUp(r) \/ CheckHealth(r) \/ SearchFinds(r) \/ StartJob(r)
       \/ SearchFails(r) \/ StoreAnswer(r)
  \/ \E n \in DOMAIN kept : ExpireAnswer(n)

SearchSpec == SearchInit /\ [][SearchNext]_searchVars

---------------------------------------------------------------------------
(* Properties.                                                             *)

SearchTypeOK ==
  /\ at \in [Searchers -> {"new", "lookup", "health", "run", "store", "done"}]
  /\ \A r \in Searchers : response[r].status \in {0, 200, 400, 404, 500, 503}
  /\ kept \in [{b[1] : b \in Budgets} -> Searchers \cup {Nobody}]

\* search.py:253: the same request does not behave two ways.  From the cache or
\* not, a blocking search is answered 200 only at a timeout that pays for it and
\* with places found for as many results; and the job form, which no answer of
\* another may replace, names a job of its own.
HitsAnswerLikeMisses ==
  \A r \in Searchers :
    response[r].status = 200 =>
      IF form[r].wait
      THEN /\ Affordable(form[r])
           /\ form[response[r].found_by].wait
           /\ form[response[r].found_by].results = form[r].results
      ELSE response[r].job = r

\* search.py:55: the 400 "tells them what to ask for instead": a request with the
\* advised max_results at the same timeout is not refused again.
AdviceIsAccepted ==
  \A r \in Searchers :
    response[r].status = 400 =>
      LET advised == [form[r] EXCEPT !.results = response[r].advice]
      IN advised.results > 1 => Affordable(advised)
================================================================================
