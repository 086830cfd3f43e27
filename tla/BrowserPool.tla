------------------------------ MODULE BrowserPool ------------------------------
(***************************************************************************)
(* How many Chromium instances a worker runs at once.                      *)
(*                                                                         *)
(* scraper_limits keeps one asyncio.Semaphore per event loop, made on      *)
(* first use with the cap of that moment.  A GoogleMapsScraper takes a     *)
(* permit before it launches its browser and keeps it until close() is     *)
(* through with the browser.  configure_limits changes the cap by dropping *)
(* the semaphore: scrapers that hold or wait for the old one keep to it.   *)
(*                                                                         *)
(* One event loop.  Every caller makes a scraper of its own and closes it  *)
(* in a finally, so a scraper has one user and _init_lock never blocks.    *)
(***************************************************************************)
EXTENDS Naturals, Sequences, FiniteSets, SequencesExt

CONSTANTS
  Scrapers,       \* GoogleMapsScraper objects, each used once
  InitialCap,     \* GOOGLE_MAPS_MAX_CONCURRENT_BROWSERS
  Caps,           \* values configure_limits is called with
  MaxConfigures   \* bound: calls of configure_limits

ASSUME PoolAssumption ==
  /\ IsFiniteSet(Scrapers)
  /\ InitialCap \in Nat \ {0} /\ Caps \subseteq Nat \ {0}
  /\ MaxConfigures \in Nat

Semaphores == 1 .. MaxConfigures + 1

VARIABLES
  cap,         \* _max_concurrent_browsers
  configured,  \* calls of configure_limits so far
  current,     \* this loop's entry in _browser_semaphores; 0 = none
  made,        \* semaphores made so far
  size,        \* the value each semaphore was made with
  free,        \* its _value
  queue,       \* its _waiters, first in first out
  pc,          \* where each scraper is
  held,        \* its _semaphore; 0 = None
  chromium     \* its browser process: "none", "live", or "hung" in close()

semaphores == <<cap, configured, current, made, size, free, queue>>
vars       == <<semaphores, pc, held, chromium>>

Init ==
  /\ cap = InitialCap /\ configured = 0
  /\ current = 0 /\ made = 0
  /\ size = [g \in Semaphores |-> 0]
  /\ free = [g \in Semaphores |-> 0]
  /\ queue = [g \in Semaphores |-> <<>>]
  /\ pc = [s \in Scrapers |-> "new"]
  /\ held = [s \in Scrapers |-> 0]
  /\ chromium = [s \in Scrapers |-> "none"]

---------------------------------------------------------------------------
(* scraper_limits.                                                         *)

ConfigureLimits(c) ==
  /\ configured < MaxConfigures
  /\ cap' = c
  /\ configured' = configured + 1
  /\ current' = 0
  /\ UNCHANGED <<made, size, free, queue, pc, held, chromium>>

---------------------------------------------------------------------------
(* _init_browser.  asyncio.Semaphore: acquire() takes a permit when one is *)
(* free and nobody waits; release() hands its permit to the first waiter.  *)

\* A slip: the new semaphore is used but not kept for the next caller.
AcquireFirstUnkept(s) ==
  /\ pc[s] = "new" /\ current = 0
  /\ current' = made + 1
  /\ size' = [size EXCEPT ![made + 1] = cap]
  /\ free' = [free EXCEPT ![made + 1] = cap - 1]
  /\ held' = [held EXCEPT ![s] = made + 1]
  /\ pc' = [pc EXCEPT ![s] = "launch"]
  /\ UNCHANGED <<cap, configured, made, queue, chromium>>

\* _browser_semaphore() finds none for this loop: it makes one, with a permit
\* for the caller since every cap is at least 1.
AcquireFirst(s) ==
  /\ pc[s] = "new" /\ current = 0
  /\ made' = made + 1 /\ current' = made + 1
  /\ size' = [size EXCEPT ![made + 1] = cap]
  /\ free' = [free EXCEPT ![made + 1] = cap - 1]
  /\ held' = [held EXCEPT ![s] = made + 1]
  /\ pc' = [pc EXCEPT ![s] = "launch"]
  /\ UNCHANGED <<cap, configured, queue, chromium>>

Acquire(s) ==
  /\ pc[s] = "new" /\ current # 0
  /\ free[current] > 0 /\ queue[current] = <<>>
  /\ free' = [free EXCEPT ![current] = @ - 1]
  /\ held' = [held EXCEPT ![s] = current]
  /\ pc' = [pc EXCEPT ![s] = "launch"]
  /\ UNCHANGED <<cap, configured, current, made, size, queue, chromium>>

Enqueue(s) ==
  /\ pc[s] = "new" /\ current # 0
  /\ free[current] = 0 \/ queue[current] # <<>>
  /\ queue' = [queue EXCEPT ![current] = Append(@, s)]
  /\ pc' = [pc EXCEPT ![s] = "wait"]
  /\ UNCHANGED <<cap, configured, current, made, size, free, held, chromium>>

\* The waiting caller is cancelled: its place in the queue closes.
CancelWait(s) ==
  /\ pc[s] = "wait"
  /\ \E g \in Semaphores : \E i \in DOMAIN queue[g] :
       /\ queue[g][i] = s
       /\ queue' = [queue EXCEPT ![g] = RemoveAt(@, i)]
  /\ pc' = [pc EXCEPT ![s] = "closed"]
  /\ UNCHANGED <<cap, configured, current, made, size, free, held, chromium>>

\* A slip: the permit is put back, and nobody is woken.
ReleaseWakingNobody(s, next) ==
  /\ pc' = [pc EXCEPT ![s] = next]
  /\ held' = [held EXCEPT ![s] = 0]
  /\ free' = IF held[s] = 0 THEN free ELSE [free EXCEPT ![held[s]] = @ + 1]
  /\ UNCHANGED queue

\* Scraper s, which goes to `next`, gives its permit back, if it has one.
Release(s, next) ==
  LET g == held[s] IN
  IF g = 0
    THEN /\ pc' = [pc EXCEPT ![s] = next]
         /\ UNCHANGED <<free, queue, held>>
    ELSE IF queue[g] = <<>>
    THEN /\ free' = [free EXCEPT ![g] = @ + 1]
         /\ held' = [held EXCEPT ![s] = 0]
         /\ pc' = [pc EXCEPT ![s] = next]
         /\ UNCHANGED queue
    ELSE /\ queue' = [queue EXCEPT ![g] = Tail(@)]
         /\ held' = [held EXCEPT ![s] = 0, ![Head(queue[g])] = g]
         /\ pc' = [pc EXCEPT ![s] = next, ![Head(queue[g])] = "launch"]
         /\ UNCHANGED free

\* A slip: the permit bounds the launch and not the life of the browser.
LaunchAndRelease(s) ==
  /\ pc[s] = "launch"
  /\ chromium' = [chromium EXCEPT ![s] = "live"]
  /\ Release(s, "use")
  /\ UNCHANGED <<cap, configured, current, made, size>>

Launch(s) ==
  /\ pc[s] = "launch"
  /\ chromium' = [chromium EXCEPT ![s] = "live"]
  /\ pc' = [pc EXCEPT ![s] = "use"]
  /\ UNCHANGED <<semaphores, held>>

\* A slip: a failed launch forgets the semaphore without releasing it.
LaunchFailsLeaking(s) ==
  /\ pc[s] = "launch"
  /\ held' = [held EXCEPT ![s] = 0]
  /\ pc' = [pc EXCEPT ![s] = "stop"]
  /\ UNCHANGED <<semaphores, chromium>>

\* Playwright or Chromium does not start, or the launch is cancelled.
LaunchFails(s) ==
  /\ pc[s] = "launch"
  /\ Release(s, "stop")
  /\ UNCHANGED <<cap, configured, current, made, size, chromium>>

---------------------------------------------------------------------------
(* Use and close().                                                        *)

\* The page work ended or raised; the caller's finally calls close().
Finish(s) ==
  /\ pc[s] = "use"
  /\ pc' = [pc EXCEPT ![s] = "close"]
  /\ UNCHANGED <<semaphores, held, chromium>>

CloseBrowser(s) ==
  /\ pc[s] = "close"
  /\ chromium' = [chromium EXCEPT ![s] = "none"]
  /\ pc' = [pc EXCEPT ![s] = "stop"]
  /\ UNCHANGED <<semaphores, held>>

\* _browser.close() raises: Playwright is not stopped, the permit is freed.
CloseRaises(s) ==
  /\ pc[s] = "close"
  /\ chromium' = [chromium EXCEPT ![s] = "hung"]
  /\ Release(s, "closed")
  /\ UNCHANGED <<cap, configured, current, made, size>>

\* _playwright.stop() returns or raises, or there was none: in every case the
\* finally releases what is still held.
StopPlaywright(s) ==
  /\ pc[s] = "stop"
  /\ Release(s, "closed")
  /\ UNCHANGED <<cap, configured, current, made, size, chromium>>

ScraperStep(s) ==
  \/ AcquireFirst(s) \/ Acquire(s) \/ Enqueue(s)
  \/ Launch(s) \/ LaunchFails(s) \/ Finish(s)
  \/ CloseBrowser(s) \/ CloseRaises(s) \/ StopPlaywright(s)

Next ==
  \/ \E c \in Caps : ConfigureLimits(c)
  \/ \E s \in Scrapers : ScraperStep(s) \/ CancelWait(s)

Spec == Init /\ [][Next]_vars

\* A launched browser is closed: page operations, launches and close() are
\* bounded by Playwright's timeouts, and the loop resumes every coroutine.
FairSpec == Spec /\ \A s \in Scrapers : WF_vars(ScraperStep(s))

---------------------------------------------------------------------------
(* Properties.                                                             *)

\* Every variable keeps its type.
TypeOK ==
  /\ cap \in Nat \ {0} /\ configured \in 0 .. MaxConfigures
  /\ current \in 0 .. made /\ made \in 0 .. configured + 1
  /\ size \in [Semaphores -> Nat] /\ free \in [Semaphores -> Nat]
  /\ queue \in [Semaphores -> Seq(Scrapers)]
  /\ pc \in [Scrapers -> {"new", "wait", "launch", "use", "close", "stop", "closed"}]
  /\ held \in [Scrapers -> 0 .. made]
  /\ chromium \in [Scrapers -> {"none", "live", "hung"}]

Holders(g) == {s \in Scrapers : held[s] = g}
Waiting(g) == {queue[g][i] : i \in DOMAIN queue[g]}
Running    == {s \in Scrapers : chromium[s] = "live"}

\* No permit is lost or made: through failed launches, cancelled waits, hung
\* browsers and reconfigurations, every semaphore's permits are free or held.
\* (scraper.py:110: "or the cap ratchets down to zero".)
PermitsAreConserved ==
  \A g \in Semaphores : free[g] + Cardinality(Holders(g)) = size[g]

\* A permit is never free while somebody waits for it, and whoever waits is in
\* exactly one place of one queue.
NobodyWaitsForAFreePermit ==
  /\ \A g \in Semaphores : queue[g] # <<>> => free[g] = 0
  /\ \A s \in Scrapers : pc[s] = "wait" <=> \E g \in Semaphores : s \in Waiting(g)
  /\ \A g, h \in Semaphores : \A i \in DOMAIN queue[g], j \in DOMAIN queue[h] :
       queue[g][i] = queue[h][j] => g = h /\ i = j

\* A running browser holds a permit (scraper.py:85): what is bounded is the
\* browsers resident, not the launches.  Closed scrapers hold none.
RunningHoldsAPermit ==
  \A s \in Scrapers : /\ s \in Running => held[s] # 0
                      /\ pc[s] \in {"new", "wait", "closed"} => held[s] = 0

\* The cap on Chromium processes, until it is reconfigured: launches, failures
\* and closes in any order never leave more running than the cap.
CapHolds == configured = 0 => Cardinality(Running) <= cap

\* Everybody who waits for a browser gets one or gives up.
WaiterIsServed == \A s \in Scrapers : pc[s] = "wait" ~> pc[s] # "wait"
================================================================================
