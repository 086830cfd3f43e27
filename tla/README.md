# Headwater: specification and verification

Headwater is a FastAPI service that scrapes and proxies Google Maps, News,
Trends, autocomplete and YouTube transcripts. It is asyncio code: one event
loop per uvicorn worker, several workers sharing one Redis. Every `await` is a
point where another coroutine, or another worker, may act. This directory holds
TLA+ modules of its stateful parts, TLC configurations that check them on small
instances, and TLAPS proofs of what matters most for every instance.

Paths below are relative to the repository's root; `gmm.py` abbreviates
`app/services/google_maps_monitors.py`.

## 1. Inventory

| Part | State | Operations | Interacts with |
|---|---|---|---|
| Monitor registry (`gmm.py`) | monitor records, one owner-index record per owner, TTL of both | `create_monitor`, `delete_monitor`, `check_monitor`, `_remember_owner`, `_forget_owner_if_empty` | record store; scheduler; API handlers |
| Scheduler (`gmm.py`) | a task per worker | `start_scheduler`, `_scheduler_loop`, `run_due_checks` | registry, checks, firings; application lifespan |
| Monitor check (`gmm.py`) | `last_snapshot`, `history`, `checks`, `changes_detected`, `last_error` | `check_monitor`, `_snapshot`, `_diff` | scraper, record store, webhooks |
| Webhooks (`gmm.py`) | webhook records with delivery counters and status | `register_webhook`, `delete_webhook`, `_fire_monitor_webhooks`, `deliver_webhook`, `_deliver_inline`, `_record_delivery_outcome` | record store, subscribers' servers |
| Scrape jobs (`google_maps/scraper_jobs.py`, `google_maps_scraper.py`, `google_maps_service.py`, `api/google_maps/jobs.py`) | `ScrapeJob` records, one background task per job | `create_search_job`, `run_scrape_job`, `get_job_status`, `get_job_results`, `search_and_wait`, `delete_job` | record store, browser pool |
| Browser pool (`google_maps/scraper.py`, `scraper_limits.py`) | a semaphore per event loop, one Chromium per scraper | `_init_browser`, `close`, `_release_semaphore`, `configure_limits` | jobs, place content, directions |
| Scraper extraction (`google_maps/scraper.py`, `scraper_place_details.py`) | candidates, attempted, extracted and partial per search | `search`, `_extract_place_details`, `_assert_selectors_fresh` | browser pool |
| Area search (`service_area_search.py`) | results by place id, failed points | `grid_search`, `bulk_search`, `nearby_search`, `location_search`, competitors, batch geocoding | `search_and_wait` |
| Search endpoints (`api/google_maps/search.py`) | cached answers | budget, health check, blocking and job form | scrape jobs, response cache |
| Place content (`service_place_content.py`, `_menu`, `_reservations`, `_directions`) | one or two pages per request | details, reviews, photos, attributes, Q&A, menu, slots, directions, history | browser pool, monitors |
| Record store (`record_store.py`) | Redis keys with TTL, or the worker's own dict | `put`, `get`, `delete`, `list_for_owner` | Redis manager |
| Rate limiter (`core/rate_limiter.py`) | counters per key and window, in Redis or memory | `limit`, `is_rate_limited`, purge and cleanup tasks | Redis manager, middleware |
| Redis manager (`core/redis_manager.py`) | a singleton client, its error count | `get_instance`, `get_client`, `reset_connection`, `shutdown` | everything that is shared |
| Response cache (`core/cache_manager.py`, `cache_backends.py`) | Redis entries and a memory copy; two tiers | `get`, `set`, `delete`, `clear`, `cached`, cleanup | Redis manager |
| HTTP clients and proxies (`core/http_client.py`, `proxy.py`) | a client per proxy, a rotation cursor | `get_client`, `close_all_clients`, `_next_proxy` | news, autocomplete, YouTube |
| Authentication (`core/auth.py`, `identity.py`) | a snapshot of the API keys | `initialize_api_keys`, `_auth_snapshot` | every request |
| YouTube (`youtube_transcripts_service.py`) | API objects per proxy | `_execute_with_retry`, the batch endpoint | proxies |
| Autocomplete, News, Trends | cached answers; nltk's corpus | one router each | clients, proxies, cache |
| Lifespan (`src/main.py`) | the background tasks | start-up and shutdown order | scheduler, limiter, Redis, clients |

### What is hard here

* Read, await, write whole record. `check_monitor`, `_record_delivery_outcome`
  and `run_scrape_job` all write back an object they obtained before an await,
  without a version or a lock: over a deletion, or over another writer.
* Two records that must agree. A monitor is useful only while its owner's index
  entry exists; the two are written, deleted and expire one after the other.
* Several workers. Each has its own scheduler, so checks and firings overlap.
* Partial failure: a Redis call that raises before or after it was applied, a
  worker that dies between two writes, a receiver that never answers.
* A bounded resource handed from coroutine to coroutine through failures,
  cancellations and a change of the bound.
* Fallbacks: with Redis unavailable, store, limiter and cache each turn to
  memory of their own, one call at a time.

`PROJECT.json` lists these per line under `hazards`.

### What makes each part correct

* Registry: the scheduler can reach every live monitor; a monitor is checked
  when due and does not run out of its TTL while it is watched.
* Check: history, counters and snapshot tell one story; no invented change; a
  recorded change is announced.
* Webhooks: a subscriber is told once per firing within bounded requests; the
  health shown is real.
* Jobs: nobody is told something the scrape did not find; a failed scrape never
  looks like an empty area, nor an unconfirmed emptiness like a real one; jobs
  settle and waiters return; a deleted job stays away.
* Pool: permits are conserved, no lost wake-up, never more browsers than the cap.
* Limiter: a limit is kept within its window and ends with it; nothing passes
  uncounted unless the deployment says so.
* Scraper: a page that could not be read never looks like an empty area.
* Area search: a failed point is told as failed, and what a point found is returned.
* Content: an answer is of the pages that were read, and an empty list names its
  own reason; browsers are given back.
* Store and caches: an acknowledged record is seen; what is served is no older
  than its TTL, whichever copy it comes from.
* Feeds: a caller can tell a failure from nothing, and a loss is not kept.
* Keys and clients: a reload takes effect at once; a shutdown gives back the
  tasks and the clients that are the lifespan's own.

## 2. The modules

One action is one stretch of code between two awaits that reach something
shared. Where the source takes several awaits that nobody else can observe,
they are one action. Slips (`\* A slip:` operators beside the definitions) are
plausible bugs: putting one in place of the definition it precedes makes the
property named in `PROJECT.json` fail.

### MonitorRegistry
`expiry`, `nextCheck` are the monitor record (its TTL and `next_check`),
`indexExpiry` the owner index. Actors are schedulers (one per worker) and API
requests. `CreateMonitor`/`RememberOwner` are `create_monitor`;
`DeleteMonitor`, `ScanOwner`, `ReadScanned`, `ForgetOwner` are `delete_monitor`
with `_forget_owner_if_empty` (a listing on Redis is a SCAN and then GETs, so it
has two steps); `CheckNow`/`CheckDue`, `PutChecked`, `RememberOwner` are
`check_monitor`; `Wake`, `ListDue`, `EndTick` are the scheduler. `StoreError`,
`ListError`, `Crash` are the failures, `ExpireMonitor`, `ExpireOwner`,
`AdvanceClock` the TTL. The clock counts hours. `exposed` is a history
variable: owners whose index entry may lag because of one of the two windows
the code leaves open (an index deletion after another request's create; a
failure between the put and `_remember_owner`).

### MonitorCheck
The content of one monitor's record. `Snapshot`, `Diff`, `Merged`, `Latest` and
`Checked` are the pure part of `check_monitor`; `Begin`, `ScrapeReturns`,
`ScrapeFails`, `PutChecked`, `PutFailed`, `Fire`, `Abort` its stretches between
awaits. `EditPlace` changes the place on Google under it. `place`, `shown`,
`overlapped` and `dropped` are only observed by the properties.

### WebhookDelivery
A firing is one `_fire_monitor_webhooks`. `NextWebhook`, `NextInline`,
`EndFiring` walk the targets; `TargetRejected`, `Answered`, `Redirected`,
`Backoff` are the attempt loop with its redirect guard; `ReadRecord` and
`WriteRecord` are `_record_delivery_outcome`, two actions because another
firing may write between them. An answer is classed by what the loop does with
it: a 2xx, a 4xx that is final, a blocked target, or anything that is retried.
`Listings` is what `list_for_owner` may return under its limit (100 in the code,
`ListLimit` here): the order by age is not kept, so that any `ListLimit` of the
subscribed webhooks may be the ones.

`HistoryIsOneStory` and `CountedChangeIsFired` are about the record;
`ImplementsChangeFeed` is about what subscribers see. `ChangeFeed` is the
abstract specification: a place shows values, observers notice real changes,
and each is told once or lost and counted. The refinement maps a check between
its put and its firing to an observer that owes a change. It holds also while
checks overlap: then two observers owe the same change, each tells its own.

### ScrapeJobs
`stored` is the record and `job` the task's own object. `PutRunning`,
`SearchReturns`, `SearchRaises`, `PutCompleted`, `PutFailed`, `Close` are
`run_scrape_job`; each put has a variant that raises after or before it was
applied. `Poll`, `FetchWaited`, `PollTimesOut` are `search_and_wait`;
`AskResults`, `FetchResults` are `GET /jobs/{id}/results`, whose two reads are
two actions. `DeleteJob`, `ExpireJob`, `Crash` happen under all of them. A
scrape ends in a list, in a real zero, in an empty list that could not be
confirmed ("unverified"), or in a failure. `Shown` and `AnswerTo` are what the
callers get of a completed job: the list, and not the mark, so that to them the
two empty ends are one.

### BrowserPool
The semaphore of one event loop: `free` permits and a first-in-first-out
`queue`, as `asyncio.Semaphore` keeps them. Each `configure_limits` retires the
semaphore in use, so there are several, each with the `size` it was made with.
A scraper is used once by one coroutine: that is how every caller in `src/`
uses it. `CloseRaises` is a `_browser.close()` that raises: Chromium may live
on ("hung") while the permit is given back.

### ScraperFeed
One `GoogleMapsScraper.search`. After `LoadPage`, `ChoosePath` takes the page of
a single place (`ReadSingle`), links without a feed (`CountLinks`), or the feed
(`ScanFeed`, `ScrollFeed`); `SkipCard`, `FailCard`, `OpenCard` are one card or
link, and `Judge` is `_assert_selectors_fresh`. The page is live: each count of
its cards may differ from the one before. `spotted` remembers that something
was counted as a candidate, `glimpsed` that `search` saw links when it chose the
path over links, which counts them again: if they are gone by then, nothing is a
candidate, and the empty list is returned without the unverified mark.

### AreaSearch
One request that runs searches one after the other. `Note` is what a request
does with the end of a search; `Failing`, `GridOutcome` and `SingleOutcome` are
the three ways in which the kinds differ. The jobs of searches that were given
up go on, holding browsers the next ones wait for (`jobs`, `Browsers`). A place
is a record with a `cid` and no `place_id`, as the extraction makes it.

### MapsSearch
`GET` and `POST /search`: `AskSearch` is the budget check with its rounding in
doubles, then the cache (GET only), the health check, the search or the job,
and the store.

### MapsContent
`OpenBrowser` takes a permit, `ReadPlace` and `ReadPage` read the place's page
and the second one, `CloseFirst` and `CloseSecond` give the browsers back and
make the answer. A page is whether its block was rendered, with the entries
found and whether each parses. `QaStatus`, `MenuStatus` and
`AvailabilityStatus` are the outcomes the services name; `HandlerAnswer` is what
the handlers pass on of them, which is what `given` holds: the statuses, the
`menu_link` and the messages are not in it. `ReadHistory` is `get_place_history`.
`MapsCommon` has the statuses the routers make of outcomes.

### ResponseCache, TieredCache
One key. In `ResponseCache` a worker has a Redis client or not, and each call
that fails turns to the worker's memory: `GetShared`/`GetLocal`,
`SetShared`/`SetLocal`, `DeleteShared`/`DeleteLocal`; `Fetch` is the handler's
own call, and `Sweep` the cleanup, which the application does not start.
`TieredCache` is the tiered back end of `cache_backends.py`; `age` and
`replaced` say how old a value is and since when Redis has another.

### RecordStore
`manager` is each worker's `RedisManager`, which connects once when the worker
starts or never; a store call then goes to Redis or to `inMemory`. While it is
connecting, `is_available` is false: the lifespan serves no request before its
own durability check has ended, but the scheduler it started just before may list
(`ListLocal`), and is answered from the dict (`early`). `ListStart` and `ListGet`
are the SCAN and the GETs, and `AnswerPage` cuts the listing to its limit and
offset. `sure` and `owed` say what a reader must be given: what was acknowledged
where it reads, and not deleted since.

### Transcripts
A thread per video (the library is synchronous): `PickApi` and `LookupApi` are
`_get_current_api`, `Call` the attempt, `Rotate` and `ClearApis` what follows a
blocked one. Since the dict of API objects may be cleared between the two lines
of `LookupApi`, a thread may find no object: a KeyError, and a 500.

### AuthSnapshot
Requests run in threads, so that every line is an action: `GetSettings` (with
`StoreSettings`: two threads may build an `lru_cache`d value at once),
`CompareState`, `TakeLock`, `Recheck`, `Decide`. `ChangeAndClear`, `ReloadGets`
and `ReloadStores` are `reload_settings`. One reload runs at a time. What a
request is held to (`settled`: it arrived with no reload under way) is
`environment`, the configuration last reloaded, not what `get_settings` has
cached. `overtaken` are the lookups that had an object of an older configuration
still to store when the last reload began: `lru_cache` lets them cache it after
the reload's `cache_clear`.

### AppLifespan
`StartTasks`, `StartServing`, `BeginShutdown`, `StopScheduler`, `StopLimiter`,
`CloseClients`, and the requests that open clients in between. `CreateJob`,
`JobDone` and `OpenSession` are what nobody gives back: the tasks of scrape jobs
and the `httpx` clients put in `gnews.session`. No step of the shutdown looks at
them.

### CachedFetch, GoogleTrends, GoogleNews, Autocomplete, UpstreamFeeds
`CachedFetch` is what the three routers share: `Lookup`, a fetch, `Store`, and
`Expire`. Each router's module says what its upstream's ends become: a result,
nothing, a part, a refusal, rate limiting or a failure. News decodes its
articles one by one, and an article page is followed redirect by redirect;
autocomplete's variations run in batches. `Texts` are the kinds of text that a
suggestions call may return, and `ParseSuggestions` says of each, by the format
asked for, whether it is read, handed on raw or an error. An answer carries the
question it was fetched for and, as history, how much the upstream gave: all,
nothing, some, a shape unknown ("odd"), a failure or a rate limit. `UpstreamFeeds` puts
the three over one cache and states the properties.

### RateLimiter
`redis` holds the shared counters, `memory` each worker's dict, `request` what
each handler is at. `CountInRedis` and `SetExpiry` are the two Redis calls of
`rate_limit_check`, each with a variant that raises before or after it was
applied; `CheckMemory` is the in-memory check, one step since no await is inside
its lock; `Purge` a sweep of the cleanup task. `HandleUnavailable` is the
failure policy. A request to `/api/v1` is checked twice (`left`). `StartWorker`
and `StartWithoutRedis` are the lifespan: the deployment check and the first
ping. A worker whose first ping fails has no Redis until it is restarted:
`get_client` would connect again, but every caller asks `is_available` first, so
its requests get 503 for good. `deployment` is fixed at the start of a
behaviour. `recent` counts what got through in the last ticks, per caller and
store: `recent[i][s][a]` is of this tick and the `a` before it.

### How they compose
The modules meet at named places: `CheckDue` in MonitorRegistry is `Begin` in
MonitorCheck; `Fire` in MonitorCheck is `StartFiring` in WebhookDelivery; the
"search" of ScrapeJobs is the life of a scraper in BrowserPool and the run of a
ScraperFeed; each search of AreaSearch is a job of ScrapeJobs; the store calls
of the registry, the webhooks and the jobs are RecordStore's; the cache of
MapsSearch and of CachedFetch is ResponseCache's. Each treats the other's
outcome as free: a check may fail or hang up at any await, a search may return
anything, a store call may raise. What holds of a module therefore holds
however the neighbour behaves.

AreaSearch and MapsContent hold a small model of their neighbours' jobs and
permits, since what goes wrong there is in the interplay.

`MCMaps` and `MCStores` put components that share no variable into one model:
`part` chooses at the start which of them a behaviour is of. That is a way to
run several small instances at once, not a composition.

The proofs are in modules of their own: `MonitorRegistryProofs`,
`MonitorCheckProofs`, `WebhookDeliveryProofs`, `ScrapeJobsProofs`,
`BrowserPoolProofs`, `RateLimiterProofs`, `MapsProofs` (the other components of
`MCMaps`) and `StoresProofs` (those of `MCStores`).

## 3. The runs

State counts are distinct states; each run takes from a second to about three
minutes on two workers.

| Run | Question | Bounds | States |
|---|---|---|---|
| `registry_index` | Does an index entry live as long as the monitors it leads to? | 2 monitors of 1 owner, 2 requests, 1 scheduler, TTL 2 h, 3 hours, 1 deletion, 1 failure | 2.2 M |
| `registry_due` | Are due monitors checked, and renewed before their TTL ends, by a scheduler that keeps up? | 2 monitors, 1 request, 1 scheduler, TTL 2 h, 5 hours, 1 deletion, 1 failure | 35 k |
| `check` | Does the record tell one story under overlapping checks, and do subscribers see a change feed? | 2 checks at once, 4 in all, 2 fields, 2 values, history of 2, 3 edits | 254 k |
| `delivery_overlap` | Are health and retries right when firings overlap? Do firings end? | 1 webhook, 2 firings, 2 attempts, 1 redirect, 1 death | 121 k |
| `delivery_serial` | With one firing at a time, is health real and everybody told? | 3 webhooks, listings of 2, and an inline url, 2 firings, 1 attempt, 1 death | 2.9 M |
| `limiter` | Is the limit kept, nothing uncounted, and does a limit end? | limit 2, window of 2 ticks, 2 handlers, 2 workers, 6 deployments, 1 failure | 361 k |
| `maps` | Is everybody told the truth by jobs, pages, areas, the search cache and place content, with no permit lost and nobody kept waiting? | see below | 263 k |
| `stores` | Is what is kept between requests recent, acknowledged and no failure, and given up when it should be? | see below | 2.9 M |
| `registry_race`, `delivery_lost`, `job_unverified`, `youtube_rotation` | One statement of the repository each, which the code does not keep (section 6) | the same instances | |

The components of `maps`: 1 job with 1 poller of 2 polls, 1 reader and 2 store
faults; 4 scrapers over a cap of 2 that is changed once, to 1 or 3; a feed of at
most 2 cards at once, 3 names, 2 results and 2 scrolls; an area request of up
to 4 searches (grids of side 1 and 2, lists of 0 to 2 items) over 1 browser;
2 search requests over four pairs of results and timeout; 1 content request
over 1 permit, with blocks of up to 2 entries.

The components of `stores`: 2 workers and 2 callers of each cache and of the
store, TTLs of 2 ticks with a memory of 1, 1 or 2 faults; 2 videos, 2 proxies,
2 attempts and 3 proxy configurations; 2 threads, 2 keys and 2 reloads; 3
requests with 2 client keys and a scrape job; 2 inquirers with 2 articles, 1 redirect, and 3
variations in batches of 2.

Why these bounds are enough to be interesting:

* Two monitors of one owner are the least that share an index entry; two
  requests and a scheduler give delete, create and check in every order. With
  TTL 2 h the clock passes the TTL of the first write and of a renewal.
* A history of two with up to four checks overflows twice; two fields with
  scrapes that see any subset exercise the merge; two values let a field change
  back.
* Three webhooks and listings of two leave one out of every full listing.
* Two attempts and one redirect reach every exit of the loop; a threshold of two
  failures is reached and left again.
* One job has all its observers: the jobs do not interact, except through the
  pool. Two faults let the put and then the put of the failure both raise.
* Four scrapers over a cap of two give a queue of two, so that a cancelled
  waiter can stand before another one, and a reconfiguration leaves two
  semaphores with holders and waiters of each.
* A feed that asks for two results of three names, with cards that come and go
  between two counts, reaches every verdict: places, duplicates, too many, only
  partial records, cards that all fail, and nothing at all.
* With one browser, each search of an area that is given up blocks the next; a
  grid of four points has every mix of failed, abandoned and answered ones.
* The pairs of results and timeout are the default, one that is refused, one
  whose advice is refused too, and one with other results that is accepted.
* One permit and requests that need two pages in turn: a request that kept its
  first would wait for itself.
* In both caches the age of a value passes its TTL, and each of two workers may
  hold a copy that the other has replaced. Two callers are a reader and a
  writer, in all orders. Keys do not interact.
* Two proxies with two attempts show whether the second attempt takes another,
  and two threads clear the dict of API objects under each other.
* Two reloads let a thread be behind by more than one configuration; three
  requests let two open clients while the third is served.
* The limiter's deployments are Redis with one and two workers, failing closed
  and open, and memory with one worker, with two outside production, and with two
  in production, which must not start. The clients of each share one bucket: a
  host without a key and with a made-up one, or one key used from two hosts.
  Buckets do not interact. One failure is enough to leave a counter without TTL.

Symmetry is used only in runs with no liveness property. `CHECK_DEADLOCK FALSE`
is set because the modelled systems may stop: the bounds run out, and nobody
has to send another request.

## 4. Fairness

Liveness is checked only under fairness the code justifies:

* MonitorRegistry: weak fairness of each scheduler's steps and of the stretches
  of a check. `_scheduler_loop` is `while True` around a tick whose exceptions
  are logged, every scrape and Redis call has a timeout, and the event loop
  resumes every ready task. Clients and the clock are not fair.
* WebhookDelivery: weak fairness of a firing's own steps (`DELIVERY_TIMEOUT_SECONDS`
  per POST, bounded back-off sleeps). A firing may still die.
* ScrapeJobs: weak fairness of the task and of the poller; none of requests,
  deletions or faults.
* RateLimiter: weak fairness of each request's steps (Redis calls time out after
  5 s) and of time. `LimitIsTemporary` supposes a caller that keeps asking a
  worker which has Redis.
* BrowserPool: weak fairness of each scraper's steps: Playwright bounds the
  launch, the page operations and the close. Cancellation is not fair.
* ScraperFeed: weak fairness of the search's own steps; each page operation ends
  or times out. That the page fails is not fair.
* AreaSearch: weak fairness of the request's own steps and of `search_and_wait`'s
  timeout. None of the jobs: a job, and with it its browser, may hang for ever.
* MapsContent: weak fairness of a request's steps, and strong fairness of
  `OpenBrowser`: the semaphore serves its waiters in order, so that a request for
  which a permit is free again and again gets it.

`MCStores` checks no liveness: nothing there has to happen. `RecordStore` has
fairness of its own (calls go on, Redis comes back), for `WorkersReconnect`.

`registry_due` sets `Prompt`: an hour ends only when no
handler is in the middle of its work and no monitor in reach of a scheduler is
due. The tick is a minute, so this is a scheduler that is not overloaded.

## 5. What is proved

Each component has a proof module that EXTENDS it, or, for the components of
`MCMaps` and `MCStores`, one proof module for all of them. Every invariant that a
passing run checks is a theorem, for every value of the constants that satisfies the
named assumptions; so are `StatusOnlyAdvances` and the refinement of ChangeFeed.
A property is seldom inductive as it stands; below is what had to be added.

**MonitorRegistryProofs.** `RegistryTypes`; `IndexAlwaysOutlives`
(`IndexOutlivesMonitor`). A write gives a record `clock + TTL`, so the proof needs
that no record lives longer than that (`WithinTTL`), and the types. With those
each write of an index entry dominates every earlier write of a monitor, and each
write of a monitor puts its actor where `Remembering` holds until the entry is
renewed. Deletion of the entry and failures are where `exposed` grows.
`CheckedInTime` (`MonitorNeverLapses`) has two premises: `Prompt`, the scheduler
that keeps up, and that every interval is shorter than the TTL. The second one is
needed: an interval of 168 h, which the API accepts, is the last disagreement of
section 6. The invariant is `LapseInv`: no check goes on over the end of an hour,
and a record outlives its next check by the TTL less its interval.

**MonitorCheckProofs.** `HistoryCounts` and `HistoryStory` say of the stored
record what must be said of every copy in hand as well, since what a check puts
back is made of its copy alone (`HistoryInv`); the lemmas about `Checked` do the
work (appending, trimming, merging). `CountedIsFired` rests on `FiringInv`: no
record counts a change that is not fired, dropped or still to be fired, and, while
checks never overlapped, the one under way has the record or its successor in
hand, and what was told last is what the snapshot says. `ChangeFeedRefined` proves
that the initial state maps to one of ChangeFeed and every step to a step or a
stutter; it needs only that whatever a record, a copy or a scrape says was shown
by the place (`HonestInv`).

**WebhookDeliveryProofs.** `Types` with a delivery's target; `LeftAlone`
(`StopsAtAnAnswer`), by what the answers so far say of where the attempt loop is;
`SubscribersTold` (`EverySubscriberIsTold`), by accounting for each listed
webhook of some listing as told, gone, or still to do; `HonestHealth` (`HealthIsHonest`): each
record and each copy about to be written claims no more than was done, the
deliveries still being recorded set aside, a counting argument on finite sets;
`RealHealth` (`HealthIsReal`) under `Serial`: then at most one delivery is being
recorded, and the counters miss exactly that one and those whose firing died.

**ScrapeJobsProofs.** `TruthTold` (`TruthIsTold`): at each stage of
`run_scrape_job` the record is one of the few that stage can leave behind,
whether a put raised before or after it was applied, and a poller or a reader
holds the list that such a record has; of the unverified mark it is about the
record only. `JobsAdvance` is the action property
`StatusOnlyAdvances`, by the same invariant.

**BrowserPoolProofs.** `PoolTypes`, `PermitsConserved`, `NoIdlePermit`,
`RunningIsPermitted`, `CapIsKept`. `PoolInv` is the types together with: a permit is
held exactly at the places of the code that should have one (`PermitByPlace`), a
waiter stands exactly once in one queue and no queue stands before a free permit,
free and held permits add up, semaphores not made yet are empty, and the first
one has the initial cap. The counting step is a lemma on cardinalities. `CapIsKept`
follows since, until a reconfiguration, running browsers are among the holders of
one semaphore. `RunningHoldsAPermit` is proved only.

**RateLimiterProofs.** `FailsClosed` (`NothingUncounted`); `BurstIsBounded`
(`BurstBound`): a caller has one bucket; `recent`, which counts cumulatively, is
tied to its counter in each store: a counter with a TTL bounds what passed since
it got it, one without bounds what passed since it was made, and the window
before adds at most the limit. Summing over the stores that count in a deployment
is a lemma on finite sets.

**MapsProofs.** `CountedIsNotEmpty` (`ReturnedMeansRead`): the scraper's counts
against the places collected and the cards seen; links that were seen and gone
when counted again are not covered (section 6). `FailuresTold`
(`FailuresAreTold`): one entry per search that ended, each told as it ended.
`HitsAndMisses` (`HitsAnswerLikeMisses`): an entry of the cache was put by a
request admitted for as many results. `AnswersAreOfPages`
(`AnswersComeFromPages`): stage by stage, what of the pages was read, and the
handlers' answers of it. `MapsTypes`
(`MapsTypeOK`) puts the six components side by side, with the theorems of the
jobs and the pool.

**StoresProofs.** `OwnIsGivenBack` (`ShutdownGivesBackItsOwn`): one manager owns
every pooled client, and nothing of the shutdown depends on the jobs and sessions.
`ReloadIsSeen` (`ReloadTakesEffect`): while no lookup was overtaken, what is cached
is of the configuration last reloaded, and so is what a request that came after the
reload has in hand, whatever snapshot another thread still has to publish.
`AcknowledgedAreSeen` (`AcknowledgedIsSeen`): what a call that is under way owes,
and what a limit and an offset may take from it.
`EveryCopyDies` (`CopiesDie`) and `CacheIsRecent` (`StaleIsBounded`), and with them
`AnswersAreRecent` (`CachedIsRecent`): age and time left add up in each tier and
each store. The response cache's part has the premise `CacheTTL > 0`, since a TTL
of 0 is stored without expiry. `StatusIsOfTheLast` (`StatusTellsTheAttempts`): the
attempts of a thread are one per pass of its loop, all blocked. `LossIsLost` and
`CauseIsTold` (`LossIsNotKept`, `AnswerTellsTheCause`): of each end of each call of
the three routers but the variations, the answer tells what it was, and what is
returned to the cache, already stored or on its way there, may be kept. `StoresTypes` (`StoresTypeOK`): a
step is of one component and a stutter of the others.

The assumptions are each module's named `ASSUME`, and TLC evaluates them all in
the runs. Beyond the ranges of numbers they say: actors whose number is counted
are finitely many (scrapers, firings, checkers, workers, cids); names that stand
for different things differ (`"redis"` is no worker, a key is no host, the absent
snapshot and the absent value are no values); a router has a choice and an extra
to ask with.

Looking for proofs changed the models in places, without changing what they
allow, but for one: overlapping arms of CASE in MapsContent, of which TLC took
the first, had a value that could not be told by the definition alone, and became
IF chains in the order of the code.

Only model-checked: the liveness properties (out of the prover's reach here).

## 6. Where code and documentation disagree

Four are runs in which TLC finds the documented statement violated.

* `registry_race`: `create_monitor` says its monitor is registered in the owner
  index before it returns (`gmm.py:323`). A concurrent `delete_monitor` of the
  owner's last monitor that listed the owner's records before this create can
  delete the index entry after it.
* `delivery_lost`: outcomes are written back so that health is real
  (`gmm.py:552`); two overlapping firings lose one.
* `job_unverified`: an emptiness that could not be confirmed is "carried out to the
  caller" (`scraper.py:485`) and callers must not take it for authoritative
  (`scraper_jobs.py:51`). The mark stays in the record and the listing of jobs;
  `get_job_results` (`google_maps_service.py:250`) drops it, and so do the search
  endpoints and `GET /jobs/{id}/results`.
* `youtube_rotation`: the next attempt gets another proxy
  (`youtube_transcripts_service.py:207`). It gets the first one again: what
  rotates is a cursor that attempts do not read.

Nine more have a configuration that shows the trace, as in
`tlc -config MCMaps_deleted.cfg MCMaps`:

* `DeletedMonitorsStayAway` (`MCMonitorRegistry_deleted.cfg`): "Monitor deleted successfully"
  (`api/google_maps/monitors.py:176`). A check that was scraping meanwhile puts
  its record back.
* `RunningJobIsNotAnError` (`MCMaps_running.cfg`): `api/google_maps/jobs.py:142` has an answer for a job that is still
  running which is never given, since the status it compares with has become
  "working".
* `DeletedJobsStayAway` (`MCMaps_deleted.cfg`): `delete_job` deletes "one of this API key's jobs and its results"
  (`jobs.py:195`); the task that is still running puts both back.
* `SightedIsNotZero` (`MCMaps_recount.cfg`): "Every link is a candidate; extracting none of them is a
  stale-selector signal, not an empty result" (`scraper.py:403`). Links that
  `search` saw and that are gone when they are counted again are no candidates: the
  empty list is returned, and is not marked as unverified.
* `FoundPlacesAreReturned` (`MCMaps_grid.cfg`): a grid search returns the "deduplicated places from all grid
  points" (`api/google_maps/search.py:395`). It collects them by `place_id`,
  which no scraped place has, so that it counts them and returns none.
* `EmptyListNamesItsReason` (`MCMaps_reason.cfg`): four outcomes are "reported distinctly in `menu_status`"
  (`service_menu.py:115`), and those of availability and questions likewise. The
  handlers (`places.py:237`, `286`, `419`) answer fields of their own choice, and
  these are not among them: a menu that could not be read and one on another site
  give the same answer.
* `EarlyListingIsComplete` (`MCStores_starting.cfg`): "records live in Redis when it is configured"
  (`record_store.py:16`). The scheduler's first listing may be made while the
  worker's first ping is out, and is answered from the empty dict. The next tick
  lists again.
* `UnreadableIsNotASuccess` (`MCStores_unknown.cfg`): an answer that neither parser reads is not to be a 200
  with a `raw_response` (`google_autocomplete_api.py:550`). With a callback it is
  (line 528).
* `ReloadAlwaysTakesEffect` (`MCStores_reload.cfg`): a reload "takes effect immediately" (`auth.py:102`). A lookup in
  another thread that began before it may cache the old settings after the
  reload's `cache_clear`, and the reload then finds and returns them. It takes
  several threads: two lookups on one event loop do not overlap.

The others are stated as properties too. Putting one in the place of the
property of `MCMaps_grid.cfg` or `MCStores_rotation.cfg` shows its trace:

* `LocationIsSearched` (`MCMaps`): a location search calls a `geocode` that the
  service does not have (`service_area_search.py:359`), and always fails.
* `ReviewsAreServed` (`MCMaps`): the rendered count of reviews is text, and is
  compared with a number (`service_place_content.py:90`): a 500.
* `AdviceIsAccepted` (`MCMaps`): at a timeout of 462 s the budget advises 35
  results, which need 463.
* `CachedAnswersTheQuestion` (`MCStores`): autocomplete's key leaves out twelve
  parameters that are sent to Google.
* `WorkersReconnect` (`RecordStore`, `StoreSpec`): a worker that starts while Redis
  is down does not reconnect, as `redis_manager.py:28` says it does.
* `MonitorNeverLapses` with `Interval <- Weekly` in `MCMonitorRegistry_due.cfg`:
  the FAQ says a monitor is checked every `check_interval_hours`, which may be
  168; the record's TTL is also 168 hours, and the record is gone when it
  becomes due.

A webhook's record may come back after its deletion as well (`WriteRecord` writes
without looking). Of the case that does hold, a job deleted after its task ended,
`StatusOnlyAdvances` says so.

The models show further behaviour worth knowing, for which no property is stated:

* Two checks that overlap may lose one's writing, and announce one change twice; a
  change whose check dies before its firing is announced by nobody; a Redis error
  while an outcome is recorded ends the firing, and the webhooks after it are told
  nothing. A firing lists at most 100 webhooks (`gmm.py:764`): the oldest of an
  owner with more are never told.
* The variations of a query are a 200 "Success! Keywords Generated" however many of
  them failed or were rate limited, as `docs/TROUBLESHOOTING.md:234` says.
* Suggestions of a shape unknown (JSON that is no list, a document of another kind)
  are handed on raw or as no suggestions, and kept for the TTL; a geo tree of
  unknown shape is kept for a day as a tree without locations.
* A shutdown leaves scrape-job tasks, with their browsers, the clients made for
  GNews and the Redis pool to the end of the process.
* A thread may find the dict of YouTube API objects cleared between the test of a
  key and its reading: a 500.
* A batch of transcripts with one failure is refused as a whole by its response
  model; `setup_nltk` that fails once leaves the corpus missing for the life of the
  process; a total failure of a grid is a 500 though the service says 502; the
  handler of the history drops `monitored`, which tells a place without a monitor
  from one without changes (`places.py:376`).

## 7. Left out, and planned

Not modelled:

* Request plumbing (`core/middleware.py`, `exceptions.py`, `base_router.py`,
  `decorators.py`, `health_checks.py`): no state between requests.
* Pure helpers (`core/search.py`, `url_guard.py`, `text_utils.py` and the like):
  functions of their input, with no actor to interleave with.
* Page data: CSS selectors, the regular expressions of place fields, the parsing
  of menus, slots and routes into entries; address data of geocoding.
* Formatting and wording: signatures and headers of deliveries, transcripts'
  output formats, exports, request schemas, the limiter's `Retry-After` and
  `X-RateLimit-Reset` (which truncate the time left).
* Settings that switch a part off: `ENABLE_CACHE=false` only leaves the cache
  steps out of each handler. `CACHE_TTL=0`, which stores without expiry, is not
  among the values taken by `CacheTTL` in the runs.
* `cap_fanout`, `reset_connection` and `RedisManager.shutdown`, which nothing in
  `src/` calls, and with it the Redis pool at shutdown; two `reload_settings` at
  once; the order of a listing, which decides what a limit cuts off.

Planned: theorems about steps rather than states where a step is what matters (an
entry of a cache that is replaced, a record that comes back after its deletion), and
an abstract record store, as the registry, the webhooks and the jobs use it (a call
takes effect, raises, or both), with `RecordStore` shown to implement it.
