------------------------------ MODULE RateLimiter ------------------------------
(***************************************************************************)
(* How many requests of one caller get through in a window of time.        *)
(*                                                                         *)
(* Every request passes the limiter in the middleware, and those to        *)
(* /api/v1 once more in a route dependency, against the same bucket.  With *)
(* REDIS_URL set the counters are in Redis, shared by all workers: an INCR *)
(* and a TTL in one transaction, then an EXPIRE when the counter has no    *)
(* TTL yet.  Without it each worker counts in a dict of its own.  A        *)
(* request the limiter cannot count gets a 503, or passes uncounted where  *)
(* RATE_LIMIT_FAIL_OPEN is set.                                            *)
(*                                                                         *)
(* Time goes in ticks.  A counter's count is capped at Limit + 1: beyond   *)
(* the limit nothing depends on it.                                        *)
(***************************************************************************)
EXTENDS Naturals, FiniteSets

CONSTANTS
  Workers,      \* worker processes
  Requests,     \* request handlers, reused for one request after another
  Hosts,        \* client addresses
  ApiKeys,      \* values an X-API-Key header may have
  KnownKeys,    \* the configured ones
  NoKey,        \* no such header
  Clients,      \* who may ask: records of a host and an apiKey
  Deployments,  \* configurations considered, each with the clients that ask
  Limit,        \* RATE_LIMIT_REQUESTS
  Window,       \* RATE_LIMIT_TIMEFRAME, in ticks
  MaxFaults     \* bound: Redis calls that raise, workers that die

ASSUME LimiterAssumption ==
  /\ IsFiniteSet(Workers) /\ "redis" \notin Workers
  /\ KnownKeys \subseteq ApiKeys /\ NoKey \notin ApiKeys
  /\ ApiKeys \cap Hosts = {}   \* callers of two kinds
  /\ Clients \subseteq [host : Hosts, apiKey : ApiKeys \cup {NoKey}]
  /\ Deployments \subseteq [backend : {"redis", "memory"}, workers : SUBSET Workers,
                            production : BOOLEAN, failOpen : BOOLEAN,
                            clients : SUBSET Clients]
  /\ Limit \in Nat \ {0} /\ Window \in Nat \ {0} /\ MaxFaults \in Nat

\* A slip: whatever key the header carries has a bucket of its own.
BucketOfAnyKey(c) ==
  IF c.apiKey # NoKey THEN <<"api_key", c.apiKey>> ELSE <<"ip", c.host>>

\* The storage key: only a known API key has a bucket; the rest is per host.
Bucket(c) ==
  IF c.apiKey \in KnownKeys THEN <<"api_key", c.apiKey>> ELSE <<"ip", c.host>>

Buckets == ({"api_key"} \X ApiKeys) \cup ({"ip"} \X Hosts)

\* Where counts are kept: in Redis, or in a worker's own dict.
Counters == Workers \cup {"redis"}

\* Who is limited, as the properties see it.
Callers   == KnownKeys \cup Hosts
Caller(c) == IF c.apiKey \in KnownKeys THEN c.apiKey ELSE c.host

VARIABLES
  deployment,  \* environment and settings, fixed
  up,          \* workers that serve requests
  available,   \* workers whose RedisManager.is_available
  redis,       \* the counters in Redis: count (0 = no such key) and ttl
  memory,      \* each worker's _rate_limit_store: count and age of its window
  request,     \* what each handler is at: Idle or a Handling record
  recent,      \* history: recent[i][s][a] = checks of i that s found within
               \* the limit in this tick and the a ticks before it
  leaked,      \* history: a check was passed that no store recorded
  faults       \* failures so far, for the bound

vars == <<deployment, up, available, redis, memory, request, recent, leaked, faults>>

\* A request between two awaits: "check" before a count, "expire" between the
\* INCR and the EXPIRE; `left` checks to go, `within` what the INCR said.
Handling == [at : {"check", "expire"}, worker : Workers, client : Clients,
             left : 1 .. 2, within : BOOLEAN]
Idle     == [at |-> "idle"]

NoTTL == Window + 1      \* the TTL of a counter without one
Gone  == [count |-> 0, ttl |-> NoTTL]
Empty == [count |-> 0, age |-> 0]
Quiet == [a \in 0 .. Window |-> 0]

\* The deployment cannot enforce its limits: every worker would count alone.
RequiresSharedStore ==
  /\ deployment.backend = "memory" /\ deployment.production
  /\ Cardinality(deployment.workers) > 1

Init ==
  /\ deployment \in Deployments
  /\ up = {} /\ available = {}
  /\ redis = [b \in Buckets |-> Gone]
  /\ memory = [w \in Workers |-> [b \in Buckets |-> Empty]]
  /\ request = [r \in Requests |-> Idle]
  /\ recent = [i \in Callers |-> [s \in Counters |-> Quiet]] /\ leaked = FALSE
  /\ faults = 0

Fault == faults < MaxFaults /\ faults' = faults + 1

---------------------------------------------------------------------------
(* Start-up and the RedisManager.  The lifespan is the first to ask for    *)
(* the instance and awaits its ping before any request is served.  When    *)
(* the ping fails there is no client, and is_available stays false for the *)
(* life of the process: get_client would connect again, but every caller   *)
(* looks at is_available first.                                            *)

\* start_cleanup_task raises where the limits cannot be enforced.
StartWorker(w) ==
  /\ w \in deployment.workers \ up /\ ~RequiresSharedStore
  /\ up' = up \cup {w}
  /\ available' = IF deployment.backend = "redis" THEN available \cup {w} ELSE available
  /\ UNCHANGED <<deployment, redis, memory, request, recent, leaked, faults>>

StartWithoutRedis(w) ==
  /\ w \in deployment.workers \ up /\ deployment.backend = "redis"
  /\ Fault
  /\ up' = up \cup {w}
  /\ UNCHANGED <<deployment, available, redis, memory, request, recent, leaked>>

\* The process dies, with the requests and the dict it held.  What a memory
\* deployment promises, it promises for the life of the process.
Crash(w) ==
  /\ w \in up /\ Fault
  /\ up' = up \ {w} /\ available' = available \ {w}
  /\ memory' = [memory EXCEPT ![w] = [b \in Buckets |-> Empty]]
  /\ request' = [r \in Requests |->
                   IF request[r] # Idle /\ request[r].worker = w THEN Idle ELSE request[r]]
  /\ recent' = [i \in Callers |-> [recent[i] EXCEPT ![w] = Quiet]]
  /\ UNCHANGED <<deployment, redis, leaked>>

---------------------------------------------------------------------------
(* A request and the outcome of its checks.                                *)

Arrive(r, w, c, n) ==
  /\ request[r] = Idle /\ w \in up /\ c \in deployment.clients
  /\ request' = [request EXCEPT ![r] =
       [at |-> "check", worker |-> w, client |-> c, left |-> n, within |-> FALSE]]
  /\ UNCHANGED <<deployment, up, available, redis, memory, recent, leaked, faults>>

\* The check is passed: on to the dependency, or to the handler.
Pass(r) ==
  LET rest == request[r].left - 1 IN
  request' = [request EXCEPT ![r] =
    IF rest = 0 THEN Idle ELSE [@ EXCEPT !.at = "check", !.left = rest, !.within = FALSE]]

\* 429, 503 and the handler's own answer all end the limiter's part.
Answer(r) == request' = [request EXCEPT ![r] = Idle]

Decide(r, allowed) == IF allowed THEN Pass(r) ELSE Answer(r)

\* A slip: RedisManager's (True, 0, 0) is taken for an allowed request.
HandleUnavailableAllowing(r) == Pass(r) /\ leaked' = TRUE

\* _handle_unavailable: 503, or through without a count.
HandleUnavailable(r) ==
  IF deployment.failOpen
    THEN Pass(r) /\ leaked' = TRUE
    ELSE Answer(r) /\ UNCHANGED leaked

Within(count) == count <= Limit

\* Noted when it is counted, so also where the EXPIRE then raises.
Note(c, s, count) ==
  recent' = IF Within(count)
            THEN [recent EXCEPT ![Caller(c)][s] = [a \in 0 .. Window |-> @[a] + 1]]
            ELSE recent

OneMore(count) == IF count > Limit THEN count ELSE count + 1

Checks(r, backend) ==
  /\ deployment.backend = backend
  /\ request[r] # Idle /\ request[r].at = "check"

\* REDIS_URL is set and the worker has no connection.
CheckUnavailable(r) ==
  /\ Checks(r, "redis") /\ request[r].worker \notin available
  /\ HandleUnavailable(r)
  /\ UNCHANGED <<deployment, up, available, redis, memory, recent, faults>>

---------------------------------------------------------------------------
(* RedisManager.rate_limit_check: INCR and TTL in one transaction, then    *)
(* EXPIRE.  Each of the two may raise, before or after it was applied.     *)

Increment(b) == redis' = [redis EXCEPT ![b].count = OneMore(@)]

\* A slip: only the request that made the counter gives it a TTL.
NeedsExpiryIfFirst(b) == redis[b].count = 0

NeedsExpiry(b) == redis[b].ttl = NoTTL

CountInRedis(r) ==
  LET c == request[r].client
      b == Bucket(c)
      n == OneMore(redis[b].count)
  IN
  /\ Checks(r, "redis") /\ request[r].worker \in available
  /\ Increment(b) /\ Note(c, "redis", n)
  /\ IF NeedsExpiry(b)
       THEN request' = [request EXCEPT ![r].at = "expire", ![r].within = Within(n)]
       ELSE Decide(r, Within(n))
  /\ UNCHANGED <<deployment, up, available, memory, leaked, faults>>

CountRaises(r) ==
  /\ Checks(r, "redis") /\ request[r].worker \in available
  /\ Fault
  /\ Increment(Bucket(request[r].client)) \/ UNCHANGED redis
  /\ HandleUnavailable(r)
  /\ UNCHANGED <<deployment, up, available, memory, recent>>

Expiring(r) == request[r] # Idle /\ request[r].at = "expire"

\* A slip: the counter is written back with its TTL.
SetTTLAnyway(b) == redis' = [redis EXCEPT ![b].ttl = Window]

\* EXPIRE does nothing where the key is gone again.
SetTTL(b) ==
  redis' = IF redis[b].count = 0 THEN redis ELSE [redis EXCEPT ![b].ttl = Window]

SetExpiry(r) ==
  /\ Expiring(r)
  /\ SetTTL(Bucket(request[r].client))
  /\ Decide(r, request[r].within)
  /\ UNCHANGED <<deployment, up, available, memory, recent, leaked, faults>>

ExpiryRaises(r) ==
  /\ Expiring(r) /\ Fault
  /\ SetTTL(Bucket(request[r].client)) \/ UNCHANGED redis
  /\ HandleUnavailable(r)
  /\ UNCHANGED <<deployment, up, available, memory, recent>>

---------------------------------------------------------------------------
(* The store in memory: no await is inside its lock, so a check is one     *)
(* step.  An entry's window has passed when its age exceeds Window.        *)

CheckMemory(r) ==
  LET c == request[r].client
      w == request[r].worker
      b == Bucket(c)
      entry == memory[w][b]
      n == IF entry.count = 0 \/ entry.age > Window THEN 1 ELSE OneMore(entry.count)
  IN
  /\ Checks(r, "memory")
  /\ memory' = [memory EXCEPT ![w][b] =
                  IF n = 1 THEN [count |-> 1, age |-> 0] ELSE [entry EXCEPT !.count = n]]
  /\ Note(c, w, n)
  /\ Decide(r, Within(n))
  /\ UNCHANGED <<deployment, up, available, redis, leaked, faults>>

\* One sweep of cleanup_rate_limit_store.
Purge(w) ==
  LET Expired(b) == memory[w][b].count > 0 /\ memory[w][b].age > Window IN
  /\ w \in up /\ \E b \in Buckets : Expired(b)
  /\ memory' = [memory EXCEPT ![w] =
                  [b \in Buckets |-> IF Expired(b) THEN Empty ELSE memory[w][b]]]
  /\ UNCHANGED <<deployment, up, available, redis, request, recent, leaked, faults>>

Aged(counter) ==
  IF counter.ttl = NoTTL THEN counter
  ELSE IF counter.ttl = 1 THEN Gone ELSE [counter EXCEPT !.ttl = @ - 1]

Tick ==
  /\ redis' = [b \in Buckets |-> Aged(redis[b])]
  /\ memory' = [w \in Workers |-> [b \in Buckets |->
       IF memory[w][b].count = 0 \/ memory[w][b].age > Window
         THEN memory[w][b] ELSE [memory[w][b] EXCEPT !.age = @ + 1]]]
  /\ recent' = [i \in Callers |-> [s \in Counters |-> [a \in 0 .. Window |->
       IF a = 0 THEN 0 ELSE recent[i][s][a - 1]]]]
  /\ UNCHANGED <<deployment, up, available, request, leaked, faults>>

RequestStep(r) ==
  \/ CheckUnavailable(r) \/ CheckMemory(r)
  \/ CountInRedis(r) \/ CountRaises(r)
  \/ SetExpiry(r) \/ ExpiryRaises(r)

Next ==
  \/ Tick
  \/ \E w \in Workers : StartWorker(w) \/ StartWithoutRedis(w) \/ Crash(w) \/ Purge(w)
  \/ \E r \in Requests :
       \/ RequestStep(r)
       \/ \E w \in Workers, c \in Clients, n \in 1 .. 2 : Arrive(r, w, c, n)

Spec == Init /\ [][Next]_vars

\* Time passes, and a Redis call answers or times out within 5 seconds.
FairSpec == Spec /\ WF_vars(Tick) /\ \A r \in Requests : WF_vars(RequestStep(r))

---------------------------------------------------------------------------
(* Properties.                                                             *)

\* Every variable keeps its type, and a counter without a count is gone.
TypeOK ==
  /\ deployment \in Deployments
  /\ up \subseteq deployment.workers /\ available \subseteq up
  /\ redis \in [Buckets -> [count : 0 .. Limit + 1, ttl : 1 .. NoTTL]]
  /\ \A b \in Buckets : redis[b].count = 0 => redis[b] = Gone
  /\ memory \in [Workers -> [Buckets -> [count : 0 .. Limit + 1, age : 0 .. Window + 1]]]
  /\ request \in [Requests -> Handling \cup {Idle}]
  /\ recent \in [Callers -> [Counters -> [0 .. Window -> Nat]]]
  /\ leaked \in BOOLEAN /\ faults \in 0 .. MaxFaults

\* The stores a deployment counts in: a warning admits one per worker outside
\* production (TROUBLESHOOTING.md:142), and nothing else multiplies the limit.
Stores == IF deployment.backend = "redis" \/ deployment.production THEN 1
          ELSE Cardinality(deployment.workers)

\* The checks of caller i that got through in the last Window ticks.
Passed(i) == UNION {{s} \X (1 .. recent[i][s][Window]) : s \in Counters}

\* What a fixed window bounds: within any Window ticks a caller gets through
\* at most twice the limit, the end of one window and the start of the next,
\* however workers, expiry, lost EXPIREs and made-up keys interleave.
BurstBound ==
  \A i \in Callers : Cardinality(Passed(i)) <= 2 * Limit * Stores

\* The limiter fails closed: without RATE_LIMIT_FAIL_OPEN no check is passed
\* that no store recorded, whatever Redis does.
NothingUncounted == leaked => deployment.failOpen

\* Whoever asks while this counter decides reaches Redis.
Consulted(b) ==
  \E r \in Requests : /\ Checks(r, "redis")
                       /\ request[r].worker \in available
                       /\ Bucket(request[r].client) = b

\* A limit ends: a bucket that keeps being asked about does not stay
\* exhausted, even where a worker died or Redis raised between the INCR and
\* the EXPIRE, which leaves a counter that does not expire.
LimitIsTemporary ==
  \A b \in Buckets :
    []<>Consulted(b) => []<>(redis[b].count < Limit)
================================================================================
