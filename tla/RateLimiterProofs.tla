--------------------------- MODULE RateLimiterProofs ---------------------------
(***************************************************************************)
(* RateLimiter, for every limit, window, number of workers and requests,   *)
(* and every set of deployments: the type invariant, what leaks, and the   *)
(* bound on a burst.                                                       *)
(***************************************************************************)
EXTENDS RateLimiter, FiniteSetTheorems, TLAPS

(***************************************************************************)
(* Types.                                                                  *)
(***************************************************************************)

Deployable == [backend : {"redis", "memory"}, workers : SUBSET Workers,
               production : BOOLEAN, failOpen : BOOLEAN, clients : SUBSET Clients]

RedisCounters == [count : 0 .. Limit + 1, ttl : 1 .. NoTTL]
LocalCounters == [count : 0 .. Limit + 1, age : 0 .. Window + 1]
Histories     == [0 .. Window -> Nat]

LEMMA CountersAre ==
  /\ Gone \in RedisCounters /\ Empty \in LocalCounters /\ Quiet \in Histories
  /\ Gone.count = 0 /\ Gone.ttl = NoTTL /\ Empty.count = 0 /\ Empty.age = 0
  /\ Idle \notin Handling
  /\ \A n \in 0 .. Limit + 1 : OneMore(n) \in 1 .. Limit + 1
BY LimiterAssumption
   DEF Gone, Empty, Quiet, Histories, RedisCounters, LocalCounters, NoTTL, Idle, Handling,
       OneMore

LEMMA BucketsAre ==
  /\ \A c \in Clients : Bucket(c) \in Buckets /\ Caller(c) \in Callers
  /\ Counters = Workers \cup {"redis"}
<1>1. ASSUME NEW c \in Clients PROVE Bucket(c) \in Buckets /\ Caller(c) \in Callers
  <2>1. c \in [host : Hosts, apiKey : ApiKeys \cup {NoKey}] /\ KnownKeys \subseteq ApiKeys
    BY LimiterAssumption
  <2>2. c.host \in Hosts
    BY <2>1
  <2>3. QED BY <2>1, <2>2 DEF Bucket, Caller, Buckets, Callers
<1>2. QED BY <1>1 DEF Counters

\* A request that is under way, and how a check moves it.
LEMMA HandlingMoves ==
  ASSUME NEW q \in Handling
  PROVE  /\ q.worker \in Workers /\ q.client \in Clients /\ q.left \in 1 .. 2
         /\ q.within \in BOOLEAN
         /\ \A rest \in 1 .. 2 :
              [q EXCEPT !.at = "check", !.left = rest, !.within = FALSE] \in Handling
         /\ \A within \in BOOLEAN : [q EXCEPT !.at = "expire", !.within = within] \in Handling
<1>1. /\ q.worker \in Workers /\ q.client \in Clients /\ q.left \in 1 .. 2
      /\ q.within \in BOOLEAN
  BY DEF Handling
<1>2. \A rest \in 1 .. 2 :
        [q EXCEPT !.at = "check", !.left = rest, !.within = FALSE] \in Handling
  BY Zenon DEF Handling
<1>3. \A within \in BOOLEAN : [q EXCEPT !.at = "expire", !.within = within] \in Handling
  BY Zenon DEF Handling
<1>4. QED BY <1>1, <1>2, <1>3

LEMMA DecideTypes ==
  ASSUME TypeOK, NEW r \in Requests, request[r] # Idle,
         Pass(r) \/ Answer(r) \/ HandleUnavailable(r)
  PROVE  /\ request' \in [Requests -> Handling \cup {Idle}]
         /\ \A q \in Requests \ {r} : request'[q] = request[q]
         /\ request'[r] # Idle => request'[r].worker = request[r].worker
<1>1. request[r] \in Handling /\ request \in [Requests -> Handling \cup {Idle}]
  BY DEF TypeOK
<1>2. CASE Pass(r)
  <2> DEFINE rest == request[r].left - 1
             next == [request[r] EXCEPT !.at = "check", !.left = rest, !.within = FALSE]
  <2>1. request' = [request EXCEPT ![r] = IF rest = 0 THEN Idle ELSE next]
    BY <1>2 DEF Pass
  <2>2. rest # 0 => next \in Handling
    <3>1. rest \in 0 .. 1
      BY <1>1 DEF Handling
    <3> DEFINE q == request[r]
    <3>2. \A n \in 1 .. 2 : [q EXCEPT !.at = "check", !.left = n, !.within = FALSE] \in Handling
      <4>1. q \in Handling
        BY <1>1
      <4> HIDE DEF q
      <4>2. QED BY <4>1, HandlingMoves
    <3>3. rest # 0 => rest \in 1 .. 2
      BY <3>1
    <3>4. rest # 0 => [q EXCEPT !.at = "check", !.left = rest, !.within = FALSE] \in Handling
      BY <3>2, <3>3, Zenon
    <3>5. QED BY <3>4
  <2>3. next.worker = request[r].worker
    BY <1>1 DEF Handling
  <2> HIDE DEF next, rest
  <2>4. QED BY <1>1, <2>1, <2>2, <2>3
<1>3. CASE Answer(r)
  BY <1>1, <1>3 DEF Answer
<1>4. QED BY <1>2, <1>3 DEF HandleUnavailable

\* A request is served by a worker that is up, and none comes up where the
\* deployment cannot enforce its limits.
Served ==
  /\ \A r \in Requests : request[r] # Idle => request[r].worker \in up
  /\ up # {} => ~RequiresSharedStore

Typed == TypeOK /\ Served

LEMMA NoteTypes ==
  ASSUME TypeOK, NEW c \in Clients, NEW s \in Counters, NEW n, Note(c, s, n)
  PROVE  recent' \in [Callers -> [Counters -> Histories]]
<1> DEFINE i == Caller(c)
           more == [a \in 0 .. Window |-> recent[i][s][a] + 1]
<1>1. i \in Callers /\ recent \in [Callers -> [Counters -> Histories]]
  BY BucketsAre DEF TypeOK, Histories
<1>2. more \in Histories
  <2> DEFINE h == recent[i][s]
  <2>1. h \in Histories
    BY <1>1
  <2> HIDE DEF h
  <2>2. [a \in 0 .. Window |-> h[a] + 1] \in Histories
    BY <2>1 DEF Histories
  <2>3. QED BY <2>2 DEF h
<1>3. recent' = recent \/ recent' = [recent EXCEPT ![i] = [recent[i] EXCEPT ![s] = more]]
  BY DEF Note
<1> HIDE DEF i, more
<1>4. [recent[i] EXCEPT ![s] = more] \in [Counters -> Histories]
  BY <1>1, <1>2
<1>5. QED BY <1>1, <1>3, <1>4

LEMMA RedisTypes ==
  ASSUME TypeOK, NEW b \in Buckets, Increment(b) \/ SetTTL(b) \/ UNCHANGED redis
  PROVE  /\ redis' \in [Buckets -> RedisCounters]
         /\ \A d \in Buckets : redis'[d].count = 0 => redis'[d] = Gone
<1>1. redis \in [Buckets -> RedisCounters] /\ redis[b] \in RedisCounters
  BY DEF TypeOK, RedisCounters
<1>2. redis[b].count \in 0 .. Limit + 1 /\ redis[b].ttl \in 1 .. NoTTL
  BY <1>1 DEF RedisCounters
<1>3. CASE Increment(b)
  <2> DEFINE n == OneMore(redis[b].count)
             k == [redis[b] EXCEPT !.count = n]
  <2>1. redis' = [redis EXCEPT ![b] = k]
    BY <1>3 DEF Increment
  <2>2. n \in 1 .. Limit + 1
    BY <1>2, CountersAre
  <2> HIDE DEF n
  <2>3. k \in RedisCounters /\ k.count = n
    BY <1>1, <2>2, LimiterAssumption DEF RedisCounters
  <2> HIDE DEF k
  <2>4. k.count # 0
    BY <2>2, <2>3
  <2>5. QED BY <1>1, <2>1, <2>3, <2>4 DEF TypeOK
<1>4. CASE SetTTL(b)
  <2> DEFINE k == [redis[b] EXCEPT !.ttl = Window]
  <2>1. redis' = IF redis[b].count = 0 THEN redis ELSE [redis EXCEPT ![b] = k]
    BY <1>4 DEF SetTTL
  <2>2. k \in RedisCounters /\ k.count = redis[b].count
    BY <1>1, LimiterAssumption DEF RedisCounters, NoTTL
  <2> HIDE DEF k
  <2>3. QED BY <1>1, <2>1, <2>2 DEF TypeOK
<1>5. QED BY <1>1, <1>3, <1>4 DEF TypeOK

LEMMA RequestTypes ==
  ASSUME Typed, NEW r \in Requests, RequestStep(r)
  PROVE  Typed'
<1> DEFINE c == request[r].client
<1>1. request[r] # Idle
  BY DEF RequestStep, CheckUnavailable, CheckMemory, CountInRedis, CountRaises, SetExpiry,
         ExpiryRaises, Checks, Expiring
<1>2. request[r] \in Handling /\ c \in Clients /\ Bucket(c) \in Buckets
      /\ request[r].worker \in Workers
  BY <1>1, HandlingMoves, BucketsAre DEF Typed, TypeOK
<1>3. UNCHANGED <<deployment, up, available>>
  BY DEF RequestStep, CheckUnavailable, CheckMemory, CountInRedis, CountRaises, SetExpiry,
         ExpiryRaises
<1>4. /\ request' \in [Requests -> Handling \cup {Idle}]
      /\ \A q \in Requests \ {r} : request'[q] = request[q]
      /\ request'[r] # Idle => request'[r].worker = request[r].worker
  <2>1. CASE CheckUnavailable(r) \/ CountRaises(r) \/ ExpiryRaises(r)
    BY <1>1, <2>1, DecideTypes DEF CheckUnavailable, CountRaises, ExpiryRaises, Typed
  <2>2. CASE CheckMemory(r)
    <3>1. Pass(r) \/ Answer(r)
      BY <2>2 DEF CheckMemory, Decide
    <3>2. QED BY <1>1, <3>1, DecideTypes DEF Typed
  <2>3. CASE SetExpiry(r)
    <3>1. Pass(r) \/ Answer(r)
      BY <2>3 DEF SetExpiry, Decide
    <3>2. QED BY <1>1, <3>1, DecideTypes DEF Typed
  <2>4. CASE CountInRedis(r)
    <3> DEFINE within == Within(OneMore(redis[Bucket(c)].count))
               waiting == [request[r] EXCEPT !.at = "expire", !.within = within]
    <3>1. CASE NeedsExpiry(Bucket(c))
      <4>1. within \in BOOLEAN
        BY DEF Within
      <4>2. request' = [request EXCEPT ![r] = waiting]
        BY <2>4, <3>1 DEF CountInRedis
      <4> HIDE DEF within
      <4>3. waiting \in Handling
        BY <1>2, <4>1, HandlingMoves
      <4>4. waiting.worker = request[r].worker
        BY <1>2 DEF Handling
      <4> HIDE DEF waiting
      <4>5. QED BY <4>2, <4>3, <4>4 DEF Typed, TypeOK
    <3>2. CASE ~NeedsExpiry(Bucket(c))
      <4>1. Pass(r) \/ Answer(r)
        BY <2>4, <3>2 DEF CountInRedis, Decide
      <4>2. QED BY <1>1, <4>1, DecideTypes DEF Typed
    <3>3. QED BY <3>1, <3>2
  <2>5. QED BY <2>1, <2>2, <2>3, <2>4 DEF RequestStep
<1>5. /\ redis' \in [Buckets -> RedisCounters]
      /\ \A d \in Buckets : redis'[d].count = 0 => redis'[d] = Gone
  <2>1. Increment(Bucket(c)) \/ SetTTL(Bucket(c)) \/ UNCHANGED redis
    BY DEF RequestStep, CheckUnavailable, CheckMemory, CountInRedis, CountRaises, SetExpiry,
           ExpiryRaises
  <2>2. QED BY <1>2, <2>1, RedisTypes DEF Typed
<1>6. recent' \in [Callers -> [Counters -> Histories]]
  <2>1. \/ UNCHANGED recent
        \/ \E s \in Counters, n \in {OneMore(redis[Bucket(c)].count)}
                 \cup {1, OneMore(memory[request[r].worker][Bucket(c)].count)} : Note(c, s, n)
    BY <1>2, BucketsAre
       DEF RequestStep, CheckUnavailable, CheckMemory, CountInRedis, CountRaises, SetExpiry,
           ExpiryRaises
  <2>2. QED BY <1>2, <2>1, NoteTypes DEF Typed, TypeOK, Histories
<1>7. memory' \in [Workers -> [Buckets -> LocalCounters]]
  <2> DEFINE w == request[r].worker
             b == Bucket(c)
             entry == memory[w][b]
             n == IF entry.count = 0 \/ entry.age > Window THEN 1 ELSE OneMore(entry.count)
             new == IF n = 1 THEN [count |-> 1, age |-> 0] ELSE [entry EXCEPT !.count = n]
  <2>1. memory' = memory \/ memory' = [memory EXCEPT ![w] = [memory[w] EXCEPT ![b] = new]]
    BY DEF RequestStep, CheckUnavailable, CheckMemory, CountInRedis, CountRaises, SetExpiry,
           ExpiryRaises
  <2>2. memory \in [Workers -> [Buckets -> LocalCounters]] /\ entry \in LocalCounters
    BY <1>2 DEF Typed, TypeOK, LocalCounters
  <2>3. n \in 1 .. Limit + 1
    BY <2>2, CountersAre, LimiterAssumption DEF LocalCounters
  <2> HIDE DEF n
  <2>4. new \in LocalCounters
    BY <2>2, <2>3, LimiterAssumption DEF LocalCounters
  <2> HIDE DEF new
  <2>5. QED BY <1>2, <2>1, <2>2, <2>4
<1>8. leaked' \in BOOLEAN /\ faults' \in 0 .. MaxFaults
  <2>1. leaked' = leaked \/ leaked' = TRUE
    BY DEF RequestStep, CheckUnavailable, CheckMemory, CountInRedis, CountRaises,
           SetExpiry, ExpiryRaises, HandleUnavailable
  <2>2. faults' = faults \/ Fault
    BY DEF RequestStep, CheckUnavailable, CheckMemory, CountInRedis, CountRaises,
           SetExpiry, ExpiryRaises
  <2>3. leaked' \in BOOLEAN
    BY <2>1, Zenon DEF Typed, TypeOK
  <2>4. faults' \in 0 .. MaxFaults
    BY <2>2, LimiterAssumption DEF Typed, TypeOK, Fault
  <2>5. QED BY <2>3, <2>4
<1>9. QED
  BY <1>1, <1>3, <1>4, <1>5, <1>6, <1>7, <1>8
     DEF Typed, TypeOK, Served, RequiresSharedStore, RedisCounters, LocalCounters, Histories

LEMMA TickTypes ==
  ASSUME Typed, Tick
  PROVE  Typed'
<1>1. ASSUME NEW b \in Buckets
      PROVE  redis'[b] \in RedisCounters /\ (redis'[b].count = 0 => redis'[b] = Gone)
  <2> DEFINE k == redis[b]
  <2>1. k \in RedisCounters /\ (k.count = 0 => k = Gone) /\ redis'[b] = Aged(k)
    BY DEF Typed, TypeOK, RedisCounters, Tick
  <2> HIDE DEF k
  <2>2. Aged(k) \in RedisCounters /\ (Aged(k).count = 0 => Aged(k) = Gone)
    <3>1. CASE k.ttl = NoTTL \/ k.ttl = 1
      BY <2>1, <3>1, CountersAre, LimiterAssumption DEF Aged, NoTTL
    <3>2. CASE k.ttl # NoTTL /\ k.ttl # 1
      <4> DEFINE left == k.ttl - 1
      <4>1. left \in 1 .. NoTTL /\ k.count # 0
        BY <2>1, <3>2, CountersAre, LimiterAssumption DEF RedisCounters, NoTTL
      <4>2. Aged(k) = [k EXCEPT !.ttl = left]
        BY <3>2 DEF Aged
      <4> HIDE DEF left
      <4>3. QED BY <2>1, <4>1, <4>2 DEF RedisCounters
    <3>3. QED BY <3>1, <3>2
  <2>3. QED BY <2>1, <2>2
<1>2. ASSUME NEW w \in Workers, NEW b \in Buckets
      PROVE  memory'[w][b] \in LocalCounters
  <2> DEFINE k == memory[w][b]
             older == k.age + 1
  <2>1. k \in LocalCounters
    BY DEF Typed, TypeOK, LocalCounters
  <2>2. memory'[w][b] = IF k.count = 0 \/ k.age > Window THEN k ELSE [k EXCEPT !.age = older]
    BY DEF Tick
  <2>3. ~(k.age > Window) => older \in 0 .. Window + 1
    BY <2>1, LimiterAssumption DEF LocalCounters
  <2> HIDE DEF k, older
  <2>4. QED BY <2>1, <2>2, <2>3 DEF LocalCounters
<1>3. ASSUME NEW i \in Callers, NEW s \in Counters
      PROVE  recent'[i][s] \in Histories
  <2> DEFINE h == recent[i][s]
  <2>1. h \in Histories
    BY DEF Typed, TypeOK, Histories
  <2>2. recent'[i][s] = [a \in 0 .. Window |-> IF a = 0 THEN 0 ELSE h[a - 1]]
    BY DEF Tick
  <2> HIDE DEF h
  <2>3. QED BY <2>1, <2>2, LimiterAssumption DEF Histories
<1>4. /\ redis' = [b \in Buckets |-> redis'[b]]
      /\ memory' = [w \in Workers |-> [b \in Buckets |-> memory'[w][b]]]
      /\ recent' = [i \in Callers |-> [s \in Counters |-> recent'[i][s]]]
  BY DEF Tick
<1>5. /\ redis' \in [Buckets -> RedisCounters]
      /\ memory' \in [Workers -> [Buckets -> LocalCounters]]
      /\ recent' \in [Callers -> [Counters -> Histories]]
  BY <1>1, <1>2, <1>3, <1>4
<1>6. UNCHANGED <<deployment, up, available, request, leaked, faults>>
  BY DEF Tick
<1>7. QED
  BY <1>1, <1>5, <1>6
     DEF Typed, TypeOK, Served, RequiresSharedStore, RedisCounters, LocalCounters, Histories

LEMMA WorkerTypes ==
  ASSUME Typed, NEW w \in Workers,
         StartWorker(w) \/ StartWithoutRedis(w) \/ Crash(w) \/ Purge(w)
  PROVE  Typed'
<1>1. CASE StartWorker(w)
  BY <1>1 DEF StartWorker, Typed, TypeOK, Served, RequiresSharedStore
<1>2. CASE StartWithoutRedis(w)
  <2>1. ~RequiresSharedStore
    BY <1>2 DEF StartWithoutRedis, RequiresSharedStore
  <2>2. QED
    BY <1>2, <2>1, LimiterAssumption
       DEF StartWithoutRedis, Fault, Typed, TypeOK, Served, RequiresSharedStore
<1>3. CASE Crash(w)
  <2>1. memory' \in [Workers -> [Buckets -> LocalCounters]]
    BY <1>3, CountersAre DEF Crash, Typed, TypeOK, LocalCounters
  <2>2. recent' \in [Callers -> [Counters -> Histories]]
    <3>1. \A i \in Callers : [recent[i] EXCEPT ![w] = Quiet] \in [Counters -> Histories]
      BY CountersAre, BucketsAre DEF Typed, TypeOK, Histories
    <3>2. QED BY <1>3, <3>1 DEF Crash
  <2>3. /\ request' \in [Requests -> Handling \cup {Idle}]
        /\ \A r \in Requests : request'[r] # Idle => request'[r].worker \in up \ {w}
    BY <1>3 DEF Crash, Typed, TypeOK, Served
  <2>4. faults' \in 0 .. MaxFaults
    BY <1>3, LimiterAssumption DEF Crash, Fault, Typed, TypeOK
  <2>5. QED
    BY <1>3, <2>1, <2>2, <2>3, <2>4
       DEF Crash, Typed, TypeOK, Served, RequiresSharedStore, LocalCounters, Histories
<1>4. CASE Purge(w)
  <2>1. memory' \in [Workers -> [Buckets -> LocalCounters]]
    BY <1>4, CountersAre DEF Purge, Typed, TypeOK, LocalCounters
  <2>2. QED
    BY <1>4, <2>1 DEF Purge, Typed, TypeOK, Served, RequiresSharedStore, LocalCounters
<1>5. QED BY <1>1, <1>2, <1>3, <1>4

LEMMA ArriveTypes ==
  ASSUME Typed, NEW r \in Requests, NEW w \in Workers, NEW c \in Clients, NEW n \in 1 .. 2,
         Arrive(r, w, c, n)
  PROVE  Typed'
<1> DEFINE q == [at |-> "check", worker |-> w, client |-> c, left |-> n, within |-> FALSE]
<1>1. q \in Handling /\ q.worker = w
  BY DEF Handling
<1>2. request' = [request EXCEPT ![r] = q] /\ w \in up
  BY DEF Arrive
<1> HIDE DEF q
<1>3. QED BY <1>1, <1>2 DEF Arrive, Typed, TypeOK, Served, RequiresSharedStore

LEMMA TypedInvariant == Spec => []Typed
<1>1. Init => Typed
  <2> SUFFICES ASSUME Init PROVE Typed
    OBVIOUS
  <2>1. /\ redis \in [Buckets -> RedisCounters]
        /\ memory \in [Workers -> [Buckets -> LocalCounters]]
        /\ recent \in [Callers -> [Counters -> Histories]]
    BY CountersAre DEF Init
  <2>2. 0 \in 0 .. MaxFaults /\ up = {} /\ available = {} /\ deployment \in Deployments
    BY LimiterAssumption DEF Init
  <2>3. \A b \in Buckets : redis[b] = Gone
    BY DEF Init
  <2>4. QED BY <2>1, <2>2, <2>3
        DEF Init, Typed, TypeOK, Served, RedisCounters, LocalCounters, Histories
<1>2. Typed /\ [Next]_vars => Typed'
  <2> SUFFICES ASSUME Typed, [Next]_vars PROVE Typed'
    OBVIOUS
  <2>1. CASE UNCHANGED vars
    BY <2>1 DEF vars, Typed, TypeOK, Served, RequiresSharedStore
  <2>2. QED BY <2>1, TickTypes, WorkerTypes, RequestTypes, ArriveTypes DEF Next
<1>3. QED BY <1>1, <1>2, PTL DEF Spec

\* Every variable keeps its type, and no counter in Redis lives without a count.
THEOREM Types == Spec => []TypeOK
<1>1. Typed => TypeOK
  BY DEF Typed
<1>2. QED BY <1>1, TypedInvariant, PTL

\* Fail-closed: whatever Redis does, nothing passes that no store counted, unless
\* RATE_LIMIT_FAIL_OPEN says so.
THEOREM FailsClosed == Spec => []NothingUncounted
<1>1. Init => NothingUncounted
  BY DEF Init, NothingUncounted
<1>2. NothingUncounted /\ [Next]_vars => NothingUncounted'
  <2> SUFFICES ASSUME NothingUncounted, [Next]_vars PROVE NothingUncounted'
    OBVIOUS
  <2>1. deployment' = deployment
    BY DEF Next, Tick, StartWorker, StartWithoutRedis, Crash, Purge, Arrive, RequestStep,
           CheckUnavailable, CheckMemory, CountInRedis, CountRaises, SetExpiry, ExpiryRaises,
           vars
  <2>2. UNCHANGED leaked \/ \E r \in Requests : HandleUnavailable(r)
    BY DEF Next, Tick, StartWorker, StartWithoutRedis, Crash, Purge, Arrive, RequestStep,
           CheckUnavailable, CheckMemory, CountInRedis, CountRaises, SetExpiry, ExpiryRaises,
           vars
  <2>3. QED BY <2>1, <2>2 DEF HandleUnavailable, NothingUncounted
<1>3. QED BY <1>1, <1>2, PTL DEF Spec

---------------------------------------------------------------------------
(* The burst.  A counter lives at least Window ticks from its EXPIRE, or   *)
(* from its window's start, to its end.  So what its predecessor let       *)
(* through has left the last Window ticks before its successor is made:    *)
(* at any time those ticks hold what two counters let through, each at     *)
(* most the limit.                                                         *)

\* What a counter that stands at count has let through at most.
Kept(count) == IF count <= Limit THEN count ELSE Limit

Monotone(h) == \A a, b \in 0 .. Window : a <= b => h[a] <= h[b]

More(h)    == [a \in 0 .. Window |-> h[a] + 1]
Shifted(h) == [a \in 0 .. Window |-> IF a = 0 THEN 0 ELSE h[a - 1]]

\* A history h and its counter k in Redis: once the counter has a TTL, the ticks
\* since it got that hold only its own.
SharedOK(h, k) ==
  /\ Monotone(h)
  /\ k.count = 0 => h[0] = 0 /\ h[Window] <= Limit
  /\ k.count > 0 => /\ h[0] <= Kept(k.count)
                    /\ h[Window] <= Limit + Kept(k.count)
                    /\ k.ttl <= Window => h[Window - k.ttl] <= Kept(k.count)

\* A history h and its entry k in a worker's dict: the ticks since its window
\* began hold only its own.
LocalOK(h, k) ==
  /\ Monotone(h)
  /\ k.count = 0 \/ k.age > Window => h[0] = 0 /\ h[Window] <= Limit
  /\ k.count > 0 /\ k.age <= Window =>
       h[k.age] <= Kept(k.count) /\ h[Window] <= Limit + Kept(k.count)

LEMMA HistoriesMove ==
  ASSUME NEW h \in Histories, Monotone(h)
  PROVE  /\ 0 \in 0 .. Window /\ Window \in 0 .. Window
         /\ \A a \in 0 .. Window : h[a] \in Nat /\ h[0] <= h[a] /\ h[a] <= h[Window]
         /\ Monotone(More(h)) /\ \A a \in 0 .. Window : More(h)[a] = h[a] + 1
         /\ Monotone(Shifted(h)) /\ Shifted(h)[0] = 0
         /\ \A a \in 1 .. Window : Shifted(h)[a] = h[a - 1]
<1>1. \A a \in 0 .. Window : h[a] \in Nat
  BY DEF Histories
<1>2. 0 \in 0 .. Window /\ Window \in 0 .. Window
  BY LimiterAssumption
<1>3. \A a \in 0 .. Window : h[0] <= h[a] /\ h[a] <= h[Window]
  BY <1>2, LimiterAssumption DEF Monotone
<1>4. \A a \in 0 .. Window : More(h)[a] = h[a] + 1
  BY DEF More
<1>5. Monotone(More(h))
  BY <1>1, <1>4 DEF Monotone
<1>6. Shifted(h)[0] = 0 /\ \A a \in 1 .. Window : Shifted(h)[a] = h[a - 1]
  BY <1>2, LimiterAssumption DEF Shifted
<1>7. Monotone(Shifted(h))
  <2> SUFFICES ASSUME NEW a \in 0 .. Window, NEW b \in 0 .. Window, a <= b
               PROVE  Shifted(h)[a] <= Shifted(h)[b]
    BY DEF Monotone
  <2>1. CASE a = 0 /\ b = 0
    BY <1>6, <2>1
  <2>2. CASE a = 0 /\ b # 0
    <3>1. b \in 1 .. Window /\ b - 1 \in 0 .. Window
      BY <2>2, LimiterAssumption
    <3>2. QED BY <1>1, <1>6, <2>2, <3>1
  <2>3. CASE a # 0
    <3>1. a \in 1 .. Window /\ b \in 1 .. Window /\ a - 1 \in 0 .. Window
          /\ b - 1 \in 0 .. Window /\ a - 1 <= b - 1
      BY <2>3, LimiterAssumption
    <3>2. QED BY <1>6, <3>1 DEF Monotone
  <2>4. QED BY <2>1, <2>2, <2>3
<1> HIDE DEF More, Shifted
<1>8. QED BY <1>1, <1>2, <1>3, <1>4, <1>5, <1>6, <1>7

LEMMA KeptIs ==
  /\ \A n \in 0 .. Limit + 1 :
       /\ Kept(n) \in Nat /\ Kept(n) <= Limit /\ (n > 0 => Kept(n) > 0)
       /\ OneMore(n) \in 1 .. Limit + 1 /\ Kept(n) <= Kept(OneMore(n))
       /\ Within(OneMore(n)) => Kept(OneMore(n)) = Kept(n) + 1
BY LimiterAssumption DEF Kept, OneMore, Within

LEMMA SharedCounted ==
  ASSUME NEW h \in Histories, NEW k \in RedisCounters, NEW l \in RedisCounters, SharedOK(h, k),
         k.count = 0 => k.ttl = NoTTL, l.count = OneMore(k.count), l.ttl = k.ttl
  PROVE  /\ SharedOK(h, l)
         /\ Within(l.count) => SharedOK(More(h), l)
<1> DEFINE old == Kept(k.count)
           new == Kept(l.count)
           n   == k.count
<1>1. n \in 0 .. Limit + 1 /\ k.ttl \in 1 .. NoTTL
  BY DEF RedisCounters
<1>2. /\ old \in Nat /\ new \in Nat /\ old <= new /\ old <= Limit /\ l.count > 0
      /\ Within(l.count) => new = old + 1
  BY <1>1, KeptIs
<1>3. n = 0 => old = 0
  BY LimiterAssumption DEF Kept
<1>4. Monotone(h)
  BY DEF SharedOK
<1>5. /\ 0 \in 0 .. Window /\ Window \in 0 .. Window
      /\ \A a \in 0 .. Window : h[a] \in Nat /\ More(h)[a] = h[a] + 1
      /\ Monotone(More(h))
  BY <1>4, HistoriesMove
<1>6. k.ttl <= Window => Window - k.ttl \in 0 .. Window
  BY <1>1, LimiterAssumption
<1>7. /\ h[0] <= old /\ h[Window] <= Limit + old
      /\ k.ttl <= Window => h[Window - k.ttl] <= old
  BY <1>1, <1>2, <1>3, <1>5, LimiterAssumption DEF SharedOK, NoTTL
<1> HIDE DEF old, new
<1>8. /\ h[0] <= new /\ h[Window] <= Limit + new
      /\ k.ttl <= Window => h[Window - k.ttl] <= new
  BY <1>2, <1>5, <1>6, <1>7, LimiterAssumption
<1>9. Within(l.count) =>
        /\ More(h)[0] <= new /\ More(h)[Window] <= Limit + new
        /\ k.ttl <= Window => More(h)[Window - k.ttl] <= new
  BY <1>2, <1>5, <1>6, <1>7, LimiterAssumption
<1>10. QED BY <1>2, <1>4, <1>5, <1>8, <1>9 DEF SharedOK, new

LEMMA SharedExpiring ==
  ASSUME NEW h \in Histories, NEW k \in RedisCounters, NEW l \in RedisCounters, SharedOK(h, k),
         k.count # 0, l.count = k.count, l.ttl = Window
  PROVE  SharedOK(h, l)
<1>1. k.count > 0
  BY LimiterAssumption DEF RedisCounters
<1>2. Window - l.ttl = 0
  BY LimiterAssumption
<1>3. QED BY <1>1, <1>2 DEF SharedOK

LEMMA SharedAged ==
  ASSUME NEW h \in Histories, NEW k \in RedisCounters, SharedOK(h, k),
         k.count = 0 => k = Gone
  PROVE  SharedOK(Shifted(h), Aged(k))
<1> DEFINE old == Kept(k.count)
<1>1. k.count \in 0 .. Limit + 1 /\ k.ttl \in 1 .. NoTTL /\ Monotone(h)
  BY DEF RedisCounters, SharedOK
<1>2. old \in Nat /\ old <= Limit
  BY <1>1, KeptIs
<1>3. /\ 0 \in 0 .. Window /\ Window \in 0 .. Window /\ Window - 1 \in 0 .. Window
      /\ \A a \in 0 .. Window : h[a] \in Nat /\ h[a] <= h[Window]
      /\ Monotone(Shifted(h)) /\ Shifted(h)[0] = 0
      /\ \A a \in 1 .. Window : Shifted(h)[a] = h[a - 1]
  BY <1>1, HistoriesMove, LimiterAssumption
<1>4. Shifted(h)[Window] = h[Window - 1] /\ Shifted(h)[Window] <= h[Window]
      /\ Shifted(h)[Window] \in Nat
  BY <1>3, LimiterAssumption
<1>5. CASE k.ttl = NoTTL
  <2>1. Aged(k) = k /\ ~(k.ttl <= Window)
    BY <1>5, LimiterAssumption DEF Aged, NoTTL
  <2>2. QED BY <1>1, <1>2, <1>3, <1>4, <2>1, LimiterAssumption DEF SharedOK
<1>6. CASE k.ttl = 1
  <2>1. Aged(k) = Gone /\ k.ttl <= Window /\ k.count > 0
    BY <1>1, <1>6, CountersAre, LimiterAssumption DEF Aged, NoTTL
  <2>2. h[Window - 1] <= old
    BY <1>6, <2>1 DEF SharedOK
  <2>3. Shifted(h)[Window] <= Limit
    BY <1>2, <1>3, <1>4, <2>2, LimiterAssumption
  <2>4. QED BY <1>3, <2>1, <2>3, CountersAre DEF SharedOK
<1>7. CASE k.ttl # NoTTL /\ k.ttl # 1
  <2> DEFINE left == k.ttl - 1
             l == [k EXCEPT !.ttl = left]
  <2>1. left \in 1 .. Window /\ k.count > 0 /\ k.ttl <= Window
    BY <1>1, <1>7, CountersAre, LimiterAssumption DEF NoTTL
  <2>2. Aged(k) = l
    BY <1>7 DEF Aged
  <2>3. l.count = k.count /\ l.ttl = left
    BY DEF RedisCounters
  <2>4. h[Window - k.ttl] <= old /\ h[Window] <= Limit + old /\ h[0] <= old
    BY <2>1 DEF SharedOK
  <2>5. Window - left \in 1 .. Window /\ (Window - left) - 1 = Window - k.ttl
    BY <1>1, <2>1, LimiterAssumption
  <2> HIDE DEF left, l
  <2>6. Shifted(h)[Window - left] <= old
    BY <1>3, <2>4, <2>5
  <2>7. Shifted(h)[0] <= old /\ Shifted(h)[Window] <= Limit + old
    BY <1>2, <1>3, <1>4, <2>4, LimiterAssumption
  <2>8. QED BY <1>3, <2>1, <2>2, <2>3, <2>6, <2>7 DEF SharedOK
<1>8. QED BY <1>5, <1>6, <1>7

LEMMA LocalCounted ==
  ASSUME NEW h \in Histories, NEW k \in LocalCounters, NEW l \in LocalCounters, LocalOK(h, k),
         IF k.count = 0 \/ k.age > Window
           THEN l.count = 1 /\ l.age = 0
           ELSE l.count = OneMore(k.count) /\ l.age = k.age
  PROVE  /\ Within(l.count) => LocalOK(More(h), l)
         /\ ~Within(l.count) => LocalOK(h, l)
<1> DEFINE old == Kept(k.count)
           new == Kept(l.count)
<1>1. k.count \in 0 .. Limit + 1 /\ k.age \in 0 .. Window + 1 /\ Monotone(h)
  BY DEF LocalCounters, LocalOK
<1>2. old \in Nat /\ old <= Limit
  BY <1>1, KeptIs
<1>3. /\ 0 \in 0 .. Window /\ Window \in 0 .. Window
      /\ \A a \in 0 .. Window : h[a] \in Nat /\ More(h)[a] = h[a] + 1
      /\ Monotone(More(h))
  BY <1>1, HistoriesMove
<1>4. CASE k.count = 0 \/ k.age > Window
  <2>1. h[0] = 0 /\ h[Window] <= Limit /\ l.count = 1 /\ l.age = 0
    BY <1>4 DEF LocalOK
  <2>2. new = 1 /\ Within(l.count)
    BY <2>1, LimiterAssumption DEF Kept, Within
  <2>3. More(h)[0] <= new /\ More(h)[Window] <= Limit + new
    BY <1>3, <2>1, <2>2, LimiterAssumption
  <2>4. QED BY <1>3, <2>1, <2>2, <2>3, LimiterAssumption DEF LocalOK
<1>5. CASE k.count > 0 /\ k.age <= Window
  <2>1. h[k.age] <= old /\ h[Window] <= Limit + old /\ k.age \in 0 .. Window
    BY <1>1, <1>5, LimiterAssumption DEF LocalOK
  <2>2. l.count = OneMore(k.count) /\ l.age = k.age
    BY <1>1, <1>5, LimiterAssumption
  <2>3. /\ new \in Nat /\ old <= new /\ l.count > 0
        /\ Within(l.count) => new = old + 1
    BY <1>1, <2>2, KeptIs
  <2> HIDE DEF old, new
  <2>4. h[k.age] <= new /\ h[Window] <= Limit + new
    BY <1>2, <1>3, <2>1, <2>3, LimiterAssumption
  <2>5. Within(l.count) => More(h)[k.age] <= new /\ More(h)[Window] <= Limit + new
    BY <1>2, <1>3, <2>1, <2>3, LimiterAssumption
  <2>6. l.count # 0 /\ ~(l.age > Window)
    BY <2>1, <2>2, <2>3, LimiterAssumption
  <2>7. QED BY <1>1, <1>3, <2>2, <2>3, <2>4, <2>5, <2>6 DEF LocalOK, new
<1>6. QED BY <1>1, <1>4, <1>5, LimiterAssumption

LEMMA LocalAged ==
  ASSUME NEW h \in Histories, NEW k \in LocalCounters, NEW l \in LocalCounters, LocalOK(h, k),
         IF k.count = 0 \/ k.age > Window
           THEN l = k ELSE l.count = k.count /\ l.age = k.age + 1
  PROVE  LocalOK(Shifted(h), l)
<1> DEFINE old == Kept(k.count)
<1>1. k.count \in 0 .. Limit + 1 /\ k.age \in 0 .. Window + 1 /\ Monotone(h)
  BY DEF LocalCounters, LocalOK
<1>2. old \in Nat /\ old <= Limit
  BY <1>1, KeptIs
<1>3. /\ 0 \in 0 .. Window /\ Window \in 0 .. Window /\ Window - 1 \in 0 .. Window
      /\ \A a \in 0 .. Window : h[a] \in Nat /\ h[a] <= h[Window]
      /\ Monotone(Shifted(h)) /\ Shifted(h)[0] = 0
      /\ \A a \in 1 .. Window : Shifted(h)[a] = h[a - 1]
  BY <1>1, HistoriesMove, LimiterAssumption
<1>4. Shifted(h)[Window] <= h[Window] /\ Shifted(h)[Window] \in Nat
  BY <1>3, LimiterAssumption
<1>5. CASE k.count = 0 \/ k.age > Window
  <2>1. l = k /\ h[Window] <= Limit
    BY <1>5 DEF LocalOK
  <2>2. Shifted(h)[Window] <= Limit
    BY <1>3, <1>4, <2>1, LimiterAssumption
  <2>3. ~(k.count > 0 /\ k.age <= Window)
    BY <1>1, <1>5, LimiterAssumption
  <2>4. QED BY <1>3, <2>1, <2>2, <2>3 DEF LocalOK
<1>6. CASE k.count > 0 /\ k.age <= Window
  <2> DEFINE older == k.age + 1
  <2>1. h[k.age] <= old /\ h[Window] <= Limit + old /\ k.age \in 0 .. Window
    BY <1>1, <1>6, LimiterAssumption DEF LocalOK
  <2>2. l.count = k.count /\ l.age = older /\ l.count # 0
    BY <1>1, <1>6, LimiterAssumption
  <2>3. Shifted(h)[Window] <= Limit + old
    BY <1>2, <1>3, <1>4, <2>1, LimiterAssumption
  <2>4. CASE k.age = Window
    <3>1. Shifted(h)[Window] <= Limit /\ older > Window /\ ~(older <= Window)
      BY <1>2, <1>3, <1>4, <2>1, <2>4, LimiterAssumption
    <3>2. QED BY <1>3, <2>2, <3>1 DEF LocalOK
  <2>5. CASE k.age # Window
    <3>1. older \in 1 .. Window /\ older - 1 = k.age
      BY <2>1, <2>5, LimiterAssumption
    <3> HIDE DEF older, old
    <3>2. Shifted(h)[older] <= old /\ ~(older > Window)
      BY <1>3, <2>1, <3>1, LimiterAssumption
    <3>3. QED BY <1>3, <2>2, <2>3, <3>2 DEF LocalOK, old
  <2>6. QED BY <2>4, <2>5
<1>7. QED BY <1>1, <1>5, <1>6, LimiterAssumption

LEMMA LocalPurged ==
  ASSUME NEW h \in Histories, NEW k \in LocalCounters, LocalOK(h, k), k.age > Window
  PROVE  LocalOK(h, Empty)
BY CountersAre DEF LocalOK

LEMMA QuietIsOK ==
  /\ SharedOK(Quiet, Gone) /\ LocalOK(Quiet, Empty)
  /\ \A a \in 0 .. Window : Quiet[a] = 0
<1>1. \A a \in 0 .. Window : Quiet[a] = 0
  BY DEF Quiet
<1>2. 0 \in 0 .. Window /\ Window \in 0 .. Window
  BY LimiterAssumption
<1>3. QED BY <1>1, <1>2, CountersAre, LimiterAssumption DEF SharedOK, LocalOK, Monotone

\* Every caller has one bucket, and shares it with no other.
BucketOf(i) == IF i \in KnownKeys THEN <<"api_key", i>> ELSE <<"ip", i>>

LEMMA OneBucketPerCaller ==
  /\ \A i \in Callers : BucketOf(i) \in Buckets
  /\ \A i, j \in Callers : BucketOf(i) = BucketOf(j) => i = j
  /\ \A c \in Clients : Bucket(c) = BucketOf(Caller(c))
<1>1. KnownKeys \subseteq ApiKeys /\ \A h \in Hosts : h \notin KnownKeys
  BY LimiterAssumption
<1>2. \A i \in Callers : BucketOf(i) \in Buckets
  BY <1>1 DEF Callers, BucketOf, Buckets
<1>3. \A i, j \in Callers : BucketOf(i) = BucketOf(j) => i = j
  BY DEF BucketOf
<1>4. ASSUME NEW c \in Clients PROVE Bucket(c) = BucketOf(Caller(c))
  <2>1. c.host \in Hosts
    BY LimiterAssumption
  <2>2. QED BY <1>1, <2>1 DEF Bucket, BucketOf, Caller
<1>5. QED BY <1>2, <1>3, <1>4

\* The stores that count in this deployment.
Counting ==
  IF deployment.backend = "redis" THEN {"redis"}
  ELSE IF RequiresSharedStore THEN {} ELSE deployment.workers

BurstInv ==
  /\ \A i \in Callers : SharedOK(recent[i]["redis"], redis[BucketOf(i)])
  /\ \A i \in Callers, w \in Workers : LocalOK(recent[i][w], memory[w][BucketOf(i)])
  /\ \A i \in Callers, s \in Counters \ Counting : recent[i][s] = Quiet

LEMMA NoteMoves ==
  ASSUME TypeOK, NEW c \in Clients, NEW s \in Counters, NEW n, Note(c, s, n)
  PROVE  \A i \in Callers, t \in Counters :
           recent'[i][t] = IF Within(n) /\ i = Caller(c) /\ t = s
                           THEN More(recent[i][t]) ELSE recent[i][t]
<1>1. Caller(c) \in Callers /\ recent \in [Callers -> [Counters -> Histories]]
  BY BucketsAre DEF TypeOK, Histories
<1>2. recent' = IF Within(n)
                THEN [recent EXCEPT ![Caller(c)] =
                        [recent[Caller(c)] EXCEPT ![s] = More(recent[Caller(c)][s])]]
                ELSE recent
  BY DEF Note, More
<1> HIDE DEF Within
<1>3. QED BY <1>1, <1>2

\* What a step on one bucket in Redis leaves of all of them.
LEMMA RedisMoves ==
  ASSUME TypeOK, NEW b \in Buckets
  PROVE  /\ Increment(b) =>
              /\ \A d \in Buckets \ {b} : redis'[d] = redis[d]
              /\ redis'[b].count = OneMore(redis[b].count) /\ redis'[b].ttl = redis[b].ttl
         /\ SetTTL(b) =>
              /\ \A d \in Buckets \ {b} : redis'[d] = redis[d]
              /\ IF redis[b].count = 0 THEN redis'[b] = redis[b]
                 ELSE redis'[b].count = redis[b].count /\ redis'[b].ttl = Window
<1>1. redis \in [Buckets -> RedisCounters] /\ redis[b] \in RedisCounters
  BY DEF TypeOK, RedisCounters
<1>2. ASSUME Increment(b)
      PROVE  /\ \A d \in Buckets \ {b} : redis'[d] = redis[d]
             /\ redis'[b].count = OneMore(redis[b].count) /\ redis'[b].ttl = redis[b].ttl
  <2>1. redis' = [redis EXCEPT ![b] = [redis[b] EXCEPT !.count = OneMore(redis[b].count)]]
    BY <1>2 DEF Increment
  <2>2. QED BY <1>1, <2>1 DEF RedisCounters
<1>3. ASSUME SetTTL(b)
      PROVE  /\ \A d \in Buckets \ {b} : redis'[d] = redis[d]
             /\ IF redis[b].count = 0 THEN redis'[b] = redis[b]
                ELSE redis'[b].count = redis[b].count /\ redis'[b].ttl = Window
  <2>1. redis' = IF redis[b].count = 0 THEN redis
                 ELSE [redis EXCEPT ![b] = [redis[b] EXCEPT !.ttl = Window]]
    BY <1>3 DEF SetTTL
  <2>2. QED BY <1>1, <2>1 DEF RedisCounters
<1>4. QED BY <1>2, <1>3

LEMMA BurstInRedis ==
  ASSUME Typed, Typed', BurstInv, NEW c \in Clients, NEW n,
         n = OneMore(redis[Bucket(c)].count),
         \/ Increment(Bucket(c)) /\ (Note(c, "redis", n) \/ UNCHANGED recent)
         \/ SetTTL(Bucket(c)) /\ UNCHANGED recent,
         NEW i \in Callers
  PROVE  SharedOK(recent'[i]["redis"], redis'[BucketOf(i)])
<1> DEFINE b == Bucket(c)
           d == BucketOf(i)
           h == recent[i]["redis"]
<1>1. /\ b \in Buckets /\ d \in Buckets /\ Caller(c) \in Callers /\ "redis" \in Counters
      /\ b = d <=> i = Caller(c)
  BY BucketsAre, OneBucketPerCaller
<1>2. /\ h \in Histories /\ redis[d] \in RedisCounters /\ redis'[d] \in RedisCounters
      /\ redis[d].count = 0 => redis[d] = Gone
      /\ SharedOK(h, redis[d])
  BY <1>1 DEF Typed, TypeOK, RedisCounters, Histories, BurstInv
<1>3. /\ Increment(b) => \A e \in Buckets \ {b} : redis'[e] = redis[e]
      /\ SetTTL(b) => \A e \in Buckets \ {b} : redis'[e] = redis[e]
  BY <1>1, RedisMoves DEF Typed
<1>4. CASE Increment(b) /\ Note(c, "redis", n)
  <2>1. recent'[i]["redis"] = IF Within(n) /\ i = Caller(c) THEN More(h) ELSE h
    BY <1>1, <1>4, NoteMoves DEF Typed
  <2>2. CASE i # Caller(c)
    BY <1>1, <1>2, <1>3, <1>4, <2>1, <2>2
  <2>3. CASE i = Caller(c)
    <3>1. redis'[d].count = n /\ redis'[d].ttl = redis[d].ttl /\ n = OneMore(redis[d].count)
      BY <1>1, <1>4, <2>3, RedisMoves DEF Typed
    <3>2. SharedOK(h, redis'[d]) /\ (Within(n) => SharedOK(More(h), redis'[d]))
      BY <1>2, <3>1, SharedCounted, CountersAre
    <3>3. QED BY <2>1, <2>3, <3>2
  <2>4. QED BY <2>2, <2>3
<1>5. CASE Increment(b) /\ UNCHANGED recent
  <2>1. CASE i # Caller(c)
    BY <1>1, <1>2, <1>3, <1>5, <2>1
  <2>2. CASE i = Caller(c)
    <3>1. /\ redis'[d].count = OneMore(redis[d].count) /\ redis'[d].ttl = redis[d].ttl
      BY <1>1, <1>5, <2>2, RedisMoves DEF Typed
    <3>2. QED BY <1>2, <1>5, <3>1, SharedCounted, CountersAre
  <2>3. QED BY <2>1, <2>2
<1>6. CASE SetTTL(b) /\ UNCHANGED recent
  <2>1. CASE i # Caller(c) \/ redis[b].count = 0
    BY <1>1, <1>2, <1>3, <1>6, <2>1, RedisMoves DEF Typed
  <2>2. CASE i = Caller(c) /\ redis[b].count # 0
    <3>1. redis'[d].count = redis[d].count /\ redis'[d].ttl = Window /\ redis[d].count # 0
      BY <1>1, <1>6, <2>2, RedisMoves DEF Typed
    <3>2. QED BY <1>2, <1>6, <3>1, SharedExpiring
  <2>3. QED BY <2>1, <2>2
<1>7. QED BY <1>4, <1>5, <1>6

LEMMA BurstInMemory ==
  ASSUME Typed, Typed', BurstInv, NEW r \in Requests, CheckMemory(r),
         NEW i \in Callers, NEW v \in Workers
  PROVE  LocalOK(recent'[i][v], memory'[v][BucketOf(i)])
<1> DEFINE c == request[r].client
           w == request[r].worker
           b == Bucket(c)
           d == BucketOf(i)
           h == recent[i][v]
           entry == memory[w][b]
           n == IF entry.count = 0 \/ entry.age > Window THEN 1 ELSE OneMore(entry.count)
           new == IF n = 1 THEN [count |-> 1, age |-> 0] ELSE [entry EXCEPT !.count = n]
<1>1. c \in Clients /\ w \in Workers
  BY HandlingMoves DEF CheckMemory, Checks, Typed, TypeOK
<1>2. /\ b \in Buckets /\ d \in Buckets /\ Caller(c) \in Callers /\ v \in Counters
      /\ w \in Counters /\ (b = d <=> i = Caller(c))
  BY <1>1, BucketsAre, OneBucketPerCaller
<1>3. /\ h \in Histories /\ memory \in [Workers -> [Buckets -> LocalCounters]]
      /\ memory'[v][d] \in LocalCounters /\ LocalOK(h, memory[v][d])
  BY <1>2 DEF Typed, TypeOK, LocalCounters, Histories, BurstInv
<1>4. memory' = [memory EXCEPT ![w] = [memory[w] EXCEPT ![b] = new]] /\ Note(c, w, n)
  BY DEF CheckMemory
<1>5. recent'[i][v] = IF Within(n) /\ i = Caller(c) /\ v = w THEN More(h) ELSE h
  <2> HIDE DEF n, c, w, h
  <2>1. QED BY <1>1, <1>2, <1>4, NoteMoves DEF Typed, h
<1>6. CASE ~(i = Caller(c) /\ v = w)
  <2>1. memory'[v][d] = memory[v][d]
    <3> HIDE DEF new, c, w, b, d
    <3>1. QED BY <1>1, <1>2, <1>3, <1>4, <1>6
  <2>2. QED BY <1>3, <1>5, <1>6, <2>1
<1>7. CASE i = Caller(c) /\ v = w
  <2>1. memory'[v][d] = new /\ memory[v][d] = entry
    <3> HIDE DEF new, c, w, b, d
    <3>1. QED BY <1>1, <1>2, <1>3, <1>4, <1>7 DEF b, d
  <2>2. entry \in LocalCounters
    BY <1>1, <1>2, <1>3
  <2>3. entry.count \in 0 .. Limit + 1
    BY <2>2 DEF LocalCounters
  <2>4. IF entry.count = 0 \/ entry.age > Window
          THEN new.count = 1 /\ new.age = 0
          ELSE new.count = OneMore(entry.count) /\ new.age = entry.age
    <3>1. CASE entry.count = 0 \/ entry.age > Window
      BY <3>1
    <3>2. CASE ~(entry.count = 0 \/ entry.age > Window)
      <4>1. n = OneMore(entry.count) /\ n # 1
        <5>1. n = OneMore(entry.count)
          BY <3>2
        <5> HIDE DEF n, entry
        <5>2. entry.count \in 1 .. Limit + 1
          BY <2>3, <3>2, LimiterAssumption
        <5>3. QED BY <5>1, <5>2, LimiterAssumption DEF OneMore
      <4>2. new = [entry EXCEPT !.count = n]
        BY <4>1
      <4>3. QED BY <2>2, <3>2, <4>1, <4>2 DEF LocalCounters
    <3>3. QED BY <3>1, <3>2
  <2>5. new.count = n
    BY <2>2, <2>3, <2>4
  <2> HIDE DEF new, n, entry, h
  <2>6. (Within(new.count) => LocalOK(More(h), new)) /\ (~Within(new.count) => LocalOK(h, new))
    BY <1>3, <2>1, <2>2, <2>4, LocalCounted
  <2>7. QED BY <1>5, <1>7, <2>1, <2>5, <2>6
<1>8. QED BY <1>6, <1>7

\* Nothing is noted where nothing counts.
LEMMA BurstElsewhere ==
  ASSUME Typed, BurstInv, NEW r \in Requests, RequestStep(r)
  PROVE  \A i \in Callers, s \in Counters \ Counting : recent'[i][s] = Quiet
<1> DEFINE c == request[r].client
           w == request[r].worker
<1>1. CASE UNCHANGED recent
  BY <1>1 DEF BurstInv
<1>2. CASE CountInRedis(r)
  <2>1. c \in Clients /\ "redis" \in Counting
    BY <1>2, HandlingMoves DEF CountInRedis, Checks, Typed, TypeOK, Counting
  <2> DEFINE n == OneMore(redis[Bucket(c)].count)
  <2>2. Note(c, "redis", n) /\ "redis" \in Counters
    BY <1>2, BucketsAre DEF CountInRedis
  <2> HIDE DEF c, n
  <2>3. \A i \in Callers, s \in Counters \ Counting : recent'[i][s] = recent[i][s]
    BY <2>1, <2>2, NoteMoves DEF Typed
  <2>4. QED BY <2>3 DEF BurstInv
<1>3. CASE CheckMemory(r)
  <2>1. c \in Clients /\ w \in Workers /\ w \in up
    BY <1>3, HandlingMoves DEF CheckMemory, Checks, Typed, TypeOK, Served
  <2>2. w \in Counting
    BY <1>3, <2>1 DEF CheckMemory, Checks, Typed, TypeOK, Served, Counting
  <2> DEFINE entry == memory[w][Bucket(c)]
             n == IF entry.count = 0 \/ entry.age > Window THEN 1 ELSE OneMore(entry.count)
  <2>3. Note(c, w, n) /\ w \in Counters
    BY <1>3, <2>1, BucketsAre DEF CheckMemory
  <2> HIDE DEF c, w, n
  <2>4. \A i \in Callers, s \in Counters \ Counting : recent'[i][s] = recent[i][s]
    BY <2>1, <2>2, <2>3, NoteMoves DEF Typed
  <2>5. QED BY <2>4 DEF BurstInv
<1>4. QED
  BY <1>1, <1>2, <1>3
     DEF RequestStep, CheckUnavailable, CountRaises, SetExpiry, ExpiryRaises

LEMMA BurstRequest ==
  ASSUME Typed, Typed', BurstInv, NEW r \in Requests, RequestStep(r)
  PROVE  BurstInv'
<1> DEFINE c == request[r].client
           n == OneMore(redis[Bucket(c)].count)
<1>1. UNCHANGED deployment
  BY DEF RequestStep, CheckUnavailable, CheckMemory, CountInRedis, CountRaises, SetExpiry,
         ExpiryRaises
<1>2. Counting' = Counting
  BY <1>1 DEF Counting, RequiresSharedStore
<1>3. \A i \in Callers, s \in Counters \ Counting : recent'[i][s] = Quiet
  BY BurstElsewhere
<1>4. c \in Clients
  BY HandlingMoves
     DEF RequestStep, CheckUnavailable, CheckMemory, CountInRedis, CountRaises, SetExpiry,
         ExpiryRaises, Checks, Expiring, Typed, TypeOK
<1>5. CASE CheckMemory(r)
  <2>1. \A i \in Callers, v \in Workers : LocalOK(recent'[i][v], memory'[v][BucketOf(i)])
    BY <1>5, BurstInMemory
  <2>2. "redis" \in Counters \ Counting /\ redis' = redis
    BY <1>5, LimiterAssumption, BucketsAre
       DEF CheckMemory, Checks, Counting, Typed, TypeOK
  <2>3. \A i \in Callers : recent'[i]["redis"] = recent[i]["redis"]
    BY <1>3, <2>2 DEF BurstInv
  <2>4. QED BY <1>2, <1>3, <2>1, <2>2, <2>3 DEF BurstInv
<1>6. CASE CheckUnavailable(r)
  BY <1>2, <1>6 DEF CheckUnavailable, BurstInv
<1>7. CASE \/ Increment(Bucket(c)) /\ (Note(c, "redis", n) \/ UNCHANGED recent)
           \/ (SetTTL(Bucket(c)) \/ UNCHANGED redis) /\ UNCHANGED recent
  <2>1. ASSUME memory' = memory PROVE BurstInv'
    <3>1. \A i \in Callers : SharedOK(recent'[i]["redis"], redis'[BucketOf(i)])
      <4>1. CASE UNCHANGED <<redis, recent>>
        BY <4>1 DEF BurstInv
      <4> HIDE DEF n
      <4>2. CASE ~UNCHANGED <<redis, recent>>
        BY <1>4, <1>7, <4>2, BurstInRedis DEF n
      <4>3. QED BY <4>1, <4>2
    <3>2. \A i \in Callers, v \in Workers : recent'[i][v] = recent[i][v]
      <4>1. CASE UNCHANGED recent
        BY <4>1
      <4> HIDE DEF n, c
      <4>2. CASE Note(c, "redis", n)
        BY <1>4, <4>2, NoteMoves, BucketsAre, LimiterAssumption DEF Typed
      <4>3. QED BY <1>7, <4>1, <4>2
    <3>3. QED BY <1>2, <1>3, <2>1, <3>1, <3>2 DEF BurstInv
  <2>2. memory' = memory \/ CheckMemory(r)
    BY DEF RequestStep, CheckUnavailable, CountInRedis, CountRaises, SetExpiry, ExpiryRaises
  <2>3. QED BY <1>5, <2>1, <2>2
<1>8. QED
  BY <1>5, <1>6, <1>7 DEF RequestStep, CountInRedis, CountRaises, SetExpiry, ExpiryRaises

LEMMA BurstWorker ==
  ASSUME Typed, BurstInv, NEW w \in Workers,
         StartWorker(w) \/ StartWithoutRedis(w) \/ Crash(w) \/ Purge(w)
  PROVE  BurstInv'
<1>1. UNCHANGED <<deployment, redis>>
  BY DEF StartWorker, StartWithoutRedis, Crash, Purge
<1>2. Counting' = Counting
  BY <1>1 DEF Counting, RequiresSharedStore
<1>3. CASE StartWorker(w) \/ StartWithoutRedis(w)
  BY <1>2, <1>3 DEF StartWorker, StartWithoutRedis, BurstInv
<1>4. CASE Crash(w)
  <2>1. memory \in [Workers -> [Buckets -> LocalCounters]]
        /\ recent \in [Callers -> [Counters -> Histories]]
    BY DEF Typed, TypeOK, LocalCounters, Histories
  <2>2. \A i \in Callers, s \in Counters :
          recent'[i][s] = IF s = w THEN Quiet ELSE recent[i][s]
    BY <1>4, <2>1 DEF Crash
  <2>3. \A i \in Callers, v \in Workers :
          memory'[v][BucketOf(i)] = IF v = w THEN Empty ELSE memory[v][BucketOf(i)]
    BY <1>4, <2>1, OneBucketPerCaller DEF Crash
  <2>4. "redis" \in Counters /\ "redis" # w /\ Workers \subseteq Counters
    BY BucketsAre, LimiterAssumption
  <2>5. QED BY <1>1, <1>2, <2>2, <2>3, <2>4, QuietIsOK DEF BurstInv
<1>5. CASE Purge(w)
  <2>1. memory \in [Workers -> [Buckets -> LocalCounters]] /\ UNCHANGED recent
    BY <1>5 DEF Typed, TypeOK, LocalCounters, Purge
  <2>2. ASSUME NEW i \in Callers, NEW v \in Workers
        PROVE  LocalOK(recent'[i][v], memory'[v][BucketOf(i)])
    <3> DEFINE b == BucketOf(i)
               k == memory[v][b]
               h == recent[i][v]
    <3>1. b \in Buckets /\ k \in LocalCounters /\ LocalOK(h, k) /\ h \in Histories
      BY <2>1, OneBucketPerCaller, BucketsAre DEF BurstInv, Typed, TypeOK, Histories
    <3>2. memory'[v][b] = k \/ (memory'[v][b] = Empty /\ k.age > Window)
      BY <1>5, <2>1, <3>1 DEF Purge
    <3> HIDE DEF h, k, b
    <3>3. k.age > Window => LocalOK(h, Empty)
      BY <3>1, LocalPurged
    <3>4. QED BY <2>1, <3>1, <3>2, <3>3 DEF h, b
  <2>3. QED BY <1>1, <1>2, <2>1, <2>2 DEF BurstInv
<1>6. QED BY <1>3, <1>4, <1>5

LEMMA BurstTick ==
  ASSUME Typed, Typed', BurstInv, Tick
  PROVE  BurstInv'
<1>1. Counting' = Counting
  BY DEF Tick, Counting, RequiresSharedStore
<1>2. \A i \in Callers, s \in Counters : recent'[i][s] = Shifted(recent[i][s])
  BY DEF Tick, Shifted
<1>3. ASSUME NEW i \in Callers
      PROVE  SharedOK(recent'[i]["redis"], redis'[BucketOf(i)])
  <2> DEFINE b == BucketOf(i)
             k == redis[b]
             h == recent[i]["redis"]
  <2>1. /\ b \in Buckets /\ k \in RedisCounters /\ h \in Histories
        /\ SharedOK(h, k) /\ (k.count = 0 => k = Gone) /\ "redis" \in Counters
    BY OneBucketPerCaller, BucketsAre DEF BurstInv, Typed, TypeOK, RedisCounters, Histories
  <2>2. redis'[b] = Aged(k)
    BY <2>1 DEF Tick
  <2>3. recent'[i]["redis"] = Shifted(h)
    BY <1>2, <2>1
  <2> HIDE DEF k, h
  <2>4. QED BY <2>1, <2>2, <2>3, SharedAged
<1>4. ASSUME NEW i \in Callers, NEW v \in Workers
      PROVE  LocalOK(recent'[i][v], memory'[v][BucketOf(i)])
  <2> DEFINE b == BucketOf(i)
             k == memory[v][b]
             l == IF k.count = 0 \/ k.age > Window THEN k ELSE [k EXCEPT !.age = k.age + 1]
             h == recent[i][v]
  <2>1. /\ b \in Buckets /\ k \in LocalCounters /\ h \in Histories /\ LocalOK(h, k)
        /\ memory'[v][b] \in LocalCounters /\ v \in Counters
    BY OneBucketPerCaller, BucketsAre DEF BurstInv, Typed, TypeOK, LocalCounters, Histories
  <2>2. memory'[v][b] = l
    BY <2>1 DEF Tick
  <2>3. recent'[i][v] = Shifted(h)
    BY <1>2, <2>1
  <2>4. IF k.count = 0 \/ k.age > Window
          THEN l = k ELSE l.count = k.count /\ l.age = k.age + 1
    BY <2>1 DEF LocalCounters
  <2>5. l \in LocalCounters
    BY <2>1, <2>2
  <2> HIDE DEF l, k, h
  <2>6. QED BY <2>1, <2>2, <2>3, <2>4, <2>5, LocalAged
<1>5. Shifted(Quiet) = Quiet
  <2>1. \A a \in 0 .. Window : (IF a = 0 THEN 0 ELSE Quiet[a - 1]) = 0
    BY QuietIsOK, LimiterAssumption
  <2>2. QED BY <2>1 DEF Shifted, Quiet
<1>6. QED BY <1>1, <1>2, <1>3, <1>4, <1>5 DEF BurstInv

LEMMA BurstInvariant == Spec => [](Typed /\ BurstInv)
<1>1. Init => BurstInv
  <2> SUFFICES ASSUME Init PROVE BurstInv
    OBVIOUS
  <2>1. /\ \A b \in Buckets : redis[b] = Gone
        /\ \A w \in Workers, b \in Buckets : memory[w][b] = Empty
        /\ \A i \in Callers, s \in Counters : recent[i][s] = Quiet
    BY DEF Init
  <2>2. QED BY <2>1, QuietIsOK, OneBucketPerCaller, BucketsAre DEF BurstInv
<1>2. Typed /\ Typed' /\ BurstInv /\ [Next]_vars => BurstInv'
  <2> SUFFICES ASSUME Typed, Typed', BurstInv, [Next]_vars PROVE BurstInv'
    OBVIOUS
  <2>1. ASSUME UNCHANGED <<deployment, redis, memory, recent>> PROVE BurstInv'
    BY <2>1 DEF BurstInv, Counting, RequiresSharedStore
  <2>2. QED BY <2>1, BurstTick, BurstWorker, BurstRequest DEF Next, Arrive, vars
<1>3. QED BY <1>1, <1>2, TypedInvariant, PTL DEF Spec

\* A deployment counts in finitely many stores: as many as it may multiply the
\* limit by.
LEMMA StoresAre ==
  ASSUME Typed
  PROVE  /\ IsFiniteSet(Counting) /\ Cardinality(Counting) <= Stores
         /\ Stores \in Nat /\ Counting \subseteq Counters
<1> DEFINE workers == deployment.workers
<1>1. workers \subseteq Workers /\ deployment \in Deployable
  BY LimiterAssumption DEF Typed, TypeOK, Deployable
<1>2. IsFiniteSet(workers) /\ Cardinality(workers) \in Nat
  BY <1>1, LimiterAssumption, FS_Subset, FS_CardinalityType
<1>3. CASE deployment.backend = "redis"
  <2>1. Counting = {"redis"} /\ Stores = 1
    BY <1>3 DEF Counting, Stores
  <2>2. IsFiniteSet({"redis"}) /\ Cardinality({"redis"}) = 1
    BY FS_Singleton
  <2>3. {"redis"} \subseteq Counters
    BY BucketsAre
  <2>4. 1 <= 1 /\ 1 \in Nat
    OBVIOUS
  <2>5. QED BY <2>1, <2>2, <2>3, <2>4
<1>4. CASE deployment.backend # "redis" /\ RequiresSharedStore
  <2>1. Counting = {} /\ Stores = 1
    BY <1>4 DEF Counting, Stores, RequiresSharedStore
  <2>2. QED BY <2>1, FS_EmptySet
<1>5. CASE deployment.backend # "redis" /\ ~RequiresSharedStore
  <2>1. Counting = workers
    BY <1>5 DEF Counting
  <2>2. deployment.backend = "memory"
    BY <1>1, <1>5 DEF Deployable
  <2>3. deployment.production => Cardinality(workers) <= 1 /\ Stores = 1
    BY <1>2, <1>5, <2>2 DEF RequiresSharedStore, Stores
  <2>4. ~deployment.production => Stores = Cardinality(workers)
    BY <1>5 DEF Stores
  <2>5. QED BY <1>1, <1>2, <2>1, <2>3, <2>4, BucketsAre
<1>6. QED BY <1>3, <1>4, <1>5

\* However workers, expiry, lost EXPIREs and made-up keys interleave, a caller
\* gets at most twice the limit through in any Window ticks, per store.
THEOREM BurstIsBounded == Spec => []BurstBound
<1>1. Typed /\ BurstInv => BurstBound
  <2> SUFFICES ASSUME Typed, BurstInv, NEW i \in Callers
               PROVE  Cardinality(Passed(i)) <= 2 * Limit * Stores
    BY DEF BurstBound
  <2> DEFINE most == 2 * Limit
             box == Counting \X (1 .. most)
  <2>1. ASSUME NEW s \in Counters
        PROVE  recent[i][s][Window] \in Nat /\ recent[i][s][Window] <= most
               /\ (s \notin Counting => recent[i][s][Window] = 0)
    <3>1. recent[i][s] \in Histories /\ Window \in 0 .. Window
      BY LimiterAssumption DEF Typed, TypeOK, Histories
    <3>2. recent[i][s][Window] \in Nat
      BY <3>1 DEF Histories
    <3>3. s \notin Counting => recent[i][s][Window] = 0
      BY <3>1, QuietIsOK DEF BurstInv
    <3>4. CASE s = "redis"
      <4> DEFINE k == redis[BucketOf(i)]
      <4>1. k.count \in 0 .. Limit + 1
        BY OneBucketPerCaller DEF Typed, TypeOK
      <4>2. SharedOK(recent[i][s], k) /\ Kept(k.count) \in Nat /\ Kept(k.count) <= Limit
        BY <3>4, <4>1, KeptIs DEF BurstInv
      <4> HIDE DEF k
      <4>3. QED BY <3>2, <3>3, <4>1, <4>2, LimiterAssumption DEF SharedOK
    <3>5. CASE s \in Workers
      <4> DEFINE k == memory[s][BucketOf(i)]
      <4>1. k.count \in 0 .. Limit + 1 /\ k.age \in 0 .. Window + 1
        BY <3>5, OneBucketPerCaller DEF Typed, TypeOK
      <4>2. LocalOK(recent[i][s], k) /\ Kept(k.count) \in Nat /\ Kept(k.count) <= Limit
        BY <3>5, <4>1, KeptIs DEF BurstInv
      <4> HIDE DEF k
      <4>3. QED BY <3>2, <3>3, <4>1, <4>2, LimiterAssumption DEF LocalOK
    <3>6. QED BY <3>4, <3>5, BucketsAre
  <2>2. Passed(i) \subseteq box
    <3>1. ASSUME NEW s \in Counters, NEW p \in {s} \X (1 .. recent[i][s][Window])
          PROVE  p \in box
      <4>1. p[1] = s /\ p = <<p[1], p[2]>> /\ p[2] \in 1 .. recent[i][s][Window]
        OBVIOUS
      <4>2. s \in Counting /\ p[2] \in 1 .. most
        BY <2>1, <4>1, LimiterAssumption
      <4>3. QED BY <4>1, <4>2
    <3>2. QED BY <3>1 DEF Passed
  <2>3. /\ IsFiniteSet(Counting) /\ Cardinality(Counting) <= Stores /\ Stores \in Nat
        /\ Cardinality(Counting) \in Nat
    BY StoresAre, FS_CardinalityType
  <2>4. most \in Nat /\ IsFiniteSet(1 .. most) /\ Cardinality(1 .. most) = most
    BY LimiterAssumption, FS_Interval
  <2>5. IsFiniteSet(box) /\ Cardinality(box) = Cardinality(Counting) * most
    BY <2>3, <2>4, FS_Product
  <2>6. Cardinality(Passed(i)) <= Cardinality(box)
    BY <2>2, <2>5, FS_Subset
  <2>7. Cardinality(Passed(i)) \in Nat
    BY <2>2, <2>5, FS_Subset, FS_CardinalityType
  <2> HIDE DEF most, box
  <2>8. Cardinality(Counting) * most <= most * Stores
    BY <2>3, <2>4
  <2>9. QED BY <2>3, <2>4, <2>5, <2>6, <2>7, <2>8, LimiterAssumption DEF most
<1>2. QED BY <1>1, BurstInvariant, PTL
================================================================================
