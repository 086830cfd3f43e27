------------------------------ MODULE StoresProofs ------------------------------
(***************************************************************************)
(* What the service keeps between requests, for every number of workers,   *)
(* callers, records, threads and clients: cached answers, records, the     *)
(* accepted keys, HTTP clients.  Each component is proved on its own; the  *)
(* last theorems are about all of them side by side, as MCStores runs them.*)
(***************************************************************************)
EXTENDS MCStores, FiniteSetTheorems, SequenceTheorems, TLAPS

(***************************************************************************)
(* The application's lifespan.                                             *)
(***************************************************************************)

\* A handler has no client in hand, the manager, or a client that is open.
Handles(r) ==
  \/ handler[r] = HttpIdle
  \/ phase = "serving" /\ handler[r].at = "client" /\ handler[r].manager = global /\ global # 0
  \/ phase = "serving" /\ handler[r].at = "sent" /\ handler[r].client \in open

\* There is one manager at most, and every client that was opened is its own.
OnePool ==
  /\ phase # "stopped" => /\ managers = global /\ open \subseteq {global} \X ClientKeys
                          /\ global = 0 => open = {}
  /\ phase = "stopped" => open = {} \/ failed

LifeInv ==
  /\ phase \in Phases /\ open \subseteq Clients /\ tasks \subseteq {"cleanup", "scheduler"}
  /\ managers \in 0 .. MaxManagers /\ global \in 0 .. MaxManagers
  /\ phase = "stopLimiter" => tasks \subseteq {"cleanup"}
  /\ phase \in {"stopClients", "stopped"} => tasks = {}
  /\ OnePool
  /\ handler = [r \in HttpRequests |-> handler[r]] /\ \A r \in HttpRequests : Handles(r)
  /\ jobs \subseteq JobTasks /\ sessions \subseteq HttpRequests

LEMMA LifeStarts == LifeInit => LifeInv
<1> SUFFICES ASSUME LifeInit PROVE LifeInv
  OBVIOUS
<1>1. handler = [r \in HttpRequests |-> HttpIdle]
  BY DEF LifeInit
<1>2. OnePool /\ \A r \in HttpRequests : Handles(r)
  BY <1>1 DEF LifeInit, OnePool, Handles
<1>3. QED BY <1>1, <1>2, LifespanAssumption DEF LifeInit, LifeInv, Phases

\* The steps of start-up and of shutdown, before the clients are closed.
LEMMA PhaseSteps ==
  ASSUME LifeInv, StartTasks \/ StartServing \/ BeginShutdown \/ StopScheduler \/ StopLimiter
  PROVE  LifeInv'
<1>1. /\ UNCHANGED <<managers, global, open, handler, jobs, sessions>>
      /\ phase # "stopped" /\ phase' # "stopped"
      /\ phase' \in Phases /\ tasks' \subseteq {"cleanup", "scheduler"}
      /\ phase' = "stopLimiter" => tasks' \subseteq {"cleanup"}
      /\ phase' = "stopClients" => tasks' = {}
  BY DEF StartTasks, StartServing, BeginShutdown, StopScheduler, StopLimiter, StopTask, LifeInv,
         Phases, unowned
<1>2. OnePool'
  BY <1>1 DEF LifeInv, OnePool
<1>3. ASSUME NEW r \in HttpRequests PROVE Handles(r)'
  <2>1. Handles(r)
    BY DEF LifeInv
  <2>2. phase = "serving" => handler[r] = HttpIdle
    BY DEF StartTasks, StartServing, BeginShutdown, Drained, StopScheduler, StopLimiter, StopTask
  <2>3. QED BY <1>1, <2>1, <2>2 DEF Handles
<1>4. QED BY <1>1, <1>2, <1>3 DEF LifeInv

LEMMA CloseSteps ==
  ASSUME LifeInv, CloseClients
  PROVE  LifeInv'
<1>1. /\ phase = "stopClients" /\ phase' = "stopped"
      /\ UNCHANGED <<tasks, managers, handler, jobs, sessions>>
      /\ global' \in {0, global} /\ open' \subseteq open
  BY DEF CloseClients, unowned
<1>2. {c \in open : c[1] = global} = open
  BY <1>1 DEF LifeInv, OnePool
<1>3. open' = {} \/ failed'
  BY <1>2 DEF CloseClients
<1>4. OnePool'
  BY <1>1, <1>3 DEF OnePool
<1>5. \A r \in HttpRequests : Handles(r)'
  BY <1>1 DEF LifeInv, Handles
<1>6. /\ phase' \in Phases /\ open' \subseteq Clients /\ global' \in 0 .. MaxManagers
      /\ tasks = {}
  BY <1>1, LifespanAssumption DEF LifeInv, Phases, Clients
<1>7. handler' = [r \in HttpRequests |-> handler'[r]]
  BY <1>1 DEF LifeInv
<1>8. QED BY <1>1, <1>4, <1>5, <1>6, <1>7 DEF LifeInv

\* Scrape jobs and sessions of GNews come, and jobs go, without touching the rest.
LEMMA UnownedSteps ==
  ASSUME LifeInv,
         \/ \E j \in JobTasks : CreateJob(j) \/ JobDone(j)
         \/ \E r \in HttpRequests : OpenSession(r)
  PROVE  LifeInv'
<1>1. /\ UNCHANGED <<phase, tasks, managers, global, open, handler, failed>>
      /\ jobs' \subseteq JobTasks /\ sessions' \subseteq HttpRequests
  BY DEF CreateJob, JobDone, OpenSession, LifeInv
<1>2. OnePool' /\ \A r \in HttpRequests : Handles(r)'
  BY <1>1 DEF LifeInv, OnePool, Handles
<1>3. handler' = [r \in HttpRequests |-> handler'[r]]
  BY <1>1 DEF LifeInv
<1>4. QED BY <1>1, <1>2, <1>3 DEF LifeInv

LEMMA RequestSteps ==
  ASSUME LifeInv, NEW r \in HttpRequests,
         GetManager(r) \/ Received(r) \/ \E key \in ClientKeys : GetClient(r, key)
  PROVE  LifeInv'
<1>0. handler = [s \in HttpRequests |-> handler[s]] /\ Handles(r)
  BY DEF LifeInv
<1>1. CASE GetManager(r)
  <2>1. /\ phase = "serving" /\ UNCHANGED <<phase, tasks, open, failed, jobs, sessions>>
        /\ handler' = [handler EXCEPT ![r] = [at |-> "client", manager |-> global']]
        /\ \/ global # 0 /\ managers' = managers /\ global' = global
           \/ global = 0 /\ managers < MaxManagers /\ managers' = managers + 1 /\ global' = managers'
    BY <1>1 DEF GetManager, unowned
  <2>2. /\ global' \in 1 .. MaxManagers /\ managers' = global'
        /\ global' = global \/ global = 0
    BY <2>1, LifespanAssumption DEF LifeInv, OnePool
  <2>3. OnePool'
    BY <2>1, <2>2 DEF LifeInv, OnePool
  <2>4. ASSUME NEW s \in HttpRequests PROVE Handles(s)'
    <3>1. CASE s = r
      <4>1. handler'[r] = [at |-> "client", manager |-> global']
        BY <1>0, <2>1
      <4>2. QED BY <2>1, <2>2, <3>1, <4>1 DEF Handles
    <3>2. CASE s # r
      <4>1. handler'[s] = handler[s] /\ Handles(s)
        BY <1>0, <2>1, <3>2 DEF LifeInv
      <4>2. QED BY <2>1, <2>2, <4>1 DEF Handles, LifeInv, OnePool
    <3>3. QED BY <3>1, <3>2
  <2>5. handler' = [s \in HttpRequests |-> handler'[s]]
    BY <1>0, <2>1
  <2>6. QED BY <2>1, <2>2, <2>3, <2>4, <2>5 DEF LifeInv, Phases
<1>2. CASE Received(r)
  <2>1. /\ UNCHANGED <<phase, tasks, managers, global, open, failed, jobs, sessions>>
        /\ handler' = [handler EXCEPT ![r] = HttpIdle]
    BY <1>2 DEF Received, unowned
  <2>2. OnePool'
    BY <2>1 DEF LifeInv, OnePool
  <2>3. ASSUME NEW s \in HttpRequests PROVE Handles(s)'
    BY <1>0, <2>1 DEF LifeInv, Handles
  <2>4. handler' = [s \in HttpRequests |-> handler'[s]]
    BY <1>0, <2>1
  <2>5. QED BY <2>1, <2>2, <2>3, <2>4 DEF LifeInv
<1>3. ASSUME NEW key \in ClientKeys, GetClient(r, key) PROVE LifeInv'
  <2> DEFINE client == <<handler[r].manager, key>>
  <2>1. /\ UNCHANGED <<phase, tasks, managers, global, failed, jobs, sessions>>
        /\ handler[r].at = "client"
        /\ open' = open \cup {client}
        /\ handler' = [handler EXCEPT ![r] = [at |-> "sent", client |-> client]]
    BY <1>3 DEF GetClient, unowned
  <2>2. phase = "serving" /\ handler[r].manager = global /\ global # 0
    BY <1>0, <2>1 DEF Handles, HttpIdle
  <2>3. client \in {global} \X ClientKeys /\ client \in Clients
    BY <2>2 DEF LifeInv, Clients
  <2> HIDE DEF client
  <2>4. OnePool'
    BY <2>1, <2>2, <2>3 DEF LifeInv, OnePool
  <2>5. ASSUME NEW s \in HttpRequests PROVE Handles(s)'
    <3>1. CASE s = r
      <4>1. handler'[r] = [at |-> "sent", client |-> client]
        BY <1>0, <2>1
      <4>2. QED BY <2>1, <2>2, <3>1, <4>1 DEF Handles
    <3>2. CASE s # r
      BY <1>0, <2>1, <3>2 DEF Handles, LifeInv
    <3>3. QED BY <3>1, <3>2
  <2>6. handler' = [s \in HttpRequests |-> handler'[s]]
    BY <1>0, <2>1
  <2>7. QED BY <2>1, <2>2, <2>3, <2>4, <2>5, <2>6 DEF LifeInv
<1>4. QED BY <1>1, <1>2, <1>3

LEMMA LifeSteps == LifeInv /\ [LifeNext]_lifeVars => LifeInv'
<1> SUFFICES ASSUME LifeInv, [LifeNext]_lifeVars PROVE LifeInv'
  OBVIOUS
<1>1. CASE UNCHANGED lifeVars
  BY <1>1 DEF lifeVars, LifeInv, OnePool, Handles
<1>2. CASE LifeNext
  BY <1>2, PhaseSteps, CloseSteps, RequestSteps, UnownedSteps DEF LifeNext
<1>3. QED BY <1>1, <1>2

\* Exactly one manager owns the pools: for every number of requests, proxies and
\* scrape jobs under way, when the worker has stopped the two tasks of the lifespan
\* do not run and every pooled client is closed, unless closing one raised; and no
\* request ever has a pooled client that is closed.  What scrape jobs and the
\* sessions of GNews leave is not given back, and not claimed.
THEOREM OwnIsGivenBack == LifeSpec => []ShutdownGivesBackItsOwn
<1>1. LifeInv => ShutdownGivesBackItsOwn
  BY DEF LifeInv, OnePool, Handles, ShutdownGivesBackItsOwn, HttpIdle
<1>2. QED BY <1>1, LifeStarts, LifeSteps, PTL DEF LifeSpec

(***************************************************************************)
(* The snapshot requests are authenticated from.                           *)
(***************************************************************************)

AuthSteps == {"get", "store", "compare", "lock", "recheck", "decide"}

\* A thread at q, of n objects that are each of some configuration: unless a lookup
\* was overtaken by a reload, what it is to cache is of the configuration c, and so is
\* whatever it has in hand if it is settled.
Sound(q, n, objects, c, late) ==
  \/ q = AuthIdle
  \/ /\ q \in [at : AuthSteps, mine : 0 .. n, settled : BOOLEAN, state : 0 .. n]
     /\ q.at # "get" => q.mine # None
     /\ q.at = "decide" => q.state # None
     /\ late = {} =>
          /\ q.at = "store" => objects[q.mine] = c
          /\ q.settled /\ q.mine # None => objects[q.mine] = c
          /\ q.settled /\ q.at = "decide" => objects[q.state] = c

Now(q) == Sound(q, Len(instances), instances, environment, overtaken)

Made == Len(instances)

AuthInv ==
  /\ instances \in Seq(Configs) /\ environment \in Configs
  /\ cached \in 0 .. Made /\ published \in 1 .. Made
  /\ lockHolder \in AuthThreads \cup {Nobody}
  /\ reload \in [at : {"idle", "get", "store"}, left : Nat, mine : 0 .. Made]
  /\ reload.at = "store" => reload.mine # None /\ instances[reload.mine] = environment
  /\ overtaken \subseteq AuthThreads
  /\ overtaken = {} /\ cached # None => instances[cached] = environment
  /\ request = [t \in AuthThreads |-> request[t]]
  /\ \A t \in AuthThreads : Now(request[t])

\* Objects are only added.
LEMMA StillSound ==
  ASSUME NEW q, NEW n \in Nat, NEW m \in Nat, n <= m, NEW objects, NEW more, NEW c, NEW late,
         \A k \in 1 .. n : more[k] = objects[k], Sound(q, n, objects, c, late)
  PROVE  Sound(q, m, more, c, late)
<1> DEFINE R(k) == [at : AuthSteps, mine : 0 .. k, settled : BOOLEAN, state : 0 .. k]
<1>1. q \in R(n) => q \in R(m)
  OBVIOUS
<1>2. q \in R(n) => /\ q.mine # None => more[q.mine] = objects[q.mine]
                    /\ q.state # None => more[q.state] = objects[q.state]
  BY DEF None
<1>3. "store" # "get"
  OBVIOUS
<1>4. QED BY <1>1, <1>2, <1>3 DEF Sound

\* When a reload begins no request is settled any more.
LEMMA ReleasedSound ==
  ASSUME NEW q, NEW n \in Nat, NEW objects, NEW c, NEW late, NEW now, NEW later,
         Sound(q, n, objects, c, late), q # AuthIdle, later = {} => q.at # "store"
  PROVE  Sound([q EXCEPT !.settled = FALSE], n, objects, now, later)
<1> DEFINE p == [q EXCEPT !.settled = FALSE]
           R == [at : AuthSteps, mine : 0 .. n, settled : BOOLEAN, state : 0 .. n]
<1>1. q \in R
  BY DEF Sound
<1>2. p \in R /\ ~p.settled /\ p.at = q.at /\ p.mine = q.mine /\ p.state = q.state
  BY <1>1
<1> HIDE DEF p
<1>3. Sound(p, n, objects, now, later)
  BY <1>2 DEF Sound
<1>4. QED BY <1>3 DEF p

LEMMA MadeGrows ==
  ASSUME AuthInv
  PROVE  /\ Made \in Nat
         /\ Build => instances' \in Seq(Configs) /\ Made' = Made + 1
         /\ Build => instances'[Made'] = environment
         /\ Build => \A k \in 1 .. Made : instances'[k] = instances[k]
         /\ UNCHANGED instances => Made' = Made
<1>1. instances \in Seq(Configs) /\ environment \in Configs
  BY DEF AuthInv
<1>2. Made \in Nat
  BY <1>1 DEF Made
<1>3. ASSUME Build
      PROVE  /\ instances' \in Seq(Configs) /\ Made' = Made + 1
             /\ instances'[Made'] = environment
             /\ \A k \in 1 .. Made : instances'[k] = instances[k]
  BY <1>1, <1>3, AppendProperties DEF Build, Made
<1>4. UNCHANGED instances => Made' = Made
  BY DEF Made
<1>5. QED BY <1>2, <1>3, <1>4

LEMMA ReloadGoes ==
  ASSUME NEW Stages, NEW Left, NEW Mine, NEW r \in [at : Stages, left : Left, mine : Mine],
         NEW a \in Stages, NEW l \in Left, NEW m \in Mine
  PROVE  /\ [r EXCEPT !.at = a, !.left = l] \in [at : Stages, left : Left, mine : Mine]
         /\ [r EXCEPT !.at = a, !.mine = m] \in [at : Stages, left : Left, mine : Mine]
         /\ [r EXCEPT !.at = a, !.left = l].at = a
         /\ [r EXCEPT !.at = a, !.mine = m].at = a
         /\ [r EXCEPT !.at = a, !.mine = m].mine = m
OBVIOUS

LEMMA AuthStarts == AuthInit => AuthInv
<1> SUFFICES ASSUME AuthInit PROVE AuthInv
  OBVIOUS
<1>1. instances \in Seq(Configs) /\ Made = 1 /\ environment \in Configs
  BY DEF AuthInit, Made
<1>2. NotAsked \in [at : {"idle", "get", "store"}, left : Nat, mine : 0 .. Made]
  BY <1>1, AuthAssumption DEF NotAsked, None
<1>3. QED BY <1>1, <1>2 DEF AuthInit, AuthInv, Now, Sound, NotAsked

LEMMA ReloadSteps ==
  ASSUME AuthInv, ChangeAndClear \/ ReloadGets \/ ReloadStores
  PROVE  AuthInv'
<1> DEFINE Reloads == [at : {"idle", "get", "store"}, left : Nat, mine : 0 .. Made]
<1>0. reload \in Reloads /\ Made \in Nat
  BY MadeGrows DEF AuthInv
<1>1. ASSUME UNCHANGED <<instances, environment, overtaken, request>>
      PROVE  Made' = Made /\ \A t \in AuthThreads : Now(request[t])'
  BY <1>1, MadeGrows DEF AuthInv, Now
<1>2. CASE ChangeAndClear
  <2>1. reload' = [reload EXCEPT !.at = "get", !.left = reload.left - 1] /\ reload.left - 1 \in Nat
    BY <1>0, <1>2 DEF ChangeAndClear
  <2>2. Made' = Made
    BY <1>2, MadeGrows DEF ChangeAndClear
  <2>3. reload' \in Reloads /\ reload'.at = "get"
    BY <1>0, <2>1, ReloadGoes
  <2>4. request' = [t \in AuthThreads |-> request'[t]]
    BY <1>2 DEF ChangeAndClear
  <2>5. ASSUME NEW t \in AuthThreads PROVE Now(request[t])'
    <3>1. CASE request[t] = AuthIdle
      BY <1>2, <3>1 DEF ChangeAndClear, Now, Sound
    <3>2. CASE request[t] # AuthIdle
      <4>1. request'[t] = [request[t] EXCEPT !.settled = FALSE]
            /\ UNCHANGED instances /\ (overtaken' = {} => request[t].at # "store")
        BY <1>2, <3>2 DEF ChangeAndClear
      <4>2. Sound(request[t], Made, instances, environment, overtaken)
        BY DEF AuthInv, Now, Made
      <4>3. Sound([request[t] EXCEPT !.settled = FALSE], Made, instances, environment', overtaken')
        BY <1>0, <3>2, <4>1, <4>2, ReleasedSound
      <4>4. QED BY <4>1, <4>3 DEF Now, Made
    <3>3. QED BY <3>1, <3>2
  <2>6. environment' \in Configs /\ overtaken' \subseteq AuthThreads /\ cached' = None
        /\ UNCHANGED <<instances, published, lockHolder>>
    BY <1>2 DEF ChangeAndClear
  <2>7. QED BY <1>0, <2>2, <2>3, <2>4, <2>5, <2>6 DEF AuthInv, None
<1>3. CASE ReloadStores
  <2>0. reload' = [reload EXCEPT !.at = "idle", !.mine = 0] /\ 0 \in 0 .. Made
    BY <1>0, <1>3 DEF ReloadStores, None
  <2>1. Made' = Made
    BY <1>3, MadeGrows DEF ReloadStores
  <2>2. reload' \in Reloads /\ reload'.at = "idle"
    BY <1>0, <2>0, ReloadGoes
  <2>3. reload.mine \in 0 .. Made /\ reload.mine # None /\ instances[reload.mine] = environment
    BY <1>0, <1>3 DEF ReloadStores, AuthInv
  <2>4. /\ UNCHANGED <<instances, environment, published, lockHolder, request, overtaken>>
        /\ cached' = IF cached = None THEN reload.mine ELSE cached
    BY <1>3 DEF ReloadStores, Cache
  <2>5. QED BY <1>0, <1>1, <2>1, <2>2, <2>3, <2>4 DEF AuthInv
<1>4. CASE ReloadGets /\ cached # None
  <2>0. reload' = [reload EXCEPT !.at = "idle", !.mine = 0] /\ 0 \in 0 .. Made
    BY <1>0, <1>4 DEF ReloadGets, None
  <2>1. Made' = Made /\ reload' \in Reloads /\ reload'.at = "idle"
    BY <1>0, <1>4, <2>0, MadeGrows, ReloadGoes DEF ReloadGets
  <2>2. UNCHANGED <<instances, environment, cached, published, lockHolder, request, overtaken>>
    BY <1>4 DEF ReloadGets
  <2>3. QED BY <1>0, <1>1, <2>1, <2>2 DEF AuthInv
<1>5. CASE ReloadGets /\ cached = None
  <2>1. /\ instances' \in Seq(Configs) /\ Made' = Made + 1 /\ instances'[Made'] = environment
        /\ \A k \in 1 .. Made : instances'[k] = instances[k]
        /\ UNCHANGED <<environment, cached, published, lockHolder, request, overtaken>>
    BY <1>5, MadeGrows DEF ReloadGets
  <2>2. reload' = [reload EXCEPT !.at = "store", !.mine = Made']
    BY <1>5 DEF ReloadGets, Made
  <2>6. reload \in [at : {"idle", "get", "store"}, left : Nat, mine : 0 .. Made'] /\ Made' \in 0 .. Made'
    BY <1>0, <2>1
  <2>7. reload' \in [at : {"idle", "get", "store"}, left : Nat, mine : 0 .. Made']
    BY <2>2, <2>6, ReloadGoes
  <2>8. reload'.mine = Made'
    BY <2>2, <2>6, ReloadGoes
  <2>3. reload'.mine # None
    BY <1>0, <2>1, <2>8 DEF None
  <2>4. ASSUME NEW t \in AuthThreads PROVE Now(request[t])'
    <3>1. Sound(request[t], Made, instances, environment, overtaken)
      BY DEF AuthInv, Now, Made
    <3>2. Sound(request[t], Made', instances', environment, overtaken)
      BY <1>0, <2>1, <3>1, StillSound
    <3>3. QED BY <2>1, <3>2 DEF Now, Made
  <2>5. QED BY <1>0, <1>5, <2>1, <2>7, <2>8, <2>3, <2>4 DEF AuthInv
<1>6. QED BY <1>2, <1>3, <1>4, <1>5

\* What the steps of one request leave as it was: objects may be added.
AuthRest ==
  /\ UNCHANGED instances \/ Build
  /\ cached' \in 0 .. Made' /\ published' \in 1 .. Made'
  /\ lockHolder' \in AuthThreads \cup {Nobody} /\ UNCHANGED <<environment, reload, overtaken>>
  /\ overtaken = {} /\ cached' # None => instances'[cached'] = environment

LEMMA AuthAll ==
  ASSUME AuthInv, AuthRest, NEW t \in AuthThreads, NEW p, request' = [request EXCEPT ![t] = p],
         Sound(p, Made', instances', environment, overtaken)
  PROVE  AuthInv'
<1>0. /\ Made \in Nat /\ Made' \in Nat /\ Made <= Made' /\ instances' \in Seq(Configs)
      /\ \A k \in 1 .. Made : instances'[k] = instances[k]
  BY MadeGrows DEF AuthRest, AuthInv
<1>1. reload' \in [at : {"idle", "get", "store"}, left : Nat, mine : 0 .. Made']
  BY <1>0 DEF AuthInv, AuthRest
<1>2. reload'.at = "store" => reload'.mine # None /\ instances'[reload'.mine] = environment
  BY <1>0 DEF AuthInv, AuthRest, None
<1>3. ASSUME NEW u \in AuthThreads PROVE Now(request[u])'
  <2>1. CASE u = t
    BY <2>1 DEF AuthInv, AuthRest, Now, Made
  <2>2. CASE u # t
    <3>1. Sound(request[u], Made, instances, environment, overtaken)
      BY DEF AuthInv, Now, Made
    <3>2. Sound(request[u], Made', instances', environment, overtaken)
      BY <1>0, <3>1, StillSound
    <3>3. request'[u] = request[u]
      BY <2>2 DEF AuthInv
    <3>4. QED BY <3>2, <3>3 DEF AuthRest, Now, Made
  <2>3. QED BY <2>1, <2>2
<1>4. request' = [u \in AuthThreads |-> request'[u]]
  BY DEF AuthInv
<1>5. QED BY <1>0, <1>1, <1>2, <1>3, <1>4 DEF AuthInv, AuthRest

LEMMA AskGoes ==
  ASSUME NEW Stages, NEW Num, NEW q \in [at : Stages, mine : Num, settled : BOOLEAN, state : Num],
         NEW a \in Stages, NEW m \in Num
  PROVE  /\ [q EXCEPT !.at = a] \in [at : Stages, mine : Num, settled : BOOLEAN, state : Num]
         /\ [q EXCEPT !.at = a, !.mine = m] \in [at : Stages, mine : Num, settled : BOOLEAN, state : Num]
         /\ [q EXCEPT !.at = a, !.state = m] \in [at : Stages, mine : Num, settled : BOOLEAN, state : Num]
OBVIOUS

LEMMA AuthStepSteps ==
  ASSUME AuthInv, NEW t \in AuthThreads, Arrive(t) \/ AuthStep(t)
  PROVE  AuthInv'
<1> DEFINE q == request[t]
           Num == 0 .. Made
           R == [at : AuthSteps, mine : Num, settled : BOOLEAN, state : Num]
<1>0. /\ request = [u \in AuthThreads |-> request[u]]
      /\ Sound(q, Made, instances, environment, overtaken)
      /\ Made \in Nat /\ cached \in Num /\ published \in Num /\ published # None
      /\ lockHolder \in AuthThreads \cup {Nobody}
      /\ overtaken = {} /\ cached # None => instances[cached] = environment
  BY MadeGrows DEF AuthInv, None, Now, Made
<1>1. CASE Arrive(t)
  <2> DEFINE settled == reload.at = "idle"
             p == [at |-> "get", mine |-> None, settled |-> settled, state |-> None]
  <2>1. /\ UNCHANGED <<instances, environment, cached, published, lockHolder, reload, overtaken>>
        /\ request' = [request EXCEPT ![t] = p] /\ Made' = Made
    BY <1>1, MadeGrows DEF Arrive
  <2>2. settled \in BOOLEAN
    OBVIOUS
  <2> HIDE DEF settled
  <2>3. p.at = "get" /\ p.mine = None /\ p \in R
    BY <1>0, <2>2 DEF AuthSteps, None
  <2> HIDE DEF p
  <2>4. Sound(p, Made, instances, environment, overtaken)
    BY <2>3 DEF Sound
  <2>5. AuthRest
    BY <1>0, <2>1 DEF AuthRest, None
  <2>6. QED BY <2>1, <2>4, <2>5, AuthAll
<1>2. CASE AuthStep(t)
  <2>0. q # AuthIdle /\ q \in R
    BY <1>0, <1>2 DEF AuthStep, GetSettings, StoreSettings, CompareState, TakeLock, Recheck,
                      Decide, AtAuth, AuthIdle, Sound
  <2>1. CASE GetSettings(t) /\ cached # None
    <3> DEFINE p == [q EXCEPT !.at = Compare(t), !.mine = cached]
    <3>1. /\ UNCHANGED <<instances, environment, cached, published, lockHolder, reload, overtaken>>
          /\ request' = [request EXCEPT ![t] = p] /\ Made' = Made /\ q.at = "get"
      BY <1>0, <2>1, MadeGrows DEF GetSettings, AtAuth
    <3>2. Compare(t) \in AuthSteps \ {"get", "store", "decide"}
      BY DEF Compare, AuthSteps
    <3>3. p \in R
      BY <1>0, <2>0, <3>2, AskGoes
    <3>4. p.at = Compare(t) /\ p.mine = cached
      BY <2>0
    <3> HIDE DEF p
    <3>5. Sound(p, Made, instances, environment, overtaken)
      BY <1>0, <2>1, <3>2, <3>3, <3>4 DEF Sound
    <3>6. AuthRest
      BY <1>0, <3>1 DEF AuthRest, None
    <3>7. QED BY <3>1, <3>5, <3>6, AuthAll
  <2>2. CASE GetSettings(t) /\ cached = None
    <3> DEFINE p == [q EXCEPT !.at = "store", !.mine = Made']
    <3>1. /\ Build /\ UNCHANGED <<environment, cached, published, lockHolder, reload, overtaken>>
          /\ request' = [request EXCEPT ![t] = p] /\ q.at = "get"
      BY <1>0, <2>2 DEF GetSettings, AtAuth, Made
    <3>2. Made' = Made + 1 /\ instances'[Made'] = environment
      BY <3>1, MadeGrows
    <3> DEFINE Upto == 0 .. Made'
    <3>3. q \in [at : AuthSteps, mine : Upto, settled : BOOLEAN, state : Upto] /\ Made' \in Upto
          /\ "store" \in AuthSteps
      BY <1>0, <2>0, <3>2 DEF AuthSteps
    <3> HIDE DEF Upto
    <3>4. p \in [at : AuthSteps, mine : Upto, settled : BOOLEAN, state : Upto]
      BY <3>3, AskGoes
    <3>5. p.at = "store" /\ p.mine = Made'
      BY <2>0
    <3> HIDE DEF p
    <3>6. Sound(p, Made', instances', environment, overtaken)
      BY <1>0, <3>2, <3>4, <3>5 DEF Sound, None, Upto
    <3>7. AuthRest
      BY <1>0, <2>2, <3>1, <3>2 DEF AuthRest, AuthInv
    <3>8. QED BY <3>1, <3>6, <3>7, AuthAll
  <2>3. CASE CompareState(t) /\ published = q.mine
    <3> DEFINE p == [q EXCEPT !.at = "decide", !.state = published]
    <3>1. /\ UNCHANGED <<instances, environment, cached, published, lockHolder, reload, overtaken>>
          /\ request' = [request EXCEPT ![t] = p] /\ Made' = Made /\ q.at = "compare"
      BY <1>0, <2>3, MadeGrows DEF CompareState, AtAuth
    <3>2. "decide" \in AuthSteps
      BY DEF AuthSteps
    <3>3. p \in R
      BY <1>0, <2>0, <3>2, AskGoes
    <3>4. p.at = "decide" /\ p.state = published /\ p.settled = q.settled /\ p.mine = q.mine
      BY <2>0
    <3> HIDE DEF p
    <3>5. Sound(p, Made, instances, environment, overtaken)
      BY <1>0, <2>0, <2>3, <3>1, <3>3, <3>4 DEF Sound
    <3>6. AuthRest
      BY <1>0, <3>1 DEF AuthRest, None, AuthInv
    <3>7. QED BY <3>1, <3>5, <3>6, AuthAll
  <2>4. CASE (CompareState(t) /\ published # q.mine) \/ TakeLock(t)
    <3>0. PICK a \in {"lock", "get"} :
             request' = [request EXCEPT ![t] = [q EXCEPT !.at = a]] /\ q.at \in {"compare", "lock"}
      BY <2>4 DEF CompareState, TakeLock, GoOn, AtAuth
    <3> DEFINE p == [q EXCEPT !.at = a]
    <3>1. /\ UNCHANGED <<instances, environment, cached, published, reload, overtaken>>
          /\ lockHolder' \in {t, lockHolder}
          /\ request' = [request EXCEPT ![t] = p] /\ Made' = Made
      BY <1>0, <2>4, <3>0, MadeGrows DEF CompareState, TakeLock
    <3>2. a \in AuthSteps
      BY DEF AuthSteps
    <3>3. p \in R
      BY <1>0, <2>0, <3>2, AskGoes
    <3>4. p.at = a /\ p.state = q.state /\ p.settled = q.settled /\ p.mine = q.mine
      BY <2>0
    <3> HIDE DEF p
    <3>5. Sound(p, Made, instances, environment, overtaken)
      BY <1>0, <2>0, <3>0, <3>3, <3>4 DEF Sound
    <3>6. AuthRest
      BY <1>0, <3>1 DEF AuthRest, AuthInv
    <3>7. QED BY <3>1, <3>5, <3>6, AuthAll
  <2>5. CASE Recheck(t)
    <3> DEFINE p == [q EXCEPT !.at = "decide", !.state = q.mine]
    <3>1. /\ UNCHANGED <<instances, environment, cached, reload, overtaken>>
          /\ request' = [request EXCEPT ![t] = p] /\ Made' = Made /\ lockHolder' = Nobody
          /\ q.at = "recheck" /\ published' = q.mine
      BY <1>0, <2>5, MadeGrows DEF Recheck, AtAuth
    <3>2. "decide" \in AuthSteps /\ q.mine \in Num /\ q.mine # None
      BY <1>0, <2>0, <3>1 DEF AuthSteps, Sound
    <3>3. p \in R
      BY <1>0, <2>0, <3>2, AskGoes
    <3>4. p.at = "decide" /\ p.state = q.mine /\ p.settled = q.settled /\ p.mine = q.mine
      BY <2>0
    <3> HIDE DEF p
    <3>5. Sound(p, Made, instances, environment, overtaken)
      BY <1>0, <2>0, <3>1, <3>2, <3>3, <3>4 DEF Sound
    <3>6. AuthRest
      BY <1>0, <3>1, <3>2 DEF AuthRest, None
    <3>7. QED BY <3>1, <3>5, <3>6, AuthAll
  <2>6. CASE Decide(t)
    <3>1. /\ UNCHANGED <<instances, environment, cached, published, lockHolder, reload, overtaken>>
          /\ request' = [request EXCEPT ![t] = AuthIdle] /\ Made' = Made
      BY <2>6, MadeGrows DEF Decide
    <3>2. Sound(AuthIdle, Made, instances, environment, overtaken)
      BY DEF Sound
    <3>3. AuthRest
      BY <1>0, <3>1 DEF AuthRest, AuthInv
    <3>4. QED BY <3>1, <3>2, <3>3, AuthAll
  <2>7. CASE StoreSettings(t)
    <3> DEFINE p == [q EXCEPT !.at = Compare(t)]
    <3>1. /\ UNCHANGED <<instances, environment, published, lockHolder, reload, overtaken>>
          /\ Made' = Made /\ q.at = "store" /\ cached' = IF cached = None THEN q.mine ELSE cached
          /\ request' = [request EXCEPT ![t] = p]
      BY <1>0, <2>7, MadeGrows DEF StoreSettings, Cache, AtAuth, GoOn
    <3>2. /\ Compare(t) \in AuthSteps \ {"get", "store", "decide"} /\ q.mine \in Num /\ q.mine # None
          /\ overtaken = {} => instances[q.mine] = environment
      BY <1>0, <2>0, <3>1 DEF Compare, AuthSteps, Sound
    <3>3. p \in R
      BY <2>0, <3>2, AskGoes
    <3>4. p.at = Compare(t) /\ p.mine = q.mine /\ p.settled = q.settled
      BY <2>0
    <3> HIDE DEF p
    <3>5. Sound(p, Made, instances, environment, overtaken)
      BY <3>2, <3>3, <3>4 DEF Sound
    <3>6. AuthRest
      BY <1>0, <3>1, <3>2 DEF AuthRest, AuthInv
    <3>7. QED BY <3>1, <3>5, <3>6, AuthAll
  <2>8. QED BY <1>2, <2>1, <2>2, <2>3, <2>4, <2>5, <2>6, <2>7 DEF AuthStep
<1>3. QED BY <1>1, <1>2

LEMMA AuthChanges == AuthInv /\ [AuthNext]_authVars => AuthInv'
<1> SUFFICES ASSUME AuthInv, [AuthNext]_authVars PROVE AuthInv'
  OBVIOUS
<1>1. CASE UNCHANGED authVars
  BY <1>1 DEF authVars, AuthInv, Now, Made
<1>2. CASE AuthNext
  BY <1>2, ReloadSteps, AuthStepSteps DEF AuthNext
<1>3. QED BY <1>1, <1>2

LEMMA AuthTold == AuthInv => AuthTypeOK /\ ReloadTakesEffect
<1> SUFFICES ASSUME AuthInv PROVE AuthTypeOK /\ ReloadTakesEffect
  OBVIOUS
<1>1. Made \in Nat /\ Objects \cup {None} = 0 .. Made /\ Objects = 1 .. Made
  BY MadeGrows DEF Objects, None, Made
<1>2. ASSUME NEW t \in AuthThreads, request[t] # AuthIdle
      PROVE  /\ request[t].mine \in Objects \cup {None} /\ request[t].settled \in BOOLEAN
             /\ AtAuth(t, "decide") => request[t].state \in Objects
  BY <1>1, <1>2 DEF AuthInv, Now, Sound, AtAuth, None, Made
<1>3. AuthTypeOK
  BY <1>1, <1>2 DEF AuthTypeOK, AuthInv
<1>4. ASSUME NEW t \in AuthThreads, AtAuth(t, "decide"), request[t].settled, overtaken = {}
      PROVE  instances[request[t].state] = environment
  BY <1>4 DEF AuthInv, Now, Sound, AtAuth, AuthIdle
<1>5. ReloadTakesEffect
  BY <1>4 DEF ReloadTakesEffect, DecidedByTheNew
<1>6. QED BY <1>3, <1>5

\* The snapshot, the cached settings and the requests in hand keep their types:
\* what a verdict is made from is always an object that was built.
THEOREM AuthTypes == AuthSpec => []AuthTypeOK
BY AuthStarts, AuthChanges, AuthTold, PTL DEF AuthSpec

\* However lookups that miss at the same time and threads still at the old settings
\* interleave, a request that arrives once a reload is over, and before the next, is
\* decided by the configuration reloaded, unless a thread had an object of the old one
\* to cache when that reload began.
THEOREM ReloadIsSeen == AuthSpec => []ReloadTakesEffect
BY AuthStarts, AuthChanges, AuthTold, PTL DEF AuthSpec

(***************************************************************************)
(* The response cache.                                                     *)
(***************************************************************************)

Within == [at : Steps, worker : CacheWorkers]

LEMMA EntryFacts ==
  /\ Absent \in Entries /\ CacheTTL \in Nat /\ Forever = CacheTTL + 1 /\ OldAge = CacheTTL + 2
  /\ \A left \in 0 .. Forever : Fresh(left, TRUE) \in Entries
  /\ \A e \in Entries : ToldOf(e) \in Doing
  /\ Within \subseteq Doing /\ CacheIdle \in Doing
BY CacheAssumption DEF Absent, Entries, Forever, OldAge, Fresh, ToldOf, Doing, Within

LEMMA OlderEntry ==
  ASSUME NEW e \in Entries
  PROVE  /\ Older(e) \in Entries /\ Older(e).good = e.good
         /\ Older(e).age = IF e.age < OldAge THEN e.age + 1 ELSE e.age
         /\ Older(e).left = IF e.left \in 1 .. CacheTTL THEN e.left - 1 ELSE e.left
<1> DEFINE Lefts == 0 .. Forever
           Ages  == 0 .. OldAge
           a == IF e.age < OldAge THEN e.age + 1 ELSE e.age
           l == IF e.left \in 1 .. CacheTTL THEN e.left - 1 ELSE e.left
<1>1. e \in [left : Lefts, age : Ages, good : BOOLEAN]
  BY DEF Entries
<1>2. a \in Ages /\ l \in Lefts
  BY <1>1, CacheAssumption DEF OldAge, Forever
<1>3. Older(e) = [e EXCEPT !.age = a, !.left = l]
  BY DEF Older
<1> HIDE DEF a, l, Lefts, Ages
<1>4. [e EXCEPT !.age = a, !.left = l] \in [left : Lefts, age : Ages, good : BOOLEAN]
  BY <1>1, <1>2
<1>5. Older(e).age = a /\ Older(e).left = l /\ Older(e).good = e.good
  BY <1>1, <1>3
<1>6. QED BY <1>3, <1>4, <1>5 DEF a, l, Lefts, Ages, Entries

LEMMA CallersAt ==
  ASSUME CacheTypeOK, NEW c \in CacheCallers, asking[c].at \in Steps
  PROVE  asking[c] \in Within /\ asking[c].worker \in CacheWorkers
BY DEF CacheTypeOK, Doing, Within, Steps, CacheIdle

LEMMA CallersGo ==
  ASSUME CacheTypeOK, NEW c \in CacheCallers,
         \/ \E step \in Steps : Goto(c, step) /\ asking[c].at \in Steps
         \/ \E e \in Entries : Settle(c, e)
         \/ asking' = [asking EXCEPT ![c] = CacheIdle]
         \/ \E step \in Steps, w \in CacheWorkers :
              asking' = [asking EXCEPT ![c] = [at |-> step, worker |-> w]]
  PROVE  asking' \in [CacheCallers -> Doing]
<1>1. \A step \in Steps, w \in CacheWorkers : [at |-> step, worker |-> w] \in Doing
  BY EntryFacts DEF Within
<1>2. PICK d \in Doing : asking' = [asking EXCEPT ![c] = d]
  BY <1>1, EntryFacts, CallersAt DEF Goto, Settle
<1>3. QED BY <1>2 DEF CacheTypeOK

LEMMA CacheTyped == CacheTypeOK /\ [CacheNext]_cacheVars => CacheTypeOK'
<1> SUFFICES ASSUME CacheTypeOK, [CacheNext]_cacheVars PROVE CacheTypeOK'
  OBVIOUS
<1>0. /\ linked \subseteq CacheWorkers /\ shared \in Entries /\ local \in [CacheWorkers -> Entries]
      /\ asking \in [CacheCallers -> Doing] /\ erring \in 0 .. MaxCacheFaults
      /\ Errs => erring' \in 0 .. MaxCacheFaults
  BY CacheAssumption DEF CacheTypeOK, Errs
<1>1. ASSUME NEW c \in CacheCallers, CallerStep(c) PROVE CacheTypeOK'
  <2> DEFINE w == asking[c].worker
  <2>1. CASE GetShared(c)
    <3>1. asking[c].at \in Steps /\ {"getMemory"} \subseteq Steps
      BY <2>1 DEF GetShared, At, Steps
    <3>2. asking' \in [CacheCallers -> Doing]
      BY <1>0, <2>1, <3>1, CallersGo DEF GetShared
    <3>3. QED BY <1>0, <2>1, <3>2 DEF GetShared, CacheTypeOK
  <2>2. CASE GetLocal(c)
    <3>1. asking[c].at \in Steps /\ "fetch" \in Steps
      BY <2>2 DEF GetLocal, At, Steps
    <3>2. w \in CacheWorkers /\ local[w] \in Entries
      BY <1>0, <3>1, CallersAt
    <3>3. asking' \in [CacheCallers -> Doing]
      BY <2>2, <3>1, <3>2, CallersGo DEF GetLocal
    <3>4. QED BY <1>0, <2>2, <3>2, <3>3, EntryFacts DEF GetLocal, CacheTypeOK
  <2>3. CASE Fetch(c)
    <3>1. asking[c].at \in Steps /\ {"raised", StoreStep(c)} \subseteq Steps
      BY <2>3 DEF Fetch, At, Steps, StoreStep
    <3>2. asking' \in [CacheCallers -> Doing]
      BY <2>3, <3>1, CallersGo DEF Fetch
    <3>3. QED BY <1>0, <2>3, <3>2 DEF Fetch, CacheTypeOK
  <2>4. CASE SetShared(c)
    <3>1. asking[c].at \in Steps /\ {"setMemory"} \subseteq Steps
      BY <2>4 DEF SetShared, At, Steps
    <3>2. (IF CacheTTL = 0 THEN Forever ELSE CacheTTL) \in 0 .. Forever
      BY EntryFacts
    <3>3. shared' \in Entries
      BY <1>0, <2>4, <3>2, EntryFacts DEF SetShared
    <3>4. asking' \in [CacheCallers -> Doing]
      BY <2>4, <3>1, <3>3, CallersGo DEF SetShared
    <3>5. QED BY <1>0, <2>4, <3>3, <3>4 DEF SetShared, CacheTypeOK
  <2>5. CASE SetLocal(c)
    <3>1. asking[c].at \in Steps
      BY <2>5 DEF SetLocal, At, Steps
    <3>0. CacheTTL \in 0 .. Forever
      BY EntryFacts
    <3>2. w \in CacheWorkers /\ Fresh(CacheTTL, TRUE) \in Entries
      BY <3>0, <3>1, CallersAt, EntryFacts
    <3>3. local' \in [CacheWorkers -> Entries] /\ local'[w] \in Entries
      BY <1>0, <2>5, <3>2 DEF SetLocal
    <3>4. asking' \in [CacheCallers -> Doing]
      BY <2>5, <3>3, CallersGo DEF SetLocal
    <3>5. QED BY <1>0, <2>5, <3>3, <3>4 DEF SetLocal, CacheTypeOK
  <2>6. CASE DeleteShared(c)
    <3>1. asking[c].at \in Steps /\ "delMemory" \in Steps
      BY <2>6 DEF DeleteShared, At, Steps
    <3>2. asking' \in [CacheCallers -> Doing]
      BY <2>6, <3>1, CallersGo DEF DeleteShared
    <3>3. QED BY <1>0, <2>6, <3>2, EntryFacts DEF DeleteShared, CacheTypeOK
  <2>7. CASE DeleteLocal(c)
    <3>1. asking' \in [CacheCallers -> Doing]
      BY <2>7, CallersGo DEF DeleteLocal
    <3>2. QED BY <1>0, <2>7, <3>1, EntryFacts DEF DeleteLocal, CacheTypeOK
  <2>8. CASE AnswerCall(c)
    <3>1. asking' \in [CacheCallers -> Doing]
      BY <2>8, CallersGo DEF AnswerCall
    <3>2. QED BY <1>0, <2>8, <3>1 DEF AnswerCall, CacheTypeOK
  <2>9. QED BY <1>1, <2>1, <2>2, <2>3, <2>4, <2>5, <2>6, <2>7, <2>8 DEF CallerStep
<1>2. ASSUME NEW c \in CacheCallers, NEW w \in CacheWorkers, Look(c, w) \/ Delete(c, w)
      PROVE  CacheTypeOK'
  <2>1. PICK step \in Steps : asking' = [asking EXCEPT ![c] = [at |-> step, worker |-> w]]
    BY <1>2 DEF Look, Delete, Steps
  <2>2. asking' \in [CacheCallers -> Doing]
    BY <2>1, CallersGo
  <2>3. QED BY <1>0, <1>2, <2>2 DEF Look, Delete, CacheTypeOK
<1>3. ASSUME NEW w \in CacheWorkers, Sweep(w) PROVE CacheTypeOK'
  BY <1>0, <1>3, EntryFacts DEF Sweep, CacheTypeOK
<1>4. CASE Tick
  <2>1. shared' \in Entries
    BY <1>0, <1>4, EntryFacts, OlderEntry DEF Tick
  <2>2. local' \in [CacheWorkers -> Entries]
    BY <1>0, <1>4, EntryFacts, OlderEntry DEF Tick
  <2>3. QED BY <1>0, <1>4, <2>1, <2>2 DEF Tick, CacheTypeOK
<1>5. CASE UNCHANGED cacheVars
  BY <1>5 DEF cacheVars, CacheTypeOK
<1>6. QED BY <1>1, <1>2, <1>3, <1>4, <1>5 DEF CacheNext

\* An entry is of a fetch that succeeded, and its age and the time left are the ttl.
Kept(e) == e.good /\ e.age + e.left <= CacheTTL

CacheInv ==
  /\ CacheTypeOK
  /\ shared # Absent => shared.left > 0 /\ Kept(shared)
  /\ \A w \in CacheWorkers : local[w].left > 0 => Kept(local[w])
  /\ StaleIsBounded

LEMMA OnlyAbsent ==
  ASSUME NEW e \in Entries, e.left = 0, e.age = OldAge, e.good = FALSE
  PROVE  e = Absent
BY DEF Entries, Absent

LEMMA AbsentStays == Older(Absent) = Absent
<1>1. Absent.left = 0 /\ Absent.age = OldAge /\ Absent.good = FALSE
  BY DEF Absent
<1>2. Older(Absent).left = 0 /\ Older(Absent).age = OldAge /\ Older(Absent).good = FALSE
  BY <1>1, EntryFacts, OlderEntry
<1>3. QED BY <1>2, EntryFacts, OlderEntry, OnlyAbsent

LEMMA OlderKept ==
  ASSUME NEW e \in Entries, e.left > 0 => Kept(e), Older(e).left > 0
  PROVE  Kept(Older(e)) /\ e.left > 0
<1>1. e.left \in 0 .. Forever /\ e.age \in 0 .. OldAge
  BY DEF Entries
<1>2. e.left > 0 /\ Kept(e)
  BY <1>1, EntryFacts, OlderEntry
<1>3. e.left \in 1 .. CacheTTL /\ e.age < OldAge
  BY <1>1, <1>2, EntryFacts DEF Kept
<1>4. Older(e).age = e.age + 1 /\ Older(e).left = e.left - 1 /\ Older(e).good = e.good
  BY <1>3, OlderEntry
<1>5. Older(e).age + Older(e).left = e.age + e.left
  BY <1>1, <1>4
<1>6. QED BY <1>2, <1>4, <1>5 DEF Kept

LEMMA FreshKept ==
  ASSUME CacheTTL > 0
  PROVE  Fresh(CacheTTL, TRUE) \in Entries /\ Kept(Fresh(CacheTTL, TRUE))
         /\ Fresh(CacheTTL, TRUE).left > 0
<1>1. CacheTTL \in 0 .. Forever
  BY EntryFacts
<1>2. QED BY <1>1, EntryFacts DEF Fresh, Kept

\* A caller is told what is kept; or nobody is told anything new.
LEMMA ToldKept ==
  ASSUME CacheInv, NEW c \in CacheCallers,
         \/ \E e \in Entries : Settle(c, e) /\ e.left > 0 /\ Kept(e)
         \/ \E step \in Steps : Goto(c, step)
         \/ asking' = [asking EXCEPT ![c] = CacheIdle]
         \/ \E step \in Steps, w \in CacheWorkers :
              asking' = [asking EXCEPT ![c] = [at |-> step, worker |-> w]]
  PROVE  StaleIsBounded'
<1>1. asking \in [CacheCallers -> Doing] /\ StaleIsBounded
  BY DEF CacheInv, CacheTypeOK
<1>2. PICK d : /\ asking' = [asking EXCEPT ![c] = d]
               /\ d.at = "told" => d.good /\ d.age < CacheTTL
  <2>1. CASE \E e \in Entries : Settle(c, e) /\ e.left > 0 /\ Kept(e)
    <3>1. PICK e \in Entries : Settle(c, e) /\ e.left > 0 /\ Kept(e)
      BY <2>1
    <3>2. e.good /\ e.age < CacheTTL
      BY <3>1, CacheAssumption DEF Kept, Entries, Forever, OldAge
    <3>3. ToldOf(e).good /\ ToldOf(e).age < CacheTTL
      BY <3>2 DEF ToldOf
    <3>4. asking' = [asking EXCEPT ![c] = ToldOf(e)]
      BY <3>1 DEF Settle
    <3>5. QED BY <3>3, <3>4
  <2>2. ASSUME NEW d, asking' = [asking EXCEPT ![c] = d], d.at # "told"
        PROVE  \E e : /\ asking' = [asking EXCEPT ![c] = e]
                      /\ e.at = "told" => e.good /\ e.age < CacheTTL
    BY <2>2
  <2>3. \A step \in Steps : \A w : [at |-> step, worker |-> w].at # "told"
    BY DEF Steps
  <2>4. CASE \/ \E step \in Steps : Goto(c, step)
             \/ \E step \in Steps, w \in CacheWorkers :
                  asking' = [asking EXCEPT ![c] = [at |-> step, worker |-> w]]
    <3>1. PICK step \in Steps : \E w : asking' = [asking EXCEPT ![c] = [at |-> step, worker |-> w]]
      BY <2>4 DEF Goto
    <3>2. QED BY <2>2, <2>3, <3>1
  <2>6. CASE asking' = [asking EXCEPT ![c] = CacheIdle]
    <3>1. CacheIdle.at # "told"
      BY DEF CacheIdle
    <3>2. QED BY <2>2, <2>6, <3>1
  <2>5. QED BY <2>1, <2>4, <2>6
<1>3. QED BY <1>1, <1>2 DEF StaleIsBounded, At

LEMMA CacheKeeps ==
  ASSUME CacheTTL > 0, CacheInv, [CacheNext]_cacheVars
  PROVE  CacheInv'
<1>0. /\ CacheTypeOK /\ CacheTypeOK' /\ shared \in Entries /\ local \in [CacheWorkers -> Entries]
      /\ shared # Absent => shared.left > 0 /\ Kept(shared)
      /\ \A w \in CacheWorkers : local[w].left > 0 => Kept(local[w])
      /\ Absent.left = 0
  BY CacheTyped DEF CacheInv, CacheTypeOK, Absent
<1> DEFINE SharedOK == shared' # Absent => shared'.left > 0 /\ Kept(shared')
           LocalOK  == \A w \in CacheWorkers : local'[w].left > 0 => Kept(local'[w])
<1>1. ASSUME SharedOK, LocalOK, StaleIsBounded' PROVE CacheInv'
  BY <1>0, <1>1 DEF CacheInv, Kept
<1>2. (UNCHANGED shared => SharedOK) /\ (UNCHANGED local => LocalOK)
  BY <1>0
<1>3. (shared' = Absent => SharedOK)
      /\ \A w \in CacheWorkers : local' = [local EXCEPT ![w] = Absent] => LocalOK
  BY <1>0
<1>4. ASSUME NEW c \in CacheCallers, CallerStep(c) PROVE CacheInv'
  <2> DEFINE w == asking[c].worker
  <2>1. CASE GetShared(c)
    <3>1. StaleIsBounded'
      BY <1>0, <2>1, ToldKept DEF GetShared, Steps
    <3>2. QED BY <1>1, <1>2, <2>1, <3>1 DEF GetShared
  <2>2. CASE GetLocal(c)
    <3>1. w \in CacheWorkers
      BY <1>0, <2>2, CallersAt DEF GetLocal, At, Steps
    <3>2. StaleIsBounded'
      BY <1>0, <2>2, <3>1, ToldKept DEF GetLocal, Steps
    <3>3. QED BY <1>1, <1>2, <1>3, <2>2, <3>1, <3>2 DEF GetLocal
  <2>3. CASE Fetch(c)
    <3>1. StaleIsBounded'
      BY <2>3, ToldKept DEF Fetch, Steps, StoreStep
    <3>2. QED BY <1>1, <1>2, <2>3, <3>1 DEF Fetch
  <2>4. CASE SetShared(c)
    <3>1. \/ shared' = Fresh(CacheTTL, TRUE) /\ Settle(c, shared')
          \/ UNCHANGED shared /\ Goto(c, "setMemory")
      <4>1. CacheTTL # 0
        BY CacheAssumption
      <4>2. (IF CacheTTL = 0 THEN Forever ELSE CacheTTL) = CacheTTL
        BY <4>1
      <4>3. QED BY <2>4, <4>2 DEF SetShared
    <3>2. StaleIsBounded'
      BY <3>1, ToldKept, FreshKept DEF Steps
    <3>3. SharedOK
      BY <1>2, <3>1, FreshKept
    <3>4. QED BY <1>1, <1>2, <2>4, <3>2, <3>3 DEF SetShared
  <2>5. CASE SetLocal(c)
    <3>1. w \in CacheWorkers
      BY <1>0, <2>5, CallersAt DEF SetLocal, At, Steps
    <3>2. local' = [local EXCEPT ![w] = Fresh(CacheTTL, TRUE)] /\ local'[w] = Fresh(CacheTTL, TRUE)
      BY <1>0, <2>5, <3>1 DEF SetLocal
    <3>3. StaleIsBounded'
      BY <2>5, <3>2, ToldKept, FreshKept DEF SetLocal
    <3>4. LocalOK
      BY <1>0, <3>2, FreshKept
    <3>5. QED BY <1>1, <1>2, <2>5, <3>3, <3>4 DEF SetLocal
  <2>6. CASE DeleteShared(c)
    <3>1. StaleIsBounded'
      BY <2>6, ToldKept DEF DeleteShared, Steps
    <3>2. QED BY <1>1, <1>2, <1>3, <2>6, <3>1 DEF DeleteShared
  <2>7. CASE DeleteLocal(c)
    <3>1. w \in CacheWorkers
      BY <1>0, <2>7, CallersAt DEF DeleteLocal, At, Steps
    <3>2. StaleIsBounded'
      BY <2>7, ToldKept DEF DeleteLocal
    <3>3. QED BY <1>1, <1>2, <1>3, <2>7, <3>1, <3>2 DEF DeleteLocal
  <2>8. CASE AnswerCall(c)
    <3>1. StaleIsBounded'
      BY <2>8, ToldKept DEF AnswerCall
    <3>2. QED BY <1>1, <1>2, <2>8, <3>1 DEF AnswerCall
  <2>9. QED BY <1>4, <2>1, <2>2, <2>3, <2>4, <2>5, <2>6, <2>7, <2>8 DEF CallerStep
<1>5. ASSUME NEW c \in CacheCallers, NEW w \in CacheWorkers, Look(c, w) \/ Delete(c, w)
      PROVE  CacheInv'
  <2>1. PICK step \in Steps : asking' = [asking EXCEPT ![c] = [at |-> step, worker |-> w]]
    BY <1>5 DEF Look, Delete, Steps
  <2>2. StaleIsBounded'
    BY <2>1, ToldKept
  <2>3. QED BY <1>1, <1>2, <1>5, <2>2 DEF Look, Delete
<1>6. ASSUME UNCHANGED asking PROVE StaleIsBounded'
  BY <1>6 DEF CacheInv, StaleIsBounded, At
<1>7. ASSUME NEW w \in CacheWorkers, Sweep(w) PROVE CacheInv'
  BY <1>1, <1>2, <1>3, <1>6, <1>7 DEF Sweep
<1>8. CASE Tick
  <2>1. SharedOK
    <3>1. CASE shared = Absent
      BY <1>8, <3>1, AbsentStays DEF Tick
    <3>2. CASE shared # Absent /\ Older(shared).left = 0
      BY <1>8, <3>2 DEF Tick
    <3>3. CASE shared # Absent /\ Older(shared).left # 0
      <4>1. Older(shared).left > 0
        BY <1>0, <3>3, OlderEntry DEF Entries, Forever
      <4>2. Kept(Older(shared))
        BY <1>0, <4>1, OlderKept
      <4>3. QED BY <1>8, <3>3, <4>1, <4>2 DEF Tick
    <3>4. QED BY <3>1, <3>2, <3>3
  <2>2. LocalOK
    <3> SUFFICES ASSUME NEW w \in CacheWorkers, local'[w].left > 0 PROVE Kept(local'[w])
      OBVIOUS
    <3>1. local'[w] = IF local[w] = Absent THEN Absent ELSE Older(local[w])
      BY <1>8 DEF Tick
    <3>2. local'[w] = Older(local[w]) /\ local[w] \in Entries
      BY <1>0, <3>1
    <3>3. QED BY <1>0, <3>2, OlderKept
  <2>3. QED BY <1>1, <1>6, <1>8, <2>1, <2>2 DEF Tick
<1>9. CASE UNCHANGED cacheVars
  BY <1>1, <1>2, <1>6, <1>9 DEF cacheVars
<1>10. QED BY <1>4, <1>5, <1>7, <1>8, <1>9 DEF CacheNext

LEMMA CacheStarts == CacheInit => CacheInv
<1> SUFFICES ASSUME CacheInit PROVE CacheInv
  OBVIOUS
<1>1. CacheTypeOK
  BY EntryFacts, CacheAssumption DEF CacheInit, CacheTypeOK
<1>2. QED BY <1>1 DEF CacheInit, CacheInv, StaleIsBounded, At, CacheIdle, Absent

\* Whatever fails in between, the entry and what the callers are at keep their types.
THEOREM CacheTypes == CacheSpec => []CacheTypeOK
<1>1. CacheInit => CacheTypeOK
  BY CacheStarts DEF CacheInv
<1>2. QED BY <1>1, CacheTyped, PTL DEF CacheSpec

\* Where the ttl is not 0, whichever store answers and after whichever failures,
\* what a caller is told was stored less than the ttl before, and by a fetch that
\* succeeded.  A ttl of 0 is kept for good by Redis, and is no bound at all.
THEOREM CacheIsRecent == CacheTTL > 0 => (CacheSpec => []StaleIsBounded)
<1> SUFFICES ASSUME CacheTTL > 0 PROVE CacheSpec => []StaleIsBounded
  OBVIOUS
<1>1. CacheInv /\ [CacheNext]_cacheVars => CacheInv'
  BY CacheKeeps
<1>2. CacheInv => StaleIsBounded
  BY DEF CacheInv
<1>3. QED BY <1>1, <1>2, CacheStarts, PTL DEF CacheSpec

(***************************************************************************)
(* The record store.                                                       *)
(***************************************************************************)

\* What a call owes while it is at o, due being what its caller is owed and sure what
\* every reader of Redis is.
Owes(o, due, certain) ==
  /\ o.at = "delete" => o.id \notin certain
  /\ o.at = "get" => due \subseteq certain
  /\ o.at = "scan" => due \subseteq certain /\ due \subseteq o.found \cup o.todo
  /\ o.at = "answer" /\ ~o.early => AllOwed(o, due)

Kinds == /\ manager \in [StoreWorkers -> ManagerStates] /\ stored \subseteq Ids
         /\ inMemory \in [StoreWorkers -> SUBSET Ids] /\ blips \in 0 .. MaxBlips

StoreInv ==
  /\ StoreTypeOK
  /\ sure["redis"] \subseteq stored
  /\ \A w \in StoreWorkers : sure[w] \subseteq inMemory[w]
  /\ \A c \in StoreCallers : Owes(op[c], owed[c], sure["redis"])

OnOne     == [at : OpSteps \ {"scan"}, worker : StoreWorkers, id : Ids]
Listings  == [at : {"scan"}, worker : StoreWorkers, todo : SUBSET Ids, found : SUBSET Ids]
Answering == [at : {"answer"}, found : SUBSET Ids, limit : Limits, offset : Offsets,
              early : BOOLEAN]

LEMMA OpsAre ==
  /\ StoreIdle \in Ops /\ [at |-> "raised"] \in Ops
  /\ OnOne \subseteq Ops /\ Listings \subseteq Ops /\ Answering \subseteq Ops
  /\ \A o \in Ops : /\ o.at \in {"putGet", "putSet", "get", "delete"} => o \in OnOne
                    /\ o.at = "scan" => o \in Listings
                    /\ o.at = "answer" => o \in Answering
BY DEF Ops, OnOne, Listings, Answering, StoreIdle, OpSteps

LEMMA AllIsNat == All \in Nat \ {0} /\ All \in Limits /\ 0 \in Offsets
<1>1. Cardinality(Ids) \in Nat
  BY StoreAssumption, FS_CardinalityType
<1>2. QED BY <1>1 DEF All, Limits, Offsets

\* A page lacks nothing but what is passed over, unless it is full.
LEMMA PageIsAllOwed ==
  ASSUME NEW records \in SUBSET Ids, NEW limit \in Limits, NEW offset \in Offsets,
         NEW page \in PagesOf(records, limit, offset), NEW due \in SUBSET records
  PROVE  /\ page \in SUBSET Ids
         /\ Cardinality(due \ page) <= offset \/ Cardinality(page) = limit
<1>1. /\ limit \in Nat /\ offset \in Nat
      /\ page \subseteq records /\ Cardinality(page) = Fewer(limit, Beyond(records, offset))
  BY AllIsNat DEF Limits, Offsets, PagesOf
<1>2. IsFiniteSet(records)
  BY StoreAssumption, FS_Subset
<1>3. IsFiniteSet(page) /\ IsFiniteSet(records \ page)
  BY <1>1, <1>2, FS_Subset
<1>4. /\ Cardinality(records \ page) = Cardinality(records) - Cardinality(records \cap page)
  BY <1>2, <1>3, FS_Difference
<1>5. records \cap page = page
  BY <1>1
<1>6. due \ page \subseteq records \ page
  OBVIOUS
<1>7. Cardinality(due \ page) <= Cardinality(records \ page)
  BY <1>3, <1>6, FS_Subset
<1>8. /\ Cardinality(records) \in Nat /\ Cardinality(page) \in Nat
      /\ Cardinality(due \ page) \in Nat
  BY <1>2, <1>3, <1>6, FS_CardinalityType, FS_Subset
<1>9. CASE Cardinality(page) # limit
  <2>1. Cardinality(page) = Beyond(records, offset)
    BY <1>1, <1>9 DEF Fewer
  <2>2. Cardinality(records) - Cardinality(page) <= offset
    BY <1>1, <1>8, <2>1 DEF Beyond
  <2>3. Cardinality(records \ page) = Cardinality(records) - Cardinality(page)
    BY <1>4, <1>5
  <2>4. Cardinality(due \ page) <= offset
    BY <1>1, <1>7, <1>8, <2>2, <2>3
  <2>5. QED BY <1>1, <2>4
<1>10. QED BY <1>1, <1>9

\* Who is owed all of due is owed all of less.
LEMMA LessIsOwed ==
  ASSUME NEW o \in Answering, NEW due \in SUBSET Ids, NEW less \in SUBSET due, AllOwed(o, due)
  PROVE  AllOwed(o, less)
<1>1. IsFiniteSet(due \ o.found) /\ less \ o.found \subseteq due \ o.found
  BY StoreAssumption, FS_Subset
<1>2. /\ Cardinality(less \ o.found) <= Cardinality(due \ o.found)
      /\ Cardinality(less \ o.found) \in Nat /\ Cardinality(due \ o.found) \in Nat
  BY <1>1, FS_Subset, FS_CardinalityType
<1>3. o.offset \in Nat
  BY AllIsNat DEF Answering, Offsets
<1>4. QED BY <1>2, <1>3 DEF AllOwed

\* The answer that a listing of records gives a caller who is owed due of them.
LEMMA PageAnswered ==
  ASSUME NEW c \in StoreCallers, NEW records \in SUBSET Ids, NEW due \in SUBSET Ids,
         NEW early \in BOOLEAN, AnswerPage(c, records, early),
         ~early => due \subseteq records
  PROVE  \E o \in Answering :
           op' = [op EXCEPT ![c] = o] /\ \A certain : Owes(o, due, certain)
<1>1. PICK limit \in Limits, offset \in Offsets :
        \E page \in PagesOf(records, limit, offset) : Answer(c, page, limit, offset, early)
  BY DEF AnswerPage
<1>2. PICK page \in PagesOf(records, limit, offset) : Answer(c, page, limit, offset, early)
  BY <1>1
<1> DEFINE o == [at |-> "answer", found |-> page, limit |-> limit, offset |-> offset,
                 early |-> early]
<1>3. page \in SUBSET Ids
  BY PageIsAllOwed, {} \in SUBSET records
<1>4. o \in Answering /\ op' = [op EXCEPT ![c] = o]
  BY <1>2, <1>3 DEF Answer, Answering
<1>5. ASSUME ~early PROVE AllOwed(o, due)
  <2>1. due \in SUBSET records
    BY <1>5
  <2>2. Cardinality(due \ page) <= offset \/ Cardinality(page) = limit
    BY <2>1, PageIsAllOwed
  <2>3. QED BY <2>2 DEF AllOwed
<1>6. \A certain : Owes(o, due, certain)
  BY <1>5 DEF Owes
<1>7. QED BY <1>4, <1>6

LEMMA StoreStarts == StoreInit => StoreInv
<1> SUFFICES ASSUME StoreInit PROVE StoreInv
  OBVIOUS
<1>1. "redis" \in Places /\ StoreWorkers \subseteq Places
  BY DEF Places
<1>2. reachable \in BOOLEAN
  BY Zenon DEF StoreInit
<1>3. StoreTypeOK
  BY <1>1, <1>2, OpsAre, StoreAssumption DEF StoreInit, StoreTypeOK, ManagerStates
<1>4. \A c \in StoreCallers : Owes(op[c], owed[c], sure["redis"])
  BY DEF StoreInit, Owes, StoreIdle
<1>5. QED BY <1>1, <1>3, <1>4 DEF StoreInit, StoreInv

LEMMA ReachableIs == StoreTypeOK /\ [StoreNext]_storeVars => reachable' \in BOOLEAN
<1> SUFFICES ASSUME StoreTypeOK, [StoreNext]_storeVars PROVE reachable' \in BOOLEAN
  OBVIOUS
<1>1. \/ reachable' = reachable \/ reachable' = FALSE \/ reachable' = TRUE
  BY DEF storeVars, StoreNext, WorkerStep, Connect, Connected, Restart, CallStep, PutGet, PutSet,
         GetRecord, DeleteRecord, ListGet, ListEnd, Finish, ListLocal, ListStart, PutLocal,
         DeleteLocalRecord, BeginCall, ExpireRecord, Outage, Recovery
<1>2. QED BY <1>1, Zenon DEF StoreTypeOK

\* What a step of one call has to leave behind: the call at o, its caller owed due.
CallGoes(c, o, due) ==
  /\ o \in Ops /\ op' = [op EXCEPT ![c] = o]
  /\ due \subseteq Ids /\ owed' = [owed EXCEPT ![c] = due]

\* What is certain to be in Redis grows, but by nothing that is being deleted.
MoreCertain ==
  /\ sure' \in [Places -> SUBSET Ids] /\ sure["redis"] \subseteq sure'["redis"]
  /\ \A c \in StoreCallers : op[c].at = "delete" /\ op[c].id \in sure'["redis"] =>
       op[c].id \in sure["redis"]
  /\ sure'["redis"] \subseteq stored'
  /\ \A w \in StoreWorkers : sure'[w] \subseteq inMemory'[w]

LEMMA CallKeeps ==
  ASSUME StoreInv, reachable' \in BOOLEAN, Kinds', MoreCertain,
         NEW c \in StoreCallers, NEW o, NEW due, CallGoes(c, o, due),
         Owes(o, due, sure'["redis"])
  PROVE  StoreInv'
<1>1. op \in [StoreCallers -> Ops] /\ owed \in [StoreCallers -> SUBSET Ids]
  BY DEF StoreInv, StoreTypeOK
<1>2. op' \in [StoreCallers -> Ops] /\ owed' \in [StoreCallers -> SUBSET Ids]
  BY <1>1 DEF CallGoes
<1>3. StoreTypeOK'
  BY <1>2 DEF StoreTypeOK, Kinds, MoreCertain
<1>4. ASSUME NEW d \in StoreCallers PROVE Owes(op'[d], owed'[d], sure'["redis"])
  <2>1. CASE d = c
    BY <1>1, <2>1 DEF CallGoes
  <2>2. CASE d # c
    <3>1. op'[d] = op[d] /\ owed'[d] = owed[d]
      BY <1>1, <2>2 DEF CallGoes
    <3>2. QED BY <3>1 DEF StoreInv, Owes, MoreCertain
  <2>3. QED BY <2>1, <2>2
<1>5. QED BY <1>3, <1>4 DEF StoreInv, MoreCertain

LEMMA NothingSurer == StoreInv /\ UNCHANGED <<sure, stored, inMemory>> => MoreCertain
BY DEF StoreInv, StoreTypeOK, MoreCertain, Places

LEMMA CallFailing ==
  ASSUME StoreInv, NEW c \in StoreCallers, CallFails(c), UNCHANGED owed
  PROVE  /\ blips' \in 0 .. MaxBlips /\ CallGoes(c, [at |-> "raised"], owed[c])
         /\ \A due, certain : Owes([at |-> "raised"], due, certain)
<1>1. blips' \in 0 .. MaxBlips /\ Raise(c)
  BY StoreAssumption DEF CallFails, Blip, StoreInv, StoreTypeOK
<1>2. owed = [owed EXCEPT ![c] = owed[c]] /\ owed[c] \subseteq Ids
  BY DEF StoreInv, StoreTypeOK
<1>3. CallGoes(c, [at |-> "raised"], owed[c])
  BY <1>1, <1>2, OpsAre DEF CallGoes, Raise
<1>4. QED BY <1>1, <1>3 DEF Owes

LEMMA CallSteps ==
  ASSUME StoreInv, reachable' \in BOOLEAN, NEW c \in StoreCallers, CallStep(c)
  PROVE  StoreInv'
<1> DEFINE o == op[c]
<1>0. /\ StoreTypeOK /\ Kinds /\ o \in Ops /\ owed[c] \subseteq Ids /\ owed = [owed EXCEPT ![c] = owed[c]]
      /\ Owes(o, owed[c], sure["redis"]) /\ sure["redis"] \subseteq stored /\ stored \subseteq Ids
  BY DEF StoreInv, StoreTypeOK, Kinds
<1>1. CASE CallFails(c) /\ UNCHANGED <<manager, stored, inMemory, sure, owed>>
  <2>1. Kinds' /\ MoreCertain
    BY <1>0, <1>1, CallFailing, NothingSurer DEF Kinds
  <2>2. QED BY <1>1, <2>1, CallFailing, CallKeeps
<1>2. CASE PutGet(c) /\ Step(c, "putSet") /\ UNCHANGED blips
  <2> DEFINE p == [o EXCEPT !.at = "putSet"]
  <2>1. o \in OnOne
    BY <1>0, <1>2, OpsAre DEF PutGet
  <2>2. p \in OnOne /\ p.at = "putSet"
    BY <2>1 DEF OnOne, OpSteps
  <2>3. op' = [op EXCEPT ![c] = p]
    BY <1>0, <1>2 DEF Step, StoreTypeOK
  <2> HIDE DEF p
  <2>4. CallGoes(c, p, owed[c]) /\ Owes(p, owed[c], sure'["redis"])
    BY <1>0, <1>2, <2>2, <2>3, OpsAre DEF CallGoes, Owes, PutGet
  <2>5. Kinds' /\ MoreCertain
    BY <1>0, <1>2, NothingSurer DEF Kinds, PutGet
  <2>6. QED BY <2>4, <2>5, CallKeeps
<1>3. CASE PutSet(c)
  <2>0. o.id \in Ids /\ o.at = "putSet"
    BY <1>0, <1>3, OpsAre DEF PutSet, OnOne
  <2>1. CASE CallFails(c) /\ UNCHANGED sure
    <3>1. stored \subseteq stored' /\ stored' \subseteq Ids /\ UNCHANGED <<manager, inMemory, owed>>
      BY <1>0, <1>3, <2>0 DEF PutSet
    <3>2. Kinds' /\ MoreCertain
      BY <1>0, <2>1, <3>1, CallFailing DEF Kinds, MoreCertain, StoreInv, StoreTypeOK
    <3>3. QED BY <2>1, <3>1, <3>2, CallFailing, CallKeeps
  <2>2. CASE op' = [op EXCEPT ![c] = StoreIdle] /\ stored' = stored \cup {o.id} /\ UNCHANGED blips
             /\ sure' = IF Deleting(o.id) THEN sure ELSE [sure EXCEPT !["redis"] = @ \cup {o.id}]
    <3>1. UNCHANGED <<manager, inMemory, owed>>
      BY <1>3 DEF PutSet
    <3>2. CallGoes(c, StoreIdle, owed[c]) /\ Owes(StoreIdle, owed[c], sure'["redis"])
      BY <1>0, <2>2, <3>1, OpsAre DEF CallGoes, Owes, StoreIdle
    <3>3. Kinds'
      BY <1>0, <2>0, <2>2, <3>1 DEF Kinds
    <3>4. sure \in [Places -> SUBSET Ids] /\ "redis" \in Places /\ StoreWorkers \subseteq Places
      BY <1>0 DEF StoreTypeOK, Places
    <3>5. MoreCertain
      <4>1. CASE Deleting(o.id)
        BY <1>0, <2>2, <3>1, <3>4, <4>1 DEF MoreCertain, StoreInv
      <4>2. CASE ~Deleting(o.id)
        <5>1. sure' = [sure EXCEPT !["redis"] = @ \cup {o.id}]
          BY <2>2, <4>2
        <5>2. sure' \in [Places -> SUBSET Ids] /\ sure'["redis"] = sure["redis"] \cup {o.id}
          BY <2>0, <3>4, <5>1
        <5>3. \A w \in StoreWorkers : sure'[w] = sure[w]
          BY <3>4, <5>1, StoreAssumption
        <5>4. \A d \in StoreCallers : op[d].at = "delete" => op[d].id # o.id
          BY <4>2 DEF Deleting
        <5>5. QED BY <1>0, <2>2, <3>1, <5>2, <5>3, <5>4 DEF MoreCertain, StoreInv
      <4>3. QED BY <4>1, <4>2
    <3>6. QED BY <3>2, <3>3, <3>5, CallKeeps
  <2>3. QED BY <1>3, <2>1, <2>2 DEF PutSet
<1>4. CASE /\ GetRecord(c) /\ UNCHANGED blips
           /\ owed' = [owed EXCEPT ![c] = @ \cap {o.id}]
           /\ Answer(c, stored \cap {o.id}, All, 0, FALSE)
  <2> DEFINE due == owed[c] \cap {o.id}
             p == [at |-> "answer", found |-> stored \cap {o.id}, limit |-> All,
                   offset |-> 0, early |-> FALSE]
  <2>1. /\ p \in Answering /\ p.at = "answer" /\ p.found = stored \cap {o.id}
        /\ p.offset = 0
    BY <1>0, AllIsNat DEF Answering
  <2>2. /\ o.at = "get" /\ op' = [op EXCEPT ![c] = p] /\ owed' = [owed EXCEPT ![c] = due]
        /\ UNCHANGED <<manager, stored, inMemory, sure, blips>>
    BY <1>0, <1>4 DEF GetRecord, Answer, StoreTypeOK
  <2>3. due \subseteq stored \cap {o.id} /\ due \subseteq Ids
    BY <1>0, <2>2 DEF Owes
  <2> HIDE DEF p, due
  <2>6. AllOwed(p, due)
    <3>1. due \ p.found = {}
      BY <2>1, <2>3
    <3>2. QED BY <2>1, <3>1, FS_EmptySet DEF AllOwed
  <2>4. CallGoes(c, p, due) /\ Owes(p, due, sure'["redis"])
    BY <2>1, <2>2, <2>3, <2>6, OpsAre DEF CallGoes, Owes
  <2>5. Kinds' /\ MoreCertain
    BY <1>0, <2>2, NothingSurer DEF Kinds
  <2>7. QED BY <2>4, <2>5, CallKeeps
<1>5. CASE DeleteRecord(c)
  <2>1. /\ o.at = "delete" /\ stored' \in {stored, stored \ {o.id}}
        /\ UNCHANGED <<manager, inMemory, sure, owed>>
    BY <1>5 DEF DeleteRecord
  <2>2. sure["redis"] \subseteq stored'
    BY <1>0, <2>1 DEF Owes
  <2>3. MoreCertain
    BY <2>1, <2>2 DEF MoreCertain, StoreInv, StoreTypeOK, Places
  <2>4. CASE CallFails(c)
    <3>1. Kinds'
      BY <1>0, <2>1, <2>4, CallFailing DEF Kinds
    <3>2. QED BY <2>1, <2>3, <2>4, <3>1, CallFailing, CallKeeps
  <2>5. CASE ~CallFails(c)
    <3>1. op' = [op EXCEPT ![c] = StoreIdle] /\ UNCHANGED blips
      BY <1>5, <2>5 DEF DeleteRecord
    <3>2. CallGoes(c, StoreIdle, owed[c]) /\ Owes(StoreIdle, owed[c], sure'["redis"])
      BY <1>0, <2>1, <3>1, OpsAre DEF CallGoes, Owes, StoreIdle
    <3>3. Kinds'
      BY <1>0, <2>1, <3>1 DEF Kinds
    <3>4. QED BY <2>3, <3>2, <3>3, CallKeeps
  <2>6. QED BY <2>4, <2>5
<1>6. CASE ListGet(c) /\ ~CallFails(c)
  <2>0. PICK id \in o.todo : op' = [op EXCEPT ![c].todo = @ \ {id}, ![c].found = @ \cup (stored \cap {id})]
    BY <1>6 DEF ListGet
  <2> DEFINE todo == o.todo \ {id}
             found == o.found \cup (stored \cap {id})
             p == [o EXCEPT !.todo = todo, !.found = found]
  <2>1. o \in Listings /\ o.at = "scan" /\ UNCHANGED <<manager, stored, inMemory, sure, owed, blips>>
    BY <1>0, <1>6, OpsAre DEF ListGet
  <2>2. op' = [op EXCEPT ![c] = p]
    BY <1>0, <2>0 DEF StoreTypeOK
  <2>3. todo \in SUBSET Ids /\ found \in SUBSET Ids
    BY <1>0, <2>1 DEF Listings
  <2>4. owed[c] \subseteq sure["redis"] /\ owed[c] \subseteq found \cup todo
    BY <1>0, <2>1 DEF Owes
  <2> HIDE DEF todo, found
  <2>5. p \in Listings /\ p.at = "scan" /\ p.todo = todo /\ p.found = found
    BY <2>1, <2>3 DEF Listings
  <2> HIDE DEF p
  <2>6. CallGoes(c, p, owed[c])
    BY <1>0, <2>1, <2>2, <2>5, OpsAre DEF CallGoes
  <2>7. Owes(p, owed[c], sure'["redis"])
    BY <2>1, <2>4, <2>5 DEF Owes
  <2>8. Kinds' /\ MoreCertain
    BY <1>0, <2>1, NothingSurer DEF Kinds
  <2>9. QED BY <2>6, <2>7, <2>8, CallKeeps
<1>7. CASE ListEnd(c)
  <2>1. o \in Listings /\ o.at = "scan" /\ o.todo = {}
        /\ UNCHANGED <<manager, stored, inMemory, sure, owed, blips>>
        /\ AnswerPage(c, o.found, FALSE)
    BY <1>0, <1>7, OpsAre DEF ListEnd
  <2>2. o.found \in SUBSET Ids /\ owed[c] \subseteq o.found
    BY <1>0, <2>1 DEF Listings, Owes
  <2>3. PICK p \in Answering :
          op' = [op EXCEPT ![c] = p] /\ \A certain : Owes(p, owed[c], certain)
    BY <1>0, <2>1, <2>2, PageAnswered
  <2>4. CallGoes(c, p, owed[c]) /\ Owes(p, owed[c], sure'["redis"])
    BY <1>0, <2>1, <2>3, OpsAre DEF CallGoes
  <2>5. Kinds' /\ MoreCertain
    BY <1>0, <2>1, NothingSurer DEF Kinds
  <2>6. QED BY <2>4, <2>5, CallKeeps
<1>8. CASE Finish(c)
  <2>1. CallGoes(c, StoreIdle, {}) /\ Owes(StoreIdle, {}, sure'["redis"])
    BY <1>8, OpsAre DEF Finish, CallGoes, Owes, StoreIdle
  <2>2. Kinds' /\ MoreCertain
    BY <1>0, <1>8, NothingSurer DEF Kinds, Finish
  <2>3. QED BY <2>1, <2>2, CallKeeps
<1>9. CASE PutGet(c)
  BY <1>1, <1>2, <1>9 DEF PutGet
<1>10. CASE GetRecord(c)
  BY <1>1, <1>4, <1>10 DEF GetRecord
<1>11. CASE ListGet(c)
  BY <1>1, <1>6, <1>11 DEF ListGet
<1>12. QED BY <1>3, <1>5, <1>7, <1>8, <1>9, <1>10, <1>11 DEF CallStep

\* From here on nobody is owed the record.
LEMMA Released ==
  ASSUME StoreInv, NEW id \in Ids, Release(id)
  PROVE  /\ sure' \in [Places -> SUBSET Ids] /\ owed' \in [StoreCallers -> SUBSET Ids]
         /\ sure'["redis"] = sure["redis"] \ {id}
         /\ \A w \in StoreWorkers : sure'[w] = sure[w]
         /\ \A c \in StoreCallers : Owes(op[c], owed'[c], sure'["redis"])
<1>1. sure \in [Places -> SUBSET Ids] /\ "redis" \in Places /\ StoreWorkers \subseteq Places
      /\ owed \in [StoreCallers -> SUBSET Ids]
  BY DEF StoreInv, StoreTypeOK, Places
<1>2. /\ sure' \in [Places -> SUBSET Ids] /\ sure'["redis"] = sure["redis"] \ {id}
      /\ \A w \in StoreWorkers : sure'[w] = sure[w]
  BY <1>1, StoreAssumption DEF Release
<1>3. owed' \in [StoreCallers -> SUBSET Ids] /\ \A c \in StoreCallers : owed'[c] = owed[c] \ {id}
  BY <1>1 DEF Release
<1>4. ASSUME NEW c \in StoreCallers PROVE Owes(op[c], owed'[c], sure'["redis"])
  <2> DEFINE o    == op[c]
             due  == owed[c]
             less == owed'[c]
  <2>1. /\ Owes(o, due, sure["redis"]) /\ o \in Ops /\ due \in SUBSET Ids
        /\ less = due \ {id} /\ sure'["redis"] = sure["redis"] \ {id}
    BY <1>1, <1>2, <1>3 DEF StoreInv, StoreTypeOK
  <2> HIDE DEF o, due, less
  <2>2. o.at = "answer" /\ ~o.early => AllOwed(o, less)
    BY <2>1, OpsAre, LessIsOwed DEF Owes
  <2>3. Owes(o, less, sure'["redis"])
    BY <2>1, <2>2 DEF Owes
  <2>4. QED BY <2>3 DEF o, less
<1>5. QED BY <1>2, <1>3, <1>4

LEMMA WorkerSteps ==
  ASSUME StoreInv, reachable' \in BOOLEAN, NEW w \in StoreWorkers, WorkerStep(w) \/ Restart(w)
  PROVE  StoreInv'
<1>0. /\ StoreTypeOK /\ sure["redis"] \subseteq stored /\ "redis" # w
      /\ \A v \in StoreWorkers : sure[v] \subseteq inMemory[v]
      /\ \A c \in StoreCallers : Owes(op[c], owed[c], sure["redis"])
  BY StoreAssumption DEF StoreInv
<1>1. CASE WorkerStep(w)
  <2>1. manager' \in [StoreWorkers -> ManagerStates]
    BY <1>0, <1>1 DEF WorkerStep, Connect, Connected, StoreTypeOK, ManagerStates
  <2>2. UNCHANGED <<stored, inMemory, op, sure, owed, blips>>
    BY <1>1 DEF WorkerStep, Connect, Connected
  <2>3. StoreTypeOK'
    BY <1>0, <2>1, <2>2 DEF StoreTypeOK
  <2>4. QED BY <1>0, <2>2, <2>3 DEF StoreInv
<1>2. CASE Restart(w)
  <2>1. /\ manager' \in [StoreWorkers -> ManagerStates] /\ blips' \in 0 .. MaxBlips
        /\ UNCHANGED <<stored, owed>>
    BY <1>0, <1>2, StoreAssumption DEF Restart, StoreTypeOK, ManagerStates, Blip
  <2>2. /\ inMemory' \in [StoreWorkers -> SUBSET Ids] /\ sure' \in [Places -> SUBSET Ids]
        /\ sure'["redis"] = sure["redis"]
        /\ \A v \in StoreWorkers : sure'[v] \subseteq inMemory'[v]
    BY <1>0, <1>2 DEF Restart, StoreTypeOK, Places
  <2>3. \A c \in StoreCallers : op'[c] \in {StoreIdle, op[c]}
    BY <1>2 DEF Restart
  <2>4. op' \in [StoreCallers -> Ops]
    BY <1>0, <1>2, OpsAre DEF Restart, StoreTypeOK
  <2>5. \A c \in StoreCallers : Owes(op'[c], owed'[c], sure'["redis"])
    BY <1>0, <2>1, <2>2, <2>3 DEF Owes, StoreIdle
  <2>6. StoreTypeOK'
    BY <1>0, <2>1, <2>2, <2>4 DEF StoreTypeOK
  <2>7. QED BY <2>1, <1>0, <2>2, <2>5, <2>6 DEF StoreInv
<1>3. QED BY <1>1, <1>2

LEMMA RedisSteps ==
  ASSUME StoreInv, reachable' \in BOOLEAN,
         Outage \/ Recovery \/ \E id \in Ids : ExpireRecord(id)
  PROVE  StoreInv'
<1>1. CASE Outage \/ Recovery
  <2>1. UNCHANGED <<manager, stored, inMemory, op, sure, owed>> /\ blips' \in 0 .. MaxBlips
    BY <1>1, StoreAssumption DEF Outage, Recovery, Blip, StoreInv, StoreTypeOK
  <2>2. StoreTypeOK'
    BY <2>1 DEF StoreInv, StoreTypeOK
  <2>3. QED BY <2>1, <2>2 DEF StoreInv
<1>2. ASSUME NEW id \in Ids, ExpireRecord(id) PROVE StoreInv'
  <2>1. /\ stored' = stored \ {id} /\ Release(id) /\ UNCHANGED <<manager, inMemory, op, blips>>
    BY <1>2 DEF ExpireRecord
  <2>2. StoreTypeOK'
    BY <2>1, Released DEF StoreInv, StoreTypeOK
  <2>3. QED BY <2>1, <2>2, Released DEF StoreInv
<1>3. QED BY <1>1, <1>2

LEMMA BeginSteps ==
  ASSUME StoreInv, reachable' \in BOOLEAN, NEW c \in StoreCallers, NEW w \in StoreWorkers,
         ListLocal(c, w) \/ ListStart(c, w)
           \/ \E id \in Ids : PutLocal(c, w, id) \/ DeleteLocalRecord(c, w, id) \/ BeginCall(c, w, id)
  PROVE  StoreInv'
<1>0. /\ StoreTypeOK /\ Kinds /\ owed[c] \subseteq Ids /\ owed = [owed EXCEPT ![c] = owed[c]]
      /\ op = [op EXCEPT ![c] = op[c]]
      /\ sure \in [Places -> SUBSET Ids] /\ "redis" \in Places /\ StoreWorkers \subseteq Places
      /\ sure["redis"] \subseteq stored /\ sure[w] \subseteq inMemory[w] /\ w # "redis"
      /\ stored \subseteq Ids
  BY StoreAssumption DEF StoreInv, StoreTypeOK, Kinds, Places
<1>1. CASE ListLocal(c, w)
  <2>1. PICK records \in SUBSET Ids, due \in SUBSET Ids, early \in BOOLEAN :
          /\ records = inMemory[w] /\ due = sure[Place(w)]
          /\ early = (manager[w] = "connecting")
    BY <1>0 DEF Place, Kinds
  <2>2. /\ AnswerPage(c, records, early) /\ owed' = [owed EXCEPT ![c] = due]
        /\ UNCHANGED <<manager, stored, inMemory, sure, blips>>
    BY <1>1, <2>1 DEF ListLocal, Owe, AnswerPage
  <2>3. ~early => due \subseteq records
    BY <1>0, <1>1, <2>1 DEF ListLocal, Place
  <2>4. PICK p \in Answering :
          op' = [op EXCEPT ![c] = p] /\ \A certain : Owes(p, due, certain)
    BY <2>2, <2>3, PageAnswered
  <2>5. CallGoes(c, p, due) /\ Owes(p, due, sure'["redis"])
    BY <2>2, <2>4, OpsAre DEF CallGoes
  <2>6. Kinds' /\ MoreCertain
    BY <1>0, <2>2, NothingSurer DEF Kinds
  <2>7. QED BY <2>5, <2>6, CallKeeps
<1>2. CASE ListStart(c, w)
  <2> DEFINE p == [at |-> "scan", worker |-> w, todo |-> stored, found |-> {}]
  <2>0. UNCHANGED <<manager, stored, inMemory, sure>>
    BY <1>2 DEF ListStart
  <2>1. CASE CallFails(c) /\ UNCHANGED owed
    <3>1. Kinds' /\ MoreCertain
      BY <1>0, <2>0, <2>1, CallFailing, NothingSurer DEF Kinds
    <3>2. QED BY <2>1, <3>1, CallFailing, CallKeeps
  <2>2. CASE UNCHANGED blips /\ Owe(c, w) /\ op' = [op EXCEPT ![c] = p]
    <3>1. p \in Listings /\ p.at = "scan" /\ p.todo = stored /\ p.found = {}
      BY <1>0 DEF Listings
    <3>2. owed' = [owed EXCEPT ![c] = sure["redis"]]
      BY <1>2, <2>2 DEF ListStart, Owe, Place
    <3> HIDE DEF p
    <3>3. CallGoes(c, p, sure["redis"]) /\ Owes(p, sure["redis"], sure'["redis"])
      BY <1>0, <2>0, <2>2, <3>1, <3>2, OpsAre DEF CallGoes, Owes
    <3>4. Kinds' /\ MoreCertain
      BY <1>0, <2>0, <2>2, NothingSurer DEF Kinds
    <3>5. QED BY <3>3, <3>4, CallKeeps
  <2>3. QED BY <1>2, <2>1, <2>2 DEF ListStart
<1>3. ASSUME NEW id \in Ids, PutLocal(c, w, id) \/ DeleteLocalRecord(c, w, id) PROVE StoreInv'
  <2>1. UNCHANGED <<manager, stored, op, owed, blips>>
    BY <1>3 DEF PutLocal, DeleteLocalRecord
  <2>2. CallGoes(c, op[c], owed[c])
    BY <1>0, <2>1 DEF CallGoes, StoreTypeOK
  <2>3. /\ sure' \in [Places -> SUBSET Ids] /\ inMemory' \in [StoreWorkers -> SUBSET Ids]
        /\ sure'["redis"] = sure["redis"]
    BY <1>0, <1>3 DEF PutLocal, DeleteLocalRecord, Kinds
  <2>4. \A v \in StoreWorkers : sure'[v] \subseteq inMemory'[v]
    <3>1. ASSUME NEW v \in StoreWorkers, v # w PROVE sure'[v] \subseteq inMemory'[v]
      BY <1>0, <1>3, <3>1 DEF PutLocal, DeleteLocalRecord, Kinds, StoreInv
    <3>2. sure'[w] \subseteq inMemory'[w]
      BY <1>0, <1>3 DEF PutLocal, DeleteLocalRecord, Kinds
    <3>3. QED BY <3>1, <3>2
  <2>5. Kinds' /\ MoreCertain
    BY <1>0, <2>1, <2>3, <2>4 DEF Kinds, MoreCertain
  <2>6. Owes(op[c], owed[c], sure'["redis"])
    BY <2>3 DEF StoreInv
  <2>7. QED BY <2>2, <2>5, <2>6, CallKeeps
<1>4. ASSUME NEW id \in Ids, BeginCall(c, w, id) PROVE StoreInv'
  <2>0. UNCHANGED <<manager, stored, inMemory, blips>>
    BY <1>4 DEF BeginCall
  <2> DEFINE p(step) == [at |-> step, worker |-> w, id |-> id]
  <2>1. \A step \in {"putGet", "get", "delete"} :
           p(step) \in OnOne /\ p(step).at = step /\ p(step).id = id
    BY DEF OnOne, OpSteps
  <2>2. CASE Start(c, w, "putGet", id) /\ UNCHANGED <<sure, owed>>
    <3>1. op' = [op EXCEPT ![c] = p("putGet")]
      BY <2>2 DEF Start
    <3> HIDE DEF p
    <3>2. CallGoes(c, p("putGet"), owed[c]) /\ Owes(p("putGet"), owed[c], sure'["redis"])
      BY <1>0, <2>1, <2>2, <3>1, OpsAre DEF CallGoes, Owes
    <3>3. Kinds' /\ MoreCertain
      BY <1>0, <2>0, <2>2, NothingSurer DEF Kinds
    <3>4. QED BY <3>2, <3>3, CallKeeps
  <2>3. CASE Start(c, w, "get", id) /\ Owe(c, w) /\ UNCHANGED sure
    <3>1. op' = [op EXCEPT ![c] = p("get")] /\ owed' = [owed EXCEPT ![c] = sure["redis"]]
      BY <2>3 DEF Start, Owe, Place
    <3> HIDE DEF p
    <3>2. CallGoes(c, p("get"), sure["redis"]) /\ Owes(p("get"), sure["redis"], sure'["redis"])
      BY <1>0, <2>1, <2>3, <3>1, OpsAre DEF CallGoes, Owes
    <3>3. Kinds' /\ MoreCertain
      BY <1>0, <2>0, <2>3, NothingSurer DEF Kinds
    <3>4. QED BY <3>2, <3>3, CallKeeps
  <2>4. CASE Start(c, w, "delete", id) /\ Release(id)
    <3>1. op' = [op EXCEPT ![c] = p("delete")] /\ op \in [StoreCallers -> Ops]
      BY <1>0, <2>4 DEF Start, StoreTypeOK
    <3> HIDE DEF p
    <3>2. p("delete") \in Ops /\ p("delete").at = "delete" /\ p("delete").id = id
      BY <2>1, OpsAre
    <3>3. op' \in [StoreCallers -> Ops] /\ op'[c] = p("delete")
          /\ \A d \in StoreCallers \ {c} : op'[d] = op[d]
      BY <3>1, <3>2
    <3>4. Owes(p("delete"), owed'[c], sure'["redis"])
      BY <2>4, <3>2, Released DEF Owes
    <3>5. \A d \in StoreCallers : Owes(op'[d], owed'[d], sure'["redis"])
      BY <2>4, <3>3, <3>4, Released
    <3>6. StoreTypeOK'
      BY <1>0, <2>0, <2>4, <3>3, Released DEF StoreTypeOK
    <3>7. QED BY <2>0, <2>4, <3>5, <3>6, Released DEF StoreInv
  <2>5. QED BY <1>4, <2>2, <2>3, <2>4 DEF BeginCall, Begin
<1>5. QED BY <1>1, <1>2, <1>3, <1>4

LEMMA StoreKeeps == StoreInv /\ [StoreNext]_storeVars => StoreInv'
<1> SUFFICES ASSUME StoreInv, [StoreNext]_storeVars PROVE StoreInv'
  OBVIOUS
<1>1. reachable' \in BOOLEAN
  BY ReachableIs DEF StoreInv
<1>2. CASE UNCHANGED storeVars
  <2>1. StoreTypeOK'
    BY <1>1, <1>2 DEF storeVars, StoreInv, StoreTypeOK
  <2>2. QED BY <1>2, <2>1 DEF storeVars, StoreInv
<1>3. CASE StoreNext
  BY <1>1, <1>3, WorkerSteps, CallSteps, BeginSteps, RedisSteps DEF StoreNext
<1>4. QED BY <1>2, <1>3

\* Each worker's dict, Redis and the calls under way keep their types.
THEOREM StoreTypes == StoreSpec => []StoreTypeOK
<1>1. StoreInv => StoreTypeOK
  BY DEF StoreInv
<1>2. QED BY <1>1, StoreStarts, StoreKeeps, PTL DEF StoreSpec

\* What a put has acknowledged, and nothing deletes and no TTL ends, every later get
\* and every later listing within its limit returns: through outages, calls that raise,
\* restarts, and deletions of other records half-way through the listing.  A listing
\* made while the worker's first ping is out is not among them.
THEOREM AcknowledgedAreSeen == StoreSpec => []AcknowledgedIsSeen
<1>1. StoreInv => AcknowledgedIsSeen
  BY DEF StoreInv, Owes, AcknowledgedIsSeen
<1>2. QED BY <1>1, StoreStarts, StoreKeeps, PTL DEF StoreSpec

(***************************************************************************)
(* The two tiers.                                                          *)
(***************************************************************************)

\* A copy with time left is of a value that will still be recent when it dies; a and r
\* say when each value was set, and when it was replaced.
CopyDies(copy, a, r) ==
  copy.left > 0 =>
    /\ copy.value \in Values /\ copy.left <= CopyLife
    /\ a[copy.value] + copy.left <= TierTTL + PromoteFor
    /\ r[copy.value] # Never => r[copy.value] + copy.left <= CopyLife

\* What Redis holds is not replaced, and no older than the ttl.
Current(copy, a, r) ==
  copy # Nothing =>
    /\ copy.value \in Values /\ copy.left > 0 /\ r[copy.value] = Never
    /\ a[copy.value] + copy.left <= TierTTL

\* A reply under way was current in this tick; what is being set is new, and nowhere in
\* Redis; a hit is what the property says.
CallSays(q, second, a, r) ==
  /\ q.at \in {"promote", "hit", "setL2"} => q.value \in Values
  /\ q.at = "promote" => a[q.value] < TierTTL /\ r[q.value] \in {0, Never}
  /\ q.at = "setL2" => a[q.value] = 0 /\ r[q.value] = Never /\ second.value # q.value
  /\ q.at = "hit" => /\ a[q.value] < TierTTL + PromoteFor
                     /\ r[q.value] # Never => r[q.value] < CopyLife

NewApart == \A c, d \in TierCallers :
  calls[c].at = "setL2" /\ calls[d].at = "setL2" /\ c # d => calls[c].value # calls[d].value

TierInv ==
  /\ TierTypeOK /\ NewApart /\ Current(l2, age, replaced)
  /\ \A w \in TierWorkers : CopyDies(l1[w], age, replaced)
  /\ \A c \in TierCallers : CallSays(calls[c], l2, age, replaced)

LEMMA TierNumbers ==
  /\ {TierTTL, L1Cap, PromoteFor, CopyLife} \subseteq Nat \ {0}
  /\ Least(TierTTL, L1Cap) \in Nat \ {0}
  /\ PromoteFor <= CopyLife /\ Least(TierTTL, L1Cap) <= CopyLife
  /\ Least(TierTTL, L1Cap) <= TierTTL /\ TierTTL <= Most(TierTTL, PromoteFor)
  /\ PromoteFor <= Most(TierTTL, PromoteFor) /\ Most(TierTTL, PromoteFor) \in Nat
  /\ Late = TierTTL + PromoteFor + 1 /\ Never = Late + 1 /\ Late \in Nat /\ Never \in Nat
  /\ NoValue \notin Values /\ MaxTierFaults \in Nat
BY TierAssumption DEF Least, Most, CopyLife, Late, Never

LEMMA CopiesAre ==
  /\ Nothing \in Copies /\ Nothing.left = 0 /\ Nothing.value = NoValue
  /\ \A v \in Values, n \in 0 .. Most(TierTTL, PromoteFor) :
       Copy(v, n) \in Copies /\ Copy(v, n).value = v /\ Copy(v, n).left = n
  /\ \A copy \in Copies : /\ Less(copy) \in Copies /\ Less(copy).value = copy.value
                          /\ Less(copy).left = IF copy.left > 0 THEN copy.left - 1 ELSE 0
BY TierNumbers DEF Copies, Nothing, Copy, Less

LEMMA NewIsUnused ==
  ASSUME Unused # {}
  PROVE  /\ NewValue \in Unused /\ NewValue \in Values /\ l2.value # NewValue
         /\ \A w \in TierWorkers : l1[w].value # NewValue
         /\ \A c \in TierCallers : calls[c] # TierIdle => calls[c].value # NewValue
<1>1. NewValue \in Unused
  BY DEF NewValue
<1>2. QED BY <1>1 DEF Unused

LEMMA TierStarts == TierInit => TierInv
<1> SUFFICES ASSUME TierInit PROVE TierInv
  OBVIOUS
<1>1. TierTypeOK
  BY CopiesAre, TierNumbers DEF TierInit, TierTypeOK, TierCalls
<1>2. /\ \A w \in TierWorkers : CopyDies(l1[w], age, replaced)
      /\ \A c \in TierCallers : CallSays(calls[c], l2, age, replaced)
  BY CopiesAre DEF TierInit, CopyDies, CallSays, TierIdle
<1>3. NewApart /\ Current(l2, age, replaced)
  BY DEF TierInit, NewApart, Current, TierIdle
<1>4. QED BY <1>1, <1>2, <1>3 DEF TierInv

\* Ages stay, and what was in Redis may have been replaced; values nothing holds are
\* nobody's concern.
Gentle ==
  /\ age' \in [Values -> 0 .. Late] /\ replaced' \in [Values -> 0 .. Never]
  /\ \A v \in Values \ Unused :
       /\ age'[v] = age[v]
       /\ replaced'[v] # replaced[v] => v = l2.value /\ replaced'[v] = 0

LEMMA GentleCopy ==
  ASSUME TierInv, Gentle, NEW w \in TierWorkers
  PROVE  CopyDies(l1[w], age', replaced')
<1> SUFFICES ASSUME l1[w].left > 0 PROVE CopyDies(l1[w], age', replaced')
  BY DEF CopyDies
<1> DEFINE v == l1[w].value
<1>1. v \in Values \ Unused /\ l1[w].left \in Nat /\ CopyDies(l1[w], age, replaced)
  BY TierNumbers DEF TierInv, CopyDies, Unused, TierTypeOK, Copies
<1>2. age'[v] = age[v] /\ (replaced'[v] = replaced[v] \/ replaced'[v] = 0)
  BY <1>1 DEF Gentle
<1>3. QED BY <1>1, <1>2 DEF CopyDies

\* Redis has what it had, or nothing, or what this caller sets.
Puts(c) == \/ l2' \in {l2, Nothing}
           \/ calls[c].at = "setL2" /\ l2'.value = calls[c].value

LEMMA GentleCalls ==
  ASSUME TierInv, Gentle, NEW c \in TierCallers, Puts(c), NEW q \in TierCalls,
         calls' = [calls EXCEPT ![c] = q], CallSays(q, l2', age', replaced'),
         q.at = "setL2" => q.value \in Unused
  PROVE  /\ calls' \in [TierCallers -> TierCalls] /\ NewApart'
         /\ \A d \in TierCallers : CallSays(calls'[d], l2', age', replaced')
<1>1. calls \in [TierCallers -> TierCalls]
  BY DEF TierInv, TierTypeOK
<1>2. calls' \in [TierCallers -> TierCalls] /\ calls'[c] = q
      /\ \A d \in TierCallers \ {c} : calls'[d] = calls[d]
  BY <1>1
<1>3. ASSUME NEW d \in TierCallers, calls[d].at \in {"promote", "hit", "setL2"}
      PROVE  calls[d].value \in Values \ Unused
  BY <1>3 DEF TierInv, CallSays, Unused, TierIdle
<1>4. NewApart'
  <2> SUFFICES ASSUME NEW d \in TierCallers, NEW e \in TierCallers, d # e,
                      calls'[d].at = "setL2", calls'[e].at = "setL2"
               PROVE  calls'[d].value # calls'[e].value
    BY DEF NewApart
  <2>1. CASE d = c
    BY <1>2, <1>3, <2>1
  <2>2. CASE e = c
    BY <1>2, <1>3, <2>2
  <2>3. CASE d # c /\ e # c
    BY <1>2, <2>3 DEF TierInv, NewApart
  <2>4. QED BY <2>1, <2>2, <2>3
<1>5. ASSUME NEW d \in TierCallers PROVE CallSays(calls'[d], l2', age', replaced')
  <2>1. CASE d = c
    BY <1>2, <2>1
  <2>2. CASE d # c /\ calls[d].at \in {"promote", "hit", "setL2"}
    <3> DEFINE v == calls[d].value
    <3>1. v \in Values \ Unused /\ calls'[d] = calls[d] /\ CallSays(calls[d], l2, age, replaced)
      BY <1>2, <1>3, <2>2 DEF TierInv
    <3>2. age'[v] = age[v] /\ (replaced'[v] # replaced[v] => v = l2.value /\ replaced'[v] = 0)
      BY <3>1 DEF Gentle
    <3>3. calls[d].at = "setL2" => l2'.value # v
      <4>1. calls[d].at = "setL2" /\ calls[c].at = "setL2" => calls[c].value # v
        BY <2>2 DEF TierInv, NewApart
      <4>2. QED BY <3>1, <4>1, CopiesAre, TierNumbers DEF Puts, CallSays
    <3>4. QED BY <3>1, <3>2, <3>3, TierNumbers DEF CallSays
  <2>3. CASE d # c /\ calls[d].at \notin {"promote", "hit", "setL2"}
    BY <1>2, <2>3 DEF CallSays
  <2>4. QED BY <2>1, <2>2, <2>3
<1>6. QED BY <1>2, <1>4, <1>5

\* Nothing is replaced, set or aged.
LEMMA Still ==
  TierInv /\ UNCHANGED <<l2, age, replaced>> => /\ Gentle /\ Current(l2', age', replaced')
                                                /\ l2' \in {l2, Nothing} /\ l2' \in Copies
BY DEF TierInv, TierTypeOK, Gentle

LEMMA CallsAre ==
  ASSUME TierInv, NEW c \in TierCallers, calls[c].at # "idle"
  PROVE  calls[c].worker \in TierWorkers /\ calls[c] # TierIdle
BY DEF TierInv, TierTypeOK, TierCalls, TierIdle

LEMMA MoveGoes ==
  ASSUME NEW step \in TierSteps, NEW w \in TierWorkers, NEW v \in Values \cup {NoValue}
  PROVE  LET q == [at |-> step, worker |-> w, value |-> v] IN
           q \in TierCalls /\ q.at = step /\ q.value = v
BY DEF TierCalls

\* Steps that leave Redis and the histories alone.
LEMMA ReadSteps ==
  ASSUME TierInv, NEW c \in TierCallers,
         \/ GetL2(c) \/ Promote(c) \/ Return(c)
         \/ \E w \in TierWorkers : GetL1(c, w) \/ DeleteL1(c, w)
  PROVE  TierInv'
<1>0. /\ TierTypeOK /\ Gentle /\ Current(l2', age', replaced') /\ l2' \in {l2, Nothing}
      /\ UNCHANGED <<l2, age, replaced>> /\ tierErrs' \in 0 .. MaxTierFaults
  BY Still, TierNumbers DEF TierInv, TierTypeOK, GetL2, Promote, Return, GetL1, DeleteL1, Fails
<1>1. ASSUME l1' \in [TierWorkers -> Copies],
             \A w \in TierWorkers : CopyDies(l1'[w], age', replaced'),
             NEW q \in TierCalls, calls' = [calls EXCEPT ![c] = q],
             CallSays(q, l2', age', replaced'), q.at # "setL2"
      PROVE  TierInv'
  <2>1. /\ calls' \in [TierCallers -> TierCalls] /\ NewApart'
        /\ \A d \in TierCallers : CallSays(calls'[d], l2', age', replaced')
    BY <1>0, <1>1, GentleCalls DEF Puts
  <2>2. TierTypeOK'
    BY <1>0, <1>1, <2>1 DEF TierTypeOK
  <2>3. QED BY <1>0, <1>1, <2>1, <2>2 DEF TierInv
<1>2. UNCHANGED l1 => /\ l1' \in [TierWorkers -> Copies]
                      /\ \A w \in TierWorkers : CopyDies(l1'[w], age', replaced')
  BY <1>0, GentleCopy DEF TierTypeOK
<1>3. ASSUME NEW w \in TierWorkers, NEW copy \in Copies, l1' = [l1 EXCEPT ![w] = copy],
             CopyDies(copy, age', replaced')
      PROVE  /\ l1' \in [TierWorkers -> Copies]
             /\ \A u \in TierWorkers : CopyDies(l1'[u], age', replaced')
  BY <1>0, <1>3, GentleCopy DEF TierTypeOK
<1>4. CopyDies(Nothing, age', replaced') /\ Nothing \in Copies
  BY CopiesAre DEF CopyDies
<1>5. TierIdle \in TierCalls /\ CallSays(TierIdle, l2', age', replaced') /\ TierIdle.at # "setL2"
  BY DEF TierCalls, TierIdle, CallSays
<1>6. ASSUME NEW w \in TierWorkers, GetL1(c, w) PROVE TierInv'
  <2>1. CASE l1[w].left > 0
    <3> DEFINE v == l1[w].value
               q == [at |-> "hit", worker |-> w, value |-> v]
    <3>1. /\ v \in Values /\ l1[w].left \in Nat \ {0} /\ CopyDies(l1[w], age, replaced)
          /\ age[v] \in Nat /\ replaced[v] \in Nat
      BY <1>0, <2>1, TierNumbers DEF TierInv, TierTypeOK, CopyDies, Copies
    <3>2. age[v] < TierTTL + PromoteFor /\ (replaced[v] # Never => replaced[v] < CopyLife)
      BY <3>1, TierNumbers DEF CopyDies
    <3>3. q \in TierCalls /\ q.at = "hit" /\ q.value = v
      BY <3>1, MoveGoes DEF TierSteps
    <3>4. calls' = [calls EXCEPT ![c] = q] /\ UNCHANGED l1
      BY <1>6, <2>1 DEF GetL1, Move
    <3> HIDE DEF q
    <3>5. CallSays(q, l2', age', replaced')
      BY <1>0, <3>1, <3>2, <3>3 DEF CallSays
    <3>6. QED BY <1>1, <1>2, <3>3, <3>4, <3>5
  <2>2. CASE ~(l1[w].left > 0)
    <3> DEFINE q == [at |-> "getL2", worker |-> w, value |-> NoValue]
    <3>1. q \in TierCalls /\ q.at = "getL2" /\ q.value = NoValue
      BY MoveGoes DEF TierSteps
    <3>2. calls' = [calls EXCEPT ![c] = q] /\ l1' = [l1 EXCEPT ![w] = Nothing]
      BY <1>6, <2>2 DEF GetL1, Move
    <3> HIDE DEF q
    <3>3. CallSays(q, l2', age', replaced')
      BY <3>1 DEF CallSays
    <3>4. QED BY <1>1, <1>3, <1>4, <3>1, <3>2, <3>3
  <2>3. QED BY <2>1, <2>2
<1>7. CASE GetL2(c)
  <2>1. UNCHANGED l1
    BY <1>7 DEF GetL2
  <2>2. CASE Done(c)
    BY <1>1, <1>2, <1>5, <2>1, <2>2 DEF Done
  <2>3. CASE l2 # Nothing /\ Move(c, "promote", calls[c].worker, l2.value)
    <3> DEFINE v == l2.value
               q == [at |-> "promote", worker |-> calls[c].worker, value |-> v]
    <3>1. /\ v \in Values /\ l2.left \in Nat \ {0} /\ replaced[v] = Never /\ age[v] \in Nat
          /\ age[v] + l2.left <= TierTTL
      BY <1>0, <2>3, TierNumbers DEF TierInv, TierTypeOK, Current, Copies
    <3>2. q \in TierCalls /\ q.at = "promote" /\ q.value = v
      BY <1>7, <3>1, CallsAre, MoveGoes DEF TierSteps, GetL2
    <3>3. calls' = [calls EXCEPT ![c] = q]
      BY <2>3 DEF Move
    <3> HIDE DEF q
    <3>4. CallSays(q, l2', age', replaced')
      BY <1>0, <3>1, <3>2, TierNumbers DEF CallSays
    <3>5. QED BY <1>1, <1>2, <2>1, <3>2, <3>3, <3>4
  <2>4. QED BY <1>7, <2>2, <2>3 DEF GetL2
<1>8. CASE Promote(c)
  <2> DEFINE v == calls[c].value
             w == calls[c].worker
             q == [at |-> "hit", worker |-> w, value |-> v]
  <2>1. /\ v \in Values /\ w \in TierWorkers /\ age[v] < TierTTL /\ replaced[v] \in {0, Never}
        /\ age[v] \in Nat
    BY <1>0, <1>8, CallsAre, TierNumbers DEF Promote, TierInv, TierTypeOK, CallSays
  <2>2. /\ calls' = [calls EXCEPT ![c] = q] /\ l1' = [l1 EXCEPT ![w] = Copy(v, PromoteFor)]
    BY <1>8 DEF Promote, Move
  <2>3. q \in TierCalls /\ q.at = "hit" /\ q.value = v
    BY <2>1, MoveGoes DEF TierSteps
  <2>4. Copy(v, PromoteFor) \in Copies /\ Copy(v, PromoteFor).value = v
        /\ Copy(v, PromoteFor).left = PromoteFor
    BY <2>1, CopiesAre, TierNumbers
  <2>5. CopyDies(Copy(v, PromoteFor), age', replaced')
    BY <1>0, <2>1, <2>4, TierNumbers DEF CopyDies
  <2> HIDE DEF q
  <2>6. CallSays(q, l2', age', replaced')
    BY <1>0, <2>1, <2>3, TierNumbers DEF CallSays
  <2>7. QED BY <1>1, <1>3, <2>1, <2>2, <2>3, <2>4, <2>5, <2>6
<1>9. CASE Return(c)
  BY <1>1, <1>2, <1>5, <1>9 DEF Return, Done
<1>10. ASSUME NEW w \in TierWorkers, DeleteL1(c, w) PROVE TierInv'
  <2> DEFINE q == [at |-> "delL2", worker |-> w, value |-> NoValue]
  <2>1. q \in TierCalls /\ q.at = "delL2" /\ q.value = NoValue
    BY MoveGoes DEF TierSteps
  <2>2. calls' = [calls EXCEPT ![c] = q] /\ l1' = [l1 EXCEPT ![w] = Nothing]
    BY <1>10 DEF DeleteL1, Move
  <2> HIDE DEF q
  <2>3. CallSays(q, l2', age', replaced')
    BY <2>1 DEF CallSays
  <2>4. QED BY <1>1, <1>3, <1>4, <2>1, <2>2, <2>3
<1>11. QED BY <1>6, <1>7, <1>8, <1>9, <1>10

LEMMA SetSteps ==
  ASSUME TierInv, NEW c \in TierCallers,
         SetL2(c) \/ DeleteL2(c) \/ \E w \in TierWorkers : SetL1(c, w)
  PROVE  TierInv'
<1>0. /\ TierTypeOK /\ age \in [Values -> 0 .. Late] /\ replaced \in [Values -> 0 .. Never]
      /\ l1 \in [TierWorkers -> Copies] /\ l2 \in Copies
  BY DEF TierInv, TierTypeOK
<1>1. ASSUME NEW w \in TierWorkers, SetL1(c, w) PROVE TierInv'
  <2> DEFINE v == NewValue
             ttl == Least(TierTTL, L1Cap)
             copy == Copy(v, ttl)
             q == [at |-> "setL2", worker |-> w, value |-> v]
  <2>1. /\ v \in Unused /\ v \in Values /\ l2.value # v
        /\ \A u \in TierWorkers : l1[u].value # v
    BY <1>1, NewIsUnused DEF SetL1
  <2>2. /\ l1' = [l1 EXCEPT ![w] = copy] /\ calls' = [calls EXCEPT ![c] = q]
        /\ age' = [age EXCEPT ![v] = 0] /\ replaced' = [replaced EXCEPT ![v] = Never]
        /\ UNCHANGED <<l2, tierErrs>>
    BY <1>1 DEF SetL1, Move
  <2>3. q \in TierCalls /\ q.at = "setL2" /\ q.value = v
    BY <2>1, MoveGoes DEF TierSteps
  <2>4. copy \in Copies /\ copy.value = v /\ copy.left = ttl /\ ttl \in Nat \ {0}
        /\ ttl <= CopyLife /\ ttl <= TierTTL
    BY <2>1, CopiesAre, TierNumbers
  <2> HIDE DEF v, ttl, copy, q
  <2>5. /\ age' \in [Values -> 0 .. Late] /\ replaced' \in [Values -> 0 .. Never]
        /\ age'[v] = 0 /\ replaced'[v] = Never
        /\ \A u \in Values \ {v} : age'[u] = age[u] /\ replaced'[u] = replaced[u]
    BY <1>0, <2>1, <2>2, TierNumbers
  <2>6. Gentle
    BY <2>1, <2>5 DEF Gentle
  <2>7. Current(l2', age', replaced')
    BY <2>1, <2>2, <2>5 DEF TierInv, Current
  <2>8. CallSays(q, l2', age', replaced')
    BY <2>1, <2>2, <2>3, <2>5 DEF CallSays
  <2>9. CopyDies(copy, age', replaced')
    BY <2>1, <2>4, <2>5, TierNumbers DEF CopyDies
  <2>10. /\ l1' \in [TierWorkers -> Copies]
         /\ \A u \in TierWorkers : CopyDies(l1'[u], age', replaced')
    BY <1>0, <2>2, <2>4, <2>6, <2>9, GentleCopy
  <2>11. /\ calls' \in [TierCallers -> TierCalls] /\ NewApart'
         /\ \A d \in TierCallers : CallSays(calls'[d], l2', age', replaced')
    BY <2>1, <2>2, <2>3, <2>6, <2>8, GentleCalls DEF Puts
  <2>12. TierTypeOK'
    BY <1>0, <2>2, <2>5, <2>10, <2>11 DEF TierTypeOK
  <2>13. QED BY <2>7, <2>10, <2>11, <2>12 DEF TierInv
<1>2. ASSUME UNCHANGED <<l1, age>>, Done(c), tierErrs' \in 0 .. MaxTierFaults, Gentle, Puts(c),
             l2' \in Copies, Current(l2', age', replaced')
      PROVE  TierInv'
  <2>1. TierIdle \in TierCalls /\ CallSays(TierIdle, l2', age', replaced') /\ TierIdle.at # "setL2"
    BY DEF TierCalls, TierIdle, CallSays
  <2>2. /\ calls' \in [TierCallers -> TierCalls] /\ NewApart'
        /\ \A d \in TierCallers : CallSays(calls'[d], l2', age', replaced')
    BY <1>2, <2>1, GentleCalls DEF Done
  <2>3. \A u \in TierWorkers : CopyDies(l1'[u], age', replaced')
    BY <1>2, GentleCopy
  <2>4. TierTypeOK'
    BY <1>0, <1>2, <2>2 DEF TierTypeOK, Gentle
  <2>5. QED BY <1>2, <2>2, <2>3, <2>4 DEF TierInv
<1>3. ASSUME NEW copy \in Copies, PutL2(copy), UNCHANGED age
      PROVE  /\ Gentle /\ l2' = copy
             /\ \A v \in Values : v = copy.value => replaced'[v] = replaced[v]
  <2>1. replaced' = [v \in Values |-> IF v = l2.value /\ v # copy.value THEN 0 ELSE replaced[v]]
        /\ l2' = copy
    BY <1>3 DEF PutL2
  <2>2. replaced' \in [Values -> 0 .. Never]
    BY <1>0, <2>1, TierNumbers
  <2>3. Gentle
    BY <1>0, <1>3, <2>1, <2>2 DEF Gentle
  <2>4. QED BY <2>1, <2>3
<1>4. CASE SetL2(c) \/ DeleteL2(c)
  <2>1. UNCHANGED <<l1, age>> /\ Done(c)
    BY <1>4 DEF SetL2, DeleteL2
  <2>2. CASE Fails /\ UNCHANGED <<l2, replaced>>
    <3>1. tierErrs' \in 0 .. MaxTierFaults
      BY <1>0, <2>2, TierNumbers DEF Fails, TierTypeOK
    <3>2. QED BY <1>2, <2>1, <2>2, <3>1, Still DEF Puts
  <2>3. CASE SetL2(c) /\ PutL2(Copy(calls[c].value, TierTTL)) /\ UNCHANGED tierErrs
    <3> DEFINE v == calls[c].value
               copy == Copy(v, TierTTL)
    <3>1. /\ calls[c].at = "setL2" /\ v \in Values /\ age[v] = 0 /\ replaced[v] = Never
      BY <2>3 DEF SetL2, TierInv, CallSays
    <3>2. copy \in Copies /\ copy.value = v /\ copy.left = TierTTL
      BY <3>1, CopiesAre, TierNumbers
    <3> HIDE DEF v
    <3>3. Gentle /\ l2' = copy /\ replaced'[v] = Never
      BY <1>3, <2>1, <2>3, <3>1, <3>2 DEF v
    <3> HIDE DEF copy
    <3>4. Current(l2', age', replaced')
      BY <2>1, <3>1, <3>2, <3>3, TierNumbers DEF Current
    <3>5. Puts(c) /\ tierErrs' \in 0 .. MaxTierFaults
      BY <1>0, <2>3, <3>1, <3>2, <3>3 DEF Puts, v, TierTypeOK
    <3>6. QED BY <1>2, <2>1, <3>2, <3>3, <3>4, <3>5
  <2>4. CASE PutL2(Nothing) /\ UNCHANGED tierErrs
    <3>1. Gentle /\ l2' = Nothing /\ Nothing \in Copies
      BY <1>3, <2>1, <2>4, CopiesAre
    <3>2. Current(l2', age', replaced') /\ Puts(c) /\ tierErrs' \in 0 .. MaxTierFaults
      BY <1>0, <2>4, <3>1 DEF Current, Puts, TierTypeOK
    <3>3. QED BY <1>2, <2>1, <3>1, <3>2
  <2>5. QED BY <1>4, <2>2, <2>3, <2>4 DEF SetL2, DeleteL2
<1>5. QED BY <1>1, <1>4

LEMMA TickSteps ==
  ASSUME TierInv, TierTick
  PROVE  TierInv'
<1>0. /\ TierTypeOK /\ age \in [Values -> 0 .. Late] /\ replaced \in [Values -> 0 .. Never]
      /\ l1 \in [TierWorkers -> Copies] /\ l2 \in Copies /\ Current(l2, age, replaced)
      /\ \A w \in TierWorkers : CopyDies(l1[w], age, replaced)
      /\ \A c \in TierCallers : calls[c] = TierIdle
      /\ UNCHANGED <<calls, tierErrs>>
  BY DEF TierInv, TierTypeOK, TierTick
<1>1. ASSUME NEW n \in 0 .. Late PROVE More(n) \in 0 .. Late /\ More(n) <= n + 1
  BY <1>1, TierNumbers DEF More
<1>2. ASSUME NEW n \in 0 .. Never
      PROVE  More(n) \in 0 .. Never /\ More(n) <= n + 1 /\ (n = Never => More(n) = Never)
  BY <1>2, TierNumbers DEF More
<1>3. /\ age' \in [Values -> 0 .. Late] /\ replaced' \in [Values -> 0 .. Never]
      /\ \A v \in Values \ Unused : age'[v] <= age[v] + 1 /\ replaced'[v] <= replaced[v] + 1
                                    /\ (replaced[v] = Never => replaced'[v] = Never)
  <2>1. age' \in [Values -> 0 .. Late] /\ \A v \in Values \ Unused : age'[v] <= age[v] + 1
    <3>1. age' = [v \in Values |-> IF v \in Unused THEN 0 ELSE More(age[v])]
      BY DEF TierTick
    <3>2. QED BY <1>0, <1>1, <3>1, TierNumbers
  <2>2. /\ replaced' \in [Values -> 0 .. Never]
        /\ \A v \in Values \ Unused : /\ replaced'[v] <= replaced[v] + 1
                                      /\ replaced[v] = Never => replaced'[v] = Never
    <3>1. replaced' = [v \in Values |-> IF v \in Unused THEN Never ELSE More(replaced[v])]
      BY DEF TierTick
    <3>2. QED BY <1>0, <1>2, <3>1, TierNumbers
  <2>3. QED BY <2>1, <2>2
<1>4. l2' \in Copies /\ Current(l2', age', replaced')
  <2>1. CASE Less(l2).left = 0
    BY <2>1, CopiesAre DEF TierTick, Current
  <2>2. CASE Less(l2).left # 0
    <3> DEFINE v == l2.value
    <3>1. l2' = Less(l2) /\ l2.left \in Nat /\ l2.left > 0 /\ l2' \in Copies
          /\ l2'.value = v /\ l2'.left = l2.left - 1 /\ l2'.left > 0
      BY <1>0, <2>2, CopiesAre, TierNumbers DEF TierTick, Copies
    <3>2. /\ v \in Values \ Unused /\ replaced[v] = Never /\ age[v] + l2.left <= TierTTL
      BY <1>0, <3>1, CopiesAre DEF Current, Unused
    <3>3. age'[v] \in Nat /\ age[v] \in Nat /\ age'[v] <= age[v] + 1 /\ replaced'[v] = Never
      BY <1>0, <1>3, <3>2, TierNumbers
    <3>4. age'[v] + l2'.left <= TierTTL
      BY <3>1, <3>2, <3>3, TierNumbers
    <3>5. QED BY <3>1, <3>2, <3>3, <3>4 DEF Current
  <2>3. QED BY <2>1, <2>2
<1>5. ASSUME NEW w \in TierWorkers
      PROVE  l1'[w] \in Copies /\ CopyDies(l1'[w], age', replaced')
  <2> DEFINE k == l1[w]
             v == k.value
  <2>1. l1'[w] = Less(k) /\ l1'[w] \in Copies /\ l1'[w].value = v /\ k.left \in Nat
        /\ l1'[w].left = IF k.left > 0 THEN k.left - 1 ELSE 0
    BY <1>0, CopiesAre, TierNumbers DEF TierTick, Copies
  <2>2. SUFFICES ASSUME l1'[w].left > 0 PROVE CopyDies(l1'[w], age', replaced')
    BY <2>1 DEF CopyDies
  <2>3. /\ k.left > 0 /\ l1'[w].left = k.left - 1 /\ v \in Values \ Unused
        /\ k.left <= CopyLife /\ age[v] + k.left <= TierTTL + PromoteFor
        /\ replaced[v] # Never => replaced[v] + k.left <= CopyLife
    BY <1>0, <2>1, <2>2 DEF CopyDies, Unused
  <2>4. /\ age'[v] \in Nat /\ age[v] \in Nat /\ age'[v] <= age[v] + 1
        /\ replaced'[v] \in Nat /\ replaced[v] \in Nat /\ replaced'[v] <= replaced[v] + 1
        /\ replaced[v] = Never => replaced'[v] = Never
    BY <1>0, <1>3, <2>3, TierNumbers
  <2> HIDE DEF v, k
  <2>5. /\ l1'[w].left <= CopyLife /\ age'[v] + l1'[w].left <= TierTTL + PromoteFor
        /\ replaced'[v] # Never => replaced'[v] + l1'[w].left <= CopyLife
    BY <2>1, <2>3, <2>4, TierNumbers
  <2>6. QED BY <2>1, <2>3, <2>5 DEF CopyDies
<1>6. l1' \in [TierWorkers -> Copies]
  BY <1>5 DEF TierTick
<1>7. /\ \A c \in TierCallers : CallSays(calls'[c], l2', age', replaced')
      /\ NewApart'
  BY <1>0 DEF CallSays, TierIdle, NewApart
<1>8. TierTypeOK'
  BY <1>0, <1>3, <1>4, <1>6 DEF TierTypeOK
<1>9. QED BY <1>4, <1>5, <1>7, <1>8 DEF TierInv

LEMMA TierKeeps == TierInv /\ [TierNext]_tierVars => TierInv'
<1> SUFFICES ASSUME TierInv, [TierNext]_tierVars PROVE TierInv'
  OBVIOUS
<1>1. CASE UNCHANGED tierVars
  BY <1>1 DEF tierVars, TierInv, TierTypeOK, NewApart
<1>2. ASSUME NEW w \in TierWorkers, Cleanup(w) PROVE TierInv'
  <2>1. l1' = [l1 EXCEPT ![w] = Nothing] /\ UNCHANGED <<l2, calls, age, replaced, tierErrs>>
    BY <1>2 DEF Cleanup
  <2>2. CopyDies(Nothing, age', replaced') /\ Nothing \in Copies
    BY CopiesAre DEF CopyDies
  <2>3. TierTypeOK'
    BY <2>1, <2>2 DEF TierInv, TierTypeOK
  <2>4. QED BY <2>1, <2>2, <2>3 DEF TierInv, TierTypeOK, NewApart
<1>3. QED BY <1>1, <1>2, ReadSteps, SetSteps, TickSteps DEF TierNext

\* The two tiers and the calls under way keep their types.
THEOREM TierTypes == TierSpec => []TierTypeOK
<1>1. TierInv => TierTypeOK
  BY DEF TierInv
<1>2. QED BY <1>1, TierStarts, TierKeeps, PTL DEF TierSpec

\* However many workers hold a copy, whatever each of them sets or deletes, and
\* whichever calls to Redis fail: a hit is of a value set less than the ttl and one
\* promotion before, and deleted or replaced in Redis within one copy's life.
THEOREM EveryCopyDies == TierSpec => []CopiesDie
<1>1. TierInv => CopiesDie
  BY DEF TierInv, CallSays, CopiesDie
<1>2. QED BY <1>1, TierStarts, TierKeeps, PTL DEF TierSpec

(***************************************************************************)
(* The retry loop of the transcripts.                                      *)
(***************************************************************************)

Tries == [key : Keys, said : Blocked]

\* Every attempt counted was blocked, one is left where one is to be made, and what is
\* told as blocked was told after the last.
Attempts(t) ==
  /\ t.calls \in 1 .. 2 /\ t.attempt \in 0 .. MaxAttempts /\ t.key \in Keys
  /\ t.tried \in Seq(Tries) /\ Len(t.tried) = t.attempt
  /\ t.at \in {"pick", "lookup", "call", "clear"} => t.attempt < MaxAttempts
  /\ t.at = "rotate" => t.attempt > 0
  /\ t.at = "done" /\ t.status \in {StatusOf[o] : o \in Blocked} =>
       t.attempt = MaxAttempts /\ t.status = StatusOf[t.tried[MaxAttempts].said]

\* The fields a thread has, whatever they are.
ThreadOf == [at : {"pick", "lookup", "call", "rotate", "clear", "done"}, calls : 1 .. 2,
             attempt : 0 .. MaxAttempts, key : Keys, tried : Seq(Tries),
             status : {StatusOf[o] : o \in Outcomes}]

TranscriptInv ==
  /\ setting \in Deployments /\ apis \subseteq Keys /\ cursor \in 0 .. Len(Proxies)
  /\ thread \in [Videos -> ThreadOf] /\ batch \in {"running", "answered", "invalid"}
  /\ \A v \in Videos : Attempts(thread[v])

LEMMA StatusFacts ==
  /\ StatusOf["ok"] = 200 /\ StatusOf["other"] = 500
  /\ \A o \in Outcomes \ Blocked : StatusOf[o] \notin {502, 503, 504}
  /\ {StatusOf[o] : o \in Blocked} = {502, 503, 504}
BY DEF StatusOf, Outcomes, Blocked, Refused

LEMMA KeyFacts == CurrentKey \in Keys /\ Direct \in Keys
BY TranscriptAssumption DEF CurrentKey, Keys

LEMMA NewCalls ==
  ASSUME NEW n \in 1 .. 2
  PROVE  NewCall(n) \in ThreadOf /\ Attempts(NewCall(n))
<1>1. <<>> \in Seq(Tries) /\ Len(<<>>) = 0 /\ 0 \in 0 .. MaxAttempts /\ 0 < MaxAttempts
  BY TranscriptAssumption
<1>2. 200 \in {StatusOf[o] : o \in Outcomes}
  BY StatusFacts DEF Outcomes
<1>3. QED BY <1>1, <1>2, KeyFacts DEF NewCall, ThreadOf, Attempts

LEMMA ThreadGoes ==
  ASSUME NEW A, NEW C, NEW N, NEW K, NEW T, NEW S,
         NEW t \in [at : A, calls : C, attempt : N, key : K, tried : T, status : S],
         NEW a \in A, NEW n \in N, NEW k \in K, NEW tried \in T, NEW s \in S
  PROVE  LET R == [at : A, calls : C, attempt : N, key : K, tried : T, status : S] IN
         /\ [t EXCEPT !.at = a] \in R /\ [t EXCEPT !.at = a, !.key = k] \in R
         /\ [t EXCEPT !.at = a, !.status = s] \in R
         /\ [t EXCEPT !.at = a, !.attempt = n, !.tried = tried] \in R
OBVIOUS

\* A call that ends, with a status that is not about being blocked or after the last.
LEMMA Ends ==
  ASSUME NEW t \in ThreadOf, Attempts(t), NEW o \in Outcomes,
         o \in Blocked => t.attempt = MaxAttempts /\ o = t.tried[MaxAttempts].said
  PROVE  /\ [t EXCEPT !.at = "done", !.status = StatusOf[o]] \in ThreadOf
         /\ Attempts([t EXCEPT !.at = "done", !.status = StatusOf[o]])
<1> DEFINE s == StatusOf[o]
           p == [t EXCEPT !.at = "done", !.status = s]
           Stages == {"pick", "lookup", "call", "rotate", "clear", "done"}
           Statuses == {StatusOf[x] : x \in Outcomes}
           Counts == 0 .. MaxAttempts
           Lists == Seq(Tries)
           Twice == 1 .. 2
<1>1. s \in Statuses /\ "done" \in Stages
  OBVIOUS
<1>2. s \in {StatusOf[x] : x \in Blocked} => o \in Blocked
  BY StatusFacts
<1>3. t \in [at : Stages, calls : Twice, attempt : Counts, key : Keys, tried : Lists,
             status : Statuses]
  BY DEF ThreadOf
<1> HIDE DEF s, Stages, Statuses, Counts, Lists, Twice
<1>4. p \in [at : Stages, calls : Twice, attempt : Counts, key : Keys, tried : Lists,
             status : Statuses]
  BY <1>1, <1>3, ThreadGoes
<1>5. p.at = "done" /\ p.status = s /\ p.calls = t.calls /\ p.attempt = t.attempt
      /\ p.key = t.key /\ p.tried = t.tried
  BY <1>3
<1>6. p \in ThreadOf
  BY <1>4 DEF ThreadOf, Stages, Statuses, Counts, Lists, Twice
<1> HIDE DEF p
<1>7. Attempts(p)
  BY <1>2, <1>5 DEF Attempts, s
<1>8. QED BY <1>6, <1>7 DEF p, s

LEMMA EndCalls ==
  ASSUME TranscriptInv, NEW v \in Videos, NEW o \in Outcomes, EndCall(v, StatusOf[o]),
         o \in Blocked => /\ thread[v].attempt = MaxAttempts
                          /\ o = thread[v].tried[MaxAttempts].said
  PROVE  thread' \in [Videos -> ThreadOf] /\ \A u \in Videos : Attempts(thread'[u])
<1>1. thread \in [Videos -> ThreadOf] /\ Attempts(thread[v]) /\ thread[v] \in ThreadOf
  BY DEF TranscriptInv
<1>2. PICK t \in ThreadOf : thread' = [thread EXCEPT ![v] = t] /\ Attempts(t)
  <2>1. CASE StatusOf[o] = 200 /\ thread[v].calls = 2
    <3>1. thread' = [thread EXCEPT ![v] = NewCall(1)]
      BY <2>1 DEF EndCall
    <3>2. NewCall(1) \in ThreadOf /\ Attempts(NewCall(1))
      BY NewCalls
    <3>3. QED BY <3>1, <3>2
  <2>2. CASE ~(StatusOf[o] = 200 /\ thread[v].calls = 2)
    <3>1. thread' = [thread EXCEPT ![v] = [thread[v] EXCEPT !.at = "done", !.status = StatusOf[o]]]
      BY <1>1, <2>2 DEF EndCall
    <3>2. QED BY <1>1, <3>1, Ends
  <2>3. QED BY <2>1, <2>2
<1>3. QED BY <1>1, <1>2 DEF TranscriptInv

LEMMA ThreadSteps ==
  ASSUME TranscriptInv, NEW v \in Videos, ThreadStep(v)
  PROVE  TranscriptInv'
<1> DEFINE t == thread[v]
           Stages == {"pick", "lookup", "call", "rotate", "clear", "done"}
           Statuses == {StatusOf[x] : x \in Outcomes}
           Counts == 0 .. MaxAttempts
           Lists == Seq(Tries)
           Twice == 1 .. 2
<1>0. /\ setting \in Deployments /\ apis \subseteq Keys /\ cursor \in 0 .. Len(Proxies)
      /\ thread \in [Videos -> ThreadOf] /\ t \in ThreadOf /\ Attempts(t)
      /\ t \in [at : Stages, calls : Twice, attempt : Counts, key : Keys, tried : Lists,
                status : Statuses]
      /\ Stages = {"pick", "lookup", "call", "rotate", "clear", "done"}
  BY DEF TranscriptInv, ThreadOf
<1>1. ASSUME apis' \subseteq Keys, cursor' \in 0 .. Len(Proxies), UNCHANGED <<setting, batch>>,
             thread' \in [Videos -> ThreadOf], \A u \in Videos : Attempts(thread'[u])
      PROVE  TranscriptInv'
  BY <1>1 DEF TranscriptInv
<1>2. ASSUME NEW p, thread' = [thread EXCEPT ![v] = p], Attempts(p),
             p \in [at : Stages, calls : Twice, attempt : Counts, key : Keys, tried : Lists,
                    status : Statuses]
      PROVE  thread' \in [Videos -> ThreadOf] /\ \A u \in Videos : Attempts(thread'[u])
  <2>1. p \in ThreadOf
    BY <1>2 DEF ThreadOf
  <2>2. QED BY <1>0, <1>2, <2>1 DEF TranscriptInv
<1> HIDE DEF Stages, Statuses, Counts, Lists, Twice
<1>3. ASSUME NEW a \in Stages, thread' = [thread EXCEPT ![v] = [t EXCEPT !.at = a]],
             a # "done", a = "rotate" => t.attempt > 0,
             a \in {"pick", "lookup", "call", "clear"} => t.attempt < MaxAttempts
      PROVE  thread' \in [Videos -> ThreadOf] /\ \A u \in Videos : Attempts(thread'[u])
  <2> DEFINE p == [t EXCEPT !.at = a]
  <2>1. p \in [at : Stages, calls : Twice, attempt : Counts, key : Keys, tried : Lists,
               status : Statuses]
    BY <1>0, <1>3, ThreadGoes
  <2>2. p.at = a /\ p.calls = t.calls /\ p.attempt = t.attempt /\ p.key = t.key
        /\ p.tried = t.tried
    BY <1>0
  <2> HIDE DEF p
  <2>3. Attempts(p)
    BY <1>0, <1>3, <2>2 DEF Attempts
  <2>4. QED BY <1>2, <1>3, <2>1, <2>3 DEF p
<1>4. CASE PickApi(v)
  <2> DEFINE p == [t EXCEPT !.at = "lookup", !.key = CurrentKey]
  <2>1. thread' = [thread EXCEPT ![v] = p] /\ t.at = "pick"
    BY <1>0, <1>4 DEF PickApi, Is
  <2>2. p \in [at : Stages, calls : Twice, attempt : Counts, key : Keys, tried : Lists,
               status : Statuses]
    BY <1>0, KeyFacts, ThreadGoes
  <2>3. p.at = "lookup" /\ p.calls = t.calls /\ p.attempt = t.attempt /\ p.key = CurrentKey
        /\ p.tried = t.tried
    BY <1>0
  <2> HIDE DEF p
  <2>4. Attempts(p)
    BY <1>0, <2>1, <2>3, KeyFacts DEF Attempts
  <2>5. QED BY <1>0, <1>1, <1>2, <1>4, <2>1, <2>2, <2>4, KeyFacts DEF PickApi
<1>5. CASE LookupApi(v)
  <2>1. CASE t.key \in apis
    <3>1. thread' = [thread EXCEPT ![v] = [t EXCEPT !.at = "call"]] /\ t.at = "lookup"
      BY <1>0, <1>5, <2>1 DEF LookupApi, Is
    <3>2. QED BY <1>0, <1>1, <1>3, <1>5, <3>1 DEF LookupApi, Attempts
  <2>2. CASE t.key \notin apis
    <3>1. EndCall(v, StatusOf["other"]) /\ "other" \in Outcomes \ Blocked
      BY <1>5, <2>2 DEF LookupApi, Outcomes, Refused, Blocked
    <3>2. QED BY <1>0, <1>1, <1>5, <3>1, EndCalls DEF LookupApi
  <2>3. QED BY <2>1, <2>2
<1>6. CASE Call(v)
  <2>0. PICK said \in Outcomes :
           IF said \in Blocked
           THEN thread' = [thread EXCEPT
                  ![v].at = "rotate", ![v].attempt = @ + 1,
                  ![v].tried = Append(@, [key |-> thread[v].key, said |-> said])]
           ELSE EndCall(v, StatusOf[said])
    BY <1>6 DEF Call
  <2>1. CASE said \in Blocked
    <3> DEFINE one == [key |-> t.key, said |-> said]
               tried == Append(t.tried, one)
               n == t.attempt + 1
               p == [t EXCEPT !.at = "rotate", !.attempt = n, !.tried = tried]
    <3>1. thread' = [thread EXCEPT ![v] = p] /\ t.at = "call"
      BY <1>0, <1>6, <2>0, <2>1 DEF Call, Is
    <3>2. one \in Tries /\ n \in Counts /\ n > 0
      BY <1>0, <2>1, <3>1, TranscriptAssumption DEF Attempts, Tries, Counts
    <3> HIDE DEF one
    <3>3. tried \in Lists /\ tried \in Seq(Tries) /\ Len(tried) = n
      BY <1>0, <3>2 DEF Lists, Attempts
    <3> HIDE DEF n, tried
    <3>4. p \in [at : Stages, calls : Twice, attempt : Counts, key : Keys, tried : Lists,
                 status : Statuses]
      BY <1>0, <3>2, <3>3, ThreadGoes
    <3>5. p.at = "rotate" /\ p.calls = t.calls /\ p.attempt = n /\ p.key = t.key
          /\ p.tried = tried
      BY <1>0
    <3> HIDE DEF p
    <3>6. Attempts(p)
      BY <1>0, <3>2, <3>3, <3>5 DEF Attempts, Counts
    <3>7. QED BY <1>0, <1>1, <1>2, <1>6, <3>1, <3>4, <3>6 DEF Call
  <2>2. CASE said \notin Blocked
    BY <1>0, <1>1, <1>6, <2>0, <2>2, EndCalls DEF Call
  <2>3. QED BY <2>1, <2>2
<1>7. CASE Rotate(v)
  <2>0. t.at = "rotate" /\ t.attempt \in 1 .. MaxAttempts /\ Len(t.tried) = t.attempt
        /\ t.tried \in Seq(Tries) /\ UNCHANGED <<setting, apis, batch>>
    BY <1>0, <1>7 DEF Rotate, Is, Attempts
  <2>1. cursor' \in 0 .. Len(Proxies)
    <3>1. CASE cursor' = cursor
      BY <1>0, <3>1
    <3>2. CASE cursor' # cursor
      <4>1. cursor' = (cursor + 1) % Len(Proxies) /\ Proxies # <<>>
        BY <1>7, <3>2 DEF Rotate
      <4>2. Len(Proxies) \in Nat \ {0} /\ cursor + 1 \in Nat
        BY <1>0, <4>1, TranscriptAssumption
      <4>3. QED BY <4>1, <4>2
    <3>3. QED BY <3>1, <3>2
  <2>2. CASE t.attempt < MaxAttempts
    <3>1. PICK a \in {"clear", "pick"} : thread' = [thread EXCEPT ![v] = [t EXCEPT !.at = a]]
      BY <1>0, <1>7, <2>2 DEF Rotate
    <3>2. QED BY <1>0, <1>1, <1>3, <2>0, <2>1, <2>2, <3>1
  <2>3. CASE ~(t.attempt < MaxAttempts)
    <3> DEFINE o == t.tried[Len(t.tried)].said
    <3>0. t.attempt = MaxAttempts /\ Len(t.tried) \in 1 .. Len(t.tried)
      BY <2>0, <2>3, TranscriptAssumption
    <3>4. t.tried[Len(t.tried)] \in Tries
      BY <2>0, <3>0
    <3>1. t.attempt = MaxAttempts /\ o \in Blocked /\ o \in Outcomes
      BY <3>0, <3>4 DEF Tries, Outcomes
    <3>2. EndCall(v, StatusOf[o])
      BY <1>7, <2>3 DEF Rotate
    <3>3. QED BY <1>0, <1>1, <2>0, <2>1, <3>1, <3>2, EndCalls
  <2>4. QED BY <2>2, <2>3
<1>8. CASE ClearApis(v)
  <2>1. thread' = [thread EXCEPT ![v] = [t EXCEPT !.at = "pick"]] /\ t.at = "clear"
    BY <1>0, <1>8 DEF ClearApis, Is
  <2>2. QED BY <1>0, <1>1, <1>3, <1>8, <2>1 DEF ClearApis, Attempts
<1>9. QED BY <1>4, <1>5, <1>6, <1>7, <1>8 DEF ThreadStep

LEMMA TranscriptsKeep == TranscriptInv /\ [TranscriptNext]_transcriptVars => TranscriptInv'
<1> SUFFICES ASSUME TranscriptInv, [TranscriptNext]_transcriptVars PROVE TranscriptInv'
  OBVIOUS
<1>1. CASE UNCHANGED transcriptVars
  BY <1>1 DEF transcriptVars, TranscriptInv
<1>2. CASE BatchAnswers
  <2>1. UNCHANGED <<setting, apis, cursor, thread>> /\ batch' \in {"running", "answered", "invalid"}
    BY <1>2 DEF BatchAnswers
  <2>2. QED BY <2>1 DEF TranscriptInv
<1>3. QED BY <1>1, <1>2, ThreadSteps DEF TranscriptNext

LEMMA TranscriptsStart == TranscriptInit => TranscriptInv
<1> SUFFICES ASSUME TranscriptInit PROVE TranscriptInv
  OBVIOUS
<1>1. PICK n \in 1 .. 2 : thread = [v \in Videos |-> NewCall(n)]
  BY DEF TranscriptInit
<1>2. thread \in [Videos -> ThreadOf] /\ \A v \in Videos : Attempts(thread[v])
  BY <1>1, NewCalls
<1>3. 0 \in 0 .. Len(Proxies)
  BY TranscriptAssumption
<1>4. QED BY <1>2, <1>3 DEF TranscriptInit, TranscriptInv

LEMMA TranscriptsTell == TranscriptInv => TranscriptTypeOK /\ StatusTellsTheAttempts
<1> SUFFICES ASSUME TranscriptInv PROVE TranscriptTypeOK /\ StatusTellsTheAttempts
  OBVIOUS
<1>1. ASSUME NEW v \in Videos PROVE thread[v] \in Threads
  <2> DEFINE t == thread[v]
             Lists == UNION {[1 .. n -> [key : Keys, said : Outcomes]] : n \in 0 .. MaxAttempts}
             Stages == {"pick", "lookup", "call", "rotate", "clear", "done"}
             Statuses == {StatusOf[x] : x \in Outcomes}
             Counts == 0 .. MaxAttempts
             Twice == 1 .. 2
             Old == Seq(Tries)
  <2>1. t \in ThreadOf /\ Attempts(t)
    BY DEF TranscriptInv
  <2>2. t.tried \in [1 .. t.attempt -> Tries] /\ t.attempt \in Counts
    BY <2>1 DEF Attempts
  <2>3. Tries \subseteq [key : Keys, said : Outcomes]
    BY DEF Tries, Outcomes
  <2>4. t.tried \in Lists
    BY <2>2, <2>3
  <2>5. t \in [at : Stages, calls : Twice, attempt : Counts, key : Keys, tried : Old, status : Statuses]
    BY <2>1 DEF ThreadOf
  <2> HIDE DEF Lists, Stages, Statuses, Counts, Twice, Old
  <2>6. t \in [at : Stages, calls : Twice, attempt : Counts, key : Keys, tried : Lists, status : Statuses]
    BY <2>4, <2>5
  <2>7. QED BY <2>6 DEF Threads, Lists, Stages, Statuses, Counts, Twice
<1>2. TranscriptTypeOK
  BY <1>1 DEF TranscriptTypeOK, TranscriptInv
<1>3. ASSUME NEW v \in Videos
      PROVE  /\ \A i \in DOMAIN thread[v].tried : thread[v].tried[i].said \in Blocked
             /\ Is(v, "done") /\ thread[v].status \in {StatusOf[o] : o \in Blocked} =>
                  /\ Len(thread[v].tried) = MaxAttempts
                  /\ thread[v].status = StatusOf[thread[v].tried[MaxAttempts].said]
  <2>1. Attempts(thread[v])
    BY DEF TranscriptInv
  <2>2. thread[v].tried \in Seq(Tries)
    BY <2>1 DEF Attempts
  <2>3. \A i \in DOMAIN thread[v].tried : thread[v].tried[i] \in Tries
    BY <2>2
  <2>4. \A i \in DOMAIN thread[v].tried : thread[v].tried[i].said \in Blocked
    BY <2>3 DEF Tries
  <2>5. QED BY <2>1, <2>4 DEF Attempts, Is
<1>4. StatusTellsTheAttempts
  BY <1>3 DEF StatusTellsTheAttempts
<1>5. QED BY <1>2, <1>4

\* The API objects, the cursor and the threads keep their types: no thread makes
\* more attempts than it may.
THEOREM TranscriptTypes == TranscriptSpec => []TranscriptTypeOK
BY TranscriptsStart, TranscriptsKeep, TranscriptsTell, PTL DEF TranscriptSpec

\* However the threads share the objects and the cursor: 502, 503 and 504 are told
\* only when every attempt was blocked, and say how the last one was.
THEOREM StatusIsOfTheLast == TranscriptSpec => []StatusTellsTheAttempts
BY TranscriptsStart, TranscriptsKeep, TranscriptsTell, PTL DEF TranscriptSpec

(***************************************************************************)
(* The upstream feeds, over one cache.                                     *)
(***************************************************************************)

\* The answer says of the upstream what happened: the property, of one answer.
Tells(a) ==
  /\ a \in Replies
  /\ a.of.op # "variations" =>
       /\ a.status = 429 <=> a.heard = "limited"
       /\ a.status >= 500 <=> a.heard = "failed"
       /\ a.says \in {"partial", "noCorpus"} <=> a.heard = "some"
       /\ a.says = "nothing" /\ a.of.op \notin {"geo", "geo_all"} => a.heard = "nothing"
       /\ a.heard = "odd" => a.of.op \in TakenAsSent

\* It may be kept: of no failed call, and nothing that the upstream had is missing.
Keepable(a) ==
  /\ Tells(a) /\ a.status = 200 /\ a.heard \in {"full", "nothing", "odd"}
  /\ a.says \notin {"partial", "noCorpus"}
  /\ a.heard = "odd" => a.of.op \in TakenAsSent

\* The handlers, by what they have in hand.
Waiting   == [at : {"lookup", "fetch", "geoFetch"}, q : Questions]
Replying  == [at : {"store", "geoStore", "geoFilter", "told"}, q : Questions, answer : Replies]
Decoding  == [at : {"decode"}, q : Questions, left : Nat, good : Nat, failed : Nat, filtered : Nat]
Reading   == [at : {"page", "parse"}, q : Questions, hops : 0 .. MaxRedirects + 1]
Varying   == [at : {"vary"}, q : Questions, left : Nat, lost : Nat]

\* What is to be stored may be kept, what is told tells, the search of the tree of
\* locations is one, and an article is read once the set-up of nltk is over.
Consistent(i, corpora) ==
  /\ i \in {[at |-> "new"]} \cup Waiting \cup Replying \cup Decoding \cup Reading \cup Varying
  /\ i.at \in {"store", "geoStore", "geoFilter"} => Keepable(i.answer)
  /\ i.at = "told" => Tells(i.answer)
  /\ i.at = "store" => KeyOf(i.answer.of) = KeyOf(i.q)
  /\ i.at = "geoStore" => i.answer.of = WholeTree
  /\ i.at \in {"geoFetch", "geoStore", "geoFilter"} => i.q.op = "geo"
  /\ i.at = "decode" => i.left + i.good + i.failed + i.filtered \in 1 .. MaxArticles
  /\ i.at \in {"page", "parse"} => corpora # "notSetUp"
  /\ i.at = "vary" => i.left + i.lost \in 0 .. Variations /\ i.q.op = "variations"

KeptOK == \A k \in DOMAIN kept : Keepable(kept[k]) /\ k = KeyOf(kept[k].of)

FeedsInv ==
  /\ corpus \in Corpora /\ inquiry = [r \in Inquirers |-> inquiry[r]] /\ KeptOK
  /\ \A r \in Inquirers : Consistent(inquiry[r], corpus)

LEMMA QuestionsAre ==
  /\ \A o \in Operations, c \in Choices, e \in Extras :
       Question(o, c, e) \in Questions /\ Question(o, c, e).op = o
  /\ Plain \in Extras /\ (CHOOSE c \in Choices : TRUE) \in Choices
  /\ WholeTree \in Questions /\ WholeTree.op = "geo_all"
<1>1. Plain \in Extras /\ (CHOOSE c \in Choices : TRUE) \in Choices
  BY FetchAssumption DEF Plain
<1>2. \A o \in Operations, c \in Choices, e \in Extras :
        Question(o, c, e) \in Questions /\ Question(o, c, e).op = o
  BY DEF Question, Questions
<1>3. "geo_all" \in Operations
  BY DEF Operations, TrendsOps
<1>4. QED BY <1>1, <1>2, <1>3 DEF WholeTree

LEMMA RepliesTell ==
  ASSUME NEW q \in Questions
  PROVE  /\ Tells(Reply(q, 429, "limited", "limited"))
         /\ \A says \in {"error", "rejected", "unavailable", "unresolved", "unread"},
               status \in {500, 502} : Tells(Reply(q, status, says, "failed"))
         /\ \A status \in {400, 422} : Tells(Reply(q, status, "invalid", "unasked"))
         /\ Tells(Reply(q, 404, "nothing", "nothing"))
         /\ Tells(Reply(q, 200, "partial", "some")) /\ Tells(Reply(q, 200, "noCorpus", "some"))
         /\ q.op = "variations" => \A heard \in {"full", "some", "failed", "limited"} :
              Tells(Reply(q, 200, "keywords", heard))
         /\ \A says \in {"rows", "articles", "summary", "noNltk", "suggestions"} :
              Keepable(Reply(q, 200, says, "full"))
         /\ Keepable(Reply(q, 200, "nothing", "nothing"))
         /\ q.op \in Formats => \A says \in {"suggestions", "raw", "unparseable_jsonp"} :
              Keepable(Reply(q, 200, says, "odd"))
BY DEF Tells, Keepable, Reply, Replies, Heard, TakenAsSent

\* What is made of the whole tree is taken as it is.
LEMMA TreeTells ==
  ASSUME NEW q \in Questions, q.op \in {"geo", "geo_all"},
         NEW a \in Replies, a.says \notin {"partial", "noCorpus"}, a.heard \in {"full", "nothing", "odd"}
  PROVE  /\ Keepable(Reply(q, 200, a.says, a.heard)) /\ Keepable(Reply(q, 200, "nothing", a.heard))
BY DEF Tells, Keepable, Reply, Replies, TakenAsSent

LEMMA KindOf ==
  ASSUME NEW i, NEW corpora, Consistent(i, corpora)
  PROVE  /\ i.at # "new" => i.q \in Questions
         /\ i.at \in {"lookup", "fetch", "geoFetch"} => i \in Waiting
         /\ i.at \in {"store", "geoStore", "geoFilter", "told"} => i \in Replying
         /\ i.at = "decode" => i \in Decoding
         /\ i.at \in {"page", "parse"} => i \in Reading
         /\ i.at = "vary" => i \in Varying
BY DEF Consistent, Waiting, Replying, Decoding, Reading, Varying

LEMMA WaitingIs ==
  ASSUME NEW q \in Questions, NEW at \in {"lookup", "fetch", "geoFetch"},
         NEW corpora, at = "geoFetch" => q.op = "geo"
  PROVE  Consistent([at |-> at, q |-> q], corpora)
<1> DEFINE i == [at |-> at, q |-> q]
<1>1. i \in Waiting /\ i.at = at /\ i.q = q
  BY DEF Waiting
<1> HIDE DEF i
<1>2. Consistent(i, corpora)
  BY <1>1 DEF Consistent
<1>3. QED BY <1>2 DEF i

LEMMA ReplyingIs ==
  ASSUME NEW q \in Questions, NEW a, NEW corpora, NEW at \in {"store", "geoStore", "geoFilter", "told"},
         at = "told" => Tells(a), at # "told" => Keepable(a),
         at = "store" => KeyOf(a.of) = KeyOf(q),
         at = "geoStore" => a.of = WholeTree,
         at \in {"geoStore", "geoFilter"} => q.op = "geo"
  PROVE  Consistent([at |-> at, q |-> q, answer |-> a], corpora)
<1> DEFINE i == [at |-> at, q |-> q, answer |-> a]
<1>1. a \in Replies
  BY DEF Tells, Keepable
<1>2. i \in Replying /\ i.at = at /\ i.q = q /\ i.answer = a
  BY <1>1 DEF Replying
<1> HIDE DEF i
<1>3. Consistent(i, corpora)
  BY <1>2 DEF Consistent
<1>4. QED BY <1>3 DEF i

\* A request goes on, the set-up of nltk may be over, and what is kept may be kept.
LEMMA InquiryGoes ==
  ASSUME FeedsInv, NEW r \in Inquirers, NEW i, inquiry' = [inquiry EXCEPT ![r] = i],
         corpus' \in Corpora, corpus # "notSetUp" => corpus' # "notSetUp",
         KeptOK', Consistent(i, corpus')
  PROVE  FeedsInv'
<1>1. inquiry = [s \in Inquirers |-> inquiry[s]]
  BY DEF FeedsInv
<1>2. inquiry' = [s \in Inquirers |-> inquiry'[s]] /\ inquiry'[r] = i
      /\ \A s \in Inquirers \ {r} : inquiry'[s] = inquiry[s]
  BY <1>1
<1>3. ASSUME NEW s \in Inquirers, s # r PROVE Consistent(inquiry[s], corpus')
  BY <1>3 DEF FeedsInv, Consistent
<1>4. \A s \in Inquirers : Consistent(inquiry'[s], corpus')
  BY <1>2, <1>3
<1>5. QED BY <1>2, <1>4 DEF FeedsInv

LEMMA KeptStays ==
  ASSUME FeedsInv, UNCHANGED kept
  PROVE  KeptOK'
BY DEF FeedsInv, KeptOK

LEMMA KeepGoes ==
  ASSUME FeedsInv, NEW key, NEW a, Keep(key, a), Keepable(a), key = KeyOf(a.of)
  PROVE  KeptOK'
<1>1. kept' = [k \in DOMAIN kept \cup {key} |-> IF k = key THEN a ELSE kept[k]]
  BY DEF Keep
<1>2. \A k \in DOMAIN kept' : kept'[k] = IF k = key THEN a ELSE kept[k]
  BY <1>1
<1>3. \A k \in DOMAIN kept' : k = key \/ k \in DOMAIN kept
  BY <1>1
<1>4. QED BY <1>2, <1>3 DEF FeedsInv, KeptOK

\* Answers that pass the cache by, and those that go into it.
LEMMA RaisedGoes ==
  ASSUME FeedsInv, NEW r \in Inquirers, inquiry[r].at # "new", NEW a, Raised(r, a), Tells(a),
         UNCHANGED kept, corpus' \in Corpora, corpus # "notSetUp" => corpus' # "notSetUp"
  PROVE  FeedsInv'
<1> DEFINE i == [at |-> "told", q |-> inquiry[r].q, answer |-> a]
<1>1. inquiry[r].q \in Questions
  BY KindOf DEF FeedsInv
<1>2. inquiry' = [inquiry EXCEPT ![r] = i]
  BY DEF Raised, Told, Asked
<1>3. Consistent(i, corpus')
  BY <1>1, ReplyingIs
<1> HIDE DEF i
<1>4. QED BY <1>2, <1>3, InquiryGoes, KeptStays

LEMMA ReturnedGoes ==
  ASSUME FeedsInv, NEW r \in Inquirers, inquiry[r].at # "new", NEW a, Returned(r, a),
         Keepable(a), a.of = inquiry[r].q,
         UNCHANGED kept, corpus' \in Corpora, corpus # "notSetUp" => corpus' # "notSetUp"
  PROVE  FeedsInv'
<1> DEFINE i == [at |-> "store", q |-> inquiry[r].q, answer |-> a]
<1>1. inquiry[r].q \in Questions
  BY KindOf DEF FeedsInv
<1>2. inquiry' = [inquiry EXCEPT ![r] = i]
  BY DEF Returned, FeedsInv
<1>3. Consistent(i, corpus')
  BY <1>1, ReplyingIs
<1> HIDE DEF i
<1>4. QED BY <1>2, <1>3, InquiryGoes, KeptStays

LEMMA TurnIs ==
  ASSUME NEW i, NEW at, i \in Waiting
  PROVE  [i EXCEPT !.at = at] = [at |-> at, q |-> i.q]
BY DEF Waiting

\* A question that is asked, and one that is told an answer that tells.
LEMMA AskedIs ==
  ASSUME NEW q \in Questions, NEW corpora
  PROVE  Consistent([at |-> "lookup", q |-> q], corpora)
BY WaitingIs

LEMMA ToldIs ==
  ASSUME NEW q \in Questions, NEW a, Tells(a), NEW corpora
  PROVE  Consistent([at |-> "told", q |-> q, answer |-> a], corpora)
BY ReplyingIs

\* A question is asked, or refused.
LEMMA AskedGoes ==
  ASSUME FeedsInv, NEW r \in Inquirers, NEW q \in Questions, UNCHANGED corpus,
         Ask(r, "lookup", q) \/ \E status \in {400, 422} : Refuse(r, status, q)
  PROVE  FeedsInv'
<1>0. corpus' \in Corpora /\ kept' = kept
  BY DEF FeedsInv, Ask, Refuse
<1>1. CASE Ask(r, "lookup", q)
  <2> DEFINE i == [at |-> "lookup", q |-> q]
  <2>1. inquiry' = [inquiry EXCEPT ![r] = i]
    BY <1>1 DEF Ask
  <2>2. ASSUME NEW c PROVE Consistent(i, c)
    BY AskedIs
  <2> HIDE DEF i
  <2>3. QED BY <1>0, <2>1, <2>2, InquiryGoes, KeptStays
<1>2. ASSUME NEW status \in {400, 422}, Refuse(r, status, q) PROVE FeedsInv'
  <2> DEFINE a == Reply(q, status, "invalid", "unasked")
             i == [at |-> "told", q |-> q, answer |-> a]
  <2>1. inquiry' = [inquiry EXCEPT ![r] = i]
    BY <1>2 DEF Refuse, Told
  <2>2. Tells(a)
    BY RepliesTell
  <2> HIDE DEF a
  <2>3. ASSUME NEW c PROVE Consistent(i, c)
    BY <2>2, ToldIs
  <2> HIDE DEF i
  <2>4. QED BY <1>0, <2>1, <2>3, InquiryGoes, KeptStays
<1>3. QED BY <1>1, <1>2

LEMMA TrendsAsked ==
  ASSUME FeedsInv, NEW r \in Inquirers, TrendsAsk(r), UNCHANGED corpus
  PROVE  FeedsInv'
<1> DEFINE Ways(q) == Ask(r, "lookup", q) \/ \E status \in {400, 422} : Refuse(r, status, q)
<1>1. \A o \in TrendsOps : TrendsQuestion(o) \subseteq Questions
  BY QuestionsAre DEF TrendsQuestion, Operations
<1>2. \E o \in TrendsOps : \E q \in TrendsQuestion(o) : Ways(q)
  BY DEF TrendsAsk, AskSeries, AskRelated, AskTrending, AskNewsByIds, AskShowcase, AskCategories,
         AskGeo, TrendsOps, Series, Related, Trending, ParseNewsTokens
<1>3. PICK q \in Questions : Ways(q)
  BY <1>1, <1>2
<1>4. QED BY <1>3, AskedGoes

LEMMA NewsAsked ==
  ASSUME FeedsInv, NEW r \in Inquirers, NewsAsk(r), UNCHANGED corpus
  PROVE  FeedsInv'
<1> DEFINE Ways(q) == Ask(r, "lookup", q) \/ \E status \in {400, 422} : Refuse(r, status, q)
<1>1. \A o \in NewsOps : NewsQuestion(o) \subseteq Questions
  BY QuestionsAre DEF NewsQuestion, Operations
<1>2. \E o \in NewsOps : \E q \in NewsQuestion(o) : Ways(q)
  BY DEF NewsAsk, AskSource, AskNewsSearch, AskTop, AskTopic, AskLocation, AskArticles, AskDetails,
         NewsOps, ListOps
<1>3. PICK q \in Questions : Ways(q)
  BY <1>1, <1>2
<1>4. QED BY <1>3, AskedGoes

LEMMA SuggestionsAsked ==
  ASSUME FeedsInv, NEW r \in Inquirers, AskSuggestions(r), UNCHANGED corpus
  PROVE  FeedsInv'
<1> DEFINE Ways(q) == Ask(r, "lookup", q) \/ \E status \in {400, 422} : Refuse(r, status, q)
           v == Question("variations", CHOOSE c \in Choices : TRUE, Plain)
           i == [at |-> "vary", left |-> Variations, lost |-> 0, q |-> v]
<1>1. CASE \E q \in SuggestQuestions : Ways(q)
  <2>1. SuggestQuestions \subseteq Questions
    BY QuestionsAre DEF SuggestQuestions, Operations
  <2>2. PICK q \in Questions : Ways(q)
    BY <1>1, <2>1
  <2>3. QED BY <2>2, AskedGoes
<1>2. CASE inquiry' = [inquiry EXCEPT ![r] = i] /\ UNCHANGED kept
  <2>1. v \in Questions
    BY QuestionsAre DEF Operations
  <2>2. /\ i \in Varying /\ i.at = "vary" /\ i.left + i.lost \in 0 .. Variations
        /\ i.q.op = "variations"
    BY <2>1, QuestionsAre, AutocompleteAssumption DEF Varying, Operations
  <2> HIDE DEF i
  <2>3. Consistent(i, corpus')
    BY <2>2 DEF Consistent
  <2>4. QED BY <1>2, <2>3, InquiryGoes, KeptStays DEF FeedsInv
<1>3. QED BY <1>1, <1>2 DEF AskSuggestions

\* The cache is asked, an answer is stored, an entry runs out.
LEMMA LookupGoes ==
  ASSUME FeedsInv, NEW r \in Inquirers, Lookup(r), UNCHANGED corpus
  PROVE  FeedsInv'
<1> DEFINE q == inquiry[r].q
<1>1. q \in Questions /\ inquiry[r] \in Waiting /\ corpus' \in Corpora
  BY KindOf DEF FeedsInv, Lookup
<1>2. ASSUME NEW k \in DOMAIN kept, Told(r, q, kept[k]) PROVE FeedsInv'
  <2> DEFINE a == kept[k]
             i == [at |-> "told", q |-> q, answer |-> a]
  <2>1. Tells(a)
    BY DEF FeedsInv, KeptOK, Keepable
  <2>2. Consistent(i, corpus')
    BY <1>1, <2>1, ReplyingIs
  <2>3. inquiry' = [inquiry EXCEPT ![r] = i]
    BY <1>2 DEF Told
  <2> HIDE DEF i
  <2>4. QED BY <1>1, <2>2, <2>3, InquiryGoes, KeptStays DEF Lookup
<1>3. CASE Turn(r, "fetch")
  <2> DEFINE i == [at |-> "fetch", q |-> q]
  <2>1. inquiry' = [inquiry EXCEPT ![r] = i]
    BY <1>1, <1>3, TurnIs DEF Turn, FeedsInv
  <2>2. Consistent(i, corpus')
    BY <1>1, WaitingIs
  <2> HIDE DEF i
  <2>3. QED BY <1>1, <2>1, <2>2, InquiryGoes, KeptStays DEF Lookup
<1>4. QED BY <1>2, <1>3 DEF Lookup, Asked

LEMMA StoreGoes ==
  ASSUME FeedsInv, NEW r \in Inquirers, Store(r), UNCHANGED corpus
  PROVE  FeedsInv'
<1> DEFINE a == inquiry[r].answer
           q == inquiry[r].q
           i == [at |-> "told", q |-> q, answer |-> a]
<1>1. q \in Questions /\ Keepable(a) /\ KeyOf(a.of) = KeyOf(q) /\ corpus' \in Corpora
  BY KindOf DEF FeedsInv, Store, Consistent
<1>2. KeptOK'
  BY <1>1, KeepGoes DEF Store, Asked
<1>3. Tells(a)
  BY <1>1 DEF Keepable
<1>4. ASSUME NEW c PROVE Consistent(i, c)
  BY <1>1, <1>3, ToldIs
<1>5. inquiry' = [inquiry EXCEPT ![r] = i]
  BY DEF Store, Told, Asked
<1> HIDE DEF i
<1>6. QED BY <1>1, <1>2, <1>4, <1>5, InquiryGoes

LEMMA ExpireGoes ==
  ASSUME FeedsInv, Expire, UNCHANGED corpus
  PROVE  FeedsInv'
<1>1. PICK k \in DOMAIN kept : kept' = [l \in DOMAIN kept \ {k} |-> kept[l]]
  BY DEF Expire
<1>2. KeptOK'
  BY <1>1 DEF FeedsInv, KeptOK
<1>3. UNCHANGED inquiry
  BY DEF Expire
<1>4. QED BY <1>2, <1>3 DEF FeedsInv

\* A handler that waits turns to its next step.
LEMMA TurnGoes ==
  ASSUME FeedsInv, NEW r \in Inquirers, inquiry[r] \in Waiting,
         NEW at \in {"lookup", "fetch", "geoFetch"}, Turn(r, at), UNCHANGED kept,
         at = "geoFetch" => inquiry[r].q.op = "geo",
         corpus' \in Corpora, corpus # "notSetUp" => corpus' # "notSetUp"
  PROVE  FeedsInv'
<1> DEFINE q == inquiry[r].q
           i == [at |-> at, q |-> q]
<1>1. q \in Questions
  BY DEF Waiting
<1>2. inquiry' = [inquiry EXCEPT ![r] = i]
  BY TurnIs DEF Turn, FeedsInv
<1>3. Consistent(i, corpus')
  BY <1>1, WaitingIs
<1> HIDE DEF i
<1>4. QED BY <1>2, <1>3, InquiryGoes, KeptStays

\* What a failed call is told as.
LEMMA TrendsFail ==
  ASSUME NEW q \in Questions, NEW says \in {"limited", "rejected", "unavailable"}
  PROVE  Tells(TrendsFailure(q, says))
BY RepliesTell DEF TrendsFailure

\* The ends of a call: with rows or without any the upstream gave all there was.
LEMMA CallsEnd ==
  ASSUME NEW o \in TrendsOps, NEW end \in CallEnds(o)
  PROVE  LET says == EncodeTrendsPayload(RunTrendsCall(o, end)) IN
         /\ says \in {"rows", "nothing", "limited", "rejected", "unavailable"}
         /\ says = "rows" => TrendsHeard(end) = "full"
         /\ says = "nothing" => TrendsHeard(end) = "nothing"
<1>1. CASE o = "news_by_ids"
  <2>1. /\ end \in {"rows", "nothing", "unencodable", "http429", "http400", "error", "nullPayload",
                    "noEnvelope", "oddPayload", "oddArticle"}
    BY <1>1 DEF CallEnds, FetchTrendingNews
  <2>2. FetchTrendingNews[end] \in {"rows", "nothing", "unencodable", "http429", "http400", "error",
                                    "rejected", "unavailable"}
        /\ (FetchTrendingNews[end] = "rows" <=> end = "rows")
        /\ (FetchTrendingNews[end] = "nothing" <=> end = "nothing")
    BY <2>1 DEF FetchTrendingNews
  <2>3. QED BY <1>1, <2>1, <2>2 DEF EncodeTrendsPayload, RunTrendsCall, ClassifyTrendsFailure, TrendsHeard
<1>2. CASE o # "news_by_ids"
  <2>1. end \in {"rows", "nothing", "unencodable", "http429", "http400", "error", "quota"}
    BY <1>2 DEF CallEnds, TrendspyEnds
  <2>2. QED BY <1>2, <2>1 DEF EncodeTrendsPayload, RunTrendsCall, ClassifyTrendsFailure, TrendsHeard
<1>3. QED BY <1>1, <1>2

LEMMA FetchTrendsGoes ==
  ASSUME FeedsInv, NEW r \in Inquirers, FetchTrends(r), UNCHANGED corpus
  PROVE  FeedsInv'
<1> DEFINE q == inquiry[r].q
<1>1. q \in Questions /\ q.op \in TrendsOps /\ inquiry[r].at = "fetch"
  BY KindOf DEF FeedsInv, FetchTrends, Asked
<1>2. corpus' \in Corpora /\ kept' = kept
  BY DEF FeedsInv, FetchTrends
<1>3. PICK end \in CallEnds(q.op) :
        LET says == EncodeTrendsPayload(RunTrendsCall(q.op, end)) IN
        IF says \in {"rows", "nothing"}
        THEN Returned(r, Reply(q, 200, says, TrendsHeard(end)))
        ELSE Raised(r, TrendsFailure(q, says))
  BY DEF FetchTrends, Asked
<1> DEFINE says == EncodeTrendsPayload(RunTrendsCall(q.op, end))
           heard == TrendsHeard(end)
<1>4. says \in {"rows", "nothing", "limited", "rejected", "unavailable"}
      /\ (says = "rows" => heard = "full") /\ (says = "nothing" => heard = "nothing")
  BY <1>1, CallsEnd
<1>5. IF says \in {"rows", "nothing"} THEN Returned(r, Reply(q, 200, says, heard))
      ELSE Raised(r, TrendsFailure(q, says))
  BY <1>3
<1> HIDE DEF says, heard
<1>6. CASE says \in {"rows", "nothing"}
  <2> DEFINE a == Reply(q, 200, says, heard)
  <2>1. Keepable(a) /\ a.of = q
    BY <1>1, <1>4, <1>6 DEF Tells, Keepable, Reply, Replies, Heard, TakenAsSent
  <2>2. Returned(r, a)
    BY <1>5, <1>6
  <2> HIDE DEF a
  <2>3. QED BY <1>1, <1>2, <2>1, <2>2, ReturnedGoes
<1>7. CASE says \notin {"rows", "nothing"}
  <2> DEFINE a == TrendsFailure(q, says)
  <2>1. Tells(a)
    BY <1>1, <1>4, <1>7, TrendsFail
  <2>2. Raised(r, a)
    BY <1>5, <1>7
  <2> HIDE DEF a
  <2>3. QED BY <1>1, <1>2, <2>1, <2>2, RaisedGoes
<1>8. QED BY <1>6, <1>7

LEMMA GeoLookupGoes ==
  ASSUME FeedsInv, NEW r \in Inquirers, GeoLookup(r), UNCHANGED corpus
  PROVE  FeedsInv'
<1> DEFINE q == inquiry[r].q
<1>1. q \in Questions /\ q.op = "geo" /\ inquiry[r] \in Waiting
  BY KindOf DEF FeedsInv, GeoLookup, Asked
<1>2. corpus' \in Corpora /\ kept' = kept
  BY DEF FeedsInv, GeoLookup
<1>3. CASE KeyOf(WholeTree) \in DOMAIN kept
  <2> DEFINE a == kept[KeyOf(WholeTree)]
             i == [at |-> "geoFilter", q |-> q, answer |-> a]
  <2>1. Keepable(a)
    BY <1>3 DEF FeedsInv, KeptOK
  <2>2. inquiry' = [inquiry EXCEPT ![r] = i]
    BY <1>3 DEF GeoLookup, FeedsInv
  <2> HIDE DEF a
  <2>3. Consistent(i, corpus')
    BY <1>1, <2>1, ReplyingIs
  <2> HIDE DEF i
  <2>4. QED BY <1>2, <2>2, <2>3, InquiryGoes, KeptStays
<1>4. CASE KeyOf(WholeTree) \notin DOMAIN kept
  <2>1. Turn(r, "geoFetch")
    BY <1>4 DEF GeoLookup
  <2>2. QED BY <1>1, <1>2, <2>1, TurnGoes
<1>5. QED BY <1>3, <1>4

\* What is made of a tree: rows, or nothing of a shape that is not known.
LEMMA TreesEnd ==
  ASSUME NEW end \in {"rows", "oddTree", "http429", "http400", "error"}
  PROVE  LET says == RunTrendsCall("geo", FlattenGeoTree(end)) IN
         /\ says \in {"rows", "nothing", "limited", "rejected", "unavailable"}
         /\ says \in {"rows", "nothing"} => TrendsHeard(end) \in {"full", "odd"}
BY DEF RunTrendsCall, FlattenGeoTree, ClassifyTrendsFailure, TrendsHeard

LEMMA GeoFetchGoes ==
  ASSUME FeedsInv, NEW r \in Inquirers, GeoFetch(r), UNCHANGED corpus
  PROVE  FeedsInv'
<1> DEFINE q == inquiry[r].q
<1>1. q \in Questions /\ q.op = "geo" /\ inquiry[r].at = "geoFetch"
  BY KindOf DEF FeedsInv, GeoFetch, Consistent
<1>2. corpus' \in Corpora /\ kept' = kept
  BY DEF FeedsInv, GeoFetch
<1>3. PICK end \in {"rows", "oddTree", "http429", "http400", "error"} :
        LET says == RunTrendsCall("geo", FlattenGeoTree(end)) IN
        IF says \in {"rows", "nothing"}
        THEN inquiry' = [inquiry EXCEPT ![r] = [at |-> "geoStore", q |-> @.q,
               answer |-> Reply(WholeTree, 200, says, TrendsHeard(end))]]
        ELSE Raised(r, TrendsFailure(q, says))
  BY DEF GeoFetch, Asked
<1> DEFINE says == RunTrendsCall("geo", FlattenGeoTree(end))
           heard == TrendsHeard(end)
           a == Reply(WholeTree, 200, says, heard)
           i == [at |-> "geoStore", q |-> q, answer |-> a]
<1>4. says \in {"rows", "nothing", "limited", "rejected", "unavailable"}
      /\ (says \in {"rows", "nothing"} => heard \in {"full", "odd"})
  BY TreesEnd
<1>5. says \in {"rows", "nothing"} => inquiry' = [inquiry EXCEPT ![r] = i]
  BY <1>3 DEF FeedsInv
<1>6. says \notin {"rows", "nothing"} => Raised(r, TrendsFailure(q, says))
  BY <1>3
<1> HIDE DEF says, heard
<1>7. CASE says \in {"rows", "nothing"}
  <2>1. Keepable(a) /\ a.of = WholeTree
    BY <1>4, <1>7, QuestionsAre DEF Tells, Keepable, Reply, Replies, Heard, TakenAsSent
  <2> HIDE DEF a
  <2>2. Consistent(i, corpus')
    BY <1>1, <2>1, ReplyingIs
  <2>3. inquiry' = [inquiry EXCEPT ![r] = i]
    BY <1>5, <1>7
  <2> HIDE DEF i
  <2>4. QED BY <1>2, <2>2, <2>3, InquiryGoes, KeptStays
<1>8. CASE says \notin {"rows", "nothing"}
  <2> DEFINE b == TrendsFailure(q, says)
  <2>1. Tells(b)
    BY <1>1, <1>4, <1>8, TrendsFail
  <2>2. Raised(r, b)
    BY <1>6, <1>8
  <2> HIDE DEF b
  <2>3. QED BY <1>1, <1>2, <2>1, <2>2, RaisedGoes
<1>9. QED BY <1>7, <1>8

LEMMA GeoStoreGoes ==
  ASSUME FeedsInv, NEW r \in Inquirers, GeoStore(r), UNCHANGED corpus
  PROVE  FeedsInv'
<1> DEFINE q == inquiry[r].q
           a == inquiry[r].answer
           i == [at |-> "geoFilter", q |-> q, answer |-> a]
<1>1. /\ q \in Questions /\ q.op = "geo" /\ Keepable(a) /\ a.of = WholeTree
      /\ inquiry[r] \in Replying /\ corpus' \in Corpora
  BY KindOf DEF FeedsInv, GeoStore, Consistent
<1>2. KeptOK'
  BY <1>1, KeepGoes DEF GeoStore
<1>3. [inquiry[r] EXCEPT !.at = "geoFilter"] = i
  BY <1>1 DEF Replying
<1>4. inquiry' = [inquiry EXCEPT ![r] = i]
  BY <1>3 DEF GeoStore, Turn, FeedsInv
<1> HIDE DEF a
<1>5. Consistent(i, corpus')
  BY <1>1, ReplyingIs
<1> HIDE DEF i
<1>6. QED BY <1>1, <1>2, <1>4, <1>5, InquiryGoes

LEMMA GeoFilterGoes ==
  ASSUME FeedsInv, NEW r \in Inquirers, GeoFilter(r), UNCHANGED corpus
  PROVE  FeedsInv'
<1> DEFINE q == inquiry[r].q
           given == inquiry[r].answer
<1>1. /\ q \in Questions /\ q.op = "geo" /\ Keepable(given) /\ inquiry[r].at # "new"
  BY KindOf DEF FeedsInv, GeoFilter, Consistent
<1>2. corpus' \in Corpora /\ kept' = kept
  BY DEF FeedsInv, GeoFilter
<1>3. PICK says \in {given.says, "nothing"} : Returned(r, Reply(q, 200, says, given.heard))
  BY DEF GeoFilter, Asked
<1> DEFINE a == Reply(q, 200, says, given.heard)
<1> HIDE DEF given
<1>4. /\ given \in Replies /\ given.heard \in {"full", "nothing", "odd"}
      /\ given.says \notin {"partial", "noCorpus"}
  BY <1>1 DEF Keepable, Tells, Replies
<1>5. Keepable(a) /\ a.of = q
  BY <1>1, <1>4, TreeTells DEF Reply
<1>6. Returned(r, a)
  BY <1>3
<1> HIDE DEF a
<1>7. QED BY <1>1, <1>2, <1>5, <1>6, ReturnedGoes

LEMMA TrendsGoes ==
  ASSUME FeedsInv, NEW r \in Inquirers, TrendsStep(r), UNCHANGED corpus
  PROVE  FeedsInv'
BY FetchTrendsGoes, GeoLookupGoes, GeoFetchGoes, GeoStoreGoes, GeoFilterGoes DEF TrendsStep

\* The News router.
LEMMA GnewsGoes ==
  ASSUME FeedsInv, NEW r \in Inquirers, RunGnewsCall(r)
  PROVE  FeedsInv'
<1> DEFINE q == inquiry[r].q
<1>1. q \in Questions /\ inquiry[r].at # "new" /\ kept' = kept /\ corpus' = corpus /\ corpus \in Corpora
  BY KindOf DEF FeedsInv, RunGnewsCall
<1>2. ASSUME NEW n \in 1 .. MaxArticles, Listing(r, n) PROVE FeedsInv'
  <2> DEFINE i == [at |-> "decode", q |-> q, left |-> n, good |-> 0, failed |-> 0, filtered |-> 0]
  <2>1. inquiry' = [inquiry EXCEPT ![r] = i]
    BY <1>2 DEF Listing, FeedsInv
  <2>2. i \in Decoding /\ i.at = "decode" /\ i.left + i.good + i.failed + i.filtered \in 1 .. MaxArticles
    BY <1>1, NewsAssumption DEF Decoding
  <2> HIDE DEF i
  <2>3. ASSUME NEW c PROVE Consistent(i, c)
    BY <2>2 DEF Consistent
  <2>4. QED BY <1>1, <2>1, <2>3, InquiryGoes, KeptStays
<1>3. ASSUME NEW a, Raised(r, a), Tells(a) PROVE FeedsInv'
  BY <1>1, <1>3, RaisedGoes
<1>4. /\ Tells(Reply(q, 429, "limited", "limited")) /\ Tells(Reply(q, 500, "error", "failed"))
      /\ Tells(Reply(q, 404, "nothing", "nothing"))
  BY <1>1, RepliesTell
<1>5. \/ Raised(r, Reply(q, 429, "limited", "limited")) \/ Raised(r, Reply(q, 500, "error", "failed"))
      \/ Raised(r, Reply(q, 404, "nothing", "nothing"))
      \/ \E n \in 1 .. MaxArticles : Listing(r, n)
  BY DEF RunGnewsCall, Asked
<1>6. QED BY <1>2, <1>3, <1>4, <1>5

\* An article is counted once, whatever its fate.
LEMMA DecodeGoes ==
  ASSUME FeedsInv, NEW r \in Inquirers, DecodeArticle(r)
  PROVE  FeedsInv'
<1> DEFINE j == inquiry[r]
<1>1. /\ j \in Decoding /\ j.at = "decode" /\ j.left > 0
      /\ j.left + j.good + j.failed + j.filtered \in 1 .. MaxArticles
      /\ kept' = kept /\ corpus' = corpus /\ corpus \in Corpora
  BY KindOf DEF FeedsInv, DecodeArticle, Consistent
<1>2. PICK fate \in {"good", "failed", "filtered"} :
        inquiry' = [inquiry EXCEPT ![r][fate] = @ + 1, ![r].left = @ - 1]
  <2>1. PICK link \in Links, page \in Pages, payload \in Payloads, domain \in {"asked", "other"} :
          LET fate == FateOf(Asked(r).op, link, page, payload, domain) IN
          inquiry' = [inquiry EXCEPT ![r][fate] = @ + 1, ![r].left = @ - 1]
    BY DEF DecodeArticle
  <2> DEFINE fate == FateOf(Asked(r).op, link, page, payload, domain)
  <2>2. fate \in {"good", "failed", "filtered"}
    BY DEF FateOf
  <2>3. inquiry' = [inquiry EXCEPT ![r][fate] = @ + 1, ![r].left = @ - 1]
    BY <2>1
  <2> HIDE DEF fate
  <2>4. QED BY <2>2, <2>3
<1>3. PICK i : inquiry' = [inquiry EXCEPT ![r] = i] /\ i = [j EXCEPT ![fate] = @ + 1, !.left = @ - 1]
  BY <1>2 DEF FeedsInv
<1> DEFINE Counted == /\ i \in Decoding /\ i.at = "decode"
                      /\ i.left + i.good + i.failed + i.filtered \in 1 .. MaxArticles
<1> HIDE DEF j
<1>4. ASSUME fate = "good" PROVE Counted
  <2>1. i = [j EXCEPT !.good = @ + 1, !.left = @ - 1]
    BY <1>3, <1>4
  <2>2. /\ i.at = "decode" /\ i.left = j.left - 1 /\ i.good = j.good + 1
        /\ i.failed = j.failed /\ i.filtered = j.filtered
    BY <1>1, <2>1 DEF Decoding
  <2>3. i.left \in Nat /\ i.good \in Nat
    BY <1>1, <2>2 DEF Decoding
  <2>4. i \in Decoding
    BY <1>1, <2>1, <2>3 DEF Decoding
  <2>5. i.left + i.good + i.failed + i.filtered = j.left + j.good + j.failed + j.filtered
    BY <1>1, <2>2 DEF Decoding
  <2>6. QED BY <1>1, <2>2, <2>4, <2>5
<1>5. ASSUME fate = "failed" PROVE Counted
  <2>1. i = [j EXCEPT !.failed = @ + 1, !.left = @ - 1]
    BY <1>3, <1>5
  <2>2. /\ i.at = "decode" /\ i.left = j.left - 1 /\ i.failed = j.failed + 1
        /\ i.good = j.good /\ i.filtered = j.filtered
    BY <1>1, <2>1 DEF Decoding
  <2>3. i.left \in Nat /\ i.failed \in Nat
    BY <1>1, <2>2 DEF Decoding
  <2>4. i \in Decoding
    BY <1>1, <2>1, <2>3 DEF Decoding
  <2>5. i.left + i.good + i.failed + i.filtered = j.left + j.good + j.failed + j.filtered
    BY <1>1, <2>2 DEF Decoding
  <2>6. QED BY <1>1, <2>2, <2>4, <2>5
<1>6. ASSUME fate = "filtered" PROVE Counted
  <2>1. i = [j EXCEPT !.filtered = @ + 1, !.left = @ - 1]
    BY <1>3, <1>6
  <2>2. /\ i.at = "decode" /\ i.left = j.left - 1 /\ i.filtered = j.filtered + 1
        /\ i.good = j.good /\ i.failed = j.failed
    BY <1>1, <2>1 DEF Decoding
  <2>3. i.left \in Nat /\ i.filtered \in Nat
    BY <1>1, <2>2 DEF Decoding
  <2>4. i \in Decoding
    BY <1>1, <2>1, <2>3 DEF Decoding
  <2>5. i.left + i.good + i.failed + i.filtered = j.left + j.good + j.failed + j.filtered
    BY <1>1, <2>2 DEF Decoding
  <2>6. QED BY <1>1, <2>2, <2>4, <2>5
<1>7. Counted
  BY <1>4, <1>5, <1>6
<1>8. ASSUME NEW c PROVE Consistent(i, c)
  BY <1>7 DEF Consistent
<1>9. QED BY <1>1, <1>3, <1>8, InquiryGoes, KeptStays

\* What is answered of a list or an article is kept only where it is all there is.
LEMMA ConcludesGoes ==
  ASSUME FeedsInv, NEW r \in Inquirers, inquiry[r].at # "new", NEW a, Concludes(r, a), Tells(a),
         IsCacheable(a) => Keepable(a), a.of = inquiry[r].q,
         UNCHANGED kept, corpus' \in Corpora, corpus # "notSetUp" => corpus' # "notSetUp"
  PROVE  FeedsInv'
<1>1. CASE IsCacheable(a)
  BY <1>1, ReturnedGoes DEF Concludes
<1>2. CASE ~IsCacheable(a)
  BY <1>2, RaisedGoes DEF Concludes
<1>3. QED BY <1>1, <1>2

LEMMA RespondGoes ==
  ASSUME FeedsInv, NEW r \in Inquirers, RespondNews(r)
  PROVE  FeedsInv'
<1> DEFINE j == inquiry[r]
           q == j.q
           a == BuildNewsResponse(q, j.good, j.failed)
<1>1. /\ j \in Decoding /\ q \in Questions /\ j.at # "new"
      /\ kept' = kept /\ corpus' = corpus /\ corpus \in Corpora
  BY KindOf DEF FeedsInv, RespondNews
<1>2. j.good \in Nat /\ j.failed \in Nat
  BY <1>1 DEF Decoding
<1>3. a \in {Reply(q, 502, "unresolved", "failed"), Reply(q, 404, "nothing", "nothing"),
             Reply(q, 200, "partial", "some"), Reply(q, 200, "articles", "full")}
  BY <1>2 DEF BuildNewsResponse
<1>4. Concludes(r, a)
  BY DEF RespondNews, Asked
<1> HIDE DEF a
<1>5. Tells(a) /\ (IsCacheable(a) => Keepable(a)) /\ a.of = q
  BY <1>1, <1>3 DEF Tells, Keepable, Reply, Replies, Heard, TakenAsSent, IsCacheable
<1>6. QED BY <1>1, <1>4, <1>5, ConcludesGoes

LEMMA EnsureGoes ==
  ASSUME FeedsInv, NEW r \in Inquirers, EnsureNltk(r)
  PROVE  FeedsInv'
<1> DEFINE q == inquiry[r].q
           i == [at |-> "page", q |-> q, hops |-> 0]
<1>1. q \in Questions /\ kept' = kept
  BY KindOf DEF FeedsInv, EnsureNltk
<1>2. corpus' \in Corpora /\ corpus' # "notSetUp"
  BY DEF FeedsInv, EnsureNltk, Corpora
<1>3. inquiry' = [inquiry EXCEPT ![r] = i]
  BY DEF EnsureNltk, FeedsInv
<1>4. i \in Reading /\ i.at = "page"
  BY <1>1, NewsAssumption DEF Reading
<1> HIDE DEF i
<1>5. Consistent(i, corpus')
  BY <1>2, <1>4 DEF Consistent
<1>6. QED BY <1>1, <1>2, <1>3, <1>5, InquiryGoes, KeptStays

LEMMA FetchHtmlGoes ==
  ASSUME FeedsInv, NEW r \in Inquirers, FetchHtml(r)
  PROVE  FeedsInv'
<1> DEFINE j == inquiry[r]
           q == j.q
<1>1. /\ j \in Reading /\ q \in Questions /\ j.at = "page" /\ corpus # "notSetUp"
      /\ kept' = kept /\ corpus' = corpus /\ corpus \in Corpora
  BY KindOf DEF FeedsInv, FetchHtml, Consistent
<1>2. CASE j.hops < MaxRedirects + 1 /\ inquiry' = [inquiry EXCEPT ![r].hops = @ + 1]
  <2>1. PICK i : inquiry' = [inquiry EXCEPT ![r] = i] /\ i = [j EXCEPT !.hops = @ + 1]
    BY <1>2 DEF FeedsInv
  <2>2. i \in Reading /\ i.at = "page"
    BY <1>1, <1>2, <2>1, NewsAssumption DEF Reading
  <2>3. Consistent(i, corpus)
    BY <1>1, <2>2 DEF Consistent
  <2>4. QED BY <1>1, <2>1, <2>3, InquiryGoes, KeptStays
<1>3. CASE Turn(r, "parse")
  <2>1. PICK i : inquiry' = [inquiry EXCEPT ![r] = i] /\ i = [j EXCEPT !.at = "parse"]
    BY <1>3 DEF FeedsInv, Turn
  <2>2. i \in Reading /\ i.at = "parse"
    BY <1>1, <2>1 DEF Reading
  <2>3. Consistent(i, corpus)
    BY <1>1, <2>2 DEF Consistent
  <2>4. QED BY <1>1, <2>1, <2>3, InquiryGoes, KeptStays
<1>4. CASE Unread(r)
  <2> DEFINE a == Reply(q, 502, "unread", "failed")
  <2>1. Tells(a)
    BY <1>1, RepliesTell
  <2>2. Raised(r, a)
    BY <1>4 DEF Unread, Asked
  <2> HIDE DEF a
  <2>3. QED BY <1>1, <2>1, <2>2, RaisedGoes
<1>5. QED BY <1>2, <1>3, <1>4 DEF FetchHtml

\* What is said of an article while the corpus may still come is not kept.
LEMMA ParseGoes ==
  ASSUME FeedsInv, NEW r \in Inquirers, ParseArticle(r)
  PROVE  FeedsInv'
<1> DEFINE q == inquiry[r].q
           heard == IF corpus = "missing" THEN "some" ELSE "full"
           a == Reply(q, 200, Summary[corpus], heard)
<1>1. /\ q \in Questions /\ inquiry[r].at # "new" /\ corpus # "notSetUp"
      /\ kept' = kept /\ corpus' = corpus /\ corpus \in Corpora
  BY KindOf DEF FeedsInv, ParseArticle, Consistent
<1>2. CASE Unread(r)
  <2> DEFINE b == Reply(q, 502, "unread", "failed")
  <2>1. Tells(b)
    BY <1>1, RepliesTell
  <2>2. Raised(r, b)
    BY <1>2 DEF Unread, Asked
  <2> HIDE DEF b
  <2>3. QED BY <1>1, <2>1, <2>2, RaisedGoes
<1>3. CASE Concludes(r, a)
  <2>1. a \in {Reply(q, 200, "summary", "full"), Reply(q, 200, "noNltk", "full"),
               Reply(q, 200, "noCorpus", "some")}
    BY <1>1 DEF Corpora, Summary
  <2> HIDE DEF a
  <2>2. Tells(a) /\ (IsCacheable(a) => Keepable(a)) /\ a.of = q
    BY <1>1, <2>1 DEF Tells, Keepable, Reply, Replies, Heard, TakenAsSent, IsCacheable
  <2>3. QED BY <1>1, <1>3, <2>2, ConcludesGoes
<1>4. QED BY <1>2, <1>3 DEF ParseArticle, Asked

LEMMA NewsGoes ==
  ASSUME FeedsInv, NEW r \in Inquirers, NewsStep(r)
  PROVE  FeedsInv'
BY GnewsGoes, DecodeGoes, RespondGoes, EnsureGoes, FetchHtmlGoes, ParseGoes DEF NewsStep

\* The autocomplete router.
LEMMA SuggestionsGo ==
  ASSUME FeedsInv, NEW r \in Inquirers, FetchSuggestions(r), UNCHANGED corpus
  PROVE  FeedsInv'
<1> DEFINE q == inquiry[r].q
           Parsed(text) == ParseSuggestions(q.op, text)
           Failed == Reply(q, 500, "error", "failed")
           Given(text) == Reply(q, 200, Parsed(text), SuggestionsHeard(text))
<1>1. /\ q \in Questions /\ q.op \in Formats /\ inquiry[r].at # "new"
      /\ kept' = kept /\ corpus' \in Corpora
  BY KindOf DEF FeedsInv, FetchSuggestions, Asked
<1>2. ASSUME NEW a, Raised(r, a), Tells(a) PROVE FeedsInv'
  BY <1>1, <1>2, RaisedGoes
<1>3. Tells(Reply(q, 429, "limited", "limited")) /\ Tells(Failed)
  BY <1>1, RepliesTell
<1>4. ASSUME NEW text \in Texts, Parsed(text) # "unparsed", Returned(r, Given(text))
      PROVE  FeedsInv'
  <2>1. /\ Parsed(text) \in {"suggestions", "raw", "unparseable_jsonp"}
        /\ SuggestionsHeard(text) \in {"full", "odd"}
    BY <1>4, Zenon DEF ParseSuggestions, SuggestionsHeard
  <2> DEFINE says  == Parsed(text)
             heard == SuggestionsHeard(text)
             a     == Reply(q, 200, says, heard)
  <2>2. Returned(r, a)
    BY <1>4
  <2> HIDE DEF says, heard
  <2>3. a.of = q /\ Keepable(a)
    BY <1>1, <2>1 DEF says, heard, Tells, Keepable, Reply, Replies, Heard, TakenAsSent
  <2> HIDE DEF a
  <2>4. QED BY <1>1, <2>2, <2>3, ReturnedGoes
<1>5. \/ Raised(r, Reply(q, 429, "limited", "limited")) \/ Raised(r, Failed)
      \/ \E text \in Texts :
           IF Parsed(text) = "unparsed" THEN Raised(r, Failed) ELSE Returned(r, Given(text))
  BY DEF FetchSuggestions, Asked
<1> HIDE DEF Parsed, Given, Failed
<1>6. QED BY <1>2, <1>3, <1>4, <1>5

\* No batch loses more queries than it has.
LEMMA BatchGoes ==
  ASSUME FeedsInv, NEW r \in Inquirers, RunBatch(r), UNCHANGED corpus
  PROVE  FeedsInv'
<1> DEFINE j == inquiry[r]
           size == IF j.left < MaxParallel THEN j.left ELSE MaxParallel
<1>1. /\ j \in Varying /\ j.at = "vary" /\ j.left > 0 /\ j.left + j.lost \in 0 .. Variations
      /\ j.q.op = "variations" /\ kept' = kept /\ corpus' \in Corpora
  BY KindOf DEF FeedsInv, RunBatch, Consistent
<1>2. PICK lost \in 0 .. size :
        inquiry' = [inquiry EXCEPT ![r].left = @ - size, ![r].lost = @ + lost]
  BY DEF RunBatch
<1>3. PICK i : inquiry' = [inquiry EXCEPT ![r] = i]
               /\ i = [j EXCEPT !.left = @ - size, !.lost = @ + lost]
  BY <1>2 DEF FeedsInv
<1>4. j.left \in Nat /\ j.lost \in Nat
  BY <1>1 DEF Varying
<1>5. size \in Nat /\ size <= j.left /\ lost \in Nat /\ lost <= size
  BY <1>1, <1>4, AutocompleteAssumption
<1> HIDE DEF j, size
<1>6. i.at = "vary" /\ i.left = j.left - size /\ i.lost = j.lost + lost /\ i.q.op = "variations"
  BY <1>1, <1>3 DEF Varying
<1>7. i.left \in Nat /\ i.lost \in Nat /\ i.left + i.lost \in 0 .. Variations
  BY <1>1, <1>4, <1>5, <1>6, AutocompleteAssumption
<1>8. i \in Varying
  BY <1>1, <1>3, <1>6, <1>7 DEF Varying
<1>9. ASSUME NEW c PROVE Consistent(i, c)
  BY <1>6, <1>7, <1>8 DEF Consistent
<1>10. QED BY <1>1, <1>3, <1>9, InquiryGoes, KeptStays

LEMMA VariationsGo ==
  ASSUME FeedsInv, NEW r \in Inquirers, AnswerVariations(r), UNCHANGED corpus
  PROVE  FeedsInv'
<1> DEFINE q == inquiry[r].q
<1>1. /\ q \in Questions /\ q.op = "variations" /\ inquiry[r].at # "new"
      /\ kept' = kept /\ corpus' \in Corpora
  BY KindOf DEF FeedsInv, AnswerVariations, Consistent
<1>2. PICK heard \in VariationsHeard(inquiry[r].lost) : Raised(r, Reply(q, 200, "keywords", heard))
  BY DEF AnswerVariations, Asked
<1>3. heard \in {"full", "some", "failed", "limited"}
  BY <1>2, Zenon DEF VariationsHeard
<1> DEFINE a == Reply(q, 200, "keywords", heard)
<1>4. Tells(a)
  BY <1>1, <1>3, RepliesTell
<1>5. Raised(r, a)
  BY <1>2
<1> HIDE DEF a
<1>6. QED BY <1>1, <1>4, <1>5, RaisedGoes

LEMMA AutocompleteGoes ==
  ASSUME FeedsInv, NEW r \in Inquirers, AutocompleteStep(r), UNCHANGED corpus
  PROVE  FeedsInv'
BY SuggestionsGo, BatchGoes, VariationsGo DEF AutocompleteStep

LEMMA FeedsKeep == FeedsInv /\ [FeedsNext]_feedsVars => FeedsInv'
<1> SUFFICES ASSUME FeedsInv, [FeedsNext]_feedsVars PROVE FeedsInv'
  OBVIOUS
<1>1. CASE UNCHANGED feedsVars
  <2>1. inquiry' = inquiry /\ kept' = kept /\ corpus' = corpus
    BY <1>1 DEF feedsVars
  <2>2. KeptOK'
    BY <2>1, KeptStays
  <2>3. QED BY <2>1, <2>2 DEF FeedsInv
<1>2. CASE \E r \in Inquirers : (TrendsAsk(r) \/ TrendsStep(r)) /\ UNCHANGED corpus
  BY <1>2, TrendsAsked, TrendsGoes
<1>3. CASE \E r \in Inquirers : NewsAsk(r) /\ UNCHANGED corpus
  BY <1>3, NewsAsked
<1>4. CASE \E r \in Inquirers : NewsStep(r)
  BY <1>4, NewsGoes
<1>5. CASE \E r \in Inquirers : (AskSuggestions(r) \/ AutocompleteStep(r)) /\ UNCHANGED corpus
  BY <1>5, SuggestionsAsked, AutocompleteGoes
<1>6. CASE \E r \in Inquirers : (Lookup(r) \/ Store(r)) /\ UNCHANGED corpus
  BY <1>6, LookupGoes, StoreGoes
<1>7. CASE Expire /\ UNCHANGED corpus
  BY <1>7, ExpireGoes
<1>8. QED BY <1>1, <1>2, <1>3, <1>4, <1>5, <1>6, <1>7 DEF FeedsNext, Feeds

LEMMA FeedsStart == FeedsInit => FeedsInv
<1> SUFFICES ASSUME FeedsInit PROVE FeedsInv
  OBVIOUS
<1>1. inquiry = [r \in Inquirers |-> [at |-> "new"]] /\ kept = <<>> /\ corpus \in {"noNltk", "notSetUp"}
  BY DEF FeedsInit, FetchInit, NewsInit
<1>2. KeptOK
  BY <1>1 DEF KeptOK
<1>3. \A r \in Inquirers : Consistent(inquiry[r], corpus)
  BY <1>1 DEF Consistent
<1>4. QED BY <1>1, <1>2, <1>3 DEF FeedsInv, Corpora

LEMMA FeedsTell == FeedsInv => FeedsTypeOK /\ LossIsNotKept /\ AnswerTellsTheCause
<1> SUFFICES ASSUME FeedsInv PROVE FeedsTypeOK /\ LossIsNotKept /\ AnswerTellsTheCause
  OBVIOUS
<1>1. LossIsNotKept
  BY DEF FeedsInv, KeptOK, Keepable, LossIsNotKept
<1>2. ASSUME NEW r \in Inquirers, inquiry[r].at = "told" PROVE Tells(inquiry[r].answer)
  BY <1>2 DEF FeedsInv, Consistent
<1>3. AnswerTellsTheCause
  BY <1>2 DEF AnswerTellsTheCause, Tells
<1>4. \A k \in DOMAIN kept : kept[k] \in Replies /\ k = KeyOf(kept[k].of)
  BY DEF FeedsInv, KeptOK, Keepable, Tells
<1>5. ASSUME NEW r \in Inquirers
      PROVE  LET i == inquiry[r] IN
             /\ i.at # "new" => i.q \in Questions
             /\ i.at \in {"store", "geoStore", "geoFilter", "told"} => i.answer \in Replies
             /\ i.at = "decode" => i.left + i.good + i.failed + i.filtered \in 1 .. MaxArticles
             /\ i.at = "page" => i.hops \in 0 .. MaxRedirects + 1
             /\ i.at = "vary" => i.left + i.lost \in 0 .. Variations
  <2> DEFINE i == inquiry[r]
  <2>1. Consistent(i, corpus)
    BY DEF FeedsInv
  <2> HIDE DEF i
  <2>2. /\ i.at # "new" => i.q \in Questions
        /\ i.at \in {"store", "geoStore", "geoFilter", "told"} => i.answer \in Replies
    BY <2>1, KindOf DEF Replying
  <2>3. i.at = "page" => i.hops \in 0 .. MaxRedirects + 1
    BY <2>1, KindOf DEF Reading
  <2>4. /\ i.at = "decode" => i.left + i.good + i.failed + i.filtered \in 1 .. MaxArticles
        /\ i.at = "vary" => i.left + i.lost \in 0 .. Variations
    BY <2>1 DEF Consistent
  <2>5. QED BY <2>2, <2>3, <2>4 DEF i
<1>6. FeedsTypeOK
  BY <1>4, <1>5 DEF FeedsTypeOK, FeedsInv
<1>7. QED BY <1>1, <1>3, <1>6

\* Every request and every entry keeps its type, whichever router is asked.
THEOREM FeedsTypes == FeedsSpec => []FeedsTypeOK
BY FeedsStart, FeedsKeep, FeedsTell, PTL DEF FeedsSpec

\* Whatever requests for the same do, and whichever of them is done last: no entry is
\* of a failed call, of a rate limit or of a part of what there was; what is of a shape
\* unknown is kept for locations and suggestions only.
THEOREM LossIsLost == FeedsSpec => []LossIsNotKept
BY FeedsStart, FeedsKeep, FeedsTell, PTL DEF FeedsSpec

\* Of Trends, News and the suggestions of one query: the status tells a rate limit and
\* a failed call from an answer, also when it comes out of an entry that was fetched
\* for someone else; a shape unknown is hidden in locations and suggestions only.
THEOREM CauseIsTold == FeedsSpec => []AnswerTellsTheCause
BY FeedsStart, FeedsKeep, FeedsTell, PTL DEF FeedsSpec

(***************************************************************************)
(* All of them side by side.                                               *)
(***************************************************************************)

LEMMA LifeTyped ==
  /\ LifeInit => failed \in BOOLEAN
  /\ failed \in BOOLEAN /\ [LifeNext]_lifeVars => failed' \in BOOLEAN
  /\ LifeInv /\ failed \in BOOLEAN => LifeTypeOK
<1>1. LifeInit => failed \in BOOLEAN
  BY DEF LifeInit
<1>2. ASSUME [LifeNext]_lifeVars PROVE failed' = failed \/ failed' = TRUE
  <2>1. CASE UNCHANGED lifeVars
    BY <2>1 DEF lifeVars
  <2>2. CASE LifeNext
    BY <2>2, Zenon DEF LifeNext, StartTasks, StartServing, BeginShutdown, StopScheduler, StopLimiter,
         StopTask, CloseClients, GetManager, Received, GetClient, CreateJob, JobDone, OpenSession
  <2>3. QED BY <1>2, <2>1, <2>2
<1>3. failed \in BOOLEAN /\ [LifeNext]_lifeVars => failed' \in BOOLEAN
  BY <1>2, Zenon
<1>4. ASSUME LifeInv, NEW r \in HttpRequests PROVE handler[r].at \in {"idle", "client", "sent"}
  BY <1>4 DEF LifeInv, Handles, HttpIdle
<1>5. LifeInv /\ failed \in BOOLEAN => LifeTypeOK
  BY <1>4, Zenon DEF LifeInv, LifeTypeOK
<1>6. QED BY <1>1, <1>3, <1>5

LEMMA EachStarts ==
  MCInit => /\ CacheInit /\ TierInit /\ StoreInit /\ TranscriptInit /\ AuthInit /\ LifeInit
            /\ FeedsInit
BY DEF MCInit

\* A step is one component's, and a stutter of every other.
LEMMA EachSteps ==
  [MCNext]_storesVars =>
    /\ [CacheNext]_cacheVars /\ [TierNext]_tierVars /\ [StoreNext]_storeVars
    /\ [TranscriptNext]_transcriptVars /\ [AuthNext]_authVars /\ [LifeNext]_lifeVars
    /\ [FeedsNext]_feedsVars
BY DEF MCNext, storesVars

\* Side by side, every component's variables keep their types.
THEOREM StoresTypes == MCSpec => []StoresTypeOK
<1> DEFINE Whole == /\ CacheTypeOK /\ TierInv /\ StoreInv /\ TranscriptInv /\ AuthInv
                   /\ LifeInv /\ failed \in BOOLEAN /\ FeedsInv
<1>1. MCInit => Whole
  BY EachStarts, CacheStarts, TierStarts, StoreStarts, TranscriptsStart, AuthStarts, LifeStarts,
     LifeTyped, FeedsStart DEF CacheInv
<1>2. Whole /\ [MCNext]_storesVars => Whole'
  BY EachSteps, CacheTyped, TierKeeps, StoreKeeps, TranscriptsKeep, AuthChanges, LifeSteps, LifeTyped,
     FeedsKeep
<1>3. Whole => StoresTypeOK
  BY TranscriptsTell, AuthTold, LifeTyped, FeedsTell DEF TierInv, StoreInv, StoresTypeOK
<1>4. QED BY <1>1, <1>2, <1>3, PTL DEF MCSpec

\* Whatever a cache answers is bounded in age, in the response cache and in the
\* tiered one.  An entry of a ttl of 0 is stored without one and never runs out,
\* hence the premise.
THEOREM AnswersAreRecent == CacheTTL > 0 => (MCSpec => []CachedIsRecent)
<1> SUFFICES ASSUME CacheTTL > 0 PROVE MCSpec => []CachedIsRecent
  OBVIOUS
<1> DEFINE Whole == CacheInv /\ TierInv
<1>1. MCInit => Whole
  BY EachStarts, CacheStarts, TierStarts
<1>2. Whole /\ [MCNext]_storesVars => Whole'
  BY EachSteps, CacheKeeps, TierKeeps
<1>3. Whole => CachedIsRecent
  BY DEF CacheInv, TierInv, CallSays, CopiesDie, CachedIsRecent
<1>4. QED BY <1>1, <1>2, <1>3, PTL DEF MCSpec
================================================================================
