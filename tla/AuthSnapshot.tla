------------------------------ MODULE AuthSnapshot ------------------------------
(***************************************************************************)
(* The snapshot every authentication is decided from: the settings object  *)
(* it was made of and its keys, replaced as a whole, while reload_settings *)
(* replaces the settings.  Requests run in threads: another may run        *)
(* between any two lines.  Settings objects are compared by identity, and  *)
(* get_settings, an lru_cache, may build two of them at once.              *)
(***************************************************************************)
EXTENDS Naturals, Sequences, FiniteSets

CONSTANTS
  AuthThreads,  \* threads that authenticate, one request after another
  Headers,      \* values of X-API-Key that are sent
  NoHeader,     \* none is
  Configs,      \* configurations: whether auth is on, the accepted keys
  MaxReloads    \* bound: reloads

ASSUME AuthAssumption ==
  /\ Configs \subseteq [on : BOOLEAN, keys : SUBSET Headers]
  /\ NoHeader \notin Headers /\ MaxReloads \in Nat

VARIABLES
  instances,   \* the settings objects made so far: the configuration of each
  environment, \* the configuration a new one would have
  cached,      \* get_settings' cached object, None after cache_clear
  published,   \* _auth_state: the object its keys are of
  lockHolder,  \* who holds _refresh_lock
  request,     \* what each thread is at
  reload,      \* what reload_settings is at
  overtaken    \* history: threads that had built an object of the settings and not yet
               \* cached it when the last reload began

authVars == <<instances, environment, cached, published, lockHolder, request, reload,
              overtaken>>

None      == 0
Objects   == 1 .. Len(instances)
Nobody    == "nobody"
AuthIdle  == [at |-> "idle"]
NotAsked  == [at |-> "idle", left |-> MaxReloads, mine |-> None]

AuthInit ==
  /\ \E c \in Configs : instances = <<c>> /\ environment = c
  /\ cached = 1 /\ published = 1 /\ lockHolder = Nobody
  /\ request = [t \in AuthThreads |-> AuthIdle]
  /\ reload = NotAsked /\ overtaken = {}

---------------------------------------------------------------------------
(* get_settings.                                                           *)

\* A miss builds an object of what the environment says ...
Build == instances' = Append(instances, environment)

\* ... and caches it, unless another call has cached its own meanwhile; a call
\* returns the object it has built all the same.
Cache(mine) == cached' = IF cached = None THEN mine ELSE cached

---------------------------------------------------------------------------
(* reload_settings, after the environment has changed.                     *)

ChangeAndClear ==
  /\ reload.at = "idle" /\ reload.left > 0
  /\ environment' \in Configs
  /\ cached' = None
  /\ reload' = [reload EXCEPT !.at = "get", !.left = @ - 1]
  /\ request' = [t \in AuthThreads |->
       IF request[t] = AuthIdle THEN AuthIdle ELSE [request[t] EXCEPT !.settled = FALSE]]
  /\ overtaken' = {t \in AuthThreads : request[t].at = "store"}
  /\ UNCHANGED <<instances, published, lockHolder>>

ReloadGets ==
  /\ reload.at = "get"
  /\ IF cached # None
     THEN reload' = [reload EXCEPT !.at = "idle", !.mine = None] /\ UNCHANGED instances
     ELSE Build /\ reload' = [reload EXCEPT !.at = "store", !.mine = Len(instances')]
  /\ UNCHANGED <<environment, cached, published, lockHolder, request, overtaken>>

ReloadStores ==
  /\ reload.at = "store"
  /\ Cache(reload.mine)
  /\ reload' = [reload EXCEPT !.at = "idle", !.mine = None]
  /\ UNCHANGED <<instances, environment, published, lockHolder, request, overtaken>>

---------------------------------------------------------------------------
(* authenticate_api_key.                                                   *)

AtAuth(t, step) == request[t].at = step
GoOn(t, step)   == request' = [request EXCEPT ![t].at = step]

\* settled (history): no reload was under way when the request arrived, and none
\* has begun since.
Arrive(t) ==
  /\ request[t] = AuthIdle
  /\ request' = [request EXCEPT ![t] =
       [at |-> "get", mine |-> None, settled |-> reload.at = "idle", state |-> None]]
  /\ UNCHANGED <<instances, environment, cached, published, lockHolder, reload, overtaken>>

\* _auth_snapshot calls get_settings twice, the second time under the lock.
Locked(t) == lockHolder = t
Compare(t) == IF Locked(t) THEN "recheck" ELSE "compare"

GetSettings(t) ==
  /\ AtAuth(t, "get")
  /\ IF cached # None
     THEN request' = [request EXCEPT ![t].at = Compare(t), ![t].mine = cached] /\ UNCHANGED instances
     ELSE Build /\ request' = [request EXCEPT ![t].at = "store", ![t].mine = Len(instances')]
  /\ UNCHANGED <<environment, cached, published, lockHolder, reload, overtaken>>

StoreSettings(t) ==
  /\ AtAuth(t, "store")
  /\ Cache(request[t].mine) /\ GoOn(t, Compare(t))
  /\ UNCHANGED <<instances, environment, published, lockHolder, reload, overtaken>>

\* A slip: whatever snapshot there is will do.
CompareNothing(t) ==
  /\ AtAuth(t, "compare")
  /\ request' = [request EXCEPT ![t].at = "decide", ![t].state = published]
  /\ UNCHANGED <<instances, environment, cached, published, lockHolder, reload, overtaken>>

\* The snapshot is of these settings; otherwise it is made again, under the lock.
CompareState(t) ==
  /\ AtAuth(t, "compare")
  /\ IF published = request[t].mine
     THEN request' = [request EXCEPT ![t].at = "decide", ![t].state = published]
     ELSE GoOn(t, "lock")
  /\ UNCHANGED <<instances, environment, cached, published, lockHolder, reload, overtaken>>

TakeLock(t) ==
  /\ AtAuth(t, "lock") /\ lockHolder = Nobody
  /\ lockHolder' = t /\ GoOn(t, "get")
  /\ UNCHANGED <<instances, environment, cached, published, reload, overtaken>>

\* initialize_api_keys publishes the snapshot in one assignment; what is returned
\* is what is published when the lock is let go.
Recheck(t) ==
  /\ AtAuth(t, "recheck")
  /\ published' = request[t].mine
  /\ request' = [request EXCEPT ![t].at = "decide", ![t].state = published']
  /\ lockHolder' = Nobody
  /\ UNCHANGED <<instances, environment, cached, reload, overtaken>>

\* Auth is off; no header: 401; no keys: 500; an unknown key: 401.
Verdict(c, header) ==
  IF ~c.on THEN "passed"
  ELSE IF header = NoHeader THEN "missing"
  ELSE IF c.keys = {} THEN "unconfigured"
  ELSE IF header \in c.keys THEN "passed" ELSE "invalid"

\* The request is decided, whichever header it has, and the thread takes the next.
Decide(t) ==
  /\ AtAuth(t, "decide")
  /\ request' = [request EXCEPT ![t] = AuthIdle]
  /\ UNCHANGED <<instances, environment, cached, published, lockHolder, reload, overtaken>>

AuthStep(t) ==
  \/ GetSettings(t) \/ StoreSettings(t) \/ CompareState(t) \/ TakeLock(t)
  \/ Recheck(t) \/ Decide(t)

AuthNext ==
  \/ ChangeAndClear \/ ReloadGets \/ ReloadStores
  \/ \E t \in AuthThreads : Arrive(t) \/ AuthStep(t)

AuthSpec == AuthInit /\ [][AuthNext]_authVars

AuthTypeOK ==
  /\ instances \in Seq(Configs) /\ environment \in Configs
  /\ cached \in Objects \cup {None} /\ published \in Objects
  /\ lockHolder \in AuthThreads \cup {Nobody} /\ overtaken \subseteq AuthThreads
  /\ \A t \in AuthThreads : request[t] # AuthIdle =>
       /\ request[t].mine \in Objects \cup {None} /\ request[t].settled \in BOOLEAN
       /\ AtAuth(t, "decide") => request[t].state \in Objects

DecidedByTheNew(t) ==
  \A header \in Headers \cup {NoHeader} :
    Verdict(instances[request[t].state], header) = Verdict(environment, header)

\* auth.py:98-126: a reload takes effect immediately.  A request that arrives once
\* the reload is over is decided by the configuration last reloaded, whatever snapshot
\* a thread that is still at the old one publishes meanwhile; unless some thread had
\* an object of the old one to cache when the last reload began.
ReloadTakesEffect ==
  \A t \in AuthThreads :
    AtAuth(t, "decide") /\ request[t].settled /\ overtaken = {} => DecidedByTheNew(t)

\* The same, without the exception: "reload_settings() (or any get_settings.
\* cache_clear()) takes effect immediately rather than only on the next authenticated
\* request" (auth.py:102-104).
ReloadAlwaysTakesEffect ==
  \A t \in AuthThreads : AtAuth(t, "decide") /\ request[t].settled => DecidedByTheNew(t)
=============================================================================
