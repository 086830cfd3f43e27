----------------------------- MODULE ResponseCache -----------------------------
(***************************************************************************)
(* The response cache: get_cached_or_fetch over a cache that is in Redis   *)
(* where the worker has a client, and in the worker's own memory where it  *)
(* has not, and also for every single call to Redis that fails.  One key.  *)
(*                                                                         *)
(* Time goes in ticks.  RedisManager.is_available does not change when an  *)
(* operation fails, so a worker's link is fixed when it starts.            *)
(***************************************************************************)
EXTENDS Naturals, FiniteSets

CONSTANTS
  CacheWorkers,   \* worker processes
  CacheCallers,   \* request handlers, reused for one request after another
  CacheTTL,       \* the ttl of the entry
  MaxCacheFaults  \* bound: Redis calls that fail, fetches that fail

ASSUME CacheAssumption ==
  CacheTTL \in Nat /\ MaxCacheFaults \in Nat

VARIABLES
  linked,    \* workers whose RedisManager.is_available
  shared,    \* the entry in Redis
  local,     \* each worker's _cache_store
  asking,    \* what each handler is at
  erring     \* failures so far, for the bound

cacheVars == <<linked, shared, local, asking, erring>>

\* An entry: the time left, Forever where no expiry was set, and (history) the
\* ticks since it was stored.  What a fetch that failed left behind is no answer.
Forever == CacheTTL + 1
OldAge  == CacheTTL + 2
Absent  == [left |-> 0, age |-> OldAge, good |-> FALSE]
Entries == [left : 0 .. Forever, age : 0 .. OldAge, good : BOOLEAN]
Fresh(left, good) == [left |-> left, age |-> 0, good |-> good]

\* A handler between two awaits; told: the age and goodness of its answer.
Steps == {"getRedis", "getMemory", "fetch", "setRedis", "setMemory",
          "delRedis", "delMemory", "raised"}
CacheIdle == [at |-> "idle"]
ToldOf(e)   == [at |-> "told", age |-> e.age, good |-> e.good]
Doing     == [at : Steps, worker : CacheWorkers]
           \cup [at : {"told"}, age : 0 .. OldAge, good : BOOLEAN] \cup {CacheIdle}

CacheInit ==
  /\ linked \in SUBSET CacheWorkers
  /\ shared = Absent
  /\ local = [w \in CacheWorkers |-> Absent]
  /\ asking = [c \in CacheCallers |-> CacheIdle]
  /\ erring = 0

At(c, step) == asking[c].at = step
Goto(c, step) == asking' = [asking EXCEPT ![c] = [at |-> step, worker |-> @.worker]]
Settle(c, e)  == asking' = [asking EXCEPT ![c] = ToldOf(e)]

\* A call to Redis that fails: RedisManager logs and answers None, False or 0.
Errs == erring < MaxCacheFaults /\ erring' = erring + 1

---------------------------------------------------------------------------
(* get.                                                                    *)

Look(c, w) ==
  /\ At(c, "idle")
  /\ asking' = [asking EXCEPT ![c] =
       [at |-> IF w \in linked THEN "getRedis" ELSE "getMemory", worker |-> w]]
  /\ UNCHANGED <<linked, shared, local, erring>>

\* A hit answers; a miss and a failure go on to the memory.
GetShared(c) ==
  /\ At(c, "getRedis")
  /\ \/ shared # Absent /\ Settle(c, shared) /\ UNCHANGED erring
     \/ shared = Absent /\ Goto(c, "getMemory") /\ UNCHANGED erring
     \/ Errs /\ Goto(c, "getMemory")
  /\ UNCHANGED <<linked, shared, local>>

\* Under _cache_lock: an expired entry is dropped.
GetLocal(c) ==
  /\ At(c, "getMemory")
  /\ LET w == asking[c].worker IN
       IF local[w].left > 0
       THEN Settle(c, local[w]) /\ UNCHANGED local
       ELSE Goto(c, "fetch") /\ local' = [local EXCEPT ![w] = Absent]
  /\ UNCHANGED <<linked, shared, erring>>

---------------------------------------------------------------------------
(* The fetch and set.                                                      *)

StoreStep(c) == IF asking[c].worker \in linked THEN "setRedis" ELSE "setMemory"

\* fetch_func raises, and nothing is stored.
Fetch(c) ==
  /\ At(c, "fetch")
  /\ \/ Goto(c, StoreStep(c)) /\ UNCHANGED erring
     \/ Errs /\ Goto(c, "raised")
  /\ UNCHANGED <<linked, shared, local>>

\* SETEX, or SET where the ttl is 0; the copy in memory stays as it is.
SetShared(c) ==
  /\ At(c, "setRedis")
  /\ \/ /\ shared' = Fresh(IF CacheTTL = 0 THEN Forever ELSE CacheTTL, TRUE)
        /\ Settle(c, shared') /\ UNCHANGED erring
     \/ Errs /\ Goto(c, "setMemory") /\ UNCHANGED shared
  /\ UNCHANGED <<linked, local>>

SetLocal(c) ==
  /\ At(c, "setMemory")
  /\ LET w == asking[c].worker IN
       local' = [local EXCEPT ![w] = Fresh(CacheTTL, TRUE)] /\ Settle(c, local'[w])
  /\ UNCHANGED <<linked, shared, erring>>

---------------------------------------------------------------------------
(* delete, and clear of the one key: the store, then the worker's memory.  *)

Delete(c, w) ==
  /\ At(c, "idle")
  /\ asking' = [asking EXCEPT ![c] =
       [at |-> IF w \in linked THEN "delRedis" ELSE "delMemory", worker |-> w]]
  /\ UNCHANGED <<linked, shared, local, erring>>

DeleteShared(c) ==
  /\ At(c, "delRedis")
  /\ \/ shared' = Absent /\ UNCHANGED erring
     \/ Errs /\ UNCHANGED shared
  /\ Goto(c, "delMemory")
  /\ UNCHANGED <<linked, local>>

DeleteLocal(c) ==
  /\ At(c, "delMemory")
  /\ local' = [local EXCEPT ![asking[c].worker] = Absent]
  /\ asking' = [asking EXCEPT ![c] = CacheIdle]
  /\ UNCHANGED <<linked, shared, erring>>

\* cleanup_cache_store, every minute; the application does not start it.
Sweep(w) ==
  /\ local[w] # Absent /\ local[w].left = 0
  /\ local' = [local EXCEPT ![w] = Absent]
  /\ UNCHANGED <<linked, shared, asking, erring>>

---------------------------------------------------------------------------
Older(e) == [e EXCEPT !.age = IF @ < OldAge THEN @ + 1 ELSE @,
                      !.left = IF @ \in 1 .. CacheTTL THEN @ - 1 ELSE @]

\* Redis drops what expires; the memory keeps it until it is looked at.
Tick ==
  /\ shared' = IF shared # Absent /\ Older(shared).left = 0 THEN Absent ELSE Older(shared)
  /\ local' = [w \in CacheWorkers |-> IF local[w] = Absent THEN Absent ELSE Older(local[w])]
  /\ UNCHANGED <<linked, asking, erring>>

\* The answer is sent, and the handler serves the next request.
AnswerCall(c) ==
  /\ asking[c].at \in {"told", "raised"}
  /\ asking' = [asking EXCEPT ![c] = CacheIdle]
  /\ UNCHANGED <<linked, shared, local, erring>>

CallerStep(c) ==
  \/ GetShared(c) \/ GetLocal(c) \/ Fetch(c) \/ SetShared(c) \/ SetLocal(c)
  \/ DeleteShared(c) \/ DeleteLocal(c) \/ AnswerCall(c)

CacheNext ==
  \/ \E c \in CacheCallers : \/ CallerStep(c)
                             \/ \E w \in CacheWorkers : Look(c, w) \/ Delete(c, w)
  \/ \E w \in CacheWorkers : Sweep(w)
  \/ Tick

CacheSpec == CacheInit /\ [][CacheNext]_cacheVars

CacheTypeOK ==
  /\ linked \subseteq CacheWorkers
  /\ shared \in Entries
  /\ local \in [CacheWorkers -> Entries]
  /\ asking \in [CacheCallers -> Doing]
  /\ erring \in 0 .. MaxCacheFaults

\* docs/FAQ.md:119: a response is cached for CACHE_TTL seconds.  Whichever
\* store answers, after whichever failures, and however old a copy a write to
\* the other store has left behind (get and set, cache_manager.py:235-328): what a
\* caller is told was stored less than the ttl before, and came of a fetch that
\* succeeded.
StaleIsBounded ==
  \A c \in CacheCallers :
    At(c, "told") => asking[c].good /\ asking[c].age < CacheTTL
=============================================================================
