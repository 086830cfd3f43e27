------------------------------ MODULE TieredCache ------------------------------
(***************************************************************************)
(* TieredCacheBackend: each worker's memory (L1) over Redis (L2).  Reads   *)
(* go to L1 first and copy what they find in L2; writes go to both, one    *)
(* after the other.  One key.                                              *)
(*                                                                         *)
(* Time goes in ticks, and a reply of Redis is under way for less than one *)
(* (its socket timeout is 5 seconds).  The application uses CacheManager;  *)
(* create_cache_backend offers this backend beside it.                     *)
(***************************************************************************)
EXTENDS Naturals, FiniteSets

CONSTANTS
  TierWorkers,  \* worker processes
  TierCallers,  \* coroutines, reused for one call after another
  Values,       \* what may be cached, a new one for each set
  NoValue,
  TierTTL,      \* the ttl of a set
  L1Cap,        \* 300 seconds: no set keeps a copy in memory for longer
  PromoteFor,   \* 60 seconds: how long a promoted copy is kept
  MaxTierFaults \* bound: Redis calls that fail

ASSUME TierAssumption ==
  /\ NoValue \notin Values
  /\ {TierTTL, L1Cap, PromoteFor} \subseteq Nat \ {0} /\ MaxTierFaults \in Nat

VARIABLES
  l1,       \* each worker's copy: the value and the time left
  l2,       \* the one in Redis
  calls,    \* what each coroutine is at
  age,      \* history: ticks since a value was set
  replaced, \* history: ticks since a value was deleted or replaced in Redis
  tierErrs  \* failures so far, for the bound

tierVars == <<l1, l2, calls, age, replaced, tierErrs>>

Least(m, n)  == IF m < n THEN m ELSE n
Most(m, n)   == IF m < n THEN n ELSE m
CopyLife     == Most(Least(TierTTL, L1Cap), PromoteFor)
Late         == TierTTL + PromoteFor + 1     \* where ages stop counting
Never        == Late + 1                     \* not replaced

Nothing      == [value |-> NoValue, left |-> 0]
Copy(v, ttl) == [value |-> v, left |-> ttl]
Copies       == [value : Values \cup {NoValue}, left : 0 .. Most(TierTTL, PromoteFor)]

TierSteps == {"idle", "getL2", "promote", "setL2", "delL2", "hit"}
TierIdle  == [at |-> "idle"]
TierCalls == {TierIdle} \cup [at : TierSteps, worker : TierWorkers, value : Values \cup {NoValue}]

TierInit ==
  /\ l1 = [w \in TierWorkers |-> Nothing] /\ l2 = Nothing
  /\ calls = [c \in TierCallers |-> TierIdle]
  /\ age = [v \in Values |-> 0] /\ replaced = [v \in Values |-> Never]
  /\ tierErrs = 0

Move(c, step, w, v) ==
  calls' = [calls EXCEPT ![c] = [at |-> step, worker |-> w, value |-> v]]
Done(c) == calls' = [calls EXCEPT ![c] = TierIdle]
Fails   == tierErrs < MaxTierFaults /\ tierErrs' = tierErrs + 1

\* Redis now has v: what it had before is gone, as far as callers can know.
PutL2(copy) ==
  /\ l2' = copy
  /\ replaced' = [v \in Values |-> IF v = l2.value /\ v # copy.value THEN 0 ELSE replaced[v]]

---------------------------------------------------------------------------
(* get.                                                                    *)

GetL1(c, w) ==
  /\ calls[c] = TierIdle
  /\ IF l1[w].left > 0
     THEN Move(c, "hit", w, l1[w].value) /\ UNCHANGED l1
     ELSE Move(c, "getL2", w, NoValue) /\ l1' = [l1 EXCEPT ![w] = Nothing]
  /\ UNCHANGED <<l2, age, replaced, tierErrs>>

\* Redis answers; what it answers is under way.
GetL2(c) ==
  /\ calls[c].at = "getL2"
  /\ \/ l2 # Nothing /\ Move(c, "promote", calls[c].worker, l2.value) /\ UNCHANGED tierErrs
     \/ l2 = Nothing /\ Done(c) /\ UNCHANGED tierErrs
     \/ Fails /\ Done(c)
  /\ UNCHANGED <<l1, l2, age, replaced>>

\* The answer arrives, is copied to L1 and returned.
Promote(c) ==
  /\ calls[c].at = "promote"
  /\ LET w == calls[c].worker IN
       /\ l1' = [l1 EXCEPT ![w] = Copy(calls[c].value, PromoteFor)]
       /\ Move(c, "hit", w, calls[c].value)
  /\ UNCHANGED <<l2, age, replaced, tierErrs>>

---------------------------------------------------------------------------
(* set and delete: L1, then L2.  clear of the one key goes the same way.   *)

\* Values nothing holds: any one of these stands for a new one.
Unused   == Values \ ({l1[w].value : w \in TierWorkers} \cup {l2.value}
                      \cup {calls[c].value : c \in {d \in TierCallers : calls[d] # TierIdle}})
NewValue == CHOOSE v \in Unused : TRUE

\* A slip: the memory keeps a value for all of its ttl.
SetL1Uncapped(c, w) ==
  /\ calls[c] = TierIdle /\ Unused # {}
  /\ l1' = [l1 EXCEPT ![w] = Copy(NewValue, TierTTL)]
  /\ Move(c, "setL2", w, NewValue)
  /\ age' = [age EXCEPT ![NewValue] = 0]
  /\ replaced' = [replaced EXCEPT ![NewValue] = Never]
  /\ UNCHANGED <<l2, tierErrs>>

SetL1(c, w) ==
  /\ calls[c] = TierIdle /\ Unused # {}
  /\ l1' = [l1 EXCEPT ![w] = Copy(NewValue, Least(TierTTL, L1Cap))]
  /\ Move(c, "setL2", w, NewValue)
  /\ age' = [age EXCEPT ![NewValue] = 0]
  /\ replaced' = [replaced EXCEPT ![NewValue] = Never]
  /\ UNCHANGED <<l2, tierErrs>>

SetL2(c) ==
  /\ calls[c].at = "setL2"
  /\ \/ PutL2(Copy(calls[c].value, TierTTL)) /\ UNCHANGED tierErrs
     \/ Fails /\ UNCHANGED <<l2, replaced>>
  /\ Done(c)
  /\ UNCHANGED <<l1, age>>

DeleteL1(c, w) ==
  /\ calls[c] = TierIdle
  /\ l1' = [l1 EXCEPT ![w] = Nothing]
  /\ Move(c, "delL2", w, NoValue)
  /\ UNCHANGED <<l2, age, replaced, tierErrs>>

DeleteL2(c) ==
  /\ calls[c].at = "delL2"
  /\ \/ PutL2(Nothing) /\ UNCHANGED tierErrs
     \/ Fails /\ UNCHANGED <<l2, replaced>>
  /\ Done(c)
  /\ UNCHANGED <<l1, age>>

\* cleanup_expired and exists drop an expired copy.
Cleanup(w) ==
  /\ l1[w] # Nothing /\ l1[w].left = 0
  /\ l1' = [l1 EXCEPT ![w] = Nothing]
  /\ UNCHANGED <<l2, calls, age, replaced, tierErrs>>

Return(c) ==
  /\ calls[c].at = "hit" /\ Done(c)
  /\ UNCHANGED <<l1, l2, age, replaced, tierErrs>>

---------------------------------------------------------------------------
Less(copy) == [copy EXCEPT !.left = IF @ > 0 THEN @ - 1 ELSE 0]
More(n)    == IF n < Late THEN n + 1 ELSE n

\* No call to Redis is under way for a tick, and no hit waits to be returned.
TierTick ==
  /\ \A c \in TierCallers : calls[c] = TierIdle
  /\ l2' = IF Less(l2).left = 0 THEN Nothing ELSE Less(l2)
  /\ l1' = [w \in TierWorkers |-> Less(l1[w])]
  /\ age' = [v \in Values |-> IF v \in Unused THEN 0 ELSE More(age[v])]
  /\ replaced' = [v \in Values |-> IF v \in Unused THEN Never ELSE More(replaced[v])]
  /\ UNCHANGED <<calls, tierErrs>>

TierNext ==
  \/ \E c \in TierCallers :
       \/ \E w \in TierWorkers : GetL1(c, w) \/ SetL1(c, w) \/ DeleteL1(c, w)
       \/ GetL2(c) \/ Promote(c) \/ SetL2(c) \/ DeleteL2(c) \/ Return(c)
  \/ \E w \in TierWorkers : Cleanup(w)
  \/ TierTick

TierSpec == TierInit /\ [][TierNext]_tierVars

TierTypeOK ==
  /\ l1 \in [TierWorkers -> Copies] /\ l2 \in Copies
  /\ calls \in [TierCallers -> TierCalls]
  /\ age \in [Values -> 0 .. Late] /\ replaced \in [Values -> 0 .. Never]
  /\ tierErrs \in 0 .. MaxTierFaults

\* A copy in one worker's memory outlives what another worker does to the key
\* (TieredCacheBackend.get and set, cache_backends.py:421-452), but not for
\* long: a hit is of a value set less than the ttl and one promotion before,
\* and deleted or replaced in Redis, if at all, within one copy's life.
CopiesDie ==
  \A c \in TierCallers :
    calls[c].at = "hit" =>
      LET v == calls[c].value IN
      /\ age[v] < TierTTL + PromoteFor
      /\ replaced[v] # Never => replaced[v] < CopyLife
=============================================================================
