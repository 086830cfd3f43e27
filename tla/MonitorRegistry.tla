---------------------------- MODULE MonitorRegistry ----------------------------
(***************************************************************************)
(* Which place monitors exist, and which of them the scheduler can find.   *)
(*                                                                         *)
(* app/services/google_maps_monitors.py keeps one record per monitor and   *)
(* one "owner index" record per owner that has a monitor.  The scheduler   *)
(* walks the index, so a monitor whose owner is missing from it is never   *)
(* checked again.  Both kinds of record live in the RecordStore and both   *)
(* carry its TTL.  This module follows the two kinds of record through     *)
(* every handler that writes them: create, delete, the check (run by the   *)
(* scheduler of each worker, or by check_monitor_now) and expiry.          *)
(*                                                                         *)
(* One action is the code between two awaits that reach the shared store   *)
(* or the scraped site.  An actor is a scheduler (one per uvicorn worker)  *)
(* or an API request.  Time is counted in hours: expiry and next_check     *)
(* differ by far more than one handler takes.  What a check observes and   *)
(* what it delivers are in MonitorCheck and WebhookDelivery.               *)
(***************************************************************************)
EXTENDS Naturals, FiniteSets

CONSTANTS
  Monitors,     \* monitor ids a uuid4 may produce; each is issued once
  Owners,       \* owner ids (keyed digests of API keys)
  OwnerOf,      \* the owner under whose key a monitor id is stored
  Interval,     \* check_interval_hours of each monitor, after max(1, ...)
  TTL,          \* record_store.DEFAULT_TTL_SECONDS, in hours
  Schedulers,   \* one _scheduler_loop task per worker process
  Clients,      \* concurrent API requests
  NoMonitor,    \* "no monitor in hand"
  MaxClock,     \* bound: hours explored
  MaxDeletes,   \* bound: DELETE requests accepted
  MaxFailures,  \* bound: Redis errors and worker crashes
  Prompt        \* TRUE: within each hour the schedulers finish what is due

ASSUME RegistryAssumption ==
  /\ OwnerOf \in [Monitors -> Owners]
  /\ Interval \in [Monitors -> Nat \ {0}]
  /\ TTL \in Nat \ {0}
  /\ MaxClock \in Nat /\ MaxDeletes \in Nat /\ MaxFailures \in Nat
  /\ NoMonitor \notin Monitors
  /\ Schedulers \cap Clients = {}
  /\ Prompt \in BOOLEAN

VARIABLES
  clock,        \* hours since the first request
  expiry,       \* expiry[m]: when the store drops monitor m; 0 = no record
  nextCheck,    \* the record's next_check (0 when there is no record)
  indexExpiry,  \* indexExpiry[o]: the same for the owner index; 0 = no record
  pc,           \* where each actor is, between two awaits
  mon,          \* the monitor an actor is handling
  startedAt,    \* the `now` a check took before its scrape
  scanned,      \* the keys SCAN gave _forget_owner_if_empty
  owners,       \* a scheduler tick: owners still to visit
  due,          \* a scheduler tick: listed monitors still to check
  cutoff,       \* a scheduler tick: run_due_checks' cutoff
  issued,       \* monitor ids handed out so far
  registered,   \* monitors whose create_monitor has returned
  deleted,      \* monitors whose store.delete returned True
  deletes,      \* deletions so far, for the bound
  failures,     \* failures so far, for the bound
  exposed       \* history: owners whose index entry may lag their monitors

store  == <<expiry, nextCheck, indexExpiry>>
hand   == <<mon, startedAt, scanned>>
tick   == <<owners, due, cutoff>>
ledger == <<issued, registered, deleted, deletes, failures>>
vars   == <<clock, store, pc, hand, tick, ledger, exposed>>

Actors  == Schedulers \cup Clients
Rest(a) == IF a \in Schedulers THEN "tick" ELSE "idle"

Stored(m)   == expiry[m] # 0
Live(m)     == expiry[m] > clock
Indexed(o)  == indexExpiry[o] # 0
Due(m)      == Stored(m) /\ nextCheck[m] <= clock
OwnedBy(o)  == {m \in Monitors : OwnerOf[m] = o}

Init ==
  /\ clock = 0
  /\ expiry = [m \in Monitors |-> 0]
  /\ nextCheck = [m \in Monitors |-> 0]
  /\ indexExpiry = [o \in Owners |-> 0]
  /\ pc = [a \in Actors |-> IF a \in Schedulers THEN "sleep" ELSE "idle"]
  /\ mon = [a \in Actors |-> NoMonitor]
  /\ startedAt = [a \in Actors |-> 0]
  /\ scanned = [a \in Actors |-> {}]
  /\ owners = [s \in Schedulers |-> {}]
  /\ due = [s \in Schedulers |-> {}]
  /\ cutoff = [s \in Schedulers |-> 0]
  /\ issued = {} /\ registered = {} /\ deleted = {}
  /\ deletes = 0 /\ failures = 0
  /\ exposed = {}

---------------------------------------------------------------------------
(* The writes of the record store.                                         *)

\* A slip: the write keeps the TTL the record already had.
PutMonitorKeepingTTL(m, next) ==
  /\ expiry' = [expiry EXCEPT ![m] = IF Stored(m) THEN @ ELSE clock + TTL]
  /\ nextCheck' = [nextCheck EXCEPT ![m] = next]

\* RecordStore.put of monitor m: SET with ex=TTL renews the record's life.
PutMonitor(m, next) ==
  /\ expiry' = [expiry EXCEPT ![m] = clock + TTL]
  /\ nextCheck' = [nextCheck EXCEPT ![m] = next]

DropMonitor(m) ==
  /\ expiry' = [expiry EXCEPT ![m] = 0]
  /\ nextCheck' = [nextCheck EXCEPT ![m] = 0]

\* An actor lets go of what it was handling.
Release(a) ==
  /\ mon' = [mon EXCEPT ![a] = NoMonitor]
  /\ startedAt' = [startedAt EXCEPT ![a] = 0]
  /\ scanned' = [scanned EXCEPT ![a] = {}]

---------------------------------------------------------------------------
(* create_monitor: put the monitor, then remember its owner.               *)

CreateMonitor(c, m) ==
  /\ pc[c] = "idle" /\ m \notin issued
  /\ PutMonitor(m, clock + Interval[m])
  /\ pc' = [pc EXCEPT ![c] = "remember_created"]
  /\ mon' = [mon EXCEPT ![c] = m]
  /\ issued' = issued \cup {m}
  /\ UNCHANGED <<clock, indexExpiry, startedAt, scanned, tick,
                 registered, deleted, deletes, failures, exposed>>

\* A slip: an owner already in the index is not put again.
RememberOwnerOnce(a) ==
  LET o == OwnerOf[mon[a]] IN
  /\ pc[a] \in {"remember_created", "remember"}
  /\ indexExpiry' = [indexExpiry EXCEPT ![o] = IF Indexed(o) THEN @ ELSE clock + TTL]
  /\ exposed' = IF \A m \in OwnedBy(o) : Stored(m) => Live(m)
                THEN exposed \ {o} ELSE exposed
  /\ registered' = IF pc[a] = "remember_created"
                   THEN registered \cup {mon[a]} ELSE registered
  /\ pc' = [pc EXCEPT ![a] = Rest(a)]
  /\ Release(a)
  /\ UNCHANGED <<clock, expiry, nextCheck, tick, issued, deleted, deletes,
                 failures>>

\* _remember_owner, the last step of create_monitor and of check_monitor.
RememberOwner(a) ==
  /\ pc[a] \in {"remember_created", "remember"}
  /\ indexExpiry' = [indexExpiry EXCEPT ![OwnerOf[mon[a]]] = clock + TTL]
  /\ exposed' = IF \A m \in OwnedBy(OwnerOf[mon[a]]) : Stored(m) => Live(m)
                THEN exposed \ {OwnerOf[mon[a]]} ELSE exposed
  /\ registered' = IF pc[a] = "remember_created"
                   THEN registered \cup {mon[a]} ELSE registered
  /\ pc' = [pc EXCEPT ![a] = Rest(a)]
  /\ Release(a)
  /\ UNCHANGED <<clock, expiry, nextCheck, tick, issued, deleted, deletes,
                 failures>>

---------------------------------------------------------------------------
(* delete_monitor and _forget_owner_if_empty.  list_for_owner on Redis is  *)
(* a SCAN followed by one GET per key, so it has two steps of its own.     *)

DeleteMonitor(c, m) ==
  /\ pc[c] = "idle" /\ deletes < MaxDeletes /\ Stored(m)
  /\ DropMonitor(m)
  /\ pc' = [pc EXCEPT ![c] = "scan"]
  /\ mon' = [mon EXCEPT ![c] = m]
  /\ deleted' = deleted \cup {m}
  /\ deletes' = deletes + 1
  /\ UNCHANGED <<clock, indexExpiry, startedAt, scanned, tick, issued,
                 registered, failures, exposed>>

ScanOwner(c) ==
  /\ pc[c] = "scan"
  /\ scanned' = [scanned EXCEPT ![c] =
                   {m \in OwnedBy(OwnerOf[mon[c]]) : Stored(m)}]
  /\ pc' = [pc EXCEPT ![c] = "read_scanned"]
  /\ UNCHANGED <<clock, store, mon, startedAt, tick, ledger, exposed>>

\* A slip: the owner to forget is let go of before the deletion.
ReadScannedLosingOwner(c) ==
  /\ pc[c] = "read_scanned"
  /\ pc' = [pc EXCEPT ![c] = IF \E m \in scanned[c] : Stored(m)
                             THEN "idle" ELSE "forget"]
  /\ Release(c)
  /\ UNCHANGED <<clock, store, tick, ledger, exposed>>

ReadScanned(c) ==
  /\ pc[c] = "read_scanned"
  /\ IF \E m \in scanned[c] : Stored(m)
       THEN /\ pc' = [pc EXCEPT ![c] = "idle"]
            /\ Release(c)
       ELSE /\ pc' = [pc EXCEPT ![c] = "forget"]
            /\ scanned' = [scanned EXCEPT ![c] = {}]
            /\ UNCHANGED <<mon, startedAt>>
  /\ UNCHANGED <<clock, store, tick, ledger, exposed>>

ForgetOwner(c) ==
  LET o == OwnerOf[mon[c]] IN
  /\ pc[c] = "forget"
  /\ indexExpiry' = [indexExpiry EXCEPT ![o] = 0]
  /\ exposed' = IF \E m \in OwnedBy(o) : Stored(m)
                THEN exposed \cup {o} ELSE exposed
  /\ pc' = [pc EXCEPT ![c] = "idle"]
  /\ Release(c)
  /\ UNCHANGED <<clock, expiry, nextCheck, tick, ledger>>

---------------------------------------------------------------------------
(* check_monitor.  The record is read before the scrape and written back   *)
(* whole after it, whether the scrape succeeded or not.                    *)

\* The read of a check: MonitorNotFound when the record is gone.
ReadForCheck(a, m) ==
  IF Stored(m)
    THEN /\ pc' = [pc EXCEPT ![a] = "fetch"]
         /\ mon' = [mon EXCEPT ![a] = m]
         /\ startedAt' = [startedAt EXCEPT ![a] = clock]
    ELSE UNCHANGED <<pc, mon, startedAt>>

CheckNow(c, m) ==
  /\ pc[c] = "idle" /\ Stored(m)
  /\ ReadForCheck(c, m)
  /\ UNCHANGED <<clock, store, scanned, tick, ledger, exposed>>

CheckDue(s, m) ==
  /\ pc[s] = "tick" /\ m \in due[s]
  /\ ReadForCheck(s, m)
  /\ due' = [due EXCEPT ![s] = @ \ {m}]
  /\ UNCHANGED <<clock, store, scanned, owners, cutoff, ledger, exposed>>

\* The scrape returned or raised; both branches put the copied record.
PutChecked(a) ==
  /\ pc[a] = "fetch"
  /\ PutMonitor(mon[a], startedAt[a] + Interval[mon[a]])
  /\ pc' = [pc EXCEPT ![a] = "remember"]
  /\ UNCHANGED <<clock, indexExpiry, hand, tick, ledger, exposed>>

---------------------------------------------------------------------------
(* _scheduler_loop and run_due_checks.                                     *)

Wake(s) ==
  /\ pc[s] = "sleep"
  /\ pc' = [pc EXCEPT ![s] = "tick"]
  /\ owners' = [owners EXCEPT ![s] = {o \in Owners : Indexed(o)}]
  /\ cutoff' = [cutoff EXCEPT ![s] = clock]
  /\ UNCHANGED <<clock, store, hand, due, ledger, exposed>>

\* A slip: a monitor due at the very moment of the tick is not due.
ListDueStrictly(s, o) ==
  /\ pc[s] = "tick" /\ due[s] = {} /\ o \in owners[s]
  /\ owners' = [owners EXCEPT ![s] = @ \ {o}]
  /\ due' = [due EXCEPT ![s] =
               {m \in OwnedBy(o) : Stored(m) /\ nextCheck[m] < cutoff[s]}]
  /\ UNCHANGED <<clock, store, pc, hand, cutoff, ledger, exposed>>

ListDue(s, o) ==
  /\ pc[s] = "tick" /\ due[s] = {} /\ o \in owners[s]
  /\ owners' = [owners EXCEPT ![s] = @ \ {o}]
  /\ due' = [due EXCEPT ![s] =
               {m \in OwnedBy(o) : Stored(m) /\ nextCheck[m] <= cutoff[s]}]
  /\ UNCHANGED <<clock, store, pc, hand, cutoff, ledger, exposed>>

EndTick(s) ==
  /\ pc[s] = "tick" /\ due[s] = {} /\ owners[s] = {}
  /\ pc' = [pc EXCEPT ![s] = "sleep"]
  /\ cutoff' = [cutoff EXCEPT ![s] = 0]
  /\ UNCHANGED <<clock, store, hand, owners, due, ledger, exposed>>

---------------------------------------------------------------------------
(* Failures and time.                                                      *)

\* An actor that dies or gets an error before its _remember_owner leaves a
\* monitor written and its index entry not renewed.
Abandon(a) ==
  /\ failures < MaxFailures
  /\ failures' = failures + 1
  /\ exposed' = IF pc[a] \in {"remember_created", "remember"}
                THEN exposed \cup {OwnerOf[mon[a]]} ELSE exposed
  /\ Release(a)
  /\ UNCHANGED <<clock, store, issued, registered, deleted, deletes>>

\* A Redis call raises: the request answers 500, the tick logs it and goes on.
StoreError(a) ==
  /\ pc[a] \notin {"idle", "sleep", "tick"}
  /\ Abandon(a)
  /\ pc' = [pc EXCEPT ![a] = Rest(a)]
  /\ UNCHANGED tick

\* list_for_owner raises for one owner: the tick skips that owner.
ListError(s, o) ==
  /\ pc[s] = "tick" /\ due[s] = {} /\ o \in owners[s]
  /\ failures < MaxFailures
  /\ failures' = failures + 1
  /\ owners' = [owners EXCEPT ![s] = @ \ {o}]
  /\ UNCHANGED <<clock, store, pc, hand, due, cutoff, issued, registered,
                 deleted, deletes, exposed>>

\* The worker of actor a dies; a restarted worker begins with a fresh loop.
Crash(a) ==
  /\ pc[a] \notin {"idle", "sleep"}
  /\ Abandon(a)
  /\ IF a \in Schedulers
       THEN /\ pc' = [pc EXCEPT ![a] = "sleep"]
            /\ owners' = [owners EXCEPT ![a] = {}]
            /\ due' = [due EXCEPT ![a] = {}]
            /\ cutoff' = [cutoff EXCEPT ![a] = 0]
       ELSE pc' = [pc EXCEPT ![a] = "idle"] /\ UNCHANGED tick

ExpireMonitor(m) ==
  /\ Stored(m) /\ ~Live(m)
  /\ DropMonitor(m)
  /\ UNCHANGED <<clock, indexExpiry, pc, hand, tick, ledger, exposed>>

ExpireOwner(o) ==
  /\ Indexed(o) /\ indexExpiry[o] <= clock
  /\ indexExpiry' = [indexExpiry EXCEPT ![o] = 0]
  /\ UNCHANGED <<clock, expiry, nextCheck, pc, hand, tick, ledger, exposed>>

\* The schedulers' tick is a minute and the clock's an hour: when Prompt, an
\* hour ends with nobody mid-handler and no monitor they can see left due.
Settled ==
  /\ \A a \in Actors : pc[a] \in {"idle", "sleep"}
  /\ \A m \in Monitors : Indexed(OwnerOf[m]) => ~Due(m)

\* Records whose hour has come are dropped before the next hour.
AdvanceClock ==
  /\ clock < MaxClock
  /\ \A m \in Monitors : Stored(m) => Live(m)
  /\ \A o \in Owners : Indexed(o) => indexExpiry[o] > clock
  /\ Prompt => Settled
  /\ clock' = clock + 1
  /\ UNCHANGED <<store, pc, hand, tick, ledger, exposed>>

ClientStep(c) ==
  \/ \E m \in Monitors : CreateMonitor(c, m) \/ DeleteMonitor(c, m)
                           \/ CheckNow(c, m)
  \/ ScanOwner(c) \/ ReadScanned(c) \/ ForgetOwner(c)

SchedulerStep(s) ==
  \/ Wake(s) \/ EndTick(s)
  \/ \E o \in Owners : ListDue(s, o)
  \/ \E m \in Monitors : CheckDue(s, m)

CheckStep(a) == PutChecked(a) \/ RememberOwner(a)

Environment ==
  \/ \E a \in Actors : StoreError(a) \/ Crash(a)
  \/ \E s \in Schedulers, o \in Owners : ListError(s, o)
  \/ \E m \in Monitors : ExpireMonitor(m)
  \/ \E o \in Owners : ExpireOwner(o)
  \/ AdvanceClock

Next ==
  \/ \E c \in Clients : ClientStep(c)
  \/ \E s \in Schedulers : SchedulerStep(s)
  \/ \E a \in Actors : CheckStep(a)
  \/ Environment

Spec == Init /\ [][Next]_vars

\* The loop is `while True`, a scrape and every Redis call have timeouts, and
\* the event loop resumes every task; clients and the clock owe nothing.
Fairness ==
  /\ \A s \in Schedulers : WF_vars(SchedulerStep(s))
  /\ \A a \in Actors : WF_vars(CheckStep(a))

FairSpec == Spec /\ Fairness

---------------------------------------------------------------------------
(* Properties.                                                             *)

ActorPC == {"sleep", "tick", "idle", "fetch", "remember", "remember_created",
            "scan", "read_scanned", "forget"}

\* Every variable keeps its type, and an actor between a monitor's read and
\* its last write has that monitor in hand.
TypeOK ==
  /\ clock \in Nat
  /\ expiry \in [Monitors -> Nat]
  /\ nextCheck \in [Monitors -> Nat]
  /\ indexExpiry \in [Owners -> Nat]
  /\ pc \in [Actors -> ActorPC]
  /\ mon \in [Actors -> Monitors \cup {NoMonitor}]
  /\ \A a \in Actors : pc[a] \notin {"idle", "sleep", "tick"} => mon[a] \in Monitors
  /\ startedAt \in [Actors -> Nat]
  /\ scanned \in [Actors -> SUBSET Monitors]
  /\ owners \in [Schedulers -> SUBSET Owners]
  /\ due \in [Schedulers -> SUBSET Monitors]
  /\ cutoff \in [Schedulers -> Nat]
  /\ issued \subseteq Monitors /\ registered \subseteq Monitors
  /\ deleted \subseteq Monitors
  /\ deletes \in Nat /\ failures \in Nat
  /\ exposed \subseteq Owners

\* Somebody has written a monitor of owner o and is about to remember o.
Remembering(o) ==
  \E a \in Actors : /\ pc[a] \in {"remember_created", "remember"}
                    /\ OwnerOf[mon[a]] = o

\* check_monitor's comment (l.992-995): the index entry must not expire under a
\* monitor that is still alive.  A live monitor's index entry lives at least as
\* long as the monitor, except while its writer is about to renew the entry,
\* and except for the owners exposed by one of two windows: an index deletion
\* after another request's create, and a failure before _remember_owner.
IndexOutlivesMonitor ==
  \A m \in Monitors :
    /\ Live(m)
    /\ OwnerOf[m] \notin exposed
    /\ ~Remembering(OwnerOf[m])
    => expiry[m] <= indexExpiry[OwnerOf[m]]

\* No write gives a record more life than the TTL from now.
WithinTTL ==
  /\ \A m \in Monitors : expiry[m] <= clock + TTL
  /\ \A o \in Owners : indexExpiry[o] <= clock + TTL

\* The FAQ's promise (FAQ.md:96) that a monitor watches "every
\* check_interval_hours": the record of a monitor the scheduler can see is
\* renewed by a check before its TTL runs out.
MonitorNeverLapses ==
  \A m \in Monitors : Stored(m) /\ OwnerOf[m] \notin exposed => Live(m)

\* create_monitor's docstring (l.324): by the time it returns, the owner is in
\* the owner index; so while the monitor exists the scheduler can see it.
RegisteredIsIndexed ==
  \A m \in registered \ deleted : Live(m) => Indexed(OwnerOf[m])

\* api/google_maps/monitors.py:176: "Monitor deleted successfully": a monitor so
\* deleted is not there again, be it by the put of a check that was under way.
DeletedMonitorsStayAway == \A m \in deleted : ~Stored(m)

\* run_due_checks: a due monitor the scheduler can see is checked, unless its
\* record goes away or its owner's index entry is lost first.
DueIsChecked ==
  \A m \in Monitors :
    Due(m) /\ Indexed(OwnerOf[m])
      ~> (~Due(m) \/ ~Indexed(OwnerOf[m]))
================================================================================
