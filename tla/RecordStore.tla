------------------------------ MODULE RecordStore ------------------------------
(***************************************************************************)
(* RecordStore over RedisManager: the records of one owner, in Redis where *)
(* the worker's manager connected when it started, and otherwise in a dict *)
(* of the worker's own.                                                    *)
(*                                                                         *)
(* Every method asks _get_redis which of the two it is, each time.  Until  *)
(* the first ping is answered it is the dict, and after that the answer    *)
(* cannot change while the worker lives: is_available falls only on close, *)
(* and get_client, which would connect again, is called only where         *)
(* is_available already holds.  Records are versions: what they say is     *)
(* MonitorRegistry's, ScrapeJobs' and WebhookDelivery's.                   *)
(***************************************************************************)
EXTENDS Naturals, FiniteSets

CONSTANTS
  StoreWorkers,  \* worker processes
  StoreCallers,  \* coroutines, reused for one call after another
  Ids,           \* record ids
  MaxBlips       \* bound: times Redis cannot be reached, calls to it that raise

ASSUME StoreAssumption == MaxBlips \in Nat /\ "redis" \notin StoreWorkers /\ IsFiniteSet(Ids)

VARIABLES
  manager,   \* each worker's RedisManager
  reachable, \* Redis can be reached
  stored,    \* ids with a record in Redis
  inMemory,      \* each worker's _memory
  op,        \* what each coroutine is at
  sure,      \* history: where an acknowledged put is owed to readers
  owed,      \* history: what each reader is owed since it began
  blips      \* outages and failed calls so far, for the bound

storeVars == <<manager, reachable, stored, inMemory, op, sure, owed, blips>>

ManagerStates == {"none", "connecting", "up", "failed"}
Serving(w)    == manager[w] \in {"up", "failed"}
Places        == {"redis"} \cup StoreWorkers
Place(w)      == IF manager[w] = "failed" THEN w ELSE "redis"

\* How many records a listing may return, and how many it passes over first.  More
\* than there are records is as good as all.
All     == Cardinality(Ids) + 1
Limits  == 1 .. All
Offsets == 0 .. All

StoreIdle == [at |-> "idle"]
OpSteps   == {"putGet", "putSet", "get", "delete", "scan"}
Ops       == {StoreIdle, [at |-> "raised"]}
       \cup [at : OpSteps \ {"scan"}, worker : StoreWorkers, id : Ids]
       \cup [at : {"scan"}, worker : StoreWorkers, todo : SUBSET Ids, found : SUBSET Ids]
       \cup [at : {"answer"}, found : SUBSET Ids, limit : Limits, offset : Offsets,
             early : BOOLEAN]

StoreInit ==
  /\ manager = [w \in StoreWorkers |-> "none"] /\ reachable = TRUE
  /\ stored = {} /\ inMemory = [w \in StoreWorkers |-> {}]
  /\ op = [c \in StoreCallers |-> StoreIdle]
  /\ sure = [p \in Places |-> {}] /\ owed = [c \in StoreCallers |-> {}]
  /\ blips = 0

Blip == blips < MaxBlips /\ blips' = blips + 1

\* What a caller is given of the records collected: records[offset : offset + limit] of
\* an order by age, which the model does not keep.
Fewer(m, n) == IF m < n THEN m ELSE n
Beyond(records, offset) ==
  IF Cardinality(records) > offset THEN Cardinality(records) - offset ELSE 0
PagesOf(records, limit, offset) ==
  {page \in SUBSET records : Cardinality(page) = Fewer(limit, Beyond(records, offset))}

\* early: the answer is given while the worker's manager connects.
Answer(c, found, limit, offset, early) ==
  op' = [op EXCEPT ![c] = [at |-> "answer", found |-> found, limit |-> limit,
                           offset |-> offset, early |-> early]]
AnswerPage(c, records, early) ==
  \E limit \in Limits, offset \in Offsets :
    \E page \in PagesOf(records, limit, offset) : Answer(c, page, limit, offset, early)

Raise(c)         == op' = [op EXCEPT ![c] = [at |-> "raised"]]
Step(c, step)    == op' = [op EXCEPT ![c].at = step]

---------------------------------------------------------------------------
(* RedisManager.                                                           *)

\* get_instance: the instance is there, not yet connected, while the first ping
\* is awaited.  The lifespan asks is_durable before it serves requests, but the
\* scheduler it started just before may list while the ping is out (main.py:165-177).
Connect(w) ==
  /\ manager[w] = "none"
  /\ manager' = [manager EXCEPT ![w] = "connecting"]
  /\ UNCHANGED <<reachable, stored, inMemory, op, sure, owed, blips>>

Connected(w) ==
  /\ manager[w] = "connecting"
  /\ manager' = [manager EXCEPT ![w] = IF reachable THEN "up" ELSE "failed"]
  /\ UNCHANGED <<reachable, stored, inMemory, op, sure, owed, blips>>

Outage ==
  /\ reachable /\ Blip /\ reachable' = FALSE
  /\ UNCHANGED <<manager, stored, inMemory, op, sure, owed>>

Recovery ==
  /\ ~reachable /\ reachable' = TRUE
  /\ UNCHANGED <<manager, stored, inMemory, op, sure, owed, blips>>

\* A call to Redis raises, applied or not.
CallFails(c) == \/ ~reachable /\ Raise(c) /\ UNCHANGED blips
                \/ reachable /\ Blip /\ Raise(c)

\* A worker dies with its memory and its calls, and another starts.
Restart(w) ==
  /\ Serving(w) /\ Blip
  /\ manager' = [manager EXCEPT ![w] = "none"]
  /\ inMemory' = [inMemory EXCEPT ![w] = {}] /\ sure' = [sure EXCEPT ![w] = {}]
  /\ op' = [c \in StoreCallers |->
       IF op[c].at \in OpSteps /\ op[c].worker = w THEN StoreIdle ELSE op[c]]
  /\ UNCHANGED <<reachable, stored, owed>>

---------------------------------------------------------------------------
(* Calls on the worker's own dict go through without a pause.  A record     *)
(* whose time is out goes as a deleted one does.                            *)

Local(c, w) == op[c] = StoreIdle /\ manager[w] = "failed"

\* A listing is owed what is certain in the place that the worker's records are, which
\* is Redis while the first ping is out, where the listing itself is of the dict.
Owe(c, w) == owed' = [owed EXCEPT ![c] = sure[Place(w)]]

PutLocal(c, w, id) ==
  /\ Local(c, w)
  /\ inMemory' = [inMemory EXCEPT ![w] = @ \cup {id}]
  /\ sure' = [sure EXCEPT ![w] = @ \cup {id}]
  /\ UNCHANGED <<manager, reachable, stored, op, owed, blips>>

ListLocal(c, w) ==
  /\ op[c] = StoreIdle /\ manager[w] \in {"connecting", "failed"}
  /\ Owe(c, w) /\ AnswerPage(c, inMemory[w], manager[w] = "connecting")
  /\ UNCHANGED <<manager, reachable, stored, inMemory, sure, blips>>

DeleteLocalRecord(c, w, id) ==
  /\ Local(c, w)
  /\ inMemory' = [inMemory EXCEPT ![w] = @ \ {id}]
  /\ sure' = [sure EXCEPT ![w] = @ \ {id}]
  /\ UNCHANGED <<manager, reachable, stored, op, owed, blips>>

---------------------------------------------------------------------------
(* Calls on Redis.                                                         *)

Start(c, w, step, id) ==
  /\ op[c] = StoreIdle /\ manager[w] = "up"
  /\ op' = [op EXCEPT ![c] = [at |-> step, worker |-> w, id |-> id]]

\* From here on nobody is owed the record: it is being deleted, or its TTL ran out.
Release(id) ==
  /\ sure' = [sure EXCEPT !["redis"] = @ \ {id}]
  /\ owed' = [c \in StoreCallers |-> owed[c] \ {id}]

Begin(c, w, id) ==
  \/ Start(c, w, "putGet", id) /\ UNCHANGED <<sure, owed>>
  \/ Start(c, w, "get", id) /\ Owe(c, w) /\ UNCHANGED sure
  \/ Start(c, w, "delete", id) /\ Release(id)

BeginCall(c, w, id) ==
  Begin(c, w, id) /\ UNCHANGED <<manager, reachable, stored, inMemory, blips>>

\* put reads what is there, for its created_at.
PutGet(c) ==
  /\ op[c].at = "putGet"
  /\ \/ reachable /\ Step(c, "putSet") /\ UNCHANGED blips
     \/ CallFails(c)
  /\ UNCHANGED <<manager, reachable, stored, inMemory, sure, owed>>

\* A deletion that is under way may still remove what is written now.
Deleting(id) == \E d \in StoreCallers : op[d].at = "delete" /\ op[d].id = id

PutSet(c) ==
  /\ op[c].at = "putSet"
  /\ \/ /\ reachable /\ stored' = stored \cup {op[c].id}
        /\ sure' = IF Deleting(op[c].id) THEN sure
                   ELSE [sure EXCEPT !["redis"] = @ \cup {op[c].id}]
        /\ op' = [op EXCEPT ![c] = StoreIdle] /\ UNCHANGED blips
     \/ CallFails(c) /\ stored' \in {stored, stored \cup {op[c].id}} /\ UNCHANGED sure
  /\ UNCHANGED <<manager, reachable, inMemory, owed>>

GetRecord(c) ==
  /\ op[c].at = "get"
  /\ \/ /\ reachable /\ UNCHANGED blips
        \* The reader is owed this one record, if any.
        /\ owed' = [owed EXCEPT ![c] = @ \cap {op[c].id}]
        /\ Answer(c, stored \cap {op[c].id}, All, 0, FALSE)
     \/ CallFails(c) /\ UNCHANGED owed
  /\ UNCHANGED <<manager, reachable, stored, inMemory, sure>>

DeleteRecord(c) ==
  /\ op[c].at = "delete"
  /\ \/ reachable /\ stored' = stored \ {op[c].id} /\ UNCHANGED blips
        /\ op' = [op EXCEPT ![c] = StoreIdle]
     \/ CallFails(c) /\ stored' \in {stored, stored \ {op[c].id}}
  /\ UNCHANGED <<manager, reachable, inMemory, sure, owed>>

\* scan_iter finds what is there throughout, and may find what comes or goes.
ListStart(c, w) ==
  /\ op[c] = StoreIdle /\ manager[w] = "up"
  /\ \/ /\ reachable /\ UNCHANGED blips /\ Owe(c, w)
        /\ op' = [op EXCEPT ![c] = [at |-> "scan", worker |-> w, todo |-> stored, found |-> {}]]
     \/ CallFails(c) /\ UNCHANGED owed
  /\ UNCHANGED <<manager, reachable, stored, inMemory, sure>>

\* A slip: a record that is gone ends the listing.
ListOrStop(c) ==
  /\ op[c].at = "scan" /\ op[c].todo # {} /\ reachable
  /\ \E id \in op[c].todo :
       op' = [op EXCEPT ![c].todo = IF id \in stored THEN @ \ {id} ELSE {},
                        ![c].found = @ \cup (stored \cap {id})]
  /\ UNCHANGED <<manager, reachable, stored, inMemory, sure, owed, blips>>

\* Each key is read by a call of its own; one that is gone by then is skipped.
ListGet(c) ==
  /\ op[c].at = "scan" /\ op[c].todo # {}
  /\ \/ /\ reachable /\ UNCHANGED blips
        /\ \E id \in op[c].todo :
             op' = [op EXCEPT ![c].todo = @ \ {id}, ![c].found = @ \cup (stored \cap {id})]
     \/ CallFails(c)
  /\ UNCHANGED <<manager, reachable, stored, inMemory, sure, owed>>

ListEnd(c) ==
  /\ op[c].at = "scan" /\ op[c].todo = {}
  /\ AnswerPage(c, op[c].found, FALSE)
  /\ UNCHANGED <<manager, reachable, stored, inMemory, sure, owed, blips>>

\* A record's TTL runs out.
ExpireRecord(id) ==
  /\ id \in stored /\ stored' = stored \ {id} /\ Release(id)
  /\ UNCHANGED <<manager, reachable, inMemory, op, blips>>

Finish(c) ==
  /\ op[c].at \in {"answer", "raised"}
  /\ op' = [op EXCEPT ![c] = StoreIdle] /\ owed' = [owed EXCEPT ![c] = {}]
  /\ UNCHANGED <<manager, reachable, stored, inMemory, sure, blips>>

---------------------------------------------------------------------------
WorkerStep(w) == Connect(w) \/ Connected(w)

CallStep(c) ==
  \/ PutGet(c) \/ PutSet(c) \/ GetRecord(c) \/ DeleteRecord(c)
  \/ ListGet(c) \/ ListEnd(c) \/ Finish(c)

StoreNext ==
  \/ \E w \in StoreWorkers : WorkerStep(w) \/ Restart(w)
  \/ \E c \in StoreCallers :
       \/ CallStep(c)
       \/ \E w \in StoreWorkers :
            \/ ListLocal(c, w) \/ ListStart(c, w)
            \/ \E id \in Ids : PutLocal(c, w, id) \/ DeleteLocalRecord(c, w, id) \/ BeginCall(c, w, id)
  \/ \E id \in Ids : ExpireRecord(id)
  \/ Outage \/ Recovery

\* The loop runs what can run; Redis comes back.
StoreFairness ==
  /\ \A w \in StoreWorkers : WF_storeVars(WorkerStep(w))
  /\ \A c \in StoreCallers : WF_storeVars(CallStep(c))
  /\ WF_storeVars(Recovery)

StoreSpec == StoreInit /\ [][StoreNext]_storeVars /\ StoreFairness

StoreTypeOK ==
  /\ manager \in [StoreWorkers -> ManagerStates] /\ reachable \in BOOLEAN
  /\ stored \subseteq Ids /\ inMemory \in [StoreWorkers -> SUBSET Ids]
  /\ op \in [StoreCallers -> Ops]
  /\ sure \in [Places -> SUBSET Ids] /\ owed \in [StoreCallers -> SUBSET Ids]
  /\ blips \in 0 .. MaxBlips

\* A reader who passes over offset records and may be told of limit is told of
\* everything it is owed: nothing is missing but what it passed over, unless it is
\* given as many as it asked for.
AllOwed(o, due) ==
  Cardinality(due \ o.found) <= o.offset \/ Cardinality(o.found) = o.limit

\* record_store.py:1-23: a record created on one worker is seen from the others.
\* What a put has acknowledged, and nothing has deleted and no TTL ended, every
\* later get and every listing within its limit returns (record_store.py:164-303),
\* through outages, calls that raise, deletions of other records half-way through
\* the listing, and restarts; a worker that runs on its own dict answers for that.
\* Not covered: a listing made while the worker's first ping is out.
AcknowledgedIsSeen ==
  \A c \in StoreCallers :
    op[c].at = "answer" /\ ~op[c].early => AllOwed(op[c], owed[c])

\* record_store.py:14-16: a process-local dict "means jobs vanish on restart and are
\* invisible to sibling workers"; "Records live in Redis when it is configured".  A
\* worker that can reach Redis lists what is in it, also while it starts.
EarlyListingIsComplete ==
  \A c \in StoreCallers :
    op[c].at = "answer" /\ op[c].early /\ reachable => AllOwed(op[c], owed[c])

\* redis_manager.py:28 lists automatic reconnection among what the manager
\* provides: a worker that started while Redis could not be reached uses it in the end.
WorkersReconnect ==
  \A w \in StoreWorkers : manager[w] = "failed" ~> manager[w] # "failed"
=============================================================================
