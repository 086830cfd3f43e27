------------------------------ MODULE AppLifespan ------------------------------
(***************************************************************************)
(* One worker process from start to stop (lifespan in src/main.py), with   *)
(* what it has to give back: the background tasks it started and the HTTP  *)
(* clients its requests opened, one per proxy, by way of a manager that is *)
(* made when it is first asked for; and with what its requests leave to no *)
(* one: the tasks of scrape jobs and the sessions of GNews.                *)
(*                                                                         *)
(* uvicorn, external: it takes requests once the start-up is through, and  *)
(* leaves the lifespan once none is being served.                          *)
(***************************************************************************)
EXTENDS Naturals, FiniteSets

CONSTANTS
  HttpRequests,  \* request handlers, reused
  ClientKeys,    \* proxy urls, and "default"
  JobTasks,      \* tasks of scrape jobs, reused
  MaxManagers    \* bound: managers made

ASSUME LifespanAssumption == MaxManagers \in Nat \ {0}

VARIABLES
  phase,    \* where the lifespan is
  tasks,    \* background tasks of the lifespan that run
  jobs,     \* scrape jobs that run, the _background_tasks of google_maps_service
  managers, \* managers made so far
  global,   \* _http_client_manager, 0 for None
  open,     \* open clients: the manager and the key of each
  sessions, \* handlers that opened a client of their own as gnews.session; none is closed
  handler,  \* what each handler is at
  failed    \* the close of a client raised

lifeVars == <<phase, tasks, jobs, managers, global, open, sessions, handler, failed>>
unowned  == <<jobs, sessions>>

Phases   == {"start", "durable", "serving", "stopScheduler", "stopLimiter", "stopClients", "stopped"}
Clients  == (1 .. MaxManagers) \X ClientKeys
HttpIdle == [at |-> "idle"]

LifeInit ==
  /\ phase = "start" /\ tasks = {} /\ jobs = {} /\ managers = 0 /\ global = 0
  /\ open = {} /\ sessions = {} /\ failed = FALSE
  /\ handler = [r \in HttpRequests |-> HttpIdle]

---------------------------------------------------------------------------
(* Start-up.                                                               *)

\* setup_nltk, the limiter's cleanup, the scheduler.
StartTasks ==
  /\ phase = "start" /\ phase' = "durable"
  /\ tasks' = {"cleanup", "scheduler"}
  /\ UNCHANGED <<managers, global, open, handler, failed, unowned>>

\* The durability check is made and logged; its failure does not matter.
StartServing ==
  /\ phase = "durable" /\ phase' = "serving"
  /\ UNCHANGED <<tasks, managers, global, open, handler, failed, unowned>>

---------------------------------------------------------------------------
(* get_http_client_manager, get_client and make_request.                   *)

\* A slip: a manager for every caller.
GetManagerAnew(r) ==
  /\ phase = "serving" /\ handler[r] = HttpIdle
  /\ managers < MaxManagers
  /\ managers' = managers + 1 /\ global' = managers'
  /\ handler' = [handler EXCEPT ![r] = [at |-> "client", manager |-> managers']]
  /\ UNCHANGED <<phase, tasks, open, failed, unowned>>

\* Where there is none, it is made.
GetManager(r) ==
  /\ phase = "serving" /\ handler[r] = HttpIdle
  /\ \/ global # 0 /\ UNCHANGED <<managers, global>>
     \/ global = 0 /\ managers < MaxManagers /\ managers' = managers + 1 /\ global' = managers'
  /\ handler' = [handler EXCEPT ![r] = [at |-> "client", manager |-> global']]
  /\ UNCHANGED <<phase, tasks, open, failed, unowned>>

\* Under _client_lock, without a pause: the client of this proxy, made if need be.
GetClient(r, key) ==
  /\ handler[r].at = "client"
  /\ open' = open \cup {<<handler[r].manager, key>>}
  /\ handler' = [handler EXCEPT ![r] = [at |-> "sent", client |-> <<@.manager, key>>]]
  /\ UNCHANGED <<phase, tasks, managers, global, failed, unowned>>

\* Answered, or failed with what make_request turns into an answer.
Received(r) ==
  /\ handler[r].at = "sent"
  /\ handler' = [handler EXCEPT ![r] = HttpIdle]
  /\ UNCHANGED <<phase, tasks, managers, global, open, failed, unowned>>

---------------------------------------------------------------------------
(* What a request leaves behind it.                                        *)

\* create_search_job starts the job's task and answers.
CreateJob(j) ==
  /\ phase = "serving" /\ j \notin jobs
  /\ jobs' = jobs \cup {j}
  /\ UNCHANGED <<phase, tasks, managers, global, open, sessions, handler, failed>>

\* The job ends and its task is discarded.
JobDone(j) ==
  /\ phase # "stopped" /\ j \in jobs
  /\ jobs' = jobs \ {j}
  /\ UNCHANGED <<phase, tasks, managers, global, open, sessions, handler, failed>>

\* get_gnews_instance makes a client that no manager knows.
OpenSession(r) ==
  /\ phase = "serving" /\ handler[r] = HttpIdle
  /\ sessions' = sessions \cup {r}
  /\ UNCHANGED <<phase, tasks, jobs, managers, global, open, handler, failed>>

---------------------------------------------------------------------------
(* Shutdown: nothing of it looks at the jobs or at the sessions.           *)

Drained == \A r \in HttpRequests : handler[r] = HttpIdle

BeginShutdown ==
  /\ phase = "serving" /\ Drained
  /\ phase' = "stopScheduler"
  /\ UNCHANGED <<tasks, managers, global, open, handler, failed, unowned>>

\* The task is cancelled and awaited.
StopTask(step, task, next) ==
  /\ phase = step /\ phase' = next
  /\ tasks' = tasks \ {task}
  /\ UNCHANGED <<managers, global, open, handler, failed, unowned>>

StopScheduler == StopTask("stopScheduler", "scheduler", "stopLimiter")
StopLimiter   == StopTask("stopLimiter", "cleanup", "stopClients")

\* close_all_clients closes the global manager's clients, one after the other; the
\* first close that raises ends the shutdown.
CloseClients ==
  /\ phase = "stopClients" /\ phase' = "stopped"
  /\ LET ours == {c \in open : c[1] = global} IN
       \/ open' = open \ ours /\ global' = 0 /\ UNCHANGED failed
       \/ /\ ours # {} /\ failed' = TRUE /\ UNCHANGED global
          /\ \E closed \in SUBSET ours : closed # ours /\ open' = open \ closed
  /\ UNCHANGED <<tasks, managers, handler, unowned>>

LifeNext ==
  \/ StartTasks \/ StartServing \/ BeginShutdown
  \/ StopScheduler \/ StopLimiter \/ CloseClients
  \/ \E r \in HttpRequests :
       GetManager(r) \/ Received(r) \/ OpenSession(r) \/ \E key \in ClientKeys : GetClient(r, key)
  \/ \E j \in JobTasks : CreateJob(j) \/ JobDone(j)

LifeSpec == LifeInit /\ [][LifeNext]_lifeVars

LifeTypeOK ==
  /\ phase \in Phases /\ tasks \subseteq {"cleanup", "scheduler"}
  /\ managers \in 0 .. MaxManagers /\ global \in 0 .. MaxManagers
  /\ open \subseteq Clients /\ failed \in BOOLEAN
  /\ jobs \subseteq JobTasks /\ sessions \subseteq HttpRequests
  /\ \A r \in HttpRequests : handler[r].at \in {"idle", "client", "sent"}

\* core/http_client.py:297-310 and src/main.py:205-212: exactly one manager owns the
\* pools, so that the shutdown ends the two tasks of the lifespan and closes every
\* pooled client, whatever scrape jobs are under way, unless closing one raises; and
\* no request ever has a pooled client that is closed.  The jobs' tasks and the
\* sessions of GNews are no part of it, and may be left.
ShutdownGivesBackItsOwn ==
  /\ phase = "stopped" => tasks = {} /\ (open = {} \/ failed)
  /\ \A r \in HttpRequests : handler[r].at = "sent" => handler[r].client \in open
=============================================================================
