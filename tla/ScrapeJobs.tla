------------------------------ MODULE ScrapeJobs ------------------------------
(***************************************************************************)
(* The life of a Google Maps scrape job, and what callers are told of it.  *)
(*                                                                         *)
(* create_search_job stores a PENDING job and starts run_scrape_job as a   *)
(* background task.  The task mutates its own ScrapeJob object and puts    *)
(* the whole object at every stage; nobody else is consulted.  Meanwhile   *)
(* search_and_wait polls the record, GET /jobs/{id}/results reads it twice *)
(* (status, then results), DELETE removes it and the store expires it.     *)
(* How the search gets a browser is in BrowserPool.                        *)
(***************************************************************************)
EXTENDS Naturals, FiniteSets

CONSTANTS
  Jobs,       \* job ids; a uuid4 is used once
  Readers,    \* requests for GET /jobs/{id}/results; each happens once
  MaxPolls,   \* polls search_and_wait makes before its timeout
  NoJob,      \* "no job in hand"
  MaxFaults   \* bound: Redis calls that raise, and worker deaths

ASSUME JobAssumption ==
  MaxPolls \in Nat \ {0} /\ MaxFaults \in Nat /\ NoJob \notin Jobs

VARIABLES
  stored,   \* the job records in the store
  job,      \* the ScrapeJob object each task holds
  task,     \* where each run_scrape_job is, between two awaits
  poller,   \* where the search_and_wait of each job is
  polls,    \* its polls so far
  answer,   \* what it returned
  reader,   \* where each results request is
  asked,    \* which job it asks for
  reply,    \* what it was told
  scraped,  \* history: how the search of each job ended
  lost,     \* history: jobs one of whose store calls raised
  crashed,  \* history: jobs whose worker died
  deleted,  \* history: jobs whose deletion was confirmed
  settled,  \* history: jobs deleted after their task had ended
  faults    \* faults so far, for the bound

callers == <<poller, polls, answer, reader, asked, reply>>
history == <<scraped, lost, crashed, deleted, settled, faults>>
jobsVars    == <<stored, job, task, callers, history>>

Found    == {"places", "zero", "unverified"}
Failures == {"stale", "error"}

\* results is what job.results and empty_unverified say, error what job.error
\* and selectors_stale say.
Absent == [status |-> "absent", results |-> "none", error |-> "none"]
NewJob == [Absent EXCEPT !.status = "pending"]

\* get_job_results hands out job.results alone: what a caller gets of a completed
\* record does not say whether an empty list was verified.
Shown(results) == IF results = "places" THEN "places" ELSE "empty"
AnswerTo(record) == IF record.status = "completed" THEN Shown(record.results) ELSE "error"

Terminal(status) == status \in {"completed", "failed"}
Ended(j) == task[j] \in {"none", "ended", "dead"}

JobsInit ==
  /\ stored = [j \in Jobs |-> Absent] /\ job = [j \in Jobs |-> NewJob]
  /\ task = [j \in Jobs |-> "none"]
  /\ poller = [j \in Jobs |-> "none"] /\ polls = [j \in Jobs |-> 0]
  /\ answer = [j \in Jobs |-> "none"]
  /\ reader = [r \in Readers |-> "idle"]
  /\ asked = [r \in Readers |-> NoJob]
  /\ reply = [r \in Readers |-> "none"]
  /\ scraped = [j \in Jobs |-> "none"]
  /\ lost = {} /\ crashed = {} /\ deleted = {} /\ settled = {}
  /\ faults = 0

---------------------------------------------------------------------------
(* create_search_job.  Its caller either returns the id or, in             *)
(* search_and_wait, begins to poll.                                        *)

CreateJob(j) ==
  /\ task[j] = "none" /\ poller[j] = "none" /\ j \notin lost
  /\ stored' = [stored EXCEPT ![j] = NewJob]
  /\ task' = [task EXCEPT ![j] = "start"]
  /\ \E waiting \in {"none", "poll"} : poller' = [poller EXCEPT ![j] = waiting]
  /\ UNCHANGED <<job, polls, answer, reader, asked, reply, history>>

\* A store call that raises did its work or not: the reply may be what is lost.
StoreRaises(j, record) ==
  /\ faults < MaxFaults /\ faults' = faults + 1
  /\ lost' = lost \cup {j}
  /\ \E applied \in BOOLEAN :
       stored' = IF applied THEN [stored EXCEPT ![j] = record] ELSE stored
  /\ UNCHANGED <<crashed, deleted, settled>>

\* store.create raised: an error dict, and no task.
CreateRaises(j) ==
  /\ task[j] = "none" /\ poller[j] = "none" /\ j \notin lost
  /\ StoreRaises(j, NewJob)
  /\ UNCHANGED <<job, task, callers, scraped>>

---------------------------------------------------------------------------
(* run_scrape_job.                                                         *)

Failed(record, kind) == [record EXCEPT !.status = "failed", !.error = kind]

\* The except branches: the object becomes FAILED, and is put next.
Fail(j, kind) ==
  /\ job' = [job EXCEPT ![j] = Failed(@, kind)]
  /\ task' = [task EXCEPT ![j] = "put_failed"]

PutRunning(j) ==
  /\ task[j] = "start"
  /\ job' = [job EXCEPT ![j].status = "running"]
  /\ stored' = [stored EXCEPT ![j] = job'[j]]
  /\ task' = [task EXCEPT ![j] = "search"]
  /\ UNCHANGED <<callers, history>>

PutRunningRaises(j) ==
  /\ task[j] = "start"
  /\ StoreRaises(j, [job[j] EXCEPT !.status = "running"])
  /\ Fail(j, "error")
  /\ UNCHANGED <<callers, scraped>>

SearchReturns(j) ==
  /\ task[j] = "search"
  /\ \E results \in Found :
       /\ scraped' = [scraped EXCEPT ![j] = results]
       /\ job' = [job EXCEPT ![j].status = "completed", ![j].results = results]
  /\ task' = [task EXCEPT ![j] = "put_completed"]
  /\ UNCHANGED <<stored, callers, lost, crashed, deleted, settled, faults>>

\* SelectorsStaleError, or any other exception.
SearchRaises(j) ==
  /\ task[j] = "search"
  /\ \E kind \in Failures :
       scraped' = [scraped EXCEPT ![j] = kind] /\ Fail(j, kind)
  /\ UNCHANGED <<stored, callers, lost, crashed, deleted, settled, faults>>

PutCompleted(j) ==
  /\ task[j] = "put_completed"
  /\ stored' = [stored EXCEPT ![j] = job[j]]
  /\ task' = [task EXCEPT ![j] = "close"]
  /\ UNCHANGED <<job, callers, history>>

PutCompletedRaises(j) ==
  /\ task[j] = "put_completed"
  /\ StoreRaises(j, job[j])
  /\ Fail(j, "error")
  /\ UNCHANGED <<callers, scraped>>

PutFailed(j) ==
  /\ task[j] = "put_failed"
  /\ stored' = [stored EXCEPT ![j] = job[j]]
  /\ task' = [task EXCEPT ![j] = "close"]
  /\ UNCHANGED <<job, callers, history>>

\* Raised inside an except branch, it leaves the task through the finally.
PutFailedRaises(j) ==
  /\ task[j] = "put_failed"
  /\ StoreRaises(j, job[j])
  /\ task' = [task EXCEPT ![j] = "close"]
  /\ UNCHANGED <<job, callers, scraped>>

\* A slip: a late progress update puts the job back to running.
CloseSavingProgress(j) ==
  /\ task[j] = "close"
  /\ stored' = [stored EXCEPT ![j] = [job[j] EXCEPT !.status = "running"]]
  /\ task' = [task EXCEPT ![j] = "ended"]
  /\ UNCHANGED <<job, callers, history>>

Close(j) ==
  /\ task[j] = "close"
  /\ task' = [task EXCEPT ![j] = "ended"]
  /\ UNCHANGED <<stored, job, callers, history>>

TaskStep(j) ==
  \/ PutRunning(j) \/ SearchReturns(j) \/ SearchRaises(j)
  \/ PutCompleted(j) \/ PutFailed(j) \/ Close(j)

---------------------------------------------------------------------------
(* search_and_wait, in the process that runs the job.                      *)

Answer(j, what) ==
  /\ answer' = [answer EXCEPT ![j] = what]
  /\ poller' = [poller EXCEPT ![j] = "done"]
  /\ UNCHANGED polls

\* A slip: a missing job is polled without spending the timeout.
PollUncounted(j) ==
  /\ poller[j] = "poll" /\ polls[j] < MaxPolls
  /\ CASE stored[j].status = "completed" ->
            poller' = [poller EXCEPT ![j] = "fetch"] /\ UNCHANGED <<answer, polls>>
       [] stored[j].status = "failed" -> Answer(j, "failed")
       [] stored[j].status = "absent" -> UNCHANGED <<answer, poller, polls>>
       [] OTHER -> polls' = [polls EXCEPT ![j] = @ + 1] /\ UNCHANGED <<answer, poller>>
  /\ UNCHANGED <<stored, job, task, reader, asked, reply, history>>

\* get_job_status and the branches on it.  A failed job's own error message
\* makes its status an error already; a missing job is polled on.
Poll(j) ==
  /\ poller[j] = "poll" /\ polls[j] < MaxPolls
  /\ CASE stored[j].status = "completed" ->
            poller' = [poller EXCEPT ![j] = "fetch"] /\ UNCHANGED <<answer, polls>>
       [] stored[j].status = "failed" -> Answer(j, "failed")
       [] OTHER -> polls' = [polls EXCEPT ![j] = @ + 1] /\ UNCHANGED <<answer, poller>>
  /\ UNCHANGED <<stored, job, task, reader, asked, reply, history>>

\* A slip: a job that is gone has an empty list of results.
FetchWaitedOrEmpty(j) ==
  /\ poller[j] = "fetch"
  /\ Answer(j, IF stored[j].status = "completed" THEN Shown(stored[j].results) ELSE "empty")
  /\ UNCHANGED <<stored, job, task, reader, asked, reply, history>>

\* get_job_results, after another await.
FetchWaited(j) ==
  /\ poller[j] = "fetch"
  /\ Answer(j, AnswerTo(stored[j]))
  /\ UNCHANGED <<stored, job, task, reader, asked, reply, history>>

PollTimesOut(j) ==
  /\ poller[j] = "poll" /\ polls[j] = MaxPolls
  /\ Answer(j, "timeout")
  /\ UNCHANGED <<stored, job, task, reader, asked, reply, history>>

\* A store read raises: get_job_status and get_job_results return an error.
PollRaises(j) ==
  /\ poller[j] \in {"poll", "fetch"} /\ faults < MaxFaults
  /\ faults' = faults + 1 /\ lost' = lost \cup {j}
  /\ Answer(j, "error")
  /\ UNCHANGED <<stored, job, task, reader, asked, reply, scraped, crashed,
                 deleted, settled>>

PollStep(j) == Poll(j) \/ FetchWaited(j) \/ PollTimesOut(j)

---------------------------------------------------------------------------
(* GET /jobs/{id}/results, in any worker: get_job_status, then             *)
(* get_job_results.                                                        *)

Reply(r, what) ==
  /\ reply' = [reply EXCEPT ![r] = what]
  /\ reader' = [reader EXCEPT ![r] = "done"]

\* status_map in get_job_status.
Told(status) == IF status = "running" THEN "working" ELSE status

\* The handler's branches on the status it was told.
AskResults(r, j) ==
  LET told == Told(stored[j].status) IN
  /\ reader[r] = "idle"
  /\ asked' = [asked EXCEPT ![r] = j]
  /\ CASE told = "absent" -> Reply(r, "not_found")
       [] told = "failed" -> Reply(r, "failed")
       [] told \in {"pending", "running"} -> Reply(r, "still_running")
       [] OTHER -> reader' = [reader EXCEPT ![r] = "fetch"] /\ UNCHANGED reply
  /\ UNCHANGED <<stored, job, task, poller, polls, answer, history>>

FetchResults(r) ==
  LET record == stored[asked[r]] IN
  /\ reader[r] = "fetch"
  /\ Reply(r, IF record.status = "absent" THEN "not_found" ELSE AnswerTo(record))
  /\ UNCHANGED <<stored, job, task, poller, polls, answer, asked, history>>

---------------------------------------------------------------------------
(* Deletion, expiry, death.                                                *)

DeleteJob(j) ==
  /\ stored[j] # Absent
  /\ stored' = [stored EXCEPT ![j] = Absent]
  /\ deleted' = deleted \cup {j}
  /\ settled' = IF Ended(j) THEN settled \cup {j} ELSE settled
  /\ UNCHANGED <<job, task, callers, scraped, lost, crashed, faults>>

\* The TTL is seven days; a task that writes or a caller that waits for it is
\* minutes old.
ExpireJob(j) ==
  /\ stored[j] # Absent /\ Ended(j) /\ poller[j] \in {"none", "done"}
  /\ stored' = [stored EXCEPT ![j] = Absent]
  /\ UNCHANGED <<job, task, callers, history>>

\* The worker dies, or its loop stops with the background task pending.
Crash(j) ==
  /\ ~Ended(j) /\ faults < MaxFaults
  /\ faults' = faults + 1
  /\ task' = [task EXCEPT ![j] = "dead"]
  /\ crashed' = crashed \cup {j}
  /\ poller' = [poller EXCEPT ![j] = IF @ = "none" THEN @ ELSE "done"]
  /\ UNCHANGED <<stored, job, polls, answer, reader, asked, reply, scraped,
                 lost, deleted, settled>>

JobsNext ==
  \/ \E j \in Jobs :
       \/ CreateJob(j) \/ CreateRaises(j) \/ TaskStep(j) \/ PollStep(j)
       \/ PutRunningRaises(j) \/ PutCompletedRaises(j) \/ PutFailedRaises(j)
       \/ PollRaises(j) \/ DeleteJob(j) \/ ExpireJob(j) \/ Crash(j)
  \/ \E r \in Readers : FetchResults(r) \/ \E j \in Jobs : AskResults(r, j)

JobsSpec == JobsInit /\ [][JobsNext]_jobsVars

\* Every Playwright wait and Redis call has a timeout and asyncio resumes every
\* task; requests and deletions are the clients' own affair.
JobsFairSpec ==
  JobsSpec /\ \A j \in Jobs : WF_jobsVars(TaskStep(j)) /\ WF_jobsVars(PollStep(j))

---------------------------------------------------------------------------
(* Properties.                                                             *)

JobRecords == [status  : {"absent", "pending", "running", "completed", "failed"},
               results : Found \cup {"none"}, error : Failures \cup {"none"}]

PlaceLists   == {"places", "empty"}
Answers == PlaceLists \cup {"none", "failed", "timeout", "error"}
Replies == PlaceLists \cup {"none", "failed", "error", "not_found", "still_running"}

\* Every variable keeps its type.
JobsTypeOK ==
  /\ stored \in [Jobs -> JobRecords] /\ job \in [Jobs -> JobRecords]
  /\ task \in [Jobs -> {"none", "start", "search", "put_completed",
                        "put_failed", "close", "ended", "dead"}]
  /\ poller \in [Jobs -> {"none", "poll", "fetch", "done"}]
  /\ polls \in [Jobs -> 0 .. MaxPolls] /\ answer \in [Jobs -> Answers]
  /\ reader \in [Readers -> {"idle", "fetch", "done"}]
  /\ asked \in [Readers -> Jobs \cup {NoJob}] /\ reply \in [Readers -> Replies]
  /\ scraped \in [Jobs -> Found \cup Failures \cup {"none"}]
  /\ lost \subseteq Jobs /\ crashed \subseteq Jobs
  /\ deleted \subseteq Jobs /\ settled \subseteq Jobs
  /\ faults \in Nat

\* run_scrape_job's docstring: a scrape that failed never completes with an
\* empty list.  A completed record carries exactly what its search returned, and
\* a failed one belongs to a failed search or a store that raised.
RecordTellsTheScrape(j) ==
  /\ stored[j].status = "completed" =>
       /\ scraped[j] \in Found
       /\ stored[j].results = scraped[j] /\ stored[j].error = "none"
  /\ stored[j].status = "failed" =>
       \/ scraped[j] \in Failures /\ stored[j].error = scraped[j]
       \/ j \in lost /\ stored[j].error = "error"

\* A list handed out is the one a search of this job returned.
ListIsOf(list, how) == how \in Found /\ list = Shown(how)

WaiterIsToldTheTruth(j) ==
  /\ answer[j] \in PlaceLists => ListIsOf(answer[j], scraped[j])
  /\ answer[j] = "failed" => scraped[j] \in Failures \/ j \in lost
  /\ answer[j] = "error" => j \in deleted \cup lost

ReaderIsToldTheTruth(r) ==
  /\ reply[r] \in PlaceLists => ListIsOf(reply[r], scraped[asked[r]])
  /\ reply[r] = "failed" => \/ scraped[asked[r]] \in Failures
                            \/ asked[r] \in lost

\* The record tells how the scrape ended, unverified mark included.  Its two kinds
\* of caller get a list only of a search that returned, and the list it returned:
\* whoever waited, also when the job ends, vanishes or fails between a poll and the
\* read of its results; and a results request.  Whether an empty list was verified
\* they are not told: see UnverifiedIsTold.
TruthIsTold ==
  /\ \A j \in Jobs : RecordTellsTheScrape(j) /\ WaiterIsToldTheTruth(j)
  /\ \A r \in Readers : ReaderIsToldTheTruth(r)

Rank(status) == CASE status = "pending"   -> 0
                  [] status = "running"   -> 1
                  [] status = "completed" -> 2
                  [] status = "failed"    -> 2
                  [] OTHER                -> 3

\* A caller never sees a job go back: a record's status only advances until the
\* record goes away, and one deleted when its task had ended stays away.  Only a
\* store call that raised after it was applied can turn "completed" into "failed".
StatusOnlyAdvances ==
  [][\A j \in Jobs :
       LET before == stored[j].status
           after  == stored'[j].status
       IN /\ before # "absent" =>
               \/ Rank(before) < Rank(after)
               \/ before = after
               \/ before = "completed" /\ after = "failed" /\ j \in lost
          /\ j \in settled => after = "absent"]_jobsVars

\* jobs.py:142: a caller who asks for the results of a job that runs is told
\* that it "is still running", not that the request failed.
RunningJobIsNotAnError ==
  \A r \in Readers : reply[r] = "error" => scraped[asked[r]] # "none"

\* scraper.py:481, scraper_jobs.py:49: an empty answer that could not be confirmed
\* is marked and "carried out to the caller", so that a caller who gets an empty
\* list and no mark may take it for a real zero.
UnverifiedIsTold ==
  /\ \A j \in Jobs : answer[j] = "empty" => scraped[j] = "zero"
  /\ \A r \in Readers : reply[r] = "empty" => scraped[asked[r]] = "zero"

\* jobs.py:195: "Delete one of this API key's jobs and its results": a job whose
\* deletion was confirmed stays away, its task still running or not.
DeletedJobsStayAway == \A j \in deleted : stored[j] = Absent

\* A job that was started settles, unless its store or its worker failed it; and
\* search_and_wait returns, even if its job never does.
JobsSettle ==
  \A j \in Jobs :
    /\ task[j] = "start" ~>
         (Terminal(stored[j].status) \/ j \in deleted \cup lost \cup crashed)
    /\ poller[j] = "poll" ~> poller[j] = "done"
================================================================================
