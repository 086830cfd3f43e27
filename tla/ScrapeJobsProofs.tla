--------------------------- MODULE ScrapeJobsProofs ---------------------------
(***************************************************************************)
(* ScrapeJobs, for every number of jobs, results requests, polls, failing  *)
(* store calls and worker deaths: what anybody is told of a job is what    *)
(* its search did.                                                         *)
(***************************************************************************)
EXTENDS ScrapeJobs, TLAPS

(***************************************************************************)
(* Types.                                                                  *)
(***************************************************************************)

LEMMA JobRecordsAre ==
  /\ Absent \in JobRecords /\ NewJob \in JobRecords
  /\ \A record \in JobRecords :
       /\ [record EXCEPT !.status = "running"] \in JobRecords
       /\ \A kind \in Failures : Failed(record, kind) \in JobRecords
       /\ \A results \in Found :
            [record EXCEPT !.status = "completed", !.results = results] \in JobRecords
BY ZenonT(30) DEF Absent, NewJob, JobRecords, Failed

\* Everything one job's task, its waiter, its deletion and its store can do.
JobStep(j) ==
  \/ CreateJob(j) \/ CreateRaises(j) \/ TaskStep(j) \/ PollStep(j)
  \/ PutRunningRaises(j) \/ PutCompletedRaises(j) \/ PutFailedRaises(j)
  \/ PollRaises(j) \/ DeleteJob(j) \/ ExpireJob(j) \/ Crash(j)

\* No request is told anything by a step of a job.
LEMMA ReadersStand ==
  ASSUME NEW j \in Jobs, JobStep(j)
  PROVE  UNCHANGED <<reader, asked, reply>>
BY DEF JobStep, CreateJob, CreateRaises, TaskStep, PutRunning, SearchReturns, SearchRaises,
       PutCompleted, PutFailed, Close, PollStep, Poll, FetchWaited, PollTimesOut,
       PutRunningRaises, PutCompletedRaises, PutFailedRaises, PollRaises, DeleteJob,
       ExpireJob, Crash, callers

\* A results request that has been told a status asks for a job.
AskedInv == \A r \in Readers : reader[r] # "idle" => asked[r] \in Jobs

LEMMA StoreRaisesTypes ==
  ASSUME JobsTypeOK, NEW j \in Jobs, NEW record \in JobRecords, StoreRaises(j, record)
  PROVE  /\ stored' \in [Jobs -> JobRecords] /\ lost' \subseteq Jobs /\ crashed' \subseteq Jobs
         /\ deleted' \subseteq Jobs /\ settled' \subseteq Jobs /\ faults' \in Nat
BY DEF JobsTypeOK, StoreRaises

LEMMA TaskTypes ==
  ASSUME JobsTypeOK, NEW j \in Jobs, TaskStep(j)
  PROVE  JobsTypeOK'
<1> USE DEF JobsTypeOK, callers, history
<1>1. CASE PutRunning(j)
  <2>1. [job[j] EXCEPT !.status = "running"] \in JobRecords
    BY JobRecordsAre
  <2>2. job' = [job EXCEPT ![j] = [job[j] EXCEPT !.status = "running"]]
    BY <1>1 DEF PutRunning
  <2>3. QED BY <1>1, <2>1, <2>2 DEF PutRunning
<1>2. CASE SearchReturns(j)
  <2>1. PICK results \in Found :
          /\ scraped' = [scraped EXCEPT ![j] = results]
          /\ job' = [job EXCEPT ![j].status = "completed", ![j].results = results]
    BY <1>2 DEF SearchReturns
  <2>2. [job[j] EXCEPT !.status = "completed", !.results = results] \in JobRecords
    BY JobRecordsAre
  <2>3. job' = [job EXCEPT ![j] =
                  [job[j] EXCEPT !.status = "completed", !.results = results]]
    BY <2>1, Zenon
  <2>4. QED BY <1>2, <2>1, <2>2, <2>3 DEF SearchReturns
<1>3. CASE SearchRaises(j)
  <2>1. PICK kind \in Failures : scraped' = [scraped EXCEPT ![j] = kind] /\ Fail(j, kind)
    BY <1>3 DEF SearchRaises
  <2>2. Failed(job[j], kind) \in JobRecords
    BY JobRecordsAre
  <2>3. QED BY <1>3, <2>1, <2>2 DEF SearchRaises, Fail
<1>4. CASE PutCompleted(j) \/ PutFailed(j) \/ Close(j)
  BY <1>4 DEF PutCompleted, PutFailed, Close
<1>5. QED BY <1>1, <1>2, <1>3, <1>4 DEF TaskStep

LEMMA RaisingTypes ==
  ASSUME JobsTypeOK, NEW j \in Jobs,
         \/ CreateRaises(j) \/ PutRunningRaises(j) \/ PutCompletedRaises(j)
         \/ PutFailedRaises(j) \/ PollRaises(j)
  PROVE  JobsTypeOK'
<1> USE DEF JobsTypeOK, callers
<1>1. CASE CreateRaises(j)
  BY <1>1, JobRecordsAre, StoreRaisesTypes DEF CreateRaises
<1>2. /\ "error" \in Failures /\ Failed(job[j], "error") \in JobRecords
      /\ [job[j] EXCEPT !.status = "running"] \in JobRecords
  BY JobRecordsAre DEF Failures
<1>3. CASE PutRunningRaises(j)
  BY <1>2, <1>3, StoreRaisesTypes DEF PutRunningRaises, Fail
<1>4. CASE PutCompletedRaises(j)
  BY <1>2, <1>4, StoreRaisesTypes DEF PutCompletedRaises, Fail
<1>5. CASE PutFailedRaises(j)
  BY <1>5, StoreRaisesTypes DEF PutFailedRaises
<1>6. CASE PollRaises(j)
  BY <1>6 DEF PollRaises, Answer, Answers
<1>7. QED BY <1>1, <1>3, <1>4, <1>5, <1>6

LEMMA JobTypes ==
  ASSUME JobsTypeOK, NEW j \in Jobs, JobStep(j)
  PROVE  JobsTypeOK'
<1> USE JobAssumption DEF JobsTypeOK, callers, history
<1>1. CASE CreateJob(j)
  <2>1. PICK waiting \in {"none", "poll"} : poller' = [poller EXCEPT ![j] = waiting]
    BY <1>1 DEF CreateJob
  <2>2. stored' \in [Jobs -> JobRecords]
    BY <1>1, JobRecordsAre DEF CreateJob
  <2>3. QED BY <1>1, <2>1, <2>2 DEF CreateJob
<1>2. CASE Poll(j)
  BY <1>2 DEF Poll, Answer, Answers
<1>3. CASE FetchWaited(j)
  <2>1. AnswerTo(stored[j]) \in Answers
    BY DEF AnswerTo, Shown, Answers, PlaceLists
  <2>2. QED BY <1>3, <2>1 DEF FetchWaited, Answer
<1>4. CASE PollTimesOut(j)
  BY <1>4 DEF PollTimesOut, Answer, Answers
<1>5. CASE DeleteJob(j)
  BY <1>5, JobRecordsAre DEF DeleteJob
<1>6. CASE ExpireJob(j)
  BY <1>6, JobRecordsAre DEF ExpireJob
<1>7. CASE Crash(j)
  BY <1>7 DEF Crash
<1>8. QED
  BY <1>1, <1>2, <1>3, <1>4, <1>5, <1>6, <1>7, TaskTypes, RaisingTypes
     DEF JobStep, PollStep

LEMMA ReaderTypes ==
  ASSUME JobsTypeOK, AskedInv, NEW r \in Readers,
         FetchResults(r) \/ \E j \in Jobs : AskResults(r, j)
  PROVE  JobsTypeOK' /\ AskedInv'
<1> USE DEF JobsTypeOK, AskedInv, history
<1>1. CASE FetchResults(r)
  <2> DEFINE record == stored[asked[r]]
             what == IF record.status = "absent" THEN "not_found" ELSE AnswerTo(record)
  <2>1. what \in Replies
    BY DEF AnswerTo, Shown, Replies, PlaceLists
  <2> HIDE DEF what
  <2>2. Reply(r, what)
    BY <1>1 DEF FetchResults, what
  <2>3. QED BY <1>1, <2>1, <2>2 DEF FetchResults, Reply
<1>2. ASSUME NEW j \in Jobs, AskResults(r, j)
      PROVE  JobsTypeOK' /\ AskedInv'
  BY <1>2 DEF AskResults, Reply, Replies
<1>3. QED BY <1>1, <1>2

LEMMA TypesInvariant == JobsSpec => [](JobsTypeOK /\ AskedInv)
<1>1. JobsInit => JobsTypeOK /\ AskedInv
  <2> SUFFICES ASSUME JobsInit PROVE JobsTypeOK /\ AskedInv
    OBVIOUS
  <2>1. 0 \in 0 .. MaxPolls
    BY JobAssumption
  <2>2. stored \in [Jobs -> JobRecords] /\ job \in [Jobs -> JobRecords]
    BY JobRecordsAre DEF JobsInit
  <2>3. QED BY <2>1, <2>2 DEF JobsInit, JobsTypeOK, AskedInv, Answers, Replies
<1>2. JobsTypeOK /\ AskedInv /\ [JobsNext]_jobsVars => JobsTypeOK' /\ AskedInv'
  <2> SUFFICES ASSUME JobsTypeOK, AskedInv, [JobsNext]_jobsVars
               PROVE  JobsTypeOK' /\ AskedInv'
    OBVIOUS
  <2>1. CASE UNCHANGED jobsVars
    BY <2>1 DEF jobsVars, callers, history, JobsTypeOK, AskedInv
  <2>2. ASSUME NEW j \in Jobs, JobStep(j)
        PROVE  JobsTypeOK' /\ AskedInv'
    BY <2>2, JobTypes, ReadersStand DEF AskedInv
  <2>3. QED BY <2>1, <2>2, ReaderTypes DEF JobsNext, JobStep
<1>3. QED BY <1>1, <1>2, PTL DEF JobsSpec

\* Every variable of the jobs' life keeps its type.
THEOREM Types == JobsSpec => []JobsTypeOK
BY TypesInvariant, PTL

---------------------------------------------------------------------------
(* The truth.  What a record says of a search must be true of the object   *)
(* the task will put next as well, and the task's stage bounds what the    *)
(* store can hold: an overwritten record was never further on.             *)

Tells(record, j) ==
  /\ record.status = "completed" =>
       scraped[j] \in Found /\ record.results = scraped[j] /\ record.error = "none"
  /\ record.status = "failed" =>
       \/ scraped[j] \in Failures /\ record.error = scraped[j]
       \/ j \in lost /\ record.error = "error"

RunningJob == [NewJob EXCEPT !.status = "running"]

StageInv(j) ==
  /\ task[j] \in {"none", "start"} =>
       job[j] = NewJob /\ stored[j] \in {Absent, NewJob} /\ scraped[j] = "none"
  /\ task[j] = "none" => stored[j] = Absent \/ j \in lost
  /\ task[j] = "search" =>
       job[j] = RunningJob /\ stored[j] \in {Absent, RunningJob} /\ scraped[j] = "none"
  /\ task[j] = "put_completed" =>
       job[j].status = "completed" /\ stored[j] \in {Absent, RunningJob}
  /\ task[j] = "put_failed" =>
       /\ job[j].status = "failed"
       /\ \/ stored[j] \in {Absent, NewJob, RunningJob}
          \/ j \in lost /\ stored[j].status = "completed"

JobInv(j) ==
  /\ Tells(stored[j], j) /\ Tells(job[j], j)
  /\ stored[j].status = "absent" => stored[j] = Absent
  /\ StageInv(j)
  /\ j \in settled => stored[j] = Absent /\ Ended(j) /\ (task[j] = "none" => j \in lost)
  /\ poller[j] = "fetch" => stored[j].status = "completed" \/ j \in deleted \cup lost
  /\ WaiterIsToldTheTruth(j)

ReaderInv(r) ==
  /\ reader[r] # "done" => reply[r] = "none"
  /\ ReaderIsToldTheTruth(r)

JobsInv == (\A j \in Jobs : JobInv(j)) /\ (\A r \in Readers : ReaderInv(r))

\* A job's step is no other job's.
LEMMA OtherJobsStand ==
  ASSUME JobsTypeOK, NEW j \in Jobs, JobStep(j), NEW i \in Jobs, i # j
  PROVE  /\ stored'[i] = stored[i] /\ job'[i] = job[i] /\ task'[i] = task[i]
         /\ poller'[i] = poller[i] /\ answer'[i] = answer[i] /\ scraped'[i] = scraped[i]
         /\ (i \in lost' <=> i \in lost) /\ (i \in deleted' <=> i \in deleted)
         /\ (i \in settled' <=> i \in settled)
<1> USE DEF JobsTypeOK, callers, history
<1>1. CASE CreateJob(j)
  <2>1. PICK waiting \in {"none", "poll"} : poller' = [poller EXCEPT ![j] = waiting]
    BY <1>1 DEF CreateJob
  <2>2. QED BY <1>1, <2>1 DEF CreateJob
<1>2. CASE PutRunning(j) \/ PutCompleted(j) \/ PutFailed(j) \/ Close(j)
  BY <1>2 DEF PutRunning, PutCompleted, PutFailed, Close
<1>3. CASE SearchReturns(j)
  BY <1>3 DEF SearchReturns
<1>4. CASE SearchRaises(j)
  BY <1>4 DEF SearchRaises, Fail
<1>5. CASE Poll(j) \/ FetchWaited(j) \/ PollTimesOut(j)
  BY <1>5 DEF Poll, FetchWaited, PollTimesOut, Answer
<1>6. CASE CreateRaises(j) \/ PutRunningRaises(j)
  BY <1>6 DEF CreateRaises, PutRunningRaises, StoreRaises, Fail
<1>7. CASE PutCompletedRaises(j) \/ PutFailedRaises(j)
  BY <1>7 DEF PutCompletedRaises, PutFailedRaises, StoreRaises, Fail
<1>8. CASE PollRaises(j)
  BY <1>8 DEF PollRaises, Answer
<1>9. CASE DeleteJob(j) \/ ExpireJob(j) \/ Crash(j)
  BY <1>9 DEF DeleteJob, ExpireJob, Crash
<1>10. QED
  BY <1>1, <1>2, <1>3, <1>4, <1>5, <1>6, <1>7, <1>8, <1>9 DEF JobStep, TaskStep, PollStep

LEMMA StandingJob ==
  ASSUME NEW i \in Jobs, JobInv(i),
         stored'[i] = stored[i], job'[i] = job[i], task'[i] = task[i],
         poller'[i] = poller[i], answer'[i] = answer[i], scraped'[i] = scraped[i],
         i \in lost' <=> i \in lost, i \in deleted' <=> i \in deleted,
         i \in settled' <=> i \in settled
  PROVE  JobInv(i)'
BY DEF JobInv, Tells, StageInv, Ended, WaiterIsToldTheTruth

LEMMA EmptyJobs ==
  /\ Absent.status = "absent" /\ NewJob.status = "pending" /\ RunningJob.status = "running"
  /\ NewJob # RunningJob /\ Absent # NewJob /\ Absent # RunningJob
BY DEF Absent, NewJob, RunningJob

LEMMA TaskInv ==
  ASSUME JobsTypeOK, NEW j \in Jobs, JobInv(j), TaskStep(j)
  PROVE  JobInv(j)'
<1> USE EmptyJobs DEF JobsTypeOK, callers, history, JobInv, StageInv, Tells, Ended,
                      WaiterIsToldTheTruth
<1>1. CASE PutRunning(j)
  <2>1. job'[j] = RunningJob /\ stored'[j] = RunningJob /\ task'[j] = "search"
    BY <1>1 DEF PutRunning, RunningJob
  <2>2. QED BY <1>1, <2>1 DEF PutRunning
<1>2. CASE SearchReturns(j)
  <2>1. PICK results \in Found :
          /\ scraped' = [scraped EXCEPT ![j] = results]
          /\ job' = [job EXCEPT ![j].status = "completed", ![j].results = results]
    BY <1>2 DEF SearchReturns
  <2>2. job'[j] = [status |-> "completed", results |-> results, error |-> "none"]
    BY <1>2, <2>1 DEF SearchReturns, RunningJob, NewJob, Absent
  <2>3. scraped'[j] = results /\ results \notin Failures
    BY <2>1 DEF Found, Failures
  <2>4. /\ job'[j].status = "completed" /\ job'[j].results = results
        /\ job'[j].error = "none"
    BY <2>2
  <2>5. /\ UNCHANGED <<stored, poller, answer, lost, deleted, settled>>
        /\ task[j] = "search" /\ task'[j] = "put_completed"
    BY <1>2 DEF SearchReturns
  <2> HIDE DEF Found, Failures
  <2>6. answer[j] \notin PlaceLists /\ (answer[j] = "failed" => j \in lost)
    BY <2>5 DEF ListIsOf, Found, Failures
  <2>7. stored[j].status # "completed" /\ stored[j].status # "failed"
    BY <2>5
  <2>8. QED BY <2>3, <2>4, <2>5, <2>6, <2>7
<1>3. CASE SearchRaises(j)
  <2>1. PICK kind \in Failures : scraped' = [scraped EXCEPT ![j] = kind] /\ Fail(j, kind)
    BY <1>3 DEF SearchRaises
  <2>2. job'[j] = [status |-> "failed", results |-> "none", error |-> kind]
    BY <1>3, <2>1 DEF SearchRaises, Fail, Failed, RunningJob, NewJob, Absent
  <2>3. QED BY <1>3, <2>1, <2>2 DEF SearchRaises, Fail, ListIsOf, Found, Failures
<1>4. CASE PutCompleted(j) \/ PutFailed(j)
  BY <1>4 DEF PutCompleted, PutFailed
<1>5. CASE Close(j)
  BY <1>5 DEF Close
<1>6. QED BY <1>1, <1>2, <1>3, <1>4, <1>5 DEF TaskStep

LEMMA RaisingInv ==
  ASSUME JobsTypeOK, NEW j \in Jobs, JobInv(j),
         \/ CreateRaises(j) \/ PutRunningRaises(j) \/ PutCompletedRaises(j)
         \/ PutFailedRaises(j) \/ PollRaises(j)
  PROVE  JobInv(j)'
<1> USE EmptyJobs DEF JobsTypeOK, callers, JobInv, StageInv, Tells, Ended,
                      WaiterIsToldTheTruth
<1>1. CASE CreateRaises(j)
  <2>1. stored'[j] \in {stored[j], NewJob} /\ j \in lost'
    BY <1>1 DEF CreateRaises, StoreRaises
  <2>2. UNCHANGED <<job, task, poller, answer, scraped, deleted, settled>>
    BY <1>1 DEF CreateRaises, StoreRaises
  <2>3. task[j] = "none" /\ j \notin settled
    BY <1>1 DEF CreateRaises
  <2>4. QED BY <2>1, <2>2, <2>3
<1>2. ASSUME NEW record \in JobRecords, StoreRaises(j, record), Fail(j, "error"),
             UNCHANGED <<callers, scraped>>
      PROVE  /\ stored'[j] \in {stored[j], record} /\ j \in lost'
             /\ job'[j].status = "failed" /\ job'[j].error = "error"
             /\ task'[j] = "put_failed"
             /\ UNCHANGED <<poller, answer, scraped, deleted, settled>>
  <2>1. job'[j] = Failed(job[j], "error") /\ task'[j] = "put_failed"
    BY <1>2 DEF Fail
  <2>2. job'[j].status = "failed" /\ job'[j].error = "error"
    BY <2>1 DEF Failed, JobRecords
  <2>3. QED BY <1>2, <2>1, <2>2 DEF StoreRaises
<1>3. CASE PutRunningRaises(j)
  <2>1. [job[j] EXCEPT !.status = "running"] = RunningJob /\ RunningJob \in JobRecords
    BY <1>3, JobRecordsAre DEF PutRunningRaises, RunningJob
  <2>2. task[j] = "start" /\ j \notin settled
    BY <1>3 DEF PutRunningRaises
  <2>3. QED BY <1>2, <1>3, <2>1, <2>2 DEF PutRunningRaises
<1>4. CASE PutCompletedRaises(j)
  <2>1. task[j] = "put_completed" /\ j \notin settled
    BY <1>4 DEF PutCompletedRaises
  <2>2. QED BY <1>2, <1>4, <2>1 DEF PutCompletedRaises
<1>5. CASE PutFailedRaises(j)
  <2>1. stored'[j] \in {stored[j], job[j]} /\ j \in lost' /\ task'[j] = "close"
    BY <1>5 DEF PutFailedRaises, StoreRaises
  <2>2. UNCHANGED <<job, poller, answer, scraped, deleted, settled>>
    BY <1>5 DEF PutFailedRaises, StoreRaises
  <2>3. task[j] = "put_failed" /\ j \notin settled
    BY <1>5 DEF PutFailedRaises
  <2>4. QED BY <2>1, <2>2, <2>3
<1>6. CASE PollRaises(j)
  <2>1. /\ UNCHANGED <<stored, job, task, scraped, deleted, settled>> /\ j \in lost'
        /\ answer'[j] = "error" /\ poller'[j] = "done"
    BY <1>6 DEF PollRaises, Answer
  <2>2. "error" \notin PlaceLists
    BY DEF PlaceLists
  <2>3. QED BY <2>1, <2>2
<1>7. QED BY <1>1, <1>3, <1>4, <1>5, <1>6

LEMMA PollInv ==
  ASSUME JobsTypeOK, NEW j \in Jobs, JobInv(j), PollStep(j)
  PROVE  JobInv(j)'
<1> USE DEF JobsTypeOK, JobInv, StageInv, Tells, Ended, WaiterIsToldTheTruth
<1>1. UNCHANGED <<stored, job, task, scraped, lost, deleted, settled>>
  BY DEF PollStep, Poll, FetchWaited, PollTimesOut, history
<1>2. PlaceLists \cap {"failed", "error", "timeout", "none"} = {}
  BY DEF PlaceLists
<1>3. CASE Poll(j)
  <2>1. CASE stored[j].status = "completed"
    <3>1. answer'[j] = answer[j] /\ poller'[j] = "fetch"
      BY <1>3, <2>1 DEF Poll
    <3>2. QED BY <1>1, <2>1, <3>1
  <2>2. CASE stored[j].status = "failed"
    <3>1. answer'[j] = "failed" /\ poller'[j] = "done"
      BY <1>3, <2>2 DEF Poll, Answer
    <3>2. QED BY <1>1, <1>2, <2>2, <3>1
  <2>3. CASE stored[j].status \notin {"completed", "failed"}
    <3>1. answer'[j] = answer[j] /\ poller'[j] = "poll"
      BY <1>3, <2>3 DEF Poll
    <3>2. QED BY <1>1, <3>1
  <2>4. QED BY <2>1, <2>2, <2>3
<1>4. CASE FetchWaited(j)
  <2>1. /\ poller[j] = "fetch" /\ poller'[j] = "done"
        /\ answer'[j] = IF stored[j].status = "completed" THEN Shown(stored[j].results) ELSE "error"
    BY <1>4 DEF FetchWaited, Answer, AnswerTo
  <2>2. QED BY <1>1, <1>2, <2>1 DEF ListIsOf, Shown, PlaceLists
<1>5. CASE PollTimesOut(j)
  <2>1. answer'[j] = "timeout" /\ poller'[j] = "done"
    BY <1>5 DEF PollTimesOut, Answer
  <2>2. QED BY <1>1, <1>2, <2>1
<1>6. QED BY <1>3, <1>4, <1>5 DEF PollStep

LEMMA OwnJobInv ==
  ASSUME JobsTypeOK, NEW j \in Jobs, JobInv(j), JobStep(j)
  PROVE  JobInv(j)'
<1> USE EmptyJobs DEF JobsTypeOK, callers, history, JobInv, StageInv, Tells, Ended,
                      WaiterIsToldTheTruth
<1>1. CASE CreateJob(j)
  <2>1. PICK waiting \in {"none", "poll"} : poller' = [poller EXCEPT ![j] = waiting]
    BY <1>1 DEF CreateJob
  <2>2. QED BY <1>1, <2>1 DEF CreateJob
<1>2. CASE DeleteJob(j)
  BY <1>2 DEF DeleteJob
<1>3. CASE ExpireJob(j)
  BY <1>3 DEF ExpireJob
<1>4. CASE Crash(j)
  BY <1>4 DEF Crash
<1>5. QED BY <1>1, <1>2, <1>3, <1>4, TaskInv, RaisingInv, PollInv DEF JobStep

\* A search ends once, and what was lost stays lost: what a request has been
\* told stays true.
LEMMA PastStands ==
  ASSUME JobsTypeOK, NEW j \in Jobs, JobInv(j), JobStep(j)
  PROVE  /\ \A i \in Jobs : scraped[i] # "none" => scraped'[i] = scraped[i]
         /\ lost \subseteq lost'
<1> USE DEF JobsTypeOK, callers, history
<1>1. task[j] = "search" => scraped[j] = "none"
  BY DEF JobInv, StageInv
<1>2. CASE SearchReturns(j) \/ SearchRaises(j)
  BY <1>1, <1>2 DEF SearchReturns, SearchRaises
<1>3. CASE CreateRaises(j) \/ PutRunningRaises(j) \/ PutCompletedRaises(j)
           \/ PutFailedRaises(j) \/ PollRaises(j)
  BY <1>3 DEF CreateRaises, PutRunningRaises, PutCompletedRaises, PutFailedRaises, PollRaises,
              StoreRaises
<1>4. CASE CreateJob(j) \/ DeleteJob(j) \/ ExpireJob(j) \/ Crash(j) \/ PollStep(j)
  BY <1>4 DEF CreateJob, DeleteJob, ExpireJob, Crash, PollStep, Poll, FetchWaited, PollTimesOut
<1>5. CASE PutRunning(j) \/ PutCompleted(j) \/ PutFailed(j) \/ Close(j)
  BY <1>5 DEF PutRunning, PutCompleted, PutFailed, Close
<1>6. QED BY <1>2, <1>3, <1>4, <1>5 DEF JobStep, TaskStep

LEMMA JobStepInv ==
  ASSUME JobsTypeOK, AskedInv, JobsInv, NEW j \in Jobs, JobStep(j)
  PROVE  JobsInv'
<1>1. ASSUME NEW i \in Jobs PROVE JobInv(i)'
  <2>1. CASE i = j
    BY <2>1, OwnJobInv DEF JobsInv
  <2>2. CASE i # j
    BY <2>2, OtherJobsStand, StandingJob DEF JobsInv
  <2>3. QED BY <2>1, <2>2
<1>2. ASSUME NEW r \in Readers PROVE ReaderInv(r)'
  <2>1. UNCHANGED <<reader, asked, reply>>
    BY ReadersStand
  <2>2. ReaderInv(r) /\ JobInv(j)
    BY DEF JobsInv
  <2>3. CASE reply[r] = "none"
    BY <2>1, <2>2, <2>3 DEF ReaderInv, ReaderIsToldTheTruth, PlaceLists
  <2>4. CASE reply[r] # "none"
    <3>1. asked[r] \in Jobs
      BY <2>2, <2>4 DEF ReaderInv, AskedInv, JobsTypeOK
    <3>2. /\ scraped[asked[r]] # "none" => scraped'[asked[r]] = scraped[asked[r]]
          /\ lost \subseteq lost'
      BY <2>2, <3>1, PastStands
    <3>3. scraped[asked[r]] \in Found \cup Failures => scraped[asked[r]] # "none"
      BY DEF Found, Failures
    <3>4. QED BY <2>1, <2>2, <3>2, <3>3 DEF ReaderInv, ReaderIsToldTheTruth, ListIsOf
  <2>5. QED BY <2>3, <2>4
<1>3. QED BY <1>1, <1>2 DEF JobsInv

LEMMA ReaderStepInv ==
  ASSUME JobsTypeOK, AskedInv, JobsInv, NEW r \in Readers,
         FetchResults(r) \/ \E j \in Jobs : AskResults(r, j)
  PROVE  JobsInv'
<1>1. UNCHANGED <<stored, job, task, poller, answer, scraped, lost, deleted, settled>>
  BY DEF FetchResults, AskResults, history
<1>2. \A i \in Jobs : JobInv(i)'
  BY <1>1, StandingJob DEF JobsInv
<1>3. ASSUME NEW q \in Readers, q # r PROVE ReaderInv(q)'
  <2>1. reader'[q] = reader[q] /\ asked'[q] = asked[q] /\ reply'[q] = reply[q]
    BY <1>3 DEF FetchResults, AskResults, Reply, JobsTypeOK
  <2>2. ReaderInv(q)
    BY DEF JobsInv
  <2>3. QED BY <1>1, <2>1, <2>2 DEF ReaderInv, ReaderIsToldTheTruth
<1>4. ReaderInv(r)'
  <2>1. CASE FetchResults(r)
    <3> DEFINE record == stored[asked[r]]
    <3>1. asked[r] \in Jobs
      BY <2>1 DEF FetchResults, AskedInv
    <3>2. Tells(record, asked[r])
      BY <3>1 DEF JobsInv, JobInv
    <3>3. /\ reply'[r] = IF record.status = "absent" THEN "not_found"
                         ELSE IF record.status = "completed" THEN Shown(record.results)
                              ELSE "error"
          /\ reader'[r] = "done" /\ asked'[r] = asked[r]
      BY <2>1 DEF FetchResults, Reply, AnswerTo, JobsTypeOK
    <3>4. QED
      BY <1>1, <3>2, <3>3
         DEF ReaderInv, ReaderIsToldTheTruth, ListIsOf, Shown, Tells, PlaceLists
  <2>2. ASSUME NEW j \in Jobs, AskResults(r, j)
        PROVE  ReaderInv(r)'
    <3>1. asked'[r] = j /\ reply[r] = "none"
      BY <2>2 DEF AskResults, JobsTypeOK, JobsInv, ReaderInv
    <3>2. Tells(stored[j], j)
      BY DEF JobsInv, JobInv
    <3>3. \/ reply'[r] = "failed" /\ stored[j].status = "failed"
          \/ reply'[r] \in {"not_found", "still_running"}
          \/ reply'[r] = "none"
      BY <2>2, <3>1 DEF AskResults, Reply, Told, JobsTypeOK
    <3>4. reply'[r] = "none" \/ reader'[r] = "done"
      BY <2>2, <3>1 DEF AskResults, Reply, JobsTypeOK
    <3>5. QED BY <1>1, <3>1, <3>2, <3>3, <3>4 DEF ReaderInv, ReaderIsToldTheTruth, Tells, PlaceLists
  <2>3. QED BY <2>1, <2>2
<1>5. QED BY <1>2, <1>3, <1>4 DEF JobsInv

LEMMA JobsInvariant == JobsSpec => []JobsInv
<1>1. JobsInit => JobsInv
  <2> SUFFICES ASSUME JobsInit PROVE JobsInv
    OBVIOUS
  <2>1. ASSUME NEW j \in Jobs PROVE JobInv(j)
    BY EmptyJobs DEF JobsInit, JobInv, Tells, StageInv, Ended, WaiterIsToldTheTruth, PlaceLists
  <2>2. ASSUME NEW r \in Readers PROVE ReaderInv(r)
    BY DEF JobsInit, ReaderInv, ReaderIsToldTheTruth, PlaceLists
  <2>3. QED BY <2>1, <2>2 DEF JobsInv
<1>2. JobsTypeOK /\ AskedInv /\ JobsInv /\ [JobsNext]_jobsVars => JobsInv'
  <2> SUFFICES ASSUME JobsTypeOK, AskedInv, JobsInv, [JobsNext]_jobsVars PROVE JobsInv'
    OBVIOUS
  <2>1. CASE UNCHANGED jobsVars
    <3>1. UNCHANGED <<stored, job, task, poller, answer, scraped, lost, deleted, settled,
                      reader, asked, reply>>
      BY <2>1 DEF jobsVars, callers, history
    <3>2. \A i \in Jobs : JobInv(i)'
      BY <3>1, StandingJob DEF JobsInv
    <3>3. QED BY <3>1, <3>2 DEF JobsInv, ReaderInv, ReaderIsToldTheTruth
  <2>2. QED BY <2>1, JobStepInv, ReaderStepInv DEF JobsNext, JobStep
<1>3. QED BY <1>1, <1>2, TypesInvariant, PTL DEF JobsSpec

\* A record tells how the scrape ended, and search_and_wait and a results request
\* hand out only a list that the job's search returned, whatever happens to the job
\* between their reads.
THEOREM TruthTold == JobsSpec => []TruthIsTold
<1>1. JobsInv => TruthIsTold
  BY DEF JobsInv, JobInv, ReaderInv, TruthIsTold, RecordTellsTheScrape, Tells
<1>2. QED BY <1>1, JobsInvariant, PTL

\* How a step can change the record of its job.
LEMMA RecordMoves ==
  ASSUME JobsTypeOK, NEW j \in Jobs, JobInv(j), JobStep(j), stored'[j] # stored[j]
  PROVE  /\ stored[j].status # "absent" =>
              \/ Rank(stored[j].status) < Rank(stored'[j].status)
              \/ stored[j].status = stored'[j].status
              \/ /\ stored[j].status = "completed"
                 /\ stored'[j].status = "failed" /\ j \in lost
         /\ j \in settled => stored'[j].status = "absent"
<1> USE EmptyJobs DEF JobsTypeOK, JobInv, StageInv, Ended, Rank
<1>1. CASE CreateJob(j)
  BY <1>1 DEF CreateJob
<1>2. CASE CreateRaises(j)
  BY <1>2 DEF CreateRaises, StoreRaises
<1>3. CASE PutRunning(j)
  <2>1. stored'[j] = RunningJob
    BY <1>3 DEF PutRunning, RunningJob
  <2>2. QED BY <1>3, <2>1 DEF PutRunning
<1>4. CASE PutRunningRaises(j)
  <2>1. stored'[j] = RunningJob
    BY <1>4 DEF PutRunningRaises, RunningJob, StoreRaises
  <2>2. QED BY <1>4, <2>1 DEF PutRunningRaises
<1>5. CASE PutCompleted(j) \/ PutFailed(j)
  BY <1>5 DEF PutCompleted, PutFailed
<1>6. CASE PutCompletedRaises(j) \/ PutFailedRaises(j)
  BY <1>6 DEF PutCompletedRaises, PutFailedRaises, StoreRaises
<1>7. CASE DeleteJob(j) \/ ExpireJob(j)
  <2>1. stored'[j] = Absent
    BY <1>7 DEF DeleteJob, ExpireJob
  <2>2. stored[j].status \in {"absent", "pending", "running", "completed", "failed"}
    BY DEF JobRecords
  <2>3. QED BY <2>1, <2>2
<1>8. QED
  BY <1>1, <1>2, <1>3, <1>4, <1>5, <1>6, <1>7
     DEF JobStep, TaskStep, PollStep, SearchReturns, SearchRaises, Close, Poll, FetchWaited,
         PollTimesOut, PollRaises, Crash

\* A caller never sees a job go back, and a job deleted after it ended stays away.
THEOREM JobsAdvance == JobsSpec => StatusOnlyAdvances
<1> DEFINE Advances ==
      \A j \in Jobs :
        LET before == stored[j].status
            after  == stored'[j].status
        IN /\ before # "absent" =>
                \/ Rank(before) < Rank(after)
                \/ before = after
                \/ before = "completed" /\ after = "failed" /\ j \in lost
           /\ j \in settled => after = "absent"
<1>1. JobsTypeOK /\ JobsInv /\ [JobsNext]_jobsVars => [Advances]_jobsVars
  <2> SUFFICES ASSUME JobsTypeOK, JobsInv, JobsNext, NEW i \in Jobs
               PROVE  /\ stored[i].status # "absent" =>
                           \/ Rank(stored[i].status) < Rank(stored'[i].status)
                           \/ stored[i].status = stored'[i].status
                           \/ /\ stored[i].status = "completed"
                              /\ stored'[i].status = "failed" /\ i \in lost
                      /\ i \in settled => stored'[i].status = "absent"
    OBVIOUS
  <2>1. JobInv(i) /\ (i \in settled => stored[i] = Absent)
    BY DEF JobsInv, JobInv
  <2>2. CASE stored'[i] = stored[i]
    BY <2>1, <2>2, EmptyJobs
  <2>3. CASE stored'[i] # stored[i]
    <3>1. PICK j \in Jobs : JobStep(j)
      BY <2>3 DEF JobsNext, JobStep, FetchResults, AskResults
    <3>2. i = j
      BY <2>3, <3>1, OtherJobsStand
    <3>3. QED BY <2>1, <2>3, <3>1, <3>2, RecordMoves
  <2>4. QED BY <2>2, <2>3
<1>2. QED BY <1>1, JobsInvariant, TypesInvariant, PTL DEF JobsSpec, StatusOnlyAdvances
================================================================================
