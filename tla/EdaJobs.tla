-------------------------------- MODULE EdaJobs --------------------------------
(***************************************************************************)
(* The job queue of eda-service: the endpoints that create and delete jobs *)
(* (eda-service/main.py) and the worker that runs them one after the other *)
(* (EDAJobManager in eda-service/jobs/manager.py).                         *)
(*                                                                         *)
(* Endpoints and worker are coroutines of one event loop, so a step is the *)
(* code between two awaits.  run_stage is not awaited: while it runs, for  *)
(* minutes or hours, no coroutine does, and callers time out.              *)
(*                                                                         *)
(* A row keeps its status; progress and report are data nothing here reads.*)
(***************************************************************************)
EXTENDS JobLimits, Sequences

VARIABLES
    row,      \* eda_jobs.status of every job, "absent" when there is no row
    queue,    \* Redis list eda:jobs:queue
    handler,  \* where the create_job request of every job is
    client,   \* what the caller of every job knows
    worker,   \* worker_loop and process_job: where it is, and with which job
    budget,   \* faults, crashes and deletes still allowed
    starts,   \* times a job was taken to RUNNING
    outcome   \* what run_stage did

vars == <<row, queue, handler, client, worker, budget, starts, outcome>>

Statuses == {"absent", "QUEUED", "RUNNING", "COMPLETED", "FAILED"}
Ended == {"COMPLETED", "FAILED"}

\* run_stage returns a clean report or one with errors, or raises.
Results == {"clean", "errors", "raised"}

-----------------------------------------------------------------------------
Init ==
    /\ row = [j \in Jobs |-> "absent"]
    /\ queue = <<>>
    /\ handler = [j \in Jobs |-> "none"]
    /\ client = [j \in Jobs |-> "none"]
    /\ worker = [at |-> "pop", job |-> NoJob]
    /\ budget = [faults |-> MaxFaults, crashes |-> MaxCrashes, deletes |-> MaxDeletes]
    /\ starts = [j \in Jobs |-> 0]
    /\ outcome = [j \in Jobs |-> "none"]

\* run_stage blocks the event loop.
LoopFree == worker.at # "running"

\* A command to Redis or to the database raises.
Fault ==
    /\ budget.faults > 0
    /\ budget' = [budget EXCEPT !.faults = @ - 1]

WorkerAt(label) == worker.at = label
WorkerTo(label) == worker' = [worker EXCEPT !.at = label]
NextJob == worker' = [at |-> "pop", job |-> NoJob]

\* An update of a row by session.get: nothing happens when it was deleted.
SetRow(j, status) == row' = [row EXCEPT ![j] = IF @ = "absent" THEN @ ELSE status]

-----------------------------------------------------------------------------
(* POST /eda/jobs *)

Post(j) ==
    /\ client[j] = "none"
    /\ client' = [client EXCEPT ![j] = "waiting"]
    /\ handler' = [handler EXCEPT ![j] = "create"]
    /\ UNCHANGED <<row, queue, worker, budget, starts, outcome>>

\* create_job commits the row before the id is queued.
CreateRow(j) ==
    /\ LoopFree
    /\ handler[j] = "create"
    /\ row' = [row EXCEPT ![j] = "QUEUED"]
    /\ handler' = [handler EXCEPT ![j] = "enqueue"]
    /\ UNCHANGED <<queue, client, worker, budget, starts, outcome>>

\* Mutant: the push to the queue is left out.
EnqueueNothing(j) ==
    /\ handler[j] = "enqueue"
    /\ handler' = [handler EXCEPT ![j] = "reply"]
    /\ UNCHANGED <<row, queue, client, worker, budget, starts, outcome>>

Enqueue(j) ==
    /\ handler[j] = "enqueue"
    /\ queue' = Append(queue, j)
    /\ handler' = [handler EXCEPT ![j] = "reply"]
    /\ UNCHANGED <<row, client, worker, budget, starts, outcome>>

\* The log line is appended and the id goes back, if anyone still waits for it.
Reply(j) ==
    /\ LoopFree
    /\ handler[j] = "reply"
    /\ handler' = [handler EXCEPT ![j] = "none"]
    /\ client' = [client EXCEPT ![j] = IF @ = "waiting" THEN "accepted" ELSE @]
    /\ UNCHANGED <<row, queue, worker, budget, starts, outcome>>

\* An error becomes a 500: without a row, or with one that stays, queued or not.
HandlerFails(j) ==
    /\ LoopFree
    /\ handler[j] # "none"
    /\ Fault
    /\ handler' = [handler EXCEPT ![j] = "none"]
    /\ client' = [client EXCEPT ![j] = "refused"]
    /\ UNCHANGED <<row, queue, worker, starts, outcome>>

\* The caller's 60 s are over; it only takes that long while the loop is blocked.
ClientGivesUp(j) ==
    /\ ~LoopFree
    /\ client[j] = "waiting"
    /\ client' = [client EXCEPT ![j] = "refused"]
    /\ UNCHANGED <<row, queue, handler, worker, budget, starts, outcome>>

Delete(j) ==
    /\ LoopFree
    /\ row[j] # "absent"
    /\ budget.deletes > 0
    /\ budget' = [budget EXCEPT !.deletes = @ - 1]
    /\ row' = [row EXCEPT ![j] = "absent"]
    /\ UNCHANGED <<queue, handler, client, worker, starts, outcome>>

-----------------------------------------------------------------------------
(* worker_loop and process_job *)

\* Mutant: the id is read but stays at the head of the queue.
Peek ==
    /\ WorkerAt("pop")
    /\ queue # <<>>
    /\ worker' = [at |-> "begin", job |-> Head(queue)]
    /\ UNCHANGED <<row, queue, handler, client, budget, starts, outcome>>

Pop ==
    /\ WorkerAt("pop")
    /\ queue # <<>>
    /\ worker' = [at |-> "begin", job |-> Head(queue)]
    /\ queue' = Tail(queue)
    /\ UNCHANGED <<row, handler, client, budget, starts, outcome>>

\* A Redis error ends the worker for good; an id already popped is lost with it.
PopFails ==
    /\ WorkerAt("pop")
    /\ Fault
    /\ WorkerTo("dead")
    /\ queue' \in {queue} \cup (IF queue = <<>> THEN {} ELSE {Tail(queue)})
    /\ UNCHANGED <<row, handler, client, starts, outcome>>

Begin ==
    /\ WorkerAt("begin")
    /\ LET j == worker.job
       IN  IF row[j] = "absent"
           THEN NextJob /\ UNCHANGED <<row, starts>>
           ELSE /\ SetRow(j, "RUNNING")
                /\ starts' = [starts EXCEPT ![j] = @ + 1]
                /\ WorkerTo("announce")
    /\ UNCHANGED <<queue, handler, client, budget, outcome>>

\* The row is read, and "Starting" logged and published, outside of the try: an error ends
\* the worker.
Announce ==
    /\ WorkerAt("announce")
    /\ WorkerTo("progress")
    /\ UNCHANGED <<row, queue, handler, client, budget, starts, outcome>>

AnnounceFails ==
    /\ worker.at \in {"begin", "announce"}
    /\ Fault
    /\ WorkerTo("dead")
    /\ UNCHANGED <<row, queue, handler, client, starts, outcome>>

\* Three rounds of sleep, progress, log and publish, then run_stage.
Progress ==
    /\ WorkerAt("progress")
    /\ WorkerTo("running")
    /\ UNCHANGED <<row, queue, handler, client, budget, starts, outcome>>

\* Mutant: a report with errors counts as completed.
RunStageLenient ==
    /\ WorkerAt("running")
    /\ LET j == worker.job
       IN  \E r \in Results :
            /\ outcome' = [outcome EXCEPT ![j] = r]
            /\ SetRow(j, IF r # "raised" THEN "COMPLETED" ELSE "FAILED")
            /\ IF row[j] = "absent" THEN NextJob
               ELSE WorkerTo(IF r = "raised" THEN "announce_failure" ELSE "report")
    /\ UNCHANGED <<queue, handler, client, budget, starts>>

\* Mutant: the verdict is written in the vocabulary of the orchestrator.
RunStageForeign ==
    /\ WorkerAt("running")
    /\ LET j == worker.job
       IN  \E r \in Results :
            /\ outcome' = [outcome EXCEPT ![j] = r]
            /\ SetRow(j, IF r = "clean" THEN "SUCCEEDED" ELSE "FAILED")
            /\ IF row[j] = "absent" THEN NextJob
               ELSE WorkerTo(IF r = "raised" THEN "announce_failure" ELSE "report")
    /\ UNCHANGED <<queue, handler, client, budget, starts>>

\* run_stage returns or raises, and its verdict is committed without an await.
RunStage ==
    /\ WorkerAt("running")
    /\ LET j == worker.job
       IN  \E r \in Results :
            /\ outcome' = [outcome EXCEPT ![j] = r]
            /\ SetRow(j, IF r = "clean" THEN "COMPLETED" ELSE "FAILED")
            /\ IF row[j] = "absent" THEN NextJob
               ELSE WorkerTo(IF r = "raised" THEN "announce_failure" ELSE "report")
    /\ UNCHANGED <<queue, handler, client, budget, starts>>

\* Mutant: worker_loop returns after its first job.
ReportAndReturn ==
    /\ WorkerAt("report")
    /\ WorkerTo("dead")
    /\ UNCHANGED <<row, queue, handler, client, budget, starts, outcome>>

\* The log lines and the final event.
Report ==
    /\ WorkerAt("report")
    /\ NextJob
    /\ UNCHANGED <<row, queue, handler, client, budget, starts, outcome>>

\* An error here, during the progress rounds, or in the commit of the verdict is caught by
\* the handler that marks the job FAILED, whatever its row says by now; a database that is
\* still away ends the worker there.
Caught ==
    /\ worker.at \in {"progress", "running", "report"}
    /\ Fault
    /\ \/ /\ SetRow(worker.job, "FAILED")
          /\ IF row[worker.job] = "absent" THEN NextJob ELSE WorkerTo("announce_failure")
          /\ \/ UNCHANGED outcome
             \/ WorkerAt("running")
                /\ \E r \in Results : outcome' = [outcome EXCEPT ![worker.job] = r]
       \/ worker.at # "report" /\ WorkerTo("dead") /\ UNCHANGED <<row, outcome>>
    /\ UNCHANGED <<queue, handler, client, starts>>

AnnounceFailure ==
    /\ WorkerAt("announce_failure")
    /\ NextJob
    /\ UNCHANGED <<row, queue, handler, client, budget, starts, outcome>>

AnnounceFailureFails ==
    /\ WorkerAt("announce_failure")
    /\ Fault
    /\ WorkerTo("dead")
    /\ UNCHANGED <<row, queue, handler, client, starts, outcome>>

-----------------------------------------------------------------------------
(* The service restarts: the requests it served are cut off, the job it worked on
   is forgotten, rows and queue stay. *)
Crash ==
    /\ budget.crashes > 0
    /\ budget' = [budget EXCEPT !.crashes = @ - 1]
    /\ handler' = [j \in Jobs |-> "none"]
    /\ client' = [j \in Jobs |-> IF client[j] = "waiting" THEN "refused" ELSE client[j]]
    /\ NextJob
    /\ UNCHANGED <<row, queue, starts, outcome>>

-----------------------------------------------------------------------------
CreateJob(j) == CreateRow(j) \/ Enqueue(j) \/ Reply(j) \/ HandlerFails(j)

WorkerLoop ==
    \/ Pop
    \/ PopFails
    \/ Begin
    \/ Announce
    \/ AnnounceFails
    \/ Progress
    \/ RunStage
    \/ Report
    \/ Caught
    \/ AnnounceFailure
    \/ AnnounceFailureFails

Next ==
    \/ \E j \in Jobs : Post(j) \/ CreateJob(j) \/ ClientGivesUp(j) \/ Delete(j)
    \/ WorkerLoop
    \/ Crash

Spec == Init /\ [][Next]_vars

\* The event loop runs every coroutine that can go on, and run_stage ends: every
\* tool it starts has a timeout.
Fairness == WF_vars(WorkerLoop) /\ \A j \in Jobs : WF_vars(CreateJob(j))

FairSpec == Spec /\ Fairness

-----------------------------------------------------------------------------
(* Properties *)

Untouched == budget = [faults |-> MaxFaults, crashes |-> MaxCrashes, deletes |-> MaxDeletes]

\* Every variable keeps its type.
TypeOK ==
    /\ row \in [Jobs -> Statuses]
    /\ queue \in Seq(Jobs)
    /\ handler \in [Jobs -> {"none", "create", "enqueue", "reply"}]
    /\ client \in [Jobs -> {"none", "waiting", "accepted", "refused"}]
    /\ worker \in [at : {"pop", "begin", "announce", "progress", "running", "report",
                         "announce_failure", "dead"}, job : Jobs \cup {NoJob}]
    /\ budget \in [faults : Nat, crashes : Nat, deletes : Nat]
    /\ starts \in [Jobs -> Nat]
    /\ outcome \in [Jobs -> Results \cup {"none"}]

\* No job runs twice: the hours a stage takes are spent once, whatever fails and
\* however often the service restarts.
RunAtMostOnce == \A j \in Jobs : starts[j] <= 1

\* The verdict shown is the one run_stage gave: COMPLETED means a clean report, and
\* a clean report is shown FAILED only when Redis or the database failed.
HonestVerdict ==
    \A j \in Jobs :
        /\ row[j] = "COMPLETED" => outcome[j] = "clean"
        /\ row[j] = "FAILED" /\ outcome[j] = "clean" => budget.faults < MaxFaults

Queued(j) == \E i \in 1..Len(queue) : queue[i] = j
Worked(j) == worker.job = j /\ worker.at # "dead"

\* A job that is shown as QUEUED or RUNNING is on its way, in the hands of its
\* request, the queue or the worker, unless a fault, a restart or a deletion hit
\* the service.
NothingLost ==
    Untouched =>
        \A j \in Jobs : row[j] \in {"QUEUED", "RUNNING"} =>
            handler[j] = "enqueue" \/ Queued(j) \/ Worked(j)

-----------------------------------------------------------------------------
(* Refinement *)

Contract ==
    INSTANCE JobContract
    WITH state <- [j \in Jobs |-> IF row[j] = "absent" THEN "absent"
                                  ELSE IF row[j] \in Ended THEN "ended" ELSE "live"],
         accepted <- {j \in Jobs : client[j] = "accepted"}

\* Without faults, restarts and deletions eda-service keeps its contract: what it
\* accepted exists, what exists ends, and what has ended stays ended.
KeepsContract == Contract!FairSpec
===============================================================================
