---------------------------- MODULE Orchestrator ----------------------------
(***************************************************************************)
(* The scheduler of the orchestrator service                               *)
(* (orchestrator-service/internal/orchestrator/orchestrator.go) together   *)
(* with the API handlers that write the same rows, for one task.  Tasks    *)
(* share nothing but the scheduler tick, so one task is enough.            *)
(*                                                                         *)
(* Granularity: one step is one access to the database, to Redis or to    *)
(* another service, together with the process-local code that follows it.  *)
(* Between two steps of one goroutine every other goroutine may run: this  *)
(* is where a row read earlier is stale when it is written back.           *)
(*                                                                         *)
(* A stage row keeps the two columns some guard reads: status and          *)
(* external_job_id.  gorm's Save writes the whole row, so it is modelled   *)
(* as an assignment of both columns from the writer's copy.                *)
(***************************************************************************)
EXTENDS Naturals, FiniteSets

CONSTANTS
    Stages,        \* names of the stage definitions
    DependsOn,     \* StageDefinition.DependsOn
    Rank,          \* position of a definition in stageDefs
    AgentStages,   \* Kind = "agent"; the others are Kind = "eda"
    Gates,         \* RequiresApproval
    SimStages,     \* the stages of the SIM self-repair loop
    HardenStages,  \* the stages of the hardening self-repair loop
    CheckedStages, \* whose clean job is still checked for evidence: SIM, PNR
    Budget,        \* simRepairRounds() and hardenRepairRounds()
    MaxTransient,  \* re-dispatches after a dropped agent connection
    JobIds,        \* external job ids, numbered in the order they are handed out
    Workers,       \* goroutines that may be past their inFlight guard at once
    Clients,       \* API requests that may be served at once
    Tick,          \* the ScheduleLoop goroutine
    NoStage,
    Requests,      \* kinds of API requests made: "approve" answers a waiting gate,
                   \* "override" approves any stage in any status, "reject", ...
    Failures,      \* what may go wrong: "agent", "create", "job", "verdict"
    MaxRequests,   \* bound: requests other than the answers to waiting gates
    MaxTicks,      \* bound: ticks of the scheduler, or Unbounded
    Unbounded,
    MaxCrashes,    \* bound: restarts of the service
    MaxRedisFaults,\* bound: INCRs that return an error
    MaxSpawned     \* bound: waiting goroutines told apart per stage or job

NoJob == 0
LoopKeys == {"sim", "harden"}
Threads == {Tick} \cup Clients \cup Workers

StageStatus == {"NOT_STARTED", "QUEUED", "DISPATCHING", "RUNNING", "SUCCEEDED",
                "FAILED", "RETRY_WAIT", "BLOCKED", "AWAITING_APPROVAL",
                "RELEASED", "CANCELLED"}
TaskStatus == {"PENDING", "RUNNING", "FAILED", "COMPLETED", "BLOCKED", "CANCELLED"}
RequestKinds == {"approve", "override", "reject", "retry", "cancel"}
FailureKinds == {"agent", "create", "job", "verdict"}

\* What eda-service and the workspace say of a job once it has ended: a clean
\* pass, a design defect the loop repairs, a pass whose evidence is missing
\* (no chip output, negative slack), or a toolchain failure.
Verdicts == {"pass", "defect", "unverified", "broken"}
JobStates == {"absent", "live"} \cup Verdicts

ASSUME DagAssumption ==
    /\ DependsOn \in [Stages -> SUBSET Stages]
    /\ Rank \in [Stages -> Nat]
    /\ AgentStages \subseteq Stages
    /\ Gates \subseteq Stages
    /\ SimStages \cup HardenStages \subseteq Stages \ AgentStages
    /\ SimStages \cap HardenStages = {}
    /\ CheckedStages \subseteq SimStages \cup HardenStages
    /\ NoStage \notin Stages

ASSUME ThreadAssumption ==
    /\ Tick \notin Clients \cup Workers
    /\ Clients \cap Workers = {}

ASSUME BoundAssumption ==
    /\ Budget \in [LoopKeys -> Nat]
    /\ {MaxTransient, MaxRequests, MaxCrashes, MaxRedisFaults} \subseteq Nat
    /\ MaxTicks \in Nat \cup {Unbounded}
    /\ MaxSpawned \in Nat \ {0}
    /\ JobIds \subseteq Nat \ {0}
    /\ Requests \subseteq RequestKinds
    /\ Failures \subseteq FailureKinds

-----------------------------------------------------------------------------
(* Durable state (MySQL, Redis, eda-service) *)
VARIABLES
    task,      \* tasks.status
    row,       \* stages: status and external_job_id of every stage
    rounds,    \* Redis task:<id>:sim_auto_repairs and :harden_auto_repairs
    jobs,      \* eda-service: the job behind every external job id

(* State of the process, lost in a crash *)
    inFlight,  \* Service.inFlight: the keys of dispatchStage and pollEDARun
    spawned,   \* dispatchStage goroutines started but not yet at their guard
    watched,   \* pollEDARun goroutines started but not yet at their guard
    pc,        \* where every goroutine is
    mem,       \* its local variables

(* Environment budgets and history *)
    budget,    \* requests, crashes and Redis faults still allowed
    done,      \* stages that have ever been SUCCEEDED or RELEASED
    released,  \* stages a reviewer has ever released
    answered,  \* agent stages whose agent has ever returned success
    repairs    \* repair agents dispatched since the counter was last deleted

durable == <<task, row, rounds, jobs>>
history == <<done, released, answered, repairs>>
vars == <<task, row, rounds, jobs, inFlight, spawned, watched, pc, mem,
          budget, done, released, answered, repairs>>

-----------------------------------------------------------------------------
(* Rows, snapshots and what evaluateTask derives from them *)

FreshRow == [status |-> "NOT_STARTED", ext |-> NoJob]
Row == [status : StageStatus, ext : JobIds \cup {NoJob}]
NoJobRecord == [stage |-> NoStage, state |-> "absent"]

Blank == [role |-> "none", stage |-> NoStage, cell |-> FreshRow, job |-> NoJob,
          verdict |-> "absent", tries |-> 0,
          todo |-> {}, wake |-> {}, follow |-> {}, next |-> "RUNNING"]

\* Mutant: a stage waiting for its reviewer counts as done.
IsDoneOrParked(status) == status \in {"SUCCEEDED", "RELEASED", "AWAITING_APPROVAL"}
IsDone(status) == status \in {"SUCCEEDED", "RELEASED"}

\* Mutant: RequiresApproval is forgotten.
ParkedNowhere(s) == "SUCCEEDED"
\* The status a finished stage takes: a gate parks instead of succeeding.
Parked(s) == IF s \in Gates THEN "AWAITING_APPROVAL" ELSE "SUCCEEDED"

\* From one snapshot of the rows: the stages evaluateTask finds ready to queue,
\* the ones it starts a dispatcher for, and the jobs it starts a poller for.
Ready(snap) ==
    {s \in Stages : /\ snap[s].status \in {"NOT_STARTED", "RETRY_WAIT"}
                    /\ \A d \in DependsOn[s] : IsDone(snap[d].status)}
Woken(snap) == Ready(snap) \cup {s \in Stages : snap[s].status = "QUEUED"}
\* Mutant: evaluateTask does not resume the polling of running jobs.
FollowedByNobody(snap) == {}
Followed(snap) ==
    {<<s, snap[s].ext>> : s \in {u \in Stages : /\ snap[u].status = "RUNNING"
                                               /\ snap[u].ext # NoJob}}

NextTask(snap) ==
    LET Any(status) == \E s \in Stages : snap[s].status = status
    IN  IF Any("BLOCKED") THEN "BLOCKED"
        ELSE IF Any("FAILED") THEN "FAILED"
        ELSE IF \A s \in Stages : IsDone(snap[s].status) THEN "COMPLETED"
        ELSE "RUNNING"

\* dependsTransitively: u is downstream of s when every dependency-closed set
\* holding the direct dependents of s holds u.
Downstream ==
    [s \in Stages |->
        {u \in Stages :
            \A C \in SUBSET Stages :
                (\A x \in Stages : DependsOn[x] \cap (C \cup {s}) # {} => x \in C)
                    => u \in C}]

LoopOf(s) == IF s \in SimStages THEN "sim" ELSE "harden"
Repairable == SimStages \cup HardenStages

\* The verdicts a job of stage s can end with.
Outcomes(s) ==
    {v \in Verdicts :
        \/ v = "pass"
        \/ v = "broken" /\ "job" \in Failures
        \/ v = "defect" /\ "verdict" \in Failures /\ s \in Repairable
        \/ v = "unverified" /\ "verdict" \in Failures /\ s \in CheckedStages}

AtMost(n) == IF n > MaxSpawned THEN MaxSpawned ELSE n

-----------------------------------------------------------------------------
Init ==
    /\ task = "PENDING"
    /\ row = [s \in Stages |->
                IF DependsOn[s] = {} THEN [FreshRow EXCEPT !.status = "QUEUED"]
                                     ELSE FreshRow]
    /\ rounds = [k \in LoopKeys |-> 0]
    /\ jobs = [j \in JobIds |-> NoJobRecord]
    /\ inFlight = {}
    /\ spawned = [s \in Stages |-> 0]
    /\ watched = [w \in Stages \X JobIds |-> 0]
    /\ pc = [t \in Threads |-> "idle"]
    /\ mem = [t \in Threads |-> Blank]
    /\ budget = [ticks |-> IF MaxTicks = Unbounded THEN 0 ELSE MaxTicks,
                 requests |-> MaxRequests, crashes |-> MaxCrashes, faults |-> MaxRedisFaults]
    /\ done = {}
    /\ released = {}
    /\ answered = {}
    /\ repairs = [k \in LoopKeys |-> 0]

-----------------------------------------------------------------------------
(* Steps every goroutine is made of *)

At(t, label) == pc[t] = label
Goto(t, label) == pc' = [pc EXCEPT ![t] = label]
Update(t, locals) == mem' = [mem EXCEPT ![t] = locals]
Key(t) == <<mem[t].role, mem[t].stage>>

\* A goroutine ends: its deferred inFlight.Delete runs and its locals are gone.
Return(t) ==
    /\ Goto(t, "idle")
    /\ Update(t, Blank)
    /\ inFlight' = inFlight \ {Key(t)}

\* gorm Save of the goroutine's copy of its stage row.
SaveRow(t, status) ==
    row' = [row EXCEPT ![mem[t].stage] = [mem[t].cell EXCEPT !.status = status]]

\* Go on to save the stage with a final status and then run evaluateTask.
Conclude(t, status) ==
    /\ Goto(t, "save")
    /\ Update(t, [mem[t] EXCEPT !.cell = [@ EXCEPT !.status = status], !.job = NoJob,
                                !.verdict = "absent", !.tries = 0])

-----------------------------------------------------------------------------
(* evaluateTask, run by the tick, by API requests and inline by dispatchers
   and pollers *)

\* The task row is read first; a cancelled task is left alone.
LoadTask(t) ==
    /\ At(t, "load_task")
    /\ IF task = "CANCELLED"
       THEN Return(t)
       ELSE Goto(t, "load_stages") /\ UNCHANGED <<mem, inFlight>>
    /\ UNCHANGED <<durable, spawned, watched, budget, history>>

\* All stage rows are read at once and everything that follows is decided from
\* this snapshot, however long it takes.
LoadStages(t) ==
    /\ At(t, "load_stages")
    /\ Goto(t, "queue")
    /\ Update(t, [mem[t] EXCEPT !.todo = Ready(row), !.wake = Woken(row),
                                !.follow = Followed(row), !.next = NextTask(row)])
    /\ UNCHANGED <<durable, inFlight, spawned, watched, budget, history>>

\* One ready stage after the other is saved as QUEUED.  The snapshot's row is
\* written back whole: a stage that has not started has no job (NotStartedHasNoJob).
QueueStage(t) ==
    /\ At(t, "queue")
    /\ \E s \in mem[t].todo :
        /\ \A u \in mem[t].todo : Rank[s] <= Rank[u]
        /\ row' = [row EXCEPT ![s] = [FreshRow EXCEPT !.status = "QUEUED"]]
        /\ Update(t, [mem[t] EXCEPT !.todo = @ \ {s}])
    /\ UNCHANGED <<task, rounds, jobs, inFlight, spawned, watched, pc, budget, history>>

\* Goroutines are started for every queued stage and every running job.
StartGoroutines(t) ==
    /\ At(t, "queue")
    /\ mem[t].todo = {}
    /\ spawned' = [s \in Stages |->
            IF s \in mem[t].wake THEN AtMost(spawned[s] + 1) ELSE spawned[s]]
    /\ watched' = [w \in Stages \X JobIds |->
            IF w \in mem[t].follow THEN AtMost(watched[w] + 1) ELSE watched[w]]
    /\ Update(t, [mem[t] EXCEPT !.wake = {}, !.follow = {}])
    /\ Goto(t, "set_task")
    /\ UNCHANGED <<durable, inFlight, budget, history>>

\* The status derived from the snapshot is written whatever the task is now.
SetTask(t) ==
    /\ At(t, "set_task")
    /\ task' = mem[t].next
    /\ Return(t)
    /\ UNCHANGED <<row, rounds, jobs, spawned, watched, budget, history>>

\* RunOnce selects the tasks that can still move, FAILED, COMPLETED and CANCELLED
\* ones are not looked at, and evaluateTask reads the selected task again.
RunOnce ==
    /\ At(Tick, "idle")
    /\ task \in {"PENDING", "RUNNING", "BLOCKED"}
    /\ \/ MaxTicks = Unbounded /\ UNCHANGED budget
       \/ /\ MaxTicks # Unbounded /\ budget.ticks > 0
          /\ budget' = [budget EXCEPT !.ticks = @ - 1]
    /\ Goto(Tick, "load_stages")
    /\ UNCHANGED <<durable, inFlight, spawned, watched, mem, history>>

-----------------------------------------------------------------------------
(* Saving the final status of a stage, and RetryStage *)

SaveStage(t) ==
    /\ At(t, "save")
    /\ SaveRow(t, mem[t].cell.status)
    /\ done' = IF IsDone(mem[t].cell.status) THEN done \cup {mem[t].stage} ELSE done
    /\ released' = IF mem[t].cell.status = "RELEASED"
                   THEN released \cup {mem[t].stage} ELSE released
    /\ Goto(t, "load_task")
    /\ Update(t, [mem[t] EXCEPT !.cell = FreshRow])
    /\ UNCHANGED <<task, rounds, jobs, inFlight, spawned, watched, budget, answered, repairs>>

\* Mutant: RetryStage resets the status and forgets external_job_id.
ResetStageKeepingJob(t) ==
    /\ At(t, "reset")
    /\ \E s \in mem[t].todo :
        /\ row' = [row EXCEPT ![s].status = "NOT_STARTED"]
        /\ Update(t, [mem[t] EXCEPT !.todo = @ \ {s}])
        /\ pc' = [pc EXCEPT ![t] = IF mem[t].todo = {s} THEN "load_task" ELSE "reset"]
    /\ UNCHANGED <<task, rounds, jobs, inFlight, spawned, watched, budget, history>>

\* RetryStage resets the target and its dependents with one UPDATE each, in the
\* unspecified order of a SELECT without ORDER BY, then evaluates the task.
ResetStage(t) ==
    /\ At(t, "reset")
    /\ \E s \in mem[t].todo :
        /\ row' = [row EXCEPT ![s] = FreshRow]
        /\ Update(t, [mem[t] EXCEPT !.todo = @ \ {s}])
        /\ pc' = [pc EXCEPT ![t] = IF mem[t].todo = {s} THEN "load_task" ELSE "reset"]
    /\ UNCHANGED <<task, rounds, jobs, inFlight, spawned, watched, budget, history>>

-----------------------------------------------------------------------------
(* dispatchStage *)

\* A started goroutine takes the stage's inFlight key or ends at once.
StartDispatch(s) ==
    /\ spawned[s] > 0
    /\ spawned' = [spawned EXCEPT ![s] = @ - 1]
    /\ \/ /\ <<"dispatch", s>> \in inFlight
          /\ UNCHANGED <<inFlight, pc, mem>>
       \/ /\ <<"dispatch", s>> \notin inFlight
          /\ inFlight' = inFlight \cup {<<"dispatch", s>>}
          /\ \E g \in Workers :
                /\ At(g, "idle")
                /\ Goto(g, "read_stage")
                /\ Update(g, [Blank EXCEPT !.role = "dispatch", !.stage = s])
    /\ UNCHANGED <<durable, watched, budget, history>>

ReadStage(g) ==
    /\ At(g, "read_stage")
    /\ IF row[mem[g].stage].status = "QUEUED"
       THEN /\ Goto(g, "mark")
            /\ Update(g, [mem[g] EXCEPT !.cell = row[mem[g].stage]])
            /\ UNCHANGED inFlight
       ELSE Return(g)
    /\ UNCHANGED <<durable, spawned, watched, budget, history>>

MarkDispatching(g) ==
    /\ At(g, "mark")
    /\ SaveRow(g, "DISPATCHING")
    /\ Goto(g, "mark_running")
    /\ UNCHANGED <<task, rounds, jobs, inFlight, spawned, watched, mem, budget, history>>

MarkRunning(g) ==
    /\ At(g, "mark_running")
    /\ SaveRow(g, "RUNNING")
    /\ Goto(g, IF mem[g].stage \in AgentStages THEN "invoke" ELSE "create_job")
    /\ UNCHANGED <<task, rounds, jobs, inFlight, spawned, watched, mem, budget, history>>

\* Mutant: an off-by-one in the re-dispatch loop.
AgentConnectionDroppedOnceMore(g) ==
    /\ At(g, "invoke")
    /\ mem[g].tries <= MaxTransient
    /\ Update(g, [mem[g] EXCEPT !.tries = @ + 1])
    /\ UNCHANGED <<durable, inFlight, spawned, watched, pc, budget, history>>

\* A dropped connection is retried a few times with the same request; an agent
\* error, or a declared artifact that is missing, fails the stage.
AgentConnectionDropped(g) ==
    /\ At(g, "invoke")
    /\ mem[g].tries < MaxTransient
    /\ Update(g, [mem[g] EXCEPT !.tries = @ + 1])
    /\ UNCHANGED <<durable, inFlight, spawned, watched, pc, budget, history>>

AgentSucceeds(g) ==
    /\ At(g, "invoke")
    /\ Conclude(g, Parked(mem[g].stage))
    /\ answered' = answered \cup {mem[g].stage}
    /\ UNCHANGED <<durable, inFlight, spawned, watched, budget, done, released, repairs>>

\* Mutant: an error return without failStage.
AgentFailsSilently(g) ==
    /\ "agent" \in Failures
    /\ At(g, "invoke")
    /\ Return(g)
    /\ UNCHANGED <<durable, spawned, watched, budget, history>>

AgentFails(g) ==
    /\ "agent" \in Failures
    /\ At(g, "invoke")
    /\ Conclude(g, "FAILED")
    /\ UNCHANGED <<durable, inFlight, spawned, watched, budget, history>>

\* CreateJob: the job exists and its id comes back, or exists but the answer is
\* lost, or was never created.
NewJob(s, j) ==
    /\ jobs[j].state = "absent"
    /\ \A i \in JobIds : i < j => jobs[i].state # "absent"
    /\ jobs' = [jobs EXCEPT ![j] = [stage |-> s, state |-> "live"]]

JobAccepted(g) ==
    /\ At(g, "create_job")
    /\ \E j \in JobIds :
        /\ NewJob(mem[g].stage, j)
        /\ Update(g, [mem[g] EXCEPT !.job = j])
    /\ Goto(g, "attach")
    /\ UNCHANGED <<task, row, rounds, inFlight, spawned, watched, budget, history>>

JobRefused(g) ==
    /\ "create" \in Failures
    /\ At(g, "create_job")
    /\ \/ UNCHANGED jobs
       \/ \E j \in JobIds : NewJob(mem[g].stage, j)
    /\ Conclude(g, "FAILED")
    /\ UNCHANGED <<task, row, rounds, inFlight, spawned, watched, budget, history>>

\* The job id is saved, the poller started, and the dispatcher ends.
AttachJob(g) ==
    /\ At(g, "attach")
    /\ row' = [row EXCEPT ![mem[g].stage] = [status |-> "RUNNING", ext |-> mem[g].job]]
    /\ watched' = [watched EXCEPT ![<<mem[g].stage, mem[g].job>>] = AtMost(@ + 1)]
    /\ Return(g)
    /\ UNCHANGED <<task, rounds, jobs, spawned, budget, history>>

-----------------------------------------------------------------------------
(* pollEDARun *)

\* Mutant: the result of LoadOrStore is not looked at.
StartPollUnguarded(s, j) ==
    /\ watched[<<s, j>>] > 0
    /\ watched' = [watched EXCEPT ![<<s, j>>] = @ - 1]
    /\ inFlight' = inFlight \cup {<<"poll", s>>}
    /\ \E g \in Workers :
        /\ At(g, "idle")
        /\ Goto(g, "poll")
        /\ Update(g, [Blank EXCEPT !.role = "poll", !.stage = s, !.job = j])
    /\ UNCHANGED <<durable, spawned, budget, history>>

StartPoll(s, j) ==
    /\ watched[<<s, j>>] > 0
    /\ watched' = [watched EXCEPT ![<<s, j>>] = @ - 1]
    /\ \/ /\ <<"poll", s>> \in inFlight
          /\ UNCHANGED <<inFlight, pc, mem>>
       \/ /\ <<"poll", s>> \notin inFlight
          /\ inFlight' = inFlight \cup {<<"poll", s>>}
          /\ \E g \in Workers :
                /\ At(g, "idle")
                /\ Goto(g, "poll")
                /\ Update(g, [Blank EXCEPT !.role = "poll", !.stage = s, !.job = j])
    /\ UNCHANGED <<durable, spawned, budget, history>>

\* GetJobStatus, then the stage row as it is now.  A failed request just sleeps
\* and polls again.
PollStatus(g) ==
    /\ At(g, "poll")
    /\ Update(g, [mem[g] EXCEPT !.verdict = jobs[mem[g].job].state,
                                !.cell = row[mem[g].stage]])
    /\ Goto(g, "progress")
    /\ UNCHANGED <<durable, inFlight, spawned, watched, budget, history>>

\* The progress is saved with the whole row, then the verdict is acted on.  While
\* the job runs it is polled again, up to 120 times; then the poller ends
\* without a word.
WriteProgress(g) ==
    /\ At(g, "progress")
    /\ SaveRow(g, mem[g].cell.status)
    /\ LET s == mem[g].stage
           v == mem[g].verdict
       IN  \/ /\ v = "live"
              /\ \/ /\ Goto(g, "poll")
                    /\ Update(g, [mem[g] EXCEPT !.verdict = "absent", !.cell = FreshRow])
                    /\ UNCHANGED inFlight
                 \/ Return(g)
           \/ /\ v \in {"pass", "unverified"} /\ s \in Repairable
              /\ Goto(g, "clear") /\ UNCHANGED <<mem, inFlight>>
           \/ /\ v = "pass" /\ s \notin Repairable
              /\ Conclude(g, Parked(s)) /\ UNCHANGED inFlight
           \/ /\ v = "defect"
              /\ Goto(g, "count") /\ UNCHANGED <<mem, inFlight>>
           \/ /\ v = "broken"
              /\ Conclude(g, "FAILED") /\ UNCHANGED inFlight
    /\ UNCHANGED <<task, rounds, jobs, spawned, watched, budget, history>>

\* Mutant: the gates on a completed job's evidence are skipped.
ClearRoundsUnchecked(g) ==
    /\ At(g, "clear")
    /\ rounds' = [rounds EXCEPT ![LoopOf(mem[g].stage)] = 0]
    /\ repairs' = [repairs EXCEPT ![LoopOf(mem[g].stage)] = 0]
    /\ Conclude(g, Parked(mem[g].stage))
    /\ UNCHANGED <<task, row, jobs, inFlight, spawned, watched, budget, done, released, answered>>

\* A pass deletes the repair counter; a pass without evidence is still a failure.
ClearRounds(g) ==
    /\ At(g, "clear")
    /\ rounds' = [rounds EXCEPT ![LoopOf(mem[g].stage)] = 0]
    /\ repairs' = [repairs EXCEPT ![LoopOf(mem[g].stage)] = 0]
    /\ Conclude(g, IF mem[g].verdict = "pass" THEN Parked(mem[g].stage) ELSE "FAILED")
    /\ UNCHANGED <<task, row, jobs, inFlight, spawned, watched, budget, done, released, answered>>

\* Mutant: the round is compared before it is counted.
SpendRoundLate(g) ==
    /\ At(g, "count")
    /\ LET k == LoopOf(mem[g].stage)
       IN  /\ rounds' = [rounds EXCEPT ![k] = @ + 1]
           /\ IF rounds[k] <= Budget[k]
              THEN /\ Goto(g, "repair")
                   /\ repairs' = [repairs EXCEPT ![k] = @ + 1]
                   /\ UNCHANGED mem
              ELSE Conclude(g, "FAILED") /\ UNCHANGED repairs
    /\ UNCHANGED <<task, row, jobs, inFlight, spawned, watched, budget, done, released, answered>>

\* A defect spends one round of the loop's Redis counter, or fails the stage
\* when the rounds are used up.
SpendRound(g) ==
    /\ At(g, "count")
    /\ LET k == LoopOf(mem[g].stage)
       IN  /\ rounds' = [rounds EXCEPT ![k] = @ + 1]
           /\ IF rounds[k] + 1 <= Budget[k]
              THEN /\ Goto(g, "repair")
                   /\ repairs' = [repairs EXCEPT ![k] = @ + 1]
                   /\ UNCHANGED mem
              ELSE Conclude(g, "FAILED") /\ UNCHANGED repairs
    /\ UNCHANGED <<task, row, jobs, inFlight, spawned, watched, budget, done, released, answered>>

\* The error of INCR is dropped and its result read as round 0.
SpendRoundUncounted(g) ==
    /\ At(g, "count")
    /\ budget.faults > 0
    /\ budget' = [budget EXCEPT !.faults = @ - 1]
    /\ Goto(g, "repair")
    /\ repairs' = [repairs EXCEPT ![LoopOf(mem[g].stage)] = @ + 1]
    /\ UNCHANGED <<durable, inFlight, spawned, watched, mem, done, released, answered>>

\* Mutant: the automatic retry deletes the counter as the manual one does.
RepairReturnsAfresh(g) ==
    /\ At(g, "repair")
    /\ rounds' = [k \in LoopKeys |-> 0]
    /\ Goto(g, "reset")
    /\ Update(g, [mem[g] EXCEPT !.todo = {mem[g].stage} \cup Downstream[mem[g].stage]])
    /\ UNCHANGED <<task, row, jobs, inFlight, spawned, watched, budget, history>>

\* The RTL_REPAIR agent returns; its error fails the stage.
RepairReturns(g) ==
    /\ At(g, "repair")
    /\ \/ /\ Goto(g, "reset")
          /\ Update(g, [mem[g] EXCEPT !.todo = {mem[g].stage} \cup Downstream[mem[g].stage]])
       \/ "agent" \in Failures /\ Conclude(g, "FAILED")
    /\ UNCHANGED <<durable, inFlight, spawned, watched, budget, history>>

-----------------------------------------------------------------------------
(* API handlers *)

\* retryStage: the repair counters are deleted, then RetryStage runs.
RetryRequest(c, s) ==
    /\ "retry" \in Requests
    /\ budget.requests > 0
    /\ At(c, "idle")
    /\ budget' = [budget EXCEPT !.requests = @ - 1]
    /\ rounds' = [k \in LoopKeys |-> 0]
    /\ repairs' = [k \in LoopKeys |-> 0]
    /\ Goto(c, "reset")
    /\ Update(c, [mem[c] EXCEPT !.todo = {s} \cup Downstream[s]])
    /\ UNCHANGED <<task, row, jobs, inFlight, spawned, watched, done, released, answered>>

\* Neither answer looks at the stage it is for: any stage, gate or not, is sent back
\* or released in any status.  The UI approves SIGNOFF before every export.  Answers to
\* waiting gates are kept apart only because the reviewer is bound to give them.
RejectRequest(c, s) ==
    /\ "reject" \in Requests
    /\ budget.requests > 0
    /\ At(c, "idle")
    /\ budget' = [budget EXCEPT !.requests = @ - 1]
    /\ Goto(c, "reset")
    /\ Update(c, [mem[c] EXCEPT !.todo = {s} \cup Downstream[s]])
    /\ UNCHANGED <<durable, inFlight, spawned, watched, history>>

ApproveRequest(c, s) ==
    /\ At(c, "idle")
    /\ \/ /\ "approve" \in Requests
          /\ row[s].status = "AWAITING_APPROVAL"
          /\ UNCHANGED budget
       \/ /\ "override" \in Requests
          /\ budget.requests > 0
          /\ budget' = [budget EXCEPT !.requests = @ - 1]
    /\ Goto(c, "approve")
    /\ Update(c, [mem[c] EXCEPT !.stage = s])
    /\ UNCHANGED <<durable, inFlight, spawned, watched, history>>

\* ApproveStage reads the row and will save it RELEASED whatever it holds.
ApproveStage(c) ==
    /\ At(c, "approve")
    /\ Goto(c, "save")
    /\ Update(c, [mem[c] EXCEPT !.cell = [row[mem[c].stage] EXCEPT !.status = "RELEASED"]])
    /\ UNCHANGED <<durable, inFlight, spawned, watched, budget, history>>

\* patchTask writes the status it is given.
CancelRequest(c) ==
    /\ "cancel" \in Requests
    /\ budget.requests > 0
    /\ At(c, "idle")
    /\ budget' = [budget EXCEPT !.requests = @ - 1]
    /\ task' = "CANCELLED"
    /\ UNCHANGED <<row, rounds, jobs, inFlight, spawned, watched, pc, mem, history>>

-----------------------------------------------------------------------------
(* The environment *)

JobEnds(j) ==
    /\ jobs[j].state = "live"
    /\ \E v \in Outcomes(jobs[j].stage) : jobs' = [jobs EXCEPT ![j].state = v]
    /\ UNCHANGED <<task, row, rounds, inFlight, spawned, watched, pc, mem, budget, history>>

\* The service stops and starts again: goroutines and inFlight are gone, rows,
\* counters and jobs are not.
Crash ==
    /\ budget.crashes > 0
    /\ budget' = [budget EXCEPT !.crashes = @ - 1]
    /\ inFlight' = {}
    /\ spawned' = [s \in Stages |-> 0]
    /\ watched' = [w \in Stages \X JobIds |-> 0]
    /\ pc' = [t \in Threads |-> "idle"]
    /\ mem' = [t \in Threads |-> Blank]
    /\ UNCHANGED <<durable, history>>

-----------------------------------------------------------------------------
EvaluateTask(t) ==
    \/ LoadTask(t)
    \/ LoadStages(t)
    \/ QueueStage(t)
    \/ StartGoroutines(t)
    \/ SetTask(t)

DispatchStage(g) ==
    \/ ReadStage(g)
    \/ MarkDispatching(g)
    \/ MarkRunning(g)
    \/ AgentConnectionDropped(g)
    \/ AgentSucceeds(g)
    \/ AgentFails(g)
    \/ JobAccepted(g)
    \/ JobRefused(g)
    \/ AttachJob(g)

PollEDARun(g) ==
    \/ PollStatus(g)
    \/ WriteProgress(g)
    \/ ClearRounds(g)
    \/ SpendRound(g)
    \/ SpendRoundUncounted(g)
    \/ RepairReturns(g)

Serve(c) ==
    \/ \E s \in Stages : RetryRequest(c, s)
    \/ \E s \in Stages : RejectRequest(c, s)
    \/ \E s \in Stages : ApproveRequest(c, s)
    \/ ApproveStage(c)
    \/ CancelRequest(c)

Next ==
    \/ RunOnce
    \/ \E t \in Threads : EvaluateTask(t) \/ SaveStage(t) \/ ResetStage(t)
    \/ \E s \in Stages : StartDispatch(s)
    \/ \E s \in Stages, j \in JobIds : StartPoll(s, j)
    \/ \E g \in Workers : DispatchStage(g) \/ PollEDARun(g)
    \/ \E c \in Clients : Serve(c)
    \/ \E j \in JobIds : JobEnds(j)
    \/ Crash

Spec == Init /\ [][Next]_vars

AnswerGate(c) ==
    \E s \in Gates : row[s].status = "AWAITING_APPROVAL" /\ ApproveRequest(c, s)

\* The Go runtime schedules every goroutine, the ticker keeps ticking, agents
\* answer, jobs end, and the reviewer answers every open gate.
Fairness ==
    /\ WF_vars(RunOnce)
    /\ \A t \in Threads : WF_vars(EvaluateTask(t) \/ SaveStage(t) \/ ResetStage(t))
    /\ \A s \in Stages : WF_vars(StartDispatch(s))
    /\ \A s \in Stages, j \in JobIds : WF_vars(StartPoll(s, j))
    /\ \A g \in Workers : WF_vars(DispatchStage(g) \/ PollEDARun(g))
    /\ \A j \in JobIds : WF_vars(JobEnds(j))
    /\ \A c \in Clients : WF_vars(ApproveStage(c) \/ AnswerGate(c))

FairSpec == Spec /\ Fairness

-----------------------------------------------------------------------------
(* Safety *)

Labels == {"idle", "load_task", "load_stages", "queue", "set_task", "save", "reset",
           "read_stage", "mark", "mark_running", "invoke", "create_job", "attach",
           "poll", "progress", "clear", "count", "repair", "approve"}
Keys == {"dispatch", "poll"} \X Stages
Locals ==
    [role : {"none", "dispatch", "poll"}, stage : Stages \cup {NoStage}, cell : Row,
     job : JobIds \cup {NoJob}, verdict : JobStates, tries : 0..MaxTransient,
     todo : SUBSET Stages, wake : SUBSET Stages, follow : SUBSET (Stages \X JobIds),
     next : TaskStatus]
Budgets == [ticks : Nat, requests : Nat, crashes : Nat, faults : Nat]

\* Every variable keeps its type: rows hold known statuses and jobs, counters
\* are natural numbers, goroutines are at a known place.
TypeOK ==
    /\ task \in TaskStatus
    /\ row \in [Stages -> Row]
    /\ rounds \in [LoopKeys -> Nat]
    /\ jobs \in [JobIds -> [stage : Stages \cup {NoStage}, state : JobStates]]
    /\ inFlight \subseteq Keys
    /\ spawned \in [Stages -> Nat]
    /\ watched \in [Stages \X JobIds -> Nat]
    /\ pc \in [Threads -> Labels]
    /\ mem \in [Threads -> Locals]
    /\ budget \in Budgets
    /\ done \subseteq Stages
    /\ released \subseteq Stages
    /\ answered \subseteq Stages
    /\ repairs \in [LoopKeys -> Nat]

\* A stage that has not started has no job: RetryStage clears the job id in the
\* same UPDATE, and no stale copy of a row puts one back on such a row.
NotStartedHasNoJob ==
    \A s \in Stages : row[s].status = "NOT_STARTED" => row[s].ext = NoJob

\* The DAG and its human gates hold for the service itself: a stage that is queued,
\* running or finished, other than by a user's own release, has only dependencies that
\* were finished or released by a user at some time, and a gate among them was released
\* and never merely SUCCEEDED.  No stale snapshot, stale row, retry or restart starts
\* work before that.  A user may release any stage in any status: that overrides the
\* order for the released stage, and opens it as a dependency.
Started(s) == \A d \in DependsOn[s] : d \in done /\ (d \in Gates => d \in released)
ReviewedBeforeUse ==
    \A s \in Stages : row[s].status \notin {"NOT_STARTED", "RELEASED"} => Started(s)

\* inFlight is a lock: two goroutines past their guard never work on the same
\* stage in the same role.
OneGoroutinePerKey ==
    \A g, h \in Workers :
        (g # h /\ ~At(g, "idle") /\ ~At(h, "idle")) => Key(g) # Key(h)

\* Until the service restarts, an agent stage shown as DISPATCHING or RUNNING has
\* a dispatcher that will conclude it: no interleaving leaves it shown as running
\* with nobody running it.
Dispatching(g, s) ==
    /\ mem[g].role = "dispatch" /\ mem[g].stage = s
    /\ pc[g] \in {"mark_running", "invoke", "save"}
AgentStageHasDispatcher ==
    budget.crashes = MaxCrashes =>
        \A s \in AgentStages :
            row[s].status \in {"DISPATCHING", "RUNNING"} =>
                \E g \in Workers : Dispatching(g, s)

\* A stage shown as done or up for review is backed by evidence: its agent
\* returned success, or one of its own jobs ended with a clean pass.
Evidence(s) ==
    \/ s \in AgentStages /\ s \in answered
    \/ \E j \in JobIds : jobs[j] = [stage |-> s, state |-> "pass"]
DoneHasEvidence ==
    \A s \in Stages : row[s].status \in {"SUCCEEDED", "AWAITING_APPROVAL"} => Evidence(s)

\* A task shown as COMPLETED has finished every stage and had every gate released.
CompletedIsReviewed ==
    task = "COMPLETED" => done = Stages /\ Gates \subseteq released

\* Between two passes or manual retries a self-repair loop dispatches at most its
\* budget of repair agents, however many pollers spend from the counter.
RepairsBounded == \A k \in LoopKeys : repairs[k] <= Budget[k]

\* An INCR whose error is dropped costs no round: each such error allows one
\* repair agent more.
RepairsBoundedByFaults == \A k \in LoopKeys : repairs[k] <= Budget[k] + MaxRedisFaults

-----------------------------------------------------------------------------
(* Inductive strengthenings: what holds of the copies goroutines keep *)

\* Where a goroutine is bound to write something other than NOT_STARTED to the row
\* of its stage.
Committed == {"mark", "mark_running", "invoke", "create_job", "attach", "poll",
              "progress", "clear", "count", "repair", "approve", "save"}

\* The ones of them that never serve a user's release.
Working == Committed \ {"approve", "save"}

\* A done status is on record, and a gate is done only by release.
Recorded(s, status) ==
    /\ IsDone(status) => s \in done
    /\ status = "RELEASED" => s \in released
    /\ status = "SUCCEEDED" => s \notin Gates

\* A goroutine that polls or attaches a job has one.
Bound ==
    \A t \in Threads :
        /\ pc[t] \in Committed \cup {"read_stage"} => mem[t].stage \in Stages
        /\ pc[t] \in {"poll", "progress", "attach"} => mem[t].job \in JobIds

\* Every stale copy that may still be written, and every goroutine that may still
\* write, belongs to a stage whose dependencies were once finished and reviewed,
\* unless what it writes is a user's release.
RowsReviewed ==
    \A s \in Stages : /\ row[s].status \notin {"NOT_STARTED", "RELEASED"} => Started(s)
                     /\ Recorded(s, row[s].status)
WatchesReviewed ==
    \A s \in Stages, j \in JobIds : watched[<<s, j>>] > 0 => Started(s)
CopyReviewed(t) ==
    /\ pc[t] = "queue" => \A s \in mem[t].todo : Started(s)
    /\ \A w \in mem[t].follow : Started(w[1])
    /\ pc[t] \in Working => Started(mem[t].stage)
    /\ pc[t] = "progress" => Recorded(mem[t].stage, mem[t].cell.status)
    /\ pc[t] = "save" => /\ mem[t].cell.status = "SUCCEEDED" => mem[t].stage \notin Gates
                         /\ mem[t].cell.status # "RELEASED" => Started(mem[t].stage)
Review == RowsReviewed /\ WatchesReviewed /\ \A t \in Threads : CopyReviewed(t)

\* A job id kept anywhere for a stage is that of a job created for this stage,
\* and agent stages have none.
Owns(s, j) == jobs[j].stage = s /\ jobs[j].state # "absent" /\ s \notin AgentStages
OwnsIfAny(s, j) == j # NoJob => Owns(s, j)
Claims(s, status) == status \in {"SUCCEEDED", "AWAITING_APPROVAL"} => Evidence(s)

Final == {"SUCCEEDED", "AWAITING_APPROVAL", "RELEASED", "FAILED"}

\* Where a goroutine holds a copy of its row that it may still write, and where
\* it handles an EDA job.
Holding == {"mark", "mark_running", "invoke", "create_job", "progress", "clear",
            "count", "repair", "save"}
Handling == {"create_job", "attach", "poll", "progress", "clear", "count", "repair"}

\* Rows, stale copies of rows, snapshots and waiting pollers only name jobs of
\* their own stage, and no copy claims a success nothing stands for.
RowBacked(s, r) ==
    /\ r.status = "NOT_STARTED" => r.ext = NoJob
    /\ OwnsIfAny(s, r.ext)
    /\ Claims(s, r.status)
RowsBacked == \A s \in Stages : RowBacked(s, row[s])
WatchesBacked == \A s \in Stages, j \in JobIds : watched[<<s, j>>] > 0 => Owns(s, j)
CopyBacked(label, m) ==
    /\ \A w \in m.follow : Owns(w[1], w[2])
    /\ label \in Holding => OwnsIfAny(m.stage, m.cell.ext)
    /\ label \in Handling => m.stage \notin AgentStages
    /\ label \in {"attach", "poll", "progress"} => Owns(m.stage, m.job)
    /\ label = "invoke" => m.stage \in AgentStages
    /\ label = "progress" => RowBacked(m.stage, m.cell)
    /\ (label \in {"progress", "clear"} /\ m.verdict = "pass") => Evidence(m.stage)
    /\ label = "save" => /\ m.cell.status \in Final
                        /\ Claims(m.stage, m.cell.status)
CopiesBacked == \A t \in Threads : CopyBacked(pc[t], mem[t])
Backed == RowsBacked /\ WatchesBacked /\ CopiesBacked

\* A goroutine past its guard is on record in inFlight, and only workers are.
HoldsKey(t) ==
    IF t \in Workers
    THEN ~At(t, "idle") => mem[t].role \in {"dispatch", "poll"} /\ Key(t) \in inFlight
    ELSE mem[t].role = "none"
Locked == OneGoroutinePerKey /\ \A t \in Threads : HoldsKey(t)

\* Only dispatchers mark rows and call agents.
Attended ==
    /\ \A g \in Workers : pc[g] \in {"read_stage", "mark", "mark_running", "invoke"} =>
          mem[g].role = "dispatch"
    /\ budget.crashes <= MaxCrashes
    /\ AgentStageHasDispatcher

\* Every repair was counted in Redis, or its INCR is one of those that failed.
RepairsCounted ==
    /\ budget.faults <= MaxRedisFaults
    /\ \A k \in LoopKeys :
          /\ repairs[k] + budget.faults <= rounds[k] + MaxRedisFaults
          /\ repairs[k] + budget.faults <= Budget[k] + MaxRedisFaults

-----------------------------------------------------------------------------
(* Refinement *)

Flow == INSTANCE DesignFlow

\* The service implements the abstract flow: goroutines, stale copies, retries,
\* repairs and restarts only ever finish stages along the graph and its gates; all
\* else that opens a stage is a user's release.
ImplementsFlow == Flow!Spec

-----------------------------------------------------------------------------
(* Liveness *)

\* When nothing fails, a task is delivered: the reviewer's approvals carry it to
\* COMPLETED and it stays there, through duplicated dispatches, pollers that give
\* up after 120 polls, and ticks that write stale statuses.
Delivered == <>[](task = "COMPLETED")

-----------------------------------------------------------------------------
(* What the documents and comments claim and the code does not keep *)

\* "Dependents stay blocked until ApproveStage releases it": a stage is only
\* queued while every gate it depends on is released.
QueuedBehindOpenGates ==
    [][\A s \in Stages :
        (row[s].status # "QUEUED" /\ row'[s].status = "QUEUED") =>
            \A d \in DependsOn[s] \cap Gates : row[d].status = "RELEASED"]_vars

\* orchestrator.go:636: the reviewer accepted this stage's output, so there was one.
AcceptedHasOutput == \A s \in Stages : row[s].status = "RELEASED" => Evidence(s)

\* docs/ARCHITECTURE.md:486: what is released was waiting for approval.
ReleasedWasWaiting ==
    [][\A s \in Stages :
        (row[s].status # "RELEASED" /\ row'[s].status = "RELEASED") =>
            row[s].status = "AWAITING_APPROVAL"]_vars
=============================================================================
