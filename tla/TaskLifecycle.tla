----------------------------- MODULE TaskLifecycle -----------------------------
(***************************************************************************)
(* The rows of one task from createTask to deleteTask                        *)
(* (orchestrator-service/internal/api/handlers.go) beside the scheduler that *)
(* is already reading them and a reader that fills in missing stages         *)
(* (getStages, EnsureStages).  One step is one statement to the database, as *)
(* in the module Orchestrator; here stages form a chain, and their agents    *)
(* always succeed: what a stage does otherwise is that module's subject.     *)
(***************************************************************************)
EXTENDS Naturals, FiniteSets

CONSTANTS
    Last,      \* the stages are 1..Last, each depends on the one before it
    Workers,   \* goroutines that may be in dispatchStage at once
    Deletes,   \* a user may delete the task
    Views,     \* bound: requests for the list of stages
    MaxFaults, \* bound: statements of createTask that fail
    MaxCrashes,\* bound: restarts of the service
    MaxRuns    \* bound: agent calls of a stage

ASSUME LifecycleAssumption ==
    /\ Last \in Nat \ {0} /\ IsFiniteSet(Workers) /\ Deletes \in BOOLEAN
    /\ {Views, MaxFaults, MaxCrashes, MaxRuns} \subseteq Nat
    /\ Workers \cap {"create", "delete", "view", "tick"} = {}

VARIABLES
    task,     \* tasks.status, or "none"
    row,      \* stages.status, or "none"
    attempts, \* stages with a row in stage_attempts
    files,    \* what the request attaches: "none", "bad" (no base64), "sent", "stored"
    answer,   \* the answer to createTask
    pc, mem,  \* where the threads are, and their local variables
    spawned, inFlight,
    faults, crashes, views,
    runs,     \* history: calls of a stage's agent
    deleted   \* history: the task was deleted

rows == <<task, row, attempts>>
process == <<spawned, inFlight>>
bounds == <<faults, crashes, views>>
request == <<files, answer>>
vars == <<rows, request, pc, mem, process, bounds, runs, deleted>>

Stages == 1..Last
Threads == {"create", "delete", "view", "tick"} \cup Workers
None == "none"
Status == {None, "NOT_STARTED", "QUEUED", "DISPATCHING", "RUNNING", "SUCCEEDED"}
Blank == [stage |-> 1, todo |-> {}, wake |-> {}, next |-> "RUNNING"]

Go(t, label) == pc' = [pc EXCEPT ![t] = label]
IsLowest(s, set) == s \in set /\ \A x \in set : s <= x

\* The foreign key of stages.task_id.
MayInsert == task # None
\* gorm's Save: the row is written, or inserted again when it is gone.
Save(s, status) ==
    row' = IF row[s] # None \/ MayInsert THEN [row EXCEPT ![s] = status] ELSE row

Init ==
    /\ task = None /\ row = [s \in Stages |-> None] /\ attempts = {}
    /\ files \in {"none", "bad", "sent"} /\ answer = None
    /\ pc = [t \in Threads |-> "idle"] /\ mem = [t \in Threads |-> Blank]
    /\ spawned = {} /\ inFlight = {}
    /\ faults = 0 /\ crashes = 0 /\ views = 0
    /\ runs = [s \in Stages |-> 0] /\ deleted = FALSE

-----------------------------------------------------------------------------
(* createTask *)

\* Mutant: the attachments are stored when the stages are there.
CreateTaskFirst ==
    /\ pc["create"] = "idle" /\ answer = None /\ ~deleted
    /\ task' = "PENDING"
    /\ Go("create", "stage") /\ mem' = [mem EXCEPT !["create"] = Blank]
    /\ UNCHANGED <<row, attempts, request, process, bounds, runs, deleted>>
CreateTask ==
    /\ pc["create"] = "idle" /\ answer = None /\ ~deleted
    /\ task' = "PENDING"
    /\ Go("create", IF files = "none" THEN "stage" ELSE "attach")
    /\ mem' = [mem EXCEPT !["create"] = Blank]
    /\ UNCHANGED <<row, attempts, request, process, bounds, runs, deleted>>

SaveTaskAttachments ==
    /\ pc["create"] = "attach"
    /\ IF files = "bad"
       THEN answer' = "400" /\ Go("create", "done") /\ UNCHANGED files
       ELSE files' = "stored" /\ Go("create", "stage") /\ UNCHANGED answer
    /\ UNCHANGED <<rows, mem, process, bounds, runs, deleted>>

\* Mutant: the error of a stage's row is not looked at.
CreateStageRegardless ==
    /\ pc["create"] = "stage"
    /\ LET s == mem["create"].stage IN
       /\ IF row[s] = None /\ MayInsert
          THEN \/ row' = [row EXCEPT ![s] = "NOT_STARTED"] /\ UNCHANGED faults
               \/ faults < MaxFaults /\ faults' = faults + 1 /\ UNCHANGED row
          ELSE UNCHANGED <<row, faults>>
       /\ mem' = IF s = Last THEN mem ELSE [mem EXCEPT !["create"].stage = s + 1]
       /\ Go("create", IF s = Last THEN "initial" ELSE "stage")
    /\ UNCHANGED <<task, attempts, request, process, crashes, views, runs, deleted>>
\* A stage's row; one that exists already or a fault of the database ends the request.
CreateStage ==
    /\ pc["create"] = "stage"
    /\ LET s == mem["create"].stage IN
       \/ /\ row[s] = None /\ MayInsert
          /\ row' = [row EXCEPT ![s] = "NOT_STARTED"]
          /\ mem' = IF s = Last THEN mem ELSE [mem EXCEPT !["create"].stage = s + 1]
          /\ Go("create", IF s = Last THEN "initial" ELSE "stage")
          /\ UNCHANGED <<answer, faults>>
       \/ /\ row[s] # None \/ ~MayInsert \/ faults < MaxFaults
          /\ faults' = IF row[s] # None \/ ~MayInsert THEN faults ELSE faults + 1
          /\ answer' = "500" /\ Go("create", "done")
          /\ UNCHANGED <<row, mem>>
    /\ UNCHANGED <<task, attempts, files, process, crashes, views, runs, deleted>>

\* QueueInitialStages reads the first stage and then saves it; its error is ignored.
ReadInitial ==
    /\ pc["create"] = "initial"
    /\ Go("create", IF row[1] = None THEN "answer" ELSE "queue")
    /\ UNCHANGED <<rows, request, mem, process, bounds, runs, deleted>>
QueueInitial ==
    /\ pc["create"] = "queue"
    /\ Save(1, "QUEUED")
    /\ Go("create", "answer")
    /\ UNCHANGED <<task, attempts, request, mem, process, bounds, runs, deleted>>
Answer ==
    /\ pc["create"] = "answer"
    /\ answer' = "201" /\ Go("create", "done")
    /\ UNCHANGED <<rows, files, mem, process, bounds, runs, deleted>>

-----------------------------------------------------------------------------
(* deleteTask *)

DeleteTask ==
    /\ Deletes /\ pc["delete"] = "idle" /\ task # None
    /\ Go("delete", "attempts")
    /\ UNCHANGED <<rows, request, mem, process, bounds, runs, deleted>>
DeleteAttempts ==
    /\ pc["delete"] = "attempts"
    /\ attempts' = {} /\ Go("delete", "stages")
    /\ UNCHANGED <<task, row, request, mem, process, bounds, runs, deleted>>
DeleteStages ==
    /\ pc["delete"] = "stages"
    /\ row' = [s \in Stages |-> None] /\ Go("delete", "task")
    /\ UNCHANGED <<task, attempts, request, mem, process, bounds, runs, deleted>>
\* The foreign key keeps a task that has a stage: the request is answered 500, and may be
\* made again.
DeleteRow ==
    /\ pc["delete"] = "task"
    /\ IF \E s \in Stages : row[s] # None
       THEN Go("delete", "idle") /\ UNCHANGED <<task, deleted>>
       ELSE Go("delete", "done") /\ task' = None /\ deleted' = TRUE
    /\ UNCHANGED <<row, attempts, request, mem, process, bounds, runs>>

-----------------------------------------------------------------------------
(* getStages: EnsureStages fills in the rows a task is missing *)

ViewStages ==
    /\ pc["view"] = "idle" /\ views < Views /\ task # None
    /\ views' = views + 1
    /\ LET missing == {s \in Stages : row[s] = None} IN
       IF missing = Stages \/ missing = {} THEN UNCHANGED <<mem, pc>>
       ELSE mem' = [mem EXCEPT !["view"].todo = missing] /\ Go("view", "ensure")
    /\ UNCHANGED <<rows, request, process, faults, crashes, runs, deleted>>
EnsureStage ==
    /\ pc["view"] = "ensure"
    /\ \E s \in Stages :
       /\ IsLowest(s, mem["view"].todo)
       /\ IF row[s] = None /\ MayInsert
          THEN /\ row' = [row EXCEPT ![s] = "NOT_STARTED"]
               /\ mem' = [mem EXCEPT !["view"].todo = @ \ {s}]
               /\ Go("view", IF mem["view"].todo = {s} THEN "idle" ELSE "ensure")
          ELSE Go("view", "idle") /\ UNCHANGED <<row, mem>>
    /\ UNCHANGED <<task, attempts, request, process, bounds, runs, deleted>>

-----------------------------------------------------------------------------
(* evaluateTask, by the scheduler and by a goroutine whose stage is done *)

\* RunOnce takes up tasks that are not over.
RunOnce ==
    /\ pc["tick"] = "idle" /\ task \in {"PENDING", "RUNNING"}
    /\ Go("tick", "evaluate")
    /\ UNCHANGED <<rows, request, mem, process, bounds, runs, deleted>>

Ready == {s \in Stages : row[s] = "NOT_STARTED" /\ (s = 1 \/ row[s - 1] = "SUCCEEDED")}
\* A task whose rows are all done is over, however many they are.
NextStatus ==
    IF (\A s \in Stages : row[s] \in {None, "SUCCEEDED"}) /\ \E s \in Stages : row[s] # None
    THEN "COMPLETED" ELSE "RUNNING"

ReadStages(t) ==
    /\ pc[t] = "evaluate"
    /\ mem' = [mem EXCEPT ![t].todo = Ready, ![t].next = NextStatus,
                          ![t].wake = Ready \cup {s \in Stages : row[s] = "QUEUED"}]
    /\ Go(t, IF task = None THEN "leave" ELSE "ready")
    /\ UNCHANGED <<rows, request, process, bounds, runs, deleted>>
\* The first row that cannot be saved ends the evaluation.
QueueReady(t) ==
    /\ pc[t] = "ready"
    /\ \E s \in Stages :
       /\ IsLowest(s, mem[t].todo)
       /\ Save(s, "QUEUED")
       /\ mem' = [mem EXCEPT ![t].todo = @ \ {s}]
       /\ Go(t, IF row[s] # None \/ MayInsert THEN "ready" ELSE "leave")
    /\ UNCHANGED <<task, attempts, request, process, bounds, runs, deleted>>
\* Mutant: the task is saved, and not updated.
SaveTask(t) ==
    /\ pc[t] = "ready" /\ mem[t].todo = {}
    /\ spawned' = spawned \cup mem[t].wake
    /\ task' = mem[t].next
    /\ Go(t, "leave")
    /\ UNCHANGED <<row, attempts, request, mem, inFlight, bounds, runs, deleted>>
\* Dispatchers are started, then the task is updated where it still exists.
UpdateTask(t) ==
    /\ pc[t] = "ready" /\ mem[t].todo = {}
    /\ spawned' = spawned \cup mem[t].wake
    /\ task' = IF task = None THEN None ELSE mem[t].next
    /\ Go(t, "leave")
    /\ UNCHANGED <<row, attempts, request, mem, inFlight, bounds, runs, deleted>>
\* A dispatcher gives its key back.
Leave(t) ==
    /\ pc[t] = "leave"
    /\ inFlight' = IF t \in Workers THEN inFlight \ {mem[t].stage} ELSE inFlight
    /\ Go(t, "idle") /\ mem' = [mem EXCEPT ![t] = Blank]
    /\ UNCHANGED <<rows, request, spawned, bounds, runs, deleted>>

-----------------------------------------------------------------------------
(* dispatchStage *)

Dispatch(w, s) ==
    /\ pc[w] = "idle" /\ s \in spawned
    /\ spawned' = spawned \ {s}
    /\ IF s \in inFlight
       THEN UNCHANGED <<pc, mem, inFlight>>
       ELSE /\ inFlight' = inFlight \cup {s}
            /\ mem' = [mem EXCEPT ![w].stage = s]
            /\ Go(w, "read task")
    /\ UNCHANGED <<rows, request, bounds, runs, deleted>>
ReadTask(w) ==
    /\ pc[w] = "read task"
    /\ Go(w, IF task = None THEN "leave" ELSE "read")
    /\ UNCHANGED <<rows, request, mem, process, bounds, runs, deleted>>
ReadStage(w) ==
    /\ pc[w] = "read"
    /\ Go(w, IF row[mem[w].stage] = "QUEUED" /\ runs[mem[w].stage] < MaxRuns
             THEN "dispatching" ELSE "leave")
    /\ UNCHANGED <<rows, request, mem, process, bounds, runs, deleted>>
SaveDispatching(w) ==
    /\ pc[w] = "dispatching"
    /\ Save(mem[w].stage, "DISPATCHING")
    /\ Go(w, IF row[mem[w].stage] # None \/ MayInsert THEN "attempt" ELSE "leave")
    /\ UNCHANGED <<task, attempts, request, mem, process, bounds, runs, deleted>>
CreateAttempt(w) ==
    /\ pc[w] = "attempt"
    /\ attempts' = attempts \cup {mem[w].stage}
    /\ Go(w, "running")
    /\ UNCHANGED <<task, row, request, mem, process, bounds, runs, deleted>>
\* The agent is called whether or not the row could be saved.
SaveRunning(w) ==
    /\ pc[w] = "running"
    /\ Save(mem[w].stage, "RUNNING")
    /\ runs' = [runs EXCEPT ![mem[w].stage] = @ + 1]
    /\ Go(w, "invoke")
    /\ UNCHANGED <<task, attempts, request, mem, process, bounds, deleted>>
\* The agent has answered: the attempt is saved and then the stage.
SaveAttempt(w) ==
    /\ pc[w] = "invoke"
    /\ attempts' = attempts \cup {mem[w].stage}
    /\ Go(w, "result")
    /\ UNCHANGED <<task, row, request, mem, process, bounds, runs, deleted>>
SaveResult(w) ==
    /\ pc[w] = "result"
    /\ Save(mem[w].stage, "SUCCEEDED")
    /\ Go(w, "evaluate")
    /\ UNCHANGED <<task, attempts, request, mem, process, bounds, runs, deleted>>

-----------------------------------------------------------------------------
\* The service restarts; a request under way is not answered.
Crash ==
    /\ crashes < MaxCrashes /\ crashes' = crashes + 1
    /\ pc' = [t \in Threads |-> IF t = "create" /\ pc[t] # "idle" THEN "done" ELSE "idle"]
    /\ mem' = [t \in Threads |-> Blank]
    /\ spawned' = {} /\ inFlight' = {}
    /\ UNCHANGED <<rows, request, faults, views, runs, deleted>>

Create == CreateTask \/ SaveTaskAttachments \/ CreateStage \/ ReadInitial \/ QueueInitial \/ Answer
Delete == DeleteTask \/ DeleteAttempts \/ DeleteStages \/ DeleteRow
View == ViewStages \/ EnsureStage
Evaluate(t) == ReadStages(t) \/ QueueReady(t) \/ UpdateTask(t) \/ Leave(t)
Work(w) ==
    \/ ReadTask(w) \/ ReadStage(w) \/ SaveDispatching(w) \/ CreateAttempt(w) \/ SaveRunning(w)
    \/ SaveAttempt(w) \/ SaveResult(w)
    \/ \E s \in Stages : Dispatch(w, s)

Next ==
    \/ Create \/ Delete \/ View \/ RunOnce \/ Crash
    \/ \E t \in {"tick"} \cup Workers : Evaluate(t)
    \/ \E w \in Workers : Work(w)

Spec == Init /\ [][Next]_vars

-----------------------------------------------------------------------------
\* The variables keep their types.
TypeOK ==
    /\ task \in {None, "PENDING", "RUNNING", "COMPLETED"}
    /\ row \in [Stages -> Status] /\ attempts \subseteq Stages
    /\ files \in {"none", "bad", "sent", "stored"} /\ answer \in {None, "201", "400", "500"}
    /\ pc \in [Threads -> {"idle", "done", "attach", "stage", "initial", "queue", "answer",
                           "attempts", "stages", "task", "ensure", "evaluate", "ready", "leave",
                           "read task", "read", "dispatching", "attempt", "running", "invoke",
                           "result"}]
    /\ mem \in [Threads -> [stage : Stages, todo : SUBSET Stages, wake : SUBSET Stages,
                            next : {"RUNNING", "COMPLETED"}]]
    /\ spawned \subseteq Stages /\ inFlight \subseteq Stages
    /\ faults \in 0..MaxFaults /\ crashes \in 0..MaxCrashes /\ views \in 0..Views
    /\ runs \in [Stages -> 0..MaxRuns] /\ deleted \in BOOLEAN

\* handlers.go:346-348: attachments are stored before any stage is queued, whoever queues it.
AttachmentsFirst == files \in {"none", "stored"} \/ \A s \in Stages : row[s] = None

\* A deleted task never comes back, and has no stages, whatever was under way: neither the
\* scheduler's update nor a dispatcher's save brings a row into being.
DeletedIsGone == deleted => task = None /\ \A s \in Stages : row[s] = None

\* A request answered 201 has made every stage, beside readers that make them too.
AnsweredIsWhole == answer = "201" /\ ~Deletes => \A s \in Stages : row[s] # None

\* What makes it so where nothing is deleted: createTask has made every stage it has passed.
MadeSoFar ==
    ~Deletes =>
        /\ pc["delete"] = "idle"
        /\ pc["create"] \in {"attach", "stage"} =>
               \A s \in Stages : s < mem["create"].stage => row[s] # None
        /\ pc["create"] \in {"initial", "queue", "answer"} => \A s \in Stages : row[s] # None
        /\ answer = "201" => \A s \in Stages : row[s] # None

-----------------------------------------------------------------------------
(* What the comments claim and the code does not keep *)

\* docs/ARCHITECTURE.md:428: the task and its stage graph are made in one transaction, so a
\* task that is COMPLETED has been through all its stages.
CompletedIsWhole == task = "COMPLETED" => \A s \in Stages : row[s] # None
\* The same line: of a request that is refused nothing is kept.
RefusedIsUndone == answer = "400" => task = None
\* docs/ARCHITECTURE.md:465: repeated queue events do not duplicate work.
RunsOnce == \A s \in Stages : runs[s] <= 1
\* docs/ARCHITECTURE.md:1311: a task's attempts are deleted with it.
AttemptsCascade == deleted => attempts = {}
=============================================================================
