-------------------------- MODULE TaskLifecycleProofs --------------------------
(***************************************************************************)
(* Theorems about the rows of a task from its creation to its deletion,    *)
(* for every number of stages, dispatchers, restarts and faults: no stage  *)
(* exists before the attachments its agent will read are stored, and no    *)
(* row comes back after the task was deleted, whatever the scheduler, the  *)
(* dispatchers and the readers still have in hand.  And, of the slices of  *)
(* the stage graph that MCOrchService runs beside it: the repair loops end *)
(* with their budget.                                                      *)
(***************************************************************************)
EXTENDS MCOrchService, TLAPS

Labels == {"idle", "done", "attach", "stage", "initial", "queue", "answer", "attempts", "stages",
           "task", "ensure", "evaluate", "ready", "leave", "read task", "read", "dispatching",
           "attempt", "running", "invoke", "result"}
Locals == [stage : Stages, todo : SUBSET Stages, wake : SUBSET Stages,
           next : {"RUNNING", "COMPLETED"}]

\* The part of the types that the other invariants need.
Shape ==
    /\ row \in [Stages -> Status]
    /\ pc \in [Threads -> Labels]
    /\ mem \in [Threads -> Locals]
    /\ spawned \subseteq Stages
    /\ files \in {"none", "bad", "sent", "stored"}

LEMMA FirstStage == 1 \in Stages /\ Blank \in Locals
<1>1. 1 \in Stages
    BY LifecycleAssumption DEF Stages
<1> QED BY <1>1 DEF Blank, Locals

\* The threads are apart from each other.
LEMMA ThreadsDistinct ==
    /\ {"create", "delete", "view", "tick"} \subseteq Threads /\ Workers \subseteq Threads
    /\ \A w \in Workers : w \notin {"create", "delete", "view", "tick"}
BY LifecycleAssumption DEF Threads

\* A saved row has its type, and no row of a task that is gone comes into being.
LEMMA SaveRow ==
    ASSUME row \in [Stages -> Status], NEW s \in Stages, NEW status \in Status, Save(s, status)
    PROVE  /\ row' \in [Stages -> Status]
           /\ task = None /\ row[s] = None => row' = row
BY DEF Save, MayInsert

\* The next label of a thread.
LEMMA GoLabel ==
    ASSUME pc \in [Threads -> Labels], NEW t \in Threads, NEW label \in Labels, Go(t, label)
    PROVE  /\ pc' \in [Threads -> Labels] /\ pc'[t] = label
           /\ \A u \in Threads : u # t => pc'[u] = pc[u]
BY DEF Go

-----------------------------------------------------------------------------
(* The shape, thread by thread *)

LEMMA InitShape == Init => Shape
<1> SUFFICES ASSUME Init PROVE Shape
    OBVIOUS
<1>1. row \in [Stages -> Status] /\ pc \in [Threads -> Labels]
    BY DEF Init, Status, Labels, None
<1>2. mem \in [Threads -> Locals]
    BY FirstStage DEF Init
<1> QED BY <1>1, <1>2 DEF Init, Shape

LEMMA CreateShape ==
    ASSUME Shape, Create PROVE Shape'
<1> USE ThreadsDistinct, FirstStage DEF Shape
<1>0. {"attach", "stage", "initial", "queue", "answer", "done"} \subseteq Labels
    BY DEF Labels
<1>1. CASE CreateTask
    <2>1. mem' \in [Threads -> Locals]
        BY <1>1 DEF CreateTask
    <2>2. pc' \in [Threads -> Labels]
        BY <1>0, <1>1 DEF CreateTask, Go
    <2> QED BY <1>1, <2>1, <2>2 DEF CreateTask, request, process
<1>2. CASE SaveTaskAttachments
    <2>1. pc' \in [Threads -> Labels]
        BY <1>0, <1>2 DEF SaveTaskAttachments, Go
    <2> QED BY <1>2, <2>1 DEF SaveTaskAttachments, rows, process
<1>3. CASE CreateStage
    <2> DEFINE s == mem["create"].stage
    <2>1. s \in Stages
        BY DEF Locals
    <2>2. row' \in [Stages -> Status]
        BY <1>3, <2>1 DEF CreateStage, Status
    <2>3. mem' \in [Threads -> Locals]
        <3>1. CASE mem' = mem
            BY <3>1
        <3>2. CASE s # Last /\ mem' = [mem EXCEPT !["create"].stage = s + 1]
            <4>1. s + 1 \in Stages
                BY <2>1, <3>2, LifecycleAssumption DEF Stages
            <4>2. [mem["create"] EXCEPT !.stage = s + 1] \in Locals
                BY <4>1 DEF Locals
            <4>3. mem' = [mem EXCEPT !["create"] = [mem["create"] EXCEPT !.stage = s + 1]]
                BY <3>2
            <4> QED BY <4>2, <4>3
        <3> QED BY <1>3, <3>1, <3>2 DEF CreateStage
    <2>4. pc' \in [Threads -> Labels]
        BY <1>0, <1>3 DEF CreateStage, Go
    <2> QED BY <1>3, <2>2, <2>3, <2>4 DEF CreateStage, process
<1>4. CASE ReadInitial
    <2>1. pc' \in [Threads -> Labels]
        BY <1>0, <1>4 DEF ReadInitial, Go
    <2> QED BY <1>4, <2>1 DEF ReadInitial, rows, request, process
<1>5. CASE QueueInitial
    <2>1. row' \in [Stages -> Status]
        BY <1>5, SaveRow DEF QueueInitial, Status
    <2>2. pc' \in [Threads -> Labels]
        BY <1>0, <1>5 DEF QueueInitial, Go
    <2> QED BY <1>5, <2>1, <2>2 DEF QueueInitial, request, process
<1>6. CASE Answer
    <2>1. pc' \in [Threads -> Labels]
        BY <1>0, <1>6 DEF Answer, Go
    <2> QED BY <1>6, <2>1 DEF Answer, rows, process
<1> QED BY <1>1, <1>2, <1>3, <1>4, <1>5, <1>6 DEF Create

LEMMA DeleteShape ==
    ASSUME Shape, Delete PROVE Shape'
<1> USE ThreadsDistinct DEF Shape
<1>0. {"idle", "done", "attempts", "stages", "task"} \subseteq Labels
    BY DEF Labels
<1>1. pc' \in [Threads -> Labels]
    BY <1>0 DEF Delete, DeleteTask, DeleteAttempts, DeleteStages, DeleteRow, Go
<1>2. row' \in [Stages -> Status]
    BY DEF Delete, DeleteTask, DeleteAttempts, DeleteStages, DeleteRow, rows, Status
<1> QED BY <1>1, <1>2 DEF Delete, DeleteTask, DeleteAttempts, DeleteStages, DeleteRow, request,
                          process

LEMMA ViewShape ==
    ASSUME Shape, View PROVE Shape'
<1> USE ThreadsDistinct DEF Shape
<1>0. {"idle", "ensure"} \subseteq Labels
    BY DEF Labels
<1>1. ASSUME NEW todo \in SUBSET Stages, mem' = [mem EXCEPT !["view"].todo = todo]
      PROVE  mem' \in [Threads -> Locals]
    <2>1. [mem["view"] EXCEPT !.todo = todo] \in Locals
        BY DEF Locals
    <2>2. mem' = [mem EXCEPT !["view"] = [mem["view"] EXCEPT !.todo = todo]]
        BY <1>1
    <2> QED BY <2>1, <2>2
<1>2. CASE ViewStages
    <2>1. pc' \in [Threads -> Labels]
        BY <1>0, <1>2 DEF ViewStages, Go
    <2>2. mem' \in [Threads -> Locals]
        BY <1>1, <1>2 DEF ViewStages
    <2> QED BY <1>2, <2>1, <2>2 DEF ViewStages, rows, request, process
<1>3. CASE EnsureStage
    <2>1. pc' \in [Threads -> Labels]
        BY <1>0, <1>3 DEF EnsureStage, Go
    <2>2. mem["view"].todo \subseteq Stages
        BY DEF Locals
    <2>3. PICK s \in Stages :
            IF row[s] = None /\ MayInsert
            THEN /\ row' = [row EXCEPT ![s] = "NOT_STARTED"]
                 /\ mem' = [mem EXCEPT !["view"].todo = @ \ {s}]
            ELSE row' = row /\ mem' = mem
        BY <1>3 DEF EnsureStage
    <2>4. row' \in [Stages -> Status]
        BY <2>3 DEF Status
    <2>5. mem' \in [Threads -> Locals]
        BY <1>1, <2>2, <2>3
    <2> QED BY <1>3, <2>1, <2>4, <2>5 DEF EnsureStage, request, process
<1> QED BY <1>2, <1>3 DEF View

LEMMA EvaluateShape ==
    ASSUME Shape, NEW t \in {"tick"} \cup Workers, Evaluate(t) PROVE Shape'
<1> USE DEF Shape
<1>0. {"idle", "leave", "ready"} \subseteq Labels /\ t \in Threads
    BY ThreadsDistinct DEF Labels
<1>1. CASE ReadStages(t)
    <2>1. Ready \subseteq Stages /\ NextStatus \in {"RUNNING", "COMPLETED"}
        BY DEF Ready, NextStatus
    <2> DEFINE wake == Ready \cup {s \in Stages : row[s] = "QUEUED"}
               new == [mem[t] EXCEPT !.todo = Ready, !.next = NextStatus, !.wake = wake]
    <2>2. new \in Locals
        BY <1>0, <2>1 DEF Locals
    <2>3. mem' = [mem EXCEPT ![t] = new]
        BY <1>0, <1>1 DEF ReadStages
    <2>4. mem' \in [Threads -> Locals]
        BY <2>2, <2>3
    <2>5. pc' \in [Threads -> Labels]
        BY <1>0, <1>1 DEF ReadStages, Go
    <2> QED BY <1>1, <2>4, <2>5 DEF ReadStages, rows, request, process
<1>2. CASE QueueReady(t)
    <2>1. PICK s \in Stages : Save(s, "QUEUED") /\ mem' = [mem EXCEPT ![t].todo = @ \ {s}]
        BY <1>2 DEF QueueReady
    <2>2. row' \in [Stages -> Status]
        BY <2>1, SaveRow DEF Status
    <2>3. mem' \in [Threads -> Locals]
        <3> DEFINE new == [mem[t] EXCEPT !.todo = @ \ {s}]
        <3>1. new \in Locals
            BY <1>0 DEF Locals
        <3>2. mem' = [mem EXCEPT ![t] = new]
            BY <1>0, <2>1
        <3> QED BY <3>1, <3>2
    <2>4. pc' \in [Threads -> Labels]
        BY <1>0, <1>2 DEF QueueReady, Go
    <2> QED BY <1>2, <2>2, <2>3, <2>4 DEF QueueReady, request, process
<1>3. CASE UpdateTask(t)
    <2>1. mem[t].wake \subseteq Stages
        BY <1>0 DEF Locals
    <2>2. pc' \in [Threads -> Labels]
        BY <1>0, <1>3 DEF UpdateTask, Go
    <2> QED BY <1>3, <2>1, <2>2 DEF UpdateTask, request
<1>4. CASE Leave(t)
    <2>1. mem' \in [Threads -> Locals]
        BY <1>0, <1>4, FirstStage DEF Leave
    <2>2. pc' \in [Threads -> Labels]
        BY <1>0, <1>4 DEF Leave, Go
    <2> QED BY <1>4, <2>1, <2>2 DEF Leave, rows, request
<1> QED BY <1>1, <1>2, <1>3, <1>4 DEF Evaluate

LEMMA WorkShape ==
    ASSUME Shape, NEW w \in Workers, Work(w) PROVE Shape'
<1> USE DEF Shape
<1>0. /\ {"leave", "read task", "read", "dispatching", "attempt", "running", "invoke", "result",
          "evaluate"} \subseteq Labels
      /\ w \in Threads
    BY ThreadsDistinct DEF Labels
<1>1. mem[w].stage \in Stages
    BY <1>0 DEF Locals
<1>2. {"DISPATCHING", "RUNNING", "SUCCEEDED"} \subseteq Status
    BY DEF Status
<1>3. CASE ReadTask(w) \/ ReadStage(w) \/ CreateAttempt(w) \/ SaveAttempt(w)
    <2>1. pc' \in [Threads -> Labels]
        BY <1>0, <1>3 DEF ReadTask, ReadStage, CreateAttempt, SaveAttempt, Go
    <2> QED BY <1>3, <2>1 DEF ReadTask, ReadStage, CreateAttempt, SaveAttempt, rows, request,
                              process
<1>4. CASE SaveDispatching(w) \/ SaveRunning(w) \/ SaveResult(w)
    <2>1. row' \in [Stages -> Status]
        BY <1>1, <1>2, <1>4, SaveRow DEF SaveDispatching, SaveRunning, SaveResult
    <2>2. pc' \in [Threads -> Labels]
        BY <1>0, <1>4 DEF SaveDispatching, SaveRunning, SaveResult, Go
    <2> QED BY <1>4, <2>1, <2>2 DEF SaveDispatching, SaveRunning, SaveResult, request, process
<1>5. ASSUME NEW s \in Stages, Dispatch(w, s) PROVE Shape'
    <2>1. pc' \in [Threads -> Labels]
        BY <1>0, <1>5 DEF Dispatch, Go
    <2>2. mem' \in [Threads -> Locals]
        <3>1. CASE mem' = mem
            BY <3>1
        <3>2. CASE mem' = [mem EXCEPT ![w].stage = s]
            <4>1. [mem[w] EXCEPT !.stage = s] \in Locals
                BY <1>0 DEF Locals
            <4>2. mem' = [mem EXCEPT ![w] = [mem[w] EXCEPT !.stage = s]]
                BY <1>0, <3>2
            <4> QED BY <4>1, <4>2
        <3> QED BY <1>5, <3>1, <3>2 DEF Dispatch
    <2> QED BY <1>5, <2>1, <2>2 DEF Dispatch, rows, request
<1> QED BY <1>3, <1>4, <1>5 DEF Work

LEMMA NextShape == Shape /\ [Next]_vars => Shape'
<1> SUFFICES ASSUME Shape, [Next]_vars PROVE Shape'
    OBVIOUS
<1>1. CASE RunOnce
    <2>1. pc' \in [Threads -> Labels]
        BY <1>1, ThreadsDistinct DEF RunOnce, Go, Shape, Labels
    <2> QED BY <1>1, <2>1 DEF RunOnce, rows, request, process, Shape
<1>2. CASE Crash
    <2>1. pc' \in [Threads -> Labels]
        BY <1>2 DEF Crash, Labels
    <2>2. mem' \in [Threads -> Locals]
        BY <1>2, FirstStage DEF Crash
    <2> QED BY <1>2, <2>1, <2>2 DEF Crash, rows, request, Shape
<1>3. CASE UNCHANGED vars
    BY <1>3 DEF vars, rows, request, process, Shape
<1> QED BY <1>1, <1>2, <1>3, CreateShape, DeleteShape, ViewShape, EvaluateShape, WorkShape DEF Next

THEOREM ShapeCorrect == Spec => []Shape
BY InitShape, NextShape, PTL DEF Spec

-----------------------------------------------------------------------------
(* A deleted task stays deleted *)

\* Once the task is gone a step leaves it and its rows alone, whoever makes it.
LEMMA CreateKeepsGone ==
    ASSUME Shape, DeletedIsGone, Create PROVE DeletedIsGone'
<1> USE DEF DeletedIsGone, Shape
<1>1. CASE CreateTask
    BY <1>1 DEF CreateTask
<1>2. CASE SaveTaskAttachments \/ ReadInitial \/ Answer
    BY <1>2 DEF SaveTaskAttachments, ReadInitial, Answer, rows
<1>3. CASE CreateStage
    BY <1>3 DEF CreateStage, MayInsert
<1>4. CASE QueueInitial
    BY <1>4, SaveRow, FirstStage DEF QueueInitial, Status
<1> QED BY <1>1, <1>2, <1>3, <1>4 DEF Create

LEMMA DeleteKeepsGone ==
    ASSUME Shape, DeletedIsGone, Delete PROVE DeletedIsGone'
BY DEF DeletedIsGone, Delete, DeleteTask, DeleteAttempts, DeleteStages, DeleteRow, rows

LEMMA ViewKeepsGone ==
    ASSUME Shape, DeletedIsGone, View PROVE DeletedIsGone'
<1>1. CASE ViewStages
    BY <1>1 DEF ViewStages, rows, DeletedIsGone
<1>2. CASE EnsureStage
    BY <1>2 DEF EnsureStage, MayInsert, DeletedIsGone
<1> QED BY <1>1, <1>2 DEF View

LEMMA EvaluateKeepsGone ==
    ASSUME Shape, DeletedIsGone, NEW t \in {"tick"} \cup Workers, Evaluate(t)
    PROVE  DeletedIsGone'
<1> USE DEF DeletedIsGone
<1>1. CASE ReadStages(t) \/ Leave(t)
    BY <1>1 DEF ReadStages, Leave, rows
<1>2. CASE QueueReady(t)
    <2>1. PICK s \in Stages : Save(s, "QUEUED")
        BY <1>2 DEF QueueReady
    <2>2. task = None /\ row[s] = None => row' = row
        BY <2>1, SaveRow DEF Shape, Status
    <2> QED BY <1>2, <2>2 DEF QueueReady
<1>3. CASE UpdateTask(t)
    BY <1>3 DEF UpdateTask
<1> QED BY <1>1, <1>2, <1>3 DEF Evaluate

LEMMA WorkKeepsGone ==
    ASSUME Shape, DeletedIsGone, NEW w \in Workers, Work(w)
    PROVE  DeletedIsGone'
<1> USE DEF DeletedIsGone
<1>1. CASE ReadTask(w) \/ ReadStage(w) \/ CreateAttempt(w) \/ SaveAttempt(w)
    BY <1>1 DEF ReadTask, ReadStage, CreateAttempt, SaveAttempt, rows
<1>2. CASE SaveDispatching(w) \/ SaveRunning(w) \/ SaveResult(w)
    <2>1. mem[w].stage \in Stages
        BY ThreadsDistinct DEF Shape, Locals
    <2>2. PICK status \in Status : Save(mem[w].stage, status)
        BY <1>2 DEF SaveDispatching, SaveRunning, SaveResult, Status
    <2>3. task = None /\ row[mem[w].stage] = None => row' = row
        BY <2>1, <2>2, SaveRow DEF Shape
    <2> QED BY <1>2, <2>1, <2>3 DEF SaveDispatching, SaveRunning, SaveResult
<1>3. ASSUME NEW s \in Stages, Dispatch(w, s) PROVE UNCHANGED <<rows, deleted>>
    BY <1>3 DEF Dispatch
<1> QED BY <1>1, <1>2, <1>3 DEF Work, rows

LEMMA NextKeepsGone == Shape /\ DeletedIsGone /\ [Next]_vars => DeletedIsGone'
<1> SUFFICES ASSUME Shape, DeletedIsGone, [Next]_vars PROVE DeletedIsGone'
    OBVIOUS
<1>1. CASE RunOnce \/ Crash \/ UNCHANGED vars
    BY <1>1 DEF RunOnce, Crash, vars, rows, DeletedIsGone
<1> QED BY <1>1, CreateKeepsGone, DeleteKeepsGone, ViewKeepsGone, EvaluateKeepsGone,
           WorkKeepsGone DEF Next

\* No row of a deleted task comes back (handlers.go:240, orchestrator.go: evaluateTask's update,
\* dispatchStage's saves), for every number of stages, dispatchers, readers and restarts.
THEOREM DeletedStays == Spec => []DeletedIsGone
<1>1. Init => DeletedIsGone
    BY DEF Init, DeletedIsGone
<1> QED BY <1>1, NextKeepsGone, ShapeCorrect, PTL DEF Spec

-----------------------------------------------------------------------------
(* Attachments before stages *)

\* Until the attachments are stored nobody has a stage in hand.
Waiting == files \in {"bad", "sent"}
Nothing ==
    /\ \A s \in Stages : row[s] = None
    /\ spawned = {} /\ pc["view"] = "idle"
    /\ mem["tick"].todo = {} /\ mem["tick"].wake = {}
    /\ \A w \in Workers : pc[w] = "idle"
    /\ pc["create"] \in {"idle", "attach", "done"}
Pending == Waiting => Nothing

LEMMA CreatePending ==
    ASSUME Shape, Pending, Create PROVE Pending'
<1> USE ThreadsDistinct DEF Pending, Waiting, Nothing, Shape
<1>1. CASE CreateTask
    BY <1>1, FirstStage DEF CreateTask, request, process, Go, Blank
<1>2. CASE SaveTaskAttachments
    BY <1>2 DEF SaveTaskAttachments, rows, process, Go
<1>3. CASE CreateStage
    BY <1>3 DEF CreateStage
<1>4. CASE ReadInitial \/ QueueInitial \/ Answer
    BY <1>4 DEF ReadInitial, QueueInitial, Answer, request
<1> QED BY <1>1, <1>2, <1>3, <1>4 DEF Create

LEMMA DeletePending ==
    ASSUME Shape, Pending, Delete PROVE Pending'
BY ThreadsDistinct DEF Pending, Waiting, Nothing, Shape, Delete, DeleteTask, DeleteAttempts,
   DeleteStages, DeleteRow, Go, rows, request, process

LEMMA ViewPending ==
    ASSUME Shape, Pending, View PROVE Pending'
<1> USE ThreadsDistinct DEF Pending, Waiting, Nothing, Shape
<1>1. CASE ViewStages
    BY <1>1 DEF ViewStages, rows, request, process
<1>2. CASE EnsureStage
    BY <1>2 DEF EnsureStage, request
<1> QED BY <1>1, <1>2 DEF View

LEMMA EvaluatePending ==
    ASSUME Shape, Pending, NEW t \in {"tick"} \cup Workers, Evaluate(t) PROVE Pending'
<1> USE ThreadsDistinct DEF Pending, Waiting, Nothing, Shape
<1>1. ASSUME Waiting' PROVE Waiting /\ t = "tick"
    BY <1>1 DEF Evaluate, ReadStages, QueueReady, UpdateTask, Leave, request
<1>2. CASE ReadStages(t)
    <2>1. Waiting => Ready = {} /\ {s \in Stages : row[s] = "QUEUED"} = {}
        BY DEF Ready, None
    <2> QED BY <1>1, <1>2, <2>1 DEF ReadStages, rows, process, Go
<1>3. CASE QueueReady(t)
    BY <1>1, <1>3 DEF QueueReady, IsLowest
<1>4. CASE UpdateTask(t)
    BY <1>1, <1>4 DEF UpdateTask, Go
<1>5. CASE Leave(t)
    BY <1>1, <1>5 DEF Leave, rows, Go, Blank
<1> QED BY <1>2, <1>3, <1>4, <1>5 DEF Evaluate

LEMMA WorkPending ==
    ASSUME Shape, Pending, NEW w \in Workers, Work(w) PROVE Pending'
BY DEF Pending, Waiting, Nothing, Work, ReadTask, ReadStage, SaveDispatching, CreateAttempt,
   SaveRunning, SaveAttempt, SaveResult, Dispatch, request

LEMMA InitPending == Init => Pending
BY ThreadsDistinct DEF Init, Pending, Waiting, Nothing, Blank

LEMMA NextPending == Shape /\ Pending /\ [Next]_vars => Pending'
<1> SUFFICES ASSUME Shape, Pending, [Next]_vars PROVE Pending'
    OBVIOUS
<1> USE ThreadsDistinct DEF Pending, Waiting, Nothing, Shape
<1>1. CASE RunOnce
    BY <1>1 DEF RunOnce, Go, rows, request, process
<1>2. CASE Crash
    BY <1>2 DEF Crash, rows, request, Blank
<1>3. CASE UNCHANGED vars
    BY <1>3 DEF vars, rows, request, process
<1> QED BY <1>1, <1>2, <1>3, CreatePending, DeletePending, ViewPending, EvaluatePending,
           WorkPending DEF Next

\* A stage exists, and so can be dispatched, only when the attachments its agent reads are
\* stored (handlers.go:346-348), beside a scheduler that takes up the task at any moment.
THEOREM AttachmentsStored == Spec => []AttachmentsFirst
<1>1. Shape /\ Pending => AttachmentsFirst
    BY DEF Shape, Pending, Waiting, Nothing, AttachmentsFirst
<1> QED BY <1>1, InitPending, NextPending, ShapeCorrect, PTL DEF Spec

-----------------------------------------------------------------------------
(* A request that was answered has made every stage *)

\* Where nothing is deleted no row is ever lost, and only createTask moves its own thread.
RowsKept == \A s \in Stages : row[s] # None => row'[s] # None
CreatorKept == UNCHANGED <<answer, pc["create"], pc["delete"], mem["create"]>>

LEMMA SaveKeepsRows ==
    ASSUME Shape, NEW s \in Stages, NEW status \in Status \ {None}, Save(s, status)
    PROVE  RowsKept
BY DEF Shape, Save, RowsKept

LEMMA OthersKeep ==
    ASSUME Shape, RowsKept, CreatorKept, MadeSoFar
    PROVE  MadeSoFar'
BY DEF RowsKept, CreatorKept, MadeSoFar

LEMMA CreateMakes ==
    ASSUME Shape, MadeSoFar, Create PROVE MadeSoFar'
<1> USE ThreadsDistinct DEF MadeSoFar
<1>0. /\ pc["create"] \in Labels /\ pc["delete"] \in Labels /\ mem["create"] \in Locals
      /\ mem["create"].stage \in Stages /\ Stages \subseteq Nat
    BY DEF Shape, Locals, Stages
<1>d. pc'["delete"] = pc["delete"]
    BY DEF Create, CreateTask, SaveTaskAttachments, CreateStage, ReadInitial, QueueInitial,
       Answer, Go, Shape
<1>1. CASE CreateTask
    <2>1. mem'["create"].stage = 1 /\ UNCHANGED <<row, answer>> /\ pc'["create"] \in {"stage", "attach"}
        BY <1>1 DEF CreateTask, Go, Shape, Blank, request
    <2>2. \A s \in Stages : ~ (s < 1)
        BY DEF Stages
    <2> QED BY <1>d, <2>1, <2>2
<1>2. CASE SaveTaskAttachments
    <2>0. pc["create"] = "attach"
        BY <1>2 DEF SaveTaskAttachments
    <2>1. CASE files = "bad"
        BY <1>2, <1>d, <2>0, <2>1 DEF SaveTaskAttachments, Go, Shape, rows
    <2>2. CASE files # "bad"
        <3>1. pc'["create"] = "stage" /\ UNCHANGED <<row, answer, mem>>
            BY <1>2, <2>2 DEF SaveTaskAttachments, Go, Shape, rows
        <3> QED BY <1>d, <2>0, <3>1
    <2> QED BY <2>1, <2>2
<1>3. CASE CreateStage
    <2> DEFINE s == mem["create"].stage
    <2>0. pc["create"] = "stage" /\ s \in Stages /\ Stages = 1..Last /\ Last \in Nat
        BY <1>0, <1>3, LifecycleAssumption DEF CreateStage, Stages
    <2>1. CASE answer' = "500" /\ Go("create", "done") /\ row' = row
        <3>1. pc'["create"] = "done"
            BY <2>1 DEF Go, Shape
        <3> QED BY <1>d, <2>1, <3>1
    <2>2. CASE /\ row' = [row EXCEPT ![s] = "NOT_STARTED"]
               /\ mem' = IF s = Last THEN mem ELSE [mem EXCEPT !["create"].stage = s + 1]
               /\ Go("create", IF s = Last THEN "initial" ELSE "stage")
               /\ UNCHANGED answer
        <3>1. row'[s] # None /\ RowsKept
            BY <2>0, <2>2 DEF Shape, RowsKept, None
        <3>2. CASE s = Last
            <4>1. pc'["create"] = "initial"
                BY <2>2, <3>2 DEF Go, Shape
            <4>2. \A r \in Stages : r < s \/ r = s
                BY <2>0, <3>2
            <4> QED BY <1>d, <2>0, <2>2, <3>1, <4>1, <4>2 DEF RowsKept
        <3>3. CASE s # Last
            <4>1. pc'["create"] = "stage" /\ mem'["create"].stage = s + 1
                BY <1>0, <2>2, <3>3 DEF Go, Shape, Locals
            <4>2. \A r \in Stages : r < s + 1 => r < s \/ r = s
                BY <2>0
            <4> QED BY <1>d, <2>0, <2>2, <3>1, <4>1, <4>2 DEF RowsKept
        <3> QED BY <3>2, <3>3
    <2> QED BY <1>3, <2>1, <2>2 DEF CreateStage
<1>4. CASE ReadInitial
    <2>1. pc["create"] = "initial" /\ pc'["create"] \in {"queue", "answer"} /\ UNCHANGED <<row, answer, mem>>
        BY <1>4 DEF ReadInitial, Go, Shape, rows, request
    <2> QED BY <1>d, <2>1
<1>5. CASE QueueInitial
    <2>1. pc["create"] = "queue" /\ pc'["create"] = "answer" /\ UNCHANGED <<answer, mem>>
        BY <1>5 DEF QueueInitial, Go, Shape, request
    <2>2. RowsKept
        BY <1>5, SaveKeepsRows, FirstStage DEF QueueInitial, Status, None
    <2> QED BY <1>d, <2>1, <2>2 DEF RowsKept
<1>6. CASE Answer
    <2>1. pc["create"] = "answer" /\ pc'["create"] = "done" /\ UNCHANGED <<row, mem>>
        BY <1>6 DEF Answer, Go, Shape, rows
    <2> QED BY <1>d, <2>1
<1> QED BY <1>1, <1>2, <1>3, <1>4, <1>5, <1>6 DEF Create

LEMMA ViewMakes ==
    ASSUME Shape, MadeSoFar, View PROVE MadeSoFar'
<1> USE ThreadsDistinct DEF Shape
<1>1. CASE ViewStages
    <2>1. CreatorKept /\ RowsKept
        BY <1>1 DEF ViewStages, CreatorKept, RowsKept, Go, rows, request
    <2> QED BY <2>1, OthersKeep
<1>2. CASE EnsureStage
    <2>1. CreatorKept
        BY <1>2 DEF EnsureStage, CreatorKept, Go, request
    <2>2. RowsKept
        BY <1>2 DEF EnsureStage, RowsKept, None
    <2> QED BY <2>1, <2>2, OthersKeep
<1> QED BY <1>1, <1>2 DEF View

LEMMA EvaluateMakes ==
    ASSUME Shape, MadeSoFar, NEW t \in {"tick"} \cup Workers, Evaluate(t) PROVE MadeSoFar'
<1> USE DEF Shape
<1>0. t \in Threads /\ t \notin {"create", "delete"}
    BY ThreadsDistinct
<1>1. CreatorKept
    BY <1>0, ThreadsDistinct
    DEF Evaluate, ReadStages, QueueReady, UpdateTask, Leave, CreatorKept, Go, request
<1>2. RowsKept
    <2>1. CASE ReadStages(t) \/ UpdateTask(t) \/ Leave(t)
        BY <2>1 DEF ReadStages, UpdateTask, Leave, RowsKept, rows
    <2>2. CASE QueueReady(t)
        <3>1. PICK s \in Stages : Save(s, "QUEUED")
            BY <2>2 DEF QueueReady
        <3> QED BY <3>1, SaveKeepsRows DEF Status, None
    <2> QED BY <2>1, <2>2 DEF Evaluate
<1> QED BY <1>1, <1>2, OthersKeep

LEMMA WorkMakes ==
    ASSUME Shape, MadeSoFar, NEW w \in Workers, Work(w) PROVE MadeSoFar'
<1> USE DEF Shape
<1>0. w \in Threads /\ w \notin {"create", "delete"} /\ mem[w].stage \in Stages
    BY ThreadsDistinct DEF Locals
<1>1. CASE ReadTask(w) \/ ReadStage(w) \/ CreateAttempt(w) \/ SaveAttempt(w)
    <2>1. CreatorKept /\ RowsKept
        BY <1>0, <1>1, ThreadsDistinct
        DEF ReadTask, ReadStage, CreateAttempt, SaveAttempt, CreatorKept, RowsKept, Go, rows, request
    <2> QED BY <2>1, OthersKeep
<1>2. CASE SaveDispatching(w) \/ SaveRunning(w) \/ SaveResult(w)
    <2>1. CreatorKept
        BY <1>0, <1>2, ThreadsDistinct
        DEF SaveDispatching, SaveRunning, SaveResult, CreatorKept, Go, request
    <2>2. PICK status \in Status \ {None} : Save(mem[w].stage, status)
        BY <1>2 DEF SaveDispatching, SaveRunning, SaveResult, Status, None
    <2> QED BY <1>0, <2>1, <2>2, SaveKeepsRows, OthersKeep
<1>3. ASSUME NEW s \in Stages, Dispatch(w, s) PROVE MadeSoFar'
    <2>1. CreatorKept /\ RowsKept
        BY <1>0, <1>3, ThreadsDistinct DEF Dispatch, CreatorKept, RowsKept, Go, rows, request
    <2> QED BY <2>1, OthersKeep
<1> QED BY <1>1, <1>2, <1>3 DEF Work

LEMMA NextMakes == Shape /\ MadeSoFar /\ [Next]_vars => MadeSoFar'
<1> SUFFICES ASSUME Shape, MadeSoFar, [Next]_vars PROVE MadeSoFar'
    OBVIOUS
<1> USE ThreadsDistinct DEF Shape
<1>1. CASE Delete
    BY <1>1 DEF Delete, DeleteTask, DeleteAttempts, DeleteStages, DeleteRow, MadeSoFar
<1>2. CASE RunOnce
    <2>1. CreatorKept /\ RowsKept
        BY <1>2 DEF RunOnce, CreatorKept, RowsKept, Go, rows, request
    <2> QED BY <2>1, OthersKeep
<1>3. CASE Crash
    <2>1. pc'["create"] \in {"idle", "done"} /\ pc'["delete"] = "idle" /\ UNCHANGED <<row, answer>>
        BY <1>3 DEF Crash, rows, request
    <2> QED BY <2>1 DEF MadeSoFar
<1>4. CASE UNCHANGED vars
    BY <1>4, OthersKeep DEF vars, rows, request, RowsKept, CreatorKept
<1> QED BY <1>1, <1>2, <1>3, <1>4, CreateMakes, ViewMakes, EvaluateMakes, WorkMakes DEF Next

\* A request answered 201 has made every stage (handlers.go: createTask), for every number of
\* stages, beside readers that fill in the same rows and a scheduler that already queues them.
THEOREM AnsweredMakesAll == Spec => []AnsweredIsWhole
<1>1. Init => MadeSoFar
    BY ThreadsDistinct DEF Init, MadeSoFar, None
<1>2. MadeSoFar => AnsweredIsWhole
    BY DEF MadeSoFar, AnsweredIsWhole
<1> QED BY <1>1, <1>2, NextMakes, ShapeCorrect, PTL DEF Spec

\* The same beside the slices of the stage graph (MCOrchService).
THEOREM CreatedWhole == ServiceSpec => []CreatedIsWhole
<1> DEFINE allVars == <<slice, vars, flowVars>>
           Kept == slice = "keeps" => Shape /\ MadeSoFar
<1>1. ServiceInit => Kept
    BY InitShape, ThreadsDistinct DEF ServiceInit, Init, MadeSoFar, None
<1>2. Kept /\ [ServiceNext]_allVars => Kept'
    <2> SUFFICES ASSUME Kept, [ServiceNext]_allVars, slice' = "keeps"
                 PROVE  Shape' /\ MadeSoFar'
        OBVIOUS
    <2>1. slice = "keeps" /\ [Next]_vars
        BY DEF ServiceNext
    <2> QED BY <2>1, NextShape, NextMakes
<1>3. Kept => CreatedIsWhole
    BY DEF CreatedIsWhole, MadeSoFar, AnsweredIsWhole
<1> HIDE DEF Kept
<1> QED BY <1>1, <1>2, <1>3, PTL DEF ServiceSpec
-----------------------------------------------------------------------------
(* The rows beside the slices, with deletion and without *)

\* What has been proved of a step, together.
RowsInv == Shape /\ Pending /\ DeletedIsGone

LEMMA InitRows == Init => RowsInv
BY InitShape, InitPending DEF RowsInv, Init, DeletedIsGone

LEMMA NextRows == RowsInv /\ [Next]_vars => RowsInv'
BY NextShape, NextPending, NextKeepsGone DEF RowsInv

\* The slice with deletion has no fault and no restart.
Undisturbed == faults = 0 /\ crashes = 0

\* Its steps are those of the module but for the two that its constants decide: a deletion
\* begins, and a dispatcher goes on to its agent or leaves.
Begins == Go("delete", "attempts") /\ UNCHANGED <<rows, request, mem, process, bounds, runs, deleted>>
GoesOn(w) ==
    /\ pc[w] = "read"
    /\ Go(w, "dispatching") \/ Go(w, "leave")
    /\ UNCHANGED <<rows, request, mem, process, bounds, runs, deleted>>

LEMMA DeletionStep ==
    ASSUME Undisturbed, Deletion!Next
    PROVE  /\ Undisturbed'
           /\ Next \/ Begins \/ \E w \in Workers : GoesOn(w)
<1> USE DEF Deletion!Stages, Stages, Deletion!None, None, Deletion!rows, rows, Deletion!process,
        process, Deletion!bounds, bounds, Deletion!request, request, Deletion!Go, Go,
        Deletion!MayInsert, MayInsert, Deletion!Save, Save, Deletion!IsLowest, IsLowest
<1>1. ~(faults < 0) /\ ~(crashes < 0)
    BY DEF Undisturbed
<1>2. ASSUME Deletion!Create PROVE Undisturbed' /\ Create
    <2> USE <1>1
    <2>1. Deletion!CreateTask => CreateTask /\ UNCHANGED bounds
        BY DEF Deletion!CreateTask, CreateTask, Deletion!Blank, Blank
    <2>2. Deletion!SaveTaskAttachments => SaveTaskAttachments /\ UNCHANGED bounds
        BY DEF Deletion!SaveTaskAttachments, SaveTaskAttachments
    <2>3. Deletion!CreateStage => CreateStage /\ UNCHANGED bounds
        BY DEF Deletion!CreateStage, CreateStage
    <2>4. Deletion!ReadInitial => ReadInitial /\ UNCHANGED bounds
        BY DEF Deletion!ReadInitial, ReadInitial
    <2>5. Deletion!QueueInitial => QueueInitial /\ UNCHANGED bounds
        BY DEF Deletion!QueueInitial, QueueInitial
    <2>6. Deletion!Answer => Answer /\ UNCHANGED bounds
        BY DEF Deletion!Answer, Answer
    <2> QED BY <1>2, <2>1, <2>2, <2>3, <2>4, <2>5, <2>6 DEF Deletion!Create, Create, Undisturbed
<1>3. ASSUME Deletion!Delete PROVE Undisturbed' /\ (Begins \/ Delete)
    <2>1. Deletion!DeleteTask => Begins /\ UNCHANGED bounds
        BY DEF Deletion!DeleteTask, Begins
    <2>2. Deletion!DeleteAttempts => DeleteAttempts /\ UNCHANGED bounds
        BY DEF Deletion!DeleteAttempts, DeleteAttempts
    <2>3. Deletion!DeleteStages => DeleteStages /\ UNCHANGED bounds
        BY DEF Deletion!DeleteStages, DeleteStages
    <2>4. Deletion!DeleteRow => DeleteRow /\ UNCHANGED bounds
        BY DEF Deletion!DeleteRow, DeleteRow
    <2> QED BY <1>3, <2>1, <2>2, <2>3, <2>4 DEF Deletion!Delete, Delete, Undisturbed
<1>4. ASSUME Deletion!View PROVE Undisturbed' /\ View
    <2>1. Deletion!ViewStages => ViewStages /\ UNCHANGED <<faults, crashes>>
        BY DEF Deletion!ViewStages, ViewStages
    <2>2. Deletion!EnsureStage => EnsureStage /\ UNCHANGED bounds
        BY DEF Deletion!EnsureStage, EnsureStage
    <2> QED BY <1>4, <2>1, <2>2 DEF Deletion!View, View, Undisturbed
<1>5. ASSUME NEW t \in {"tick"} \cup Workers, Deletion!Evaluate(t) PROVE Undisturbed' /\ Evaluate(t)
    <2>1. Deletion!ReadStages(t) => ReadStages(t) /\ UNCHANGED bounds
        BY DEF Deletion!ReadStages, ReadStages, Deletion!Ready, Ready, Deletion!NextStatus, NextStatus
    <2>2. Deletion!QueueReady(t) => QueueReady(t) /\ UNCHANGED bounds
        BY DEF Deletion!QueueReady, QueueReady
    <2>3. Deletion!UpdateTask(t) => UpdateTask(t) /\ UNCHANGED bounds
        BY DEF Deletion!UpdateTask, UpdateTask
    <2>4. Deletion!Leave(t) => Leave(t) /\ UNCHANGED bounds
        BY DEF Deletion!Leave, Leave, Deletion!Blank, Blank
    <2> QED BY <1>5, <2>1, <2>2, <2>3, <2>4 DEF Deletion!Evaluate, Evaluate, Undisturbed
<1>6. ASSUME NEW w \in Workers, Deletion!Work(w) PROVE Undisturbed' /\ (GoesOn(w) \/ Work(w))
    <2>1. Deletion!ReadTask(w) => ReadTask(w) /\ UNCHANGED bounds
        BY DEF Deletion!ReadTask, ReadTask
    <2>2. Deletion!ReadStage(w) => GoesOn(w) /\ UNCHANGED bounds
        BY DEF Deletion!ReadStage, GoesOn
    <2>3. Deletion!SaveDispatching(w) => SaveDispatching(w) /\ UNCHANGED bounds
        BY DEF Deletion!SaveDispatching, SaveDispatching
    <2>4. Deletion!CreateAttempt(w) => CreateAttempt(w) /\ UNCHANGED bounds
        BY DEF Deletion!CreateAttempt, CreateAttempt
    <2>5. Deletion!SaveRunning(w) => SaveRunning(w) /\ UNCHANGED bounds
        BY DEF Deletion!SaveRunning, SaveRunning
    <2>6. Deletion!SaveAttempt(w) => SaveAttempt(w) /\ UNCHANGED bounds
        BY DEF Deletion!SaveAttempt, SaveAttempt
    <2>7. Deletion!SaveResult(w) => SaveResult(w) /\ UNCHANGED bounds
        BY DEF Deletion!SaveResult, SaveResult
    <2>8. ASSUME NEW s \in Stages, Deletion!Dispatch(w, s) PROVE Dispatch(w, s) /\ UNCHANGED bounds
        BY <2>8 DEF Deletion!Dispatch, Dispatch
    <2> QED BY <1>6, <2>1, <2>2, <2>3, <2>4, <2>5, <2>6, <2>7, <2>8 DEF Deletion!Work, Work, Undisturbed
<1>7. ASSUME Deletion!RunOnce PROVE Undisturbed' /\ RunOnce
    BY <1>7 DEF Deletion!RunOnce, RunOnce, Undisturbed
<1>8. ~Deletion!Crash
    BY <1>1 DEF Deletion!Crash
<1> QED BY <1>2, <1>3, <1>4, <1>5, <1>6, <1>7, <1>8 DEF Deletion!Next, Next

LEMMA BesideStep ==
    ASSUME RowsInv, Begins \/ \E w \in Workers : GoesOn(w) PROVE RowsInv'
<1> USE ThreadsDistinct DEF RowsInv, Shape, Pending, Waiting, Nothing, DeletedIsGone, rows, request, process
<1>1. CASE Begins
    BY <1>1 DEF Begins, Go, Labels
<1>2. ASSUME NEW w \in Workers, GoesOn(w) PROVE RowsInv'
    BY <1>2 DEF GoesOn, Go, Labels
<1> QED BY <1>1, <1>2

\* A stage exists only when the attachments its agent reads are stored, and no row of a deleted
\* task comes back (handlers.go: createTask, deleteTask; orchestrator.go), in every slice of
\* MCOrchService: with a deletion, without one, and beside the loops of the stage graph.
THEOREM RowsServed == ServiceSpec => [](AttachmentsFirst /\ DeletedIsGone)
<1> DEFINE allVars == <<slice, vars, flowVars>>
           Kept == /\ slice \in {"keeps", "deletes"} => RowsInv
                   /\ slice = "deletes" => Undisturbed
                   /\ slice \in {"loop", "fork"} => files = "none" /\ deleted = FALSE
                   /\ slice \in {"loop", "fork", "keeps", "deletes"}
<1>1. ServiceInit => Kept
    <2>1. Deletion!Init => Init /\ Undisturbed
        BY DEF Deletion!Init, Init, Undisturbed, Deletion!Stages, Stages, Deletion!None, None,
           Deletion!Threads, Threads, Deletion!Blank, Blank
    <2> QED BY <2>1, InitRows DEF ServiceInit, RowsRest
<1>2. Kept /\ [ServiceNext]_allVars => Kept'
    <2> SUFFICES ASSUME Kept, [ServiceNext]_allVars PROVE Kept'
        OBVIOUS
    <2>1. slice' = slice
        BY DEF ServiceNext
    <2>2. CASE UNCHANGED allVars
        <3>1. UNCHANGED vars /\ UNCHANGED <<files, deleted, faults, crashes>>
            BY <2>2 DEF vars, request, bounds
        <3> QED BY <2>1, <3>1, NextRows DEF Undisturbed
    <2>3. CASE slice \in {"loop", "fork"} /\ UNCHANGED rowVars
        BY <2>1, <2>3 DEF rowVars, request
    <2>4. CASE slice = "keeps" /\ Next
        BY <2>1, <2>4, NextRows
    <2>5. CASE slice = "deletes" /\ Deletion!Next
        BY <2>1, <2>5, DeletionStep, BesideStep, NextRows
    <2> QED BY <2>2, <2>3, <2>4, <2>5 DEF ServiceNext
<1>3. Kept => AttachmentsFirst /\ DeletedIsGone
    BY DEF RowsInv, Shape, Pending, Waiting, Nothing, AttachmentsFirst, DeletedIsGone
<1> HIDE DEF Kept
<1> QED BY <1>1, <1>2, <1>3, PTL DEF ServiceSpec

-----------------------------------------------------------------------------
(* The rounds of the repair loops, in the slices of the stage graph. *)

Keys == {"sim", "harden"}
Allowances == [ticks : Nat, requests : Nat, crashes : Nat, faults : Nat]

\* Redis answers every INCR here, so a repair agent is always paid for with a round of its
\* counter.  The counter alone goes on past the budget, where no agent is dispatched.
Spent ==
    /\ rounds \in [Keys -> Nat] /\ repairs \in [Keys -> Nat]
    /\ budget \in Allowances /\ budget.faults = 0
    /\ \A k \in Keys : repairs[k] <= rounds[k] /\ repairs[k] <= 1

LEMMA LoopWriters ==
  ASSUME budget \in Allowances, [Loop!Next]_(Loop!vars)
  PROVE  \/ /\ UNCHANGED <<rounds, repairs>>
            /\ budget' \in Allowances /\ budget'.faults = budget.faults
         \/ \E g \in {"w1"} : Loop!ClearRounds(g) \/ Loop!SpendRound(g) \/ Loop!SpendRoundUncounted(g)
         \/ \E c \in {"c1"}, s \in LoopStages : Loop!RetryRequest(c, s)
  <1> USE DEF Loop!durable, Loop!history
  <1>1. CASE \E t \in Loop!Threads : Loop!EvaluateTask(t)
    BY <1>1 DEF Loop!EvaluateTask, Loop!LoadTask, Loop!LoadStages, Loop!QueueStage,
       Loop!StartGoroutines, Loop!SetTask
  <1>2. CASE \E g \in {"w1"} : Loop!DispatchStage(g)
    BY <1>2 DEF Loop!DispatchStage, Loop!ReadStage, Loop!MarkDispatching, Loop!MarkRunning,
       Loop!AgentConnectionDropped, Loop!AgentSucceeds, Loop!AgentFails, Loop!JobAccepted,
       Loop!JobRefused, Loop!AttachJob
  <1>3. CASE \E g \in {"w1"} : Loop!PollEDARun(g)
    BY <1>3 DEF Loop!PollEDARun, Loop!PollStatus, Loop!WriteProgress, Loop!RepairReturns
  <1>4. CASE \E c \in {"c1"} : Loop!Serve(c)
    <2> PICK c \in {"c1"} : Loop!Serve(c)
      BY <1>4
    <2>1. ASSUME NEW s \in LoopStages, Loop!RejectRequest(c, s) \/ Loop!ApproveRequest(c, s)
          PROVE  /\ UNCHANGED <<rounds, repairs>>
                 /\ budget' \in Allowances /\ budget'.faults = budget.faults
      <3>1. UNCHANGED <<rounds, repairs>>
        BY <2>1 DEF Loop!RejectRequest, Loop!ApproveRequest
      <3>2. CASE UNCHANGED budget
        BY <3>1, <3>2
      <3>3. CASE budget.requests > 0 /\ budget' = [budget EXCEPT !.requests = @ - 1]
        BY <3>1, <3>3 DEF Allowances
      <3> QED
        BY <2>1, <3>2, <3>3 DEF Loop!RejectRequest, Loop!ApproveRequest
    <2>2. CASE Loop!ApproveStage(c) \/ Loop!CancelRequest(c)
      BY <2>2 DEF Allowances, Loop!ApproveStage, Loop!CancelRequest
    <2> QED
      BY <2>1, <2>2 DEF Loop!Serve
  <1>5. CASE Loop!RunOnce \/ Loop!Crash
    BY <1>5 DEF Allowances, Loop!RunOnce, Loop!Crash
  <1> QED
    BY <1>1, <1>2, <1>3, <1>4, <1>5 DEF Loop!Next, Loop!vars, Loop!SaveStage, Loop!ResetStage,
       Loop!StartDispatch, Loop!StartPoll, Loop!JobEnds

LEMMA LoopSpends == Spent /\ [Loop!Next]_(Loop!vars) => Spent'
  <1> SUFFICES ASSUME Spent, [Loop!Next]_(Loop!vars) PROVE Spent'
    OBVIOUS
  <1> USE DEF Spent, Keys
  <1>1. CASE /\ UNCHANGED <<rounds, repairs>>
             /\ budget' \in Allowances /\ budget'.faults = budget.faults
    BY <1>1
  <1>2. ASSUME NEW g \in {"w1"}, Loop!ClearRounds(g) PROVE Spent'
    BY <1>2 DEF Loop!ClearRounds, Loop!LoopOf
  <1>3. ASSUME NEW g \in {"w1"}, Loop!SpendRound(g) PROVE Spent'
    <2> PICK k \in Keys : k = Loop!LoopOf(mem[g].stage)
      BY DEF Loop!LoopOf
    <2>1. /\ rounds' = [rounds EXCEPT ![k] = @ + 1] /\ UNCHANGED budget
          /\ \/ rounds[k] + 1 <= 1 /\ repairs' = [repairs EXCEPT ![k] = @ + 1]
             \/ UNCHANGED repairs
      BY <1>3 DEF Loop!SpendRound, OneRound
    <2> QED
      BY <2>1
  <1>4. ASSUME NEW g \in {"w1"}, Loop!SpendRoundUncounted(g) PROVE Spent'
    BY <1>4 DEF Loop!SpendRoundUncounted
  <1>5. ASSUME NEW c \in {"c1"}, NEW s \in LoopStages, Loop!RetryRequest(c, s) PROVE Spent'
    BY <1>5 DEF Loop!RetryRequest, Loop!LoopKeys, Allowances
  <1> QED
    BY <1>1, <1>2, <1>3, <1>4, <1>5, LoopWriters

LEMMA LoopStartsUnspent == Loop!Init => Spent
  BY DEF Loop!Init, Loop!LoopKeys, Spent, Keys, Allowances

LEMMA ForkWriters ==
  ASSUME budget \in Allowances, [Fork!Next]_(Fork!vars)
  PROVE  \/ /\ UNCHANGED <<rounds, repairs>>
            /\ budget' \in Allowances /\ budget'.faults = budget.faults
         \/ \E g \in {w1, w2} : Fork!ClearRounds(g) \/ Fork!SpendRound(g) \/ Fork!SpendRoundUncounted(g)
         \/ \E c \in {"c1"}, s \in ForkStages : Fork!RetryRequest(c, s)
  <1> USE DEF Fork!durable, Fork!history
  <1>1. CASE \E t \in Fork!Threads : Fork!EvaluateTask(t)
    BY <1>1 DEF Fork!EvaluateTask, Fork!LoadTask, Fork!LoadStages, Fork!QueueStage,
       Fork!StartGoroutines, Fork!SetTask
  <1>2. CASE \E g \in {w1, w2} : Fork!DispatchStage(g)
    BY <1>2 DEF Fork!DispatchStage, Fork!ReadStage, Fork!MarkDispatching, Fork!MarkRunning,
       Fork!AgentConnectionDropped, Fork!AgentSucceeds, Fork!AgentFails, Fork!JobAccepted,
       Fork!JobRefused, Fork!AttachJob
  <1>3. CASE \E g \in {w1, w2} : Fork!PollEDARun(g)
    BY <1>3 DEF Fork!PollEDARun, Fork!PollStatus, Fork!WriteProgress, Fork!RepairReturns
  <1>4. CASE \E c \in {"c1"} : Fork!Serve(c)
    BY <1>4 DEF Allowances, Fork!Serve, Fork!RejectRequest, Fork!ApproveRequest,
       Fork!ApproveStage, Fork!CancelRequest
  <1>5. CASE Fork!RunOnce \/ Fork!Crash
    BY <1>5 DEF Allowances, Fork!RunOnce, Fork!Crash
  <1> QED
    BY <1>1, <1>2, <1>3, <1>4, <1>5 DEF Fork!Next, Fork!vars, Fork!SaveStage, Fork!ResetStage,
       Fork!StartDispatch, Fork!StartPoll, Fork!JobEnds

LEMMA ForkSpends == Spent /\ [Fork!Next]_(Fork!vars) => Spent'
  <1> SUFFICES ASSUME Spent, [Fork!Next]_(Fork!vars) PROVE Spent'
    OBVIOUS
  <1> USE DEF Spent, Keys
  <1>1. CASE /\ UNCHANGED <<rounds, repairs>>
             /\ budget' \in Allowances /\ budget'.faults = budget.faults
    BY <1>1
  <1>2. ASSUME NEW g \in {w1, w2}, Fork!ClearRounds(g) PROVE Spent'
    BY <1>2 DEF Fork!ClearRounds, Fork!LoopOf
  <1>3. ASSUME NEW g \in {w1, w2}, Fork!SpendRound(g) PROVE Spent'
    <2> PICK k \in Keys : k = Fork!LoopOf(mem[g].stage)
      BY DEF Fork!LoopOf
    <2>1. /\ rounds' = [rounds EXCEPT ![k] = @ + 1] /\ UNCHANGED budget
          /\ \/ rounds[k] + 1 <= 1 /\ repairs' = [repairs EXCEPT ![k] = @ + 1]
             \/ UNCHANGED repairs
      BY <1>3 DEF Fork!SpendRound, OneRound
    <2> QED
      BY <2>1
  <1>4. ASSUME NEW g \in {w1, w2}, Fork!SpendRoundUncounted(g) PROVE Spent'
    BY <1>4 DEF Fork!SpendRoundUncounted
  <1>5. ASSUME NEW c \in {"c1"}, NEW s \in ForkStages, Fork!RetryRequest(c, s) PROVE Spent'
    BY <1>5 DEF Fork!RetryRequest, Fork!LoopKeys, Allowances
  <1> QED
    BY <1>1, <1>2, <1>3, <1>4, <1>5, ForkWriters

LEMMA ForkStartsUnspent == Fork!Init => Spent
  BY DEF Fork!Init, Fork!LoopKeys, Spent, Keys, Allowances

\* Between two manual retries a loop dispatches no more repair agents than its budget
\* (orchestrator.go: maybeAutoRepair), whether one stage spends the rounds beside a retry,
\* a rejection and a restart, or two stages side by side spend them at once.
THEOREM RepairsWithinRounds == ServiceSpec => []RepairsAreBounded
<1> DEFINE allVars == <<slice, vars, flowVars>>
           Kept == slice \in {"loop", "fork"} => Spent
<1>1. ServiceInit => Kept
    BY LoopStartsUnspent, ForkStartsUnspent DEF ServiceInit
<1>2. Kept /\ [ServiceNext]_allVars => Kept'
    <2> SUFFICES ASSUME Kept, [ServiceNext]_allVars, slice' \in {"loop", "fork"}
                 PROVE  Spent'
        OBVIOUS
    <2>1. Spent /\ slice' = slice
        BY DEF ServiceNext
    <2>2. CASE UNCHANGED allVars
        BY <2>1, <2>2 DEF flowVars, Spent
    <2>3. CASE slice = "loop" /\ Loop!Next
        BY <2>1, <2>3, LoopSpends
    <2>4. CASE slice = "fork" /\ Fork!Next
        BY <2>1, <2>4, ForkSpends
    <2> QED BY <2>1, <2>2, <2>3, <2>4 DEF ServiceNext
<1>3. Kept => RepairsAreBounded
    BY DEF RepairsAreBounded, Loop!RepairsBounded, Fork!RepairsBounded, Loop!LoopKeys,
       Fork!LoopKeys, OneRound, Spent, Keys
<1> HIDE DEF Kept
<1> QED BY <1>1, <1>2, <1>3, PTL DEF ServiceSpec
=============================================================================
