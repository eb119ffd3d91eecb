-------------------------- MODULE OrchestratorProofs --------------------------
(***************************************************************************)
(* Theorems about Orchestrator, for every stage graph, every number of     *)
(* goroutines, clients, jobs, ticks, requests and crashes.                 *)
(***************************************************************************)
EXTENDS Orchestrator, TLAPS

USE DagAssumption, ThreadAssumption, BoundAssumption

Inv == TypeOK /\ Bound

-----------------------------------------------------------------------------
(* What the operators the actions are built from return *)

LEMMA BlankType == Blank \in Locals
  BY DEF Blank, Locals, Row, FreshRow, StageStatus, JobStates, Verdicts, TaskStatus, NoJob

LEMMA SnapshotType ==
  ASSUME NEW snap \in [Stages -> Row]
  PROVE  /\ Ready(snap) \subseteq Stages
         /\ Woken(snap) \subseteq Stages
         /\ Followed(snap) \subseteq Stages \X JobIds
         /\ NextTask(snap) \in TaskStatus
  BY DEF Ready, Woken, Followed, NextTask, Row, TaskStatus, NoJob

LEMMA DownstreamType == ASSUME NEW s \in Stages PROVE Downstream[s] \subseteq Stages
  BY DEF Downstream

\* Setting the locals of one goroutine to well-typed ones keeps all of them so.
LEMMA UpdateType ==
  ASSUME mem \in [Threads -> Locals], NEW t \in Threads, NEW m \in Locals, Update(t, m)
  PROVE  /\ mem' \in [Threads -> Locals]
         /\ mem'[t] = m
         /\ \A u \in Threads \ {t} : mem'[u] = mem[u]
  BY DEF Update

\* The record updates the actions make keep locals well-typed.
LEMMA LocalsType ==
  ASSUME NEW m \in Locals
  PROVE  /\ \A c \in Row : [m EXCEPT !.cell = c] \in Locals
         /\ \A S \in SUBSET Stages : [m EXCEPT !.todo = S] \in Locals
         /\ \A s \in Stages : [m EXCEPT !.stage = s] \in Locals
         /\ \A j \in JobIds : [m EXCEPT !.job = j] \in Locals
         /\ \A v \in JobStates, c \in Row : [m EXCEPT !.verdict = v, !.cell = c] \in Locals
         /\ \A x \in StageStatus : [m EXCEPT !.cell = [@ EXCEPT !.status = x],
                                            !.job = NoJob, !.verdict = "absent",
                                            !.tries = 0] \in Locals
         /\ m.tries < MaxTransient => [m EXCEPT !.tries = @ + 1] \in Locals
  <1>1. \A c \in Row : [m EXCEPT !.cell = c] \in Locals
    BY DEF Locals
  <1>2. \A S \in SUBSET Stages : [m EXCEPT !.todo = S] \in Locals
    BY DEF Locals
  <1>3. \A s \in Stages : [m EXCEPT !.stage = s] \in Locals
    BY DEF Locals
  <1>4. \A j \in JobIds : [m EXCEPT !.job = j] \in Locals
    BY DEF Locals
  <1>5. \A v \in JobStates, c \in Row : [m EXCEPT !.verdict = v, !.cell = c] \in Locals
    BY DEF Locals
  <1>6. ASSUME NEW x \in StageStatus
        PROVE  [m EXCEPT !.cell = [@ EXCEPT !.status = x], !.job = NoJob,
                         !.verdict = "absent", !.tries = 0] \in Locals
    <2>1. ASSUME NEW c \in Row
          PROVE  [m EXCEPT !.cell = c, !.job = NoJob,
                           !.verdict = "absent", !.tries = 0] \in Locals
      <3>1. "absent" \in JobStates /\ 0 \in 0..MaxTransient
        BY DEF JobStates
      <3> QED
        BY <3>1 DEF Locals
    <2>2. [m.cell EXCEPT !.status = x] \in Row
      BY DEF Locals, Row
    <2> QED
      BY <2>1, <2>2
  <1>7. ASSUME m.tries < MaxTransient
        PROVE  [m EXCEPT !.tries = @ + 1] \in Locals
    BY <1>7 DEF Locals
  <1> QED
    BY <1>1, <1>2, <1>3, <1>4, <1>5, <1>6, <1>7

LEMMA BudgetType ==
  ASSUME NEW b \in Budgets
  PROVE  /\ b.ticks > 0 => [b EXCEPT !.ticks = @ - 1] \in Budgets
         /\ b.requests > 0 => [b EXCEPT !.requests = @ - 1] \in Budgets
         /\ b.crashes > 0 => [b EXCEPT !.crashes = @ - 1] \in Budgets
         /\ b.faults > 0 => [b EXCEPT !.faults = @ - 1] \in Budgets
  <1>1. ASSUME b.ticks > 0 PROVE [b EXCEPT !.ticks = @ - 1] \in Budgets
    BY <1>1 DEF Budgets
  <1>2. ASSUME b.requests > 0 PROVE [b EXCEPT !.requests = @ - 1] \in Budgets
    BY <1>2 DEF Budgets
  <1>3. ASSUME b.crashes > 0 PROVE [b EXCEPT !.crashes = @ - 1] \in Budgets
    BY <1>3 DEF Budgets
  <1>4. ASSUME b.faults > 0 PROVE [b EXCEPT !.faults = @ - 1] \in Budgets
    BY <1>4 DEF Budgets
  <1> QED
    BY <1>1, <1>2, <1>3, <1>4

LEMMA RowType ==
  /\ FreshRow \in Row
  /\ \A r \in Row, x \in StageStatus : [r EXCEPT !.status = x] \in Row
  BY DEF FreshRow, Row, StageStatus

LEMMA ReturnType ==
  ASSUME Inv, NEW t \in Threads, Return(t)
  PROVE  /\ pc' \in [Threads -> Labels]
         /\ mem' \in [Threads -> Locals]
         /\ inFlight' \subseteq Keys
         /\ Bound'
  BY BlankType DEF Return, Goto, Update, Inv, TypeOK, Bound, Labels, Committed

LEMMA InitType == Init => Inv
  <1> SUFFICES ASSUME Init PROVE Inv
    OBVIOUS
  <1>1. TypeOK
    BY BlankType DEF Init, TypeOK, FreshRow, Row, StageStatus, TaskStatus, NoJobRecord,
       JobStates, Labels, Keys, LoopKeys, NoJob, Budgets
  <1>2. Bound
    BY DEF Init, Bound, Committed
  <1> QED
    BY <1>1, <1>2 DEF Inv

-----------------------------------------------------------------------------
(* evaluateTask *)

LEMMA EvaluateType ==
  ASSUME Inv, NEW t \in Threads, EvaluateTask(t)
  PROVE  Inv'
  <1> USE DEF Inv, TypeOK, durable, history
  <1>0. mem[t] \in Locals
    OBVIOUS
  <1>1. CASE LoadTask(t)
    <2>1. CASE task = "CANCELLED"
      BY <1>1, <2>1, ReturnType DEF LoadTask
    <2>2. CASE task # "CANCELLED"
      BY <1>1, <2>2 DEF LoadTask, Goto, At, Labels, Bound, Committed
    <2> QED
      BY <2>1, <2>2
  <1>2. CASE LoadStages(t)
    <2> DEFINE m == [mem[t] EXCEPT !.todo = Ready(row), !.wake = Woken(row),
                                   !.follow = Followed(row), !.next = NextTask(row)]
    <2>1. m \in Locals
      BY <1>0, SnapshotType DEF Locals
    <2>2. Update(t, m)
      BY <1>2 DEF LoadStages
    <2>3. mem' \in [Threads -> Locals] /\ mem'[t] = m /\ \A u \in Threads \ {t} : mem'[u] = mem[u]
      BY <2>1, <2>2, UpdateType
    <2>4. TypeOK'
      BY <1>2, <2>3 DEF LoadStages, Goto, At, Labels
    <2>5. Bound'
      BY <1>2, <2>3 DEF LoadStages, Goto, At, Bound, Committed
    <2> QED
      BY <2>4, <2>5
  <1>3. CASE QueueStage(t)
    <2> PICK s \in mem[t].todo :
          /\ row' = [row EXCEPT ![s] = [FreshRow EXCEPT !.status = "QUEUED"]]
          /\ Update(t, [mem[t] EXCEPT !.todo = @ \ {s}])
      BY <1>3 DEF QueueStage
    <2>1. [mem[t] EXCEPT !.todo = @ \ {s}] \in Locals
      BY <1>0 DEF Locals
    <2>2. /\ mem' \in [Threads -> Locals]
          /\ mem'[t] = [mem[t] EXCEPT !.todo = @ \ {s}]
          /\ \A u \in Threads \ {t} : mem'[u] = mem[u]
      BY <2>1, UpdateType
    <2>3. [FreshRow EXCEPT !.status = "QUEUED"] \in Row
      BY DEF FreshRow, Row, StageStatus
    <2>4. TypeOK'
      BY <1>3, <2>2, <2>3 DEF QueueStage
    <2>5. Bound'
      BY <1>0, <1>3, <2>2 DEF QueueStage, At, Bound, Committed, Locals
    <2> QED
      BY <2>4, <2>5
  <1>4. CASE StartGoroutines(t)
    <2>1. [mem[t] EXCEPT !.wake = {}, !.follow = {}] \in Locals
      BY <1>0 DEF Locals
    <2>2. /\ mem' \in [Threads -> Locals]
          /\ mem'[t] = [mem[t] EXCEPT !.wake = {}, !.follow = {}]
          /\ \A u \in Threads \ {t} : mem'[u] = mem[u]
      BY <1>4, <2>1, UpdateType DEF StartGoroutines
    <2>3. spawned' \in [Stages -> Nat] /\ watched' \in [Stages \X JobIds -> Nat]
      BY <1>4 DEF StartGoroutines, AtMost
    <2>4. TypeOK'
      BY <1>4, <2>2, <2>3 DEF StartGoroutines, Goto, Labels
    <2>5. Bound'
      BY <1>4, <2>2 DEF StartGoroutines, Goto, At, Bound, Committed
    <2> QED
      BY <2>4, <2>5
  <1>5. CASE SetTask(t)
    BY <1>0, <1>5, ReturnType DEF SetTask, Locals
  <1> QED
    BY <1>1, <1>2, <1>3, <1>4, <1>5 DEF EvaluateTask

-----------------------------------------------------------------------------
(* Saving a final status, RetryStage, and the two guards *)

LEMMA SaveType ==
  ASSUME Inv, NEW t \in Threads, SaveStage(t)
  PROVE  Inv'
  <1> USE DEF Inv, TypeOK
  <1>1. [mem[t] EXCEPT !.cell = FreshRow] \in Locals
    BY LocalsType, RowType
  <1>2. /\ mem' \in [Threads -> Locals]
        /\ mem'[t] = [mem[t] EXCEPT !.cell = FreshRow]
        /\ \A u \in Threads \ {t} : mem'[u] = mem[u]
    BY <1>1, UpdateType DEF SaveStage
  <1>3. mem[t].stage \in Stages /\ mem[t].cell \in Row
    BY DEF SaveStage, At, Bound, Committed, Locals
  <1>4. TypeOK'
    BY <1>2, <1>3 DEF SaveStage, SaveRow, Goto, Labels, Row
  <1>5. Bound'
    BY <1>2 DEF SaveStage, Goto, Bound, Committed
  <1> QED
    BY <1>4, <1>5

LEMMA ResetType ==
  ASSUME Inv, NEW t \in Threads, ResetStage(t)
  PROVE  Inv'
  <1> USE DEF Inv, TypeOK
  <1> PICK s \in mem[t].todo :
        /\ row' = [row EXCEPT ![s] = FreshRow]
        /\ Update(t, [mem[t] EXCEPT !.todo = @ \ {s}])
        /\ pc' = [pc EXCEPT ![t] = IF mem[t].todo = {s} THEN "load_task" ELSE "reset"]
    BY DEF ResetStage
  <1>1. [mem[t] EXCEPT !.todo = @ \ {s}] \in Locals
    <2>1. mem[t] \in Locals
      OBVIOUS
    <2>2. mem[t].todo \ {s} \in SUBSET Stages
      BY <2>1 DEF Locals
    <2> QED
      BY <2>1, <2>2, LocalsType
  <1>2. /\ mem' \in [Threads -> Locals]
        /\ mem'[t] = [mem[t] EXCEPT !.todo = @ \ {s}]
        /\ \A u \in Threads \ {t} : mem'[u] = mem[u]
    BY <1>1, UpdateType
  <1>3. FreshRow \in Row
    BY DEF FreshRow, Row, StageStatus
  <1>4. TypeOK'
    BY <1>2, <1>3 DEF ResetStage, Labels, history
  <1>5. Bound'
    BY <1>2 DEF ResetStage, Bound, Committed
  <1> QED
    BY <1>4, <1>5

LEMMA StartDispatchType ==
  ASSUME Inv, NEW s \in Stages, StartDispatch(s)
  PROVE  Inv'
  <1> USE DEF Inv, TypeOK
  <1>1. /\ spawned' \in [Stages -> Nat]
        /\ UNCHANGED <<task, row, rounds, jobs, watched, budget, done, released,
                       answered, repairs>>
    BY DEF StartDispatch, durable, history
  <1>2. CASE UNCHANGED <<inFlight, pc, mem>>
    <2>1. TypeOK'
      BY <1>1, <1>2
    <2>2. Bound'
      BY <1>2 DEF Bound
    <2> QED
      BY <2>1, <2>2
  <1> DEFINE m == [Blank EXCEPT !.role = "dispatch", !.stage = s]
  <1>3. CASE \E g \in Workers : Goto(g, "read_stage") /\ Update(g, m)
    <2> PICK g \in Workers : Goto(g, "read_stage") /\ Update(g, m)
      BY <1>3
    <2>1. m \in Locals /\ m.stage = s /\ g \in Threads
      BY BlankType DEF Locals, Threads
    <2> HIDE DEF m
    <2>2. /\ mem' \in [Threads -> Locals]
          /\ mem'[g] = m
          /\ \A u \in Threads \ {g} : mem'[u] = mem[u]
      BY <2>1, UpdateType
    <2>3. inFlight' \subseteq Keys
      BY DEF StartDispatch, Keys
    <2>4. pc' \in [Threads -> Labels]
      BY <2>1 DEF Goto, Labels
    <2>5. TypeOK'
      BY <1>1, <2>2, <2>3, <2>4
    <2>6. Bound'
      BY <2>1, <2>2 DEF Goto, Bound, Committed
    <2> QED
      BY <2>5, <2>6
  <1> QED
    BY <1>2, <1>3 DEF StartDispatch

LEMMA StartPollType ==
  ASSUME Inv, NEW s \in Stages, NEW j \in JobIds, StartPoll(s, j)
  PROVE  Inv'
  <1> USE DEF Inv, TypeOK
  <1>1. /\ watched' \in [Stages \X JobIds -> Nat]
        /\ UNCHANGED <<task, row, rounds, jobs, spawned, budget, done, released,
                       answered, repairs>>
    BY DEF StartPoll, durable, history
  <1>2. CASE UNCHANGED <<inFlight, pc, mem>>
    <2>1. TypeOK'
      BY <1>1, <1>2
    <2>2. Bound'
      BY <1>2 DEF Bound
    <2> QED
      BY <2>1, <2>2
  <1> DEFINE m == [Blank EXCEPT !.role = "poll", !.stage = s, !.job = j]
  <1>3. CASE \E g \in Workers : Goto(g, "poll") /\ Update(g, m)
    <2> PICK g \in Workers : Goto(g, "poll") /\ Update(g, m)
      BY <1>3
    <2>1. m \in Locals /\ m.stage = s /\ m.job = j /\ g \in Threads
      BY BlankType DEF Locals, Threads
    <2> HIDE DEF m
    <2>2. /\ mem' \in [Threads -> Locals]
          /\ mem'[g] = m
          /\ \A u \in Threads \ {g} : mem'[u] = mem[u]
      BY <2>1, UpdateType
    <2>3. inFlight' \subseteq Keys
      BY DEF StartPoll, Keys
    <2>4. pc' \in [Threads -> Labels]
      BY <2>1 DEF Goto, Labels
    <2>5. TypeOK'
      BY <1>1, <2>2, <2>3, <2>4
    <2>6. Bound'
      BY <2>1, <2>2 DEF Goto, Bound, Committed
    <2> QED
      BY <2>5, <2>6
  <1> QED
    BY <1>2, <1>3 DEF StartPoll

-----------------------------------------------------------------------------
(* The steps the other actions are made of *)

LEMMA StepType ==
  ASSUME Inv, NEW t \in Threads, NEW l \in Labels, NEW m \in Locals,
         Goto(t, l), Update(t, m),
         l \in Committed \cup {"read_stage"} => m.stage \in Stages,
         l \in {"poll", "progress", "attach"} => m.job \in JobIds
  PROVE  pc' \in [Threads -> Labels] /\ mem' \in [Threads -> Locals] /\ Bound'
  <1> USE DEF Inv, TypeOK
  <1>1. /\ pc' \in [Threads -> Labels]
        /\ pc'[t] = l
        /\ \A u \in Threads \ {t} : pc'[u] = pc[u]
    BY DEF Goto
  <1>2. /\ mem' \in [Threads -> Locals]
        /\ mem'[t] = m
        /\ \A u \in Threads \ {t} : mem'[u] = mem[u]
    BY UpdateType
  <1> QED
    BY <1>1, <1>2 DEF Bound

LEMMA GotoType ==
  ASSUME Inv, NEW t \in Threads, NEW l \in Labels, Goto(t, l), UNCHANGED mem,
         l \in Committed \cup {"read_stage"} => mem[t].stage \in Stages,
         l \in {"poll", "progress", "attach"} => mem[t].job \in JobIds
  PROVE  pc' \in [Threads -> Labels] /\ mem' \in [Threads -> Locals] /\ Bound'
  BY DEF Inv, TypeOK, Goto, Bound

LEMMA ConcludeType ==
  ASSUME Inv, NEW t \in Threads, NEW x \in StageStatus, mem[t].stage \in Stages,
         Conclude(t, x)
  PROVE  pc' \in [Threads -> Labels] /\ mem' \in [Threads -> Locals] /\ Bound'
  <1> DEFINE m == [mem[t] EXCEPT !.cell = [@ EXCEPT !.status = x], !.job = NoJob,
                                 !.verdict = "absent", !.tries = 0]
  <1>1. mem[t] \in Locals
    BY DEF Inv, TypeOK
  <1>2. m \in Locals
    BY <1>1, LocalsType
  <1>3. m.stage \in Stages
    BY <1>1 DEF Locals
  <1>4. Goto(t, "save") /\ Update(t, m)
    BY DEF Conclude
  <1>5. "save" \in Labels /\ "save" \notin {"poll", "progress", "attach"}
    BY DEF Labels
  <1> HIDE DEF m
  <1> QED
    BY <1>2, <1>3, <1>4, <1>5, StepType

LEMMA SaveRowType ==
  ASSUME Inv, NEW t \in Threads, NEW x \in StageStatus, mem[t].stage \in Stages,
         SaveRow(t, x)
  PROVE  row' \in [Stages -> Row]
  <1>1. mem[t].cell \in Row
    BY DEF Inv, TypeOK, Locals
  <1>2. [mem[t].cell EXCEPT !.status = x] \in Row
    BY <1>1, RowType
  <1> QED
    BY <1>2 DEF Inv, TypeOK, SaveRow

LEMMA NewJobType ==
  ASSUME Inv, NEW s \in Stages, NEW j \in JobIds, NewJob(s, j)
  PROVE  jobs' \in [JobIds -> [stage : Stages \cup {NoStage}, state : JobStates]]
  BY DEF Inv, TypeOK, NewJob, JobStates

LEMMA ParkedType == ASSUME NEW s \in Stages PROVE Parked(s) \in StageStatus
  BY DEF Parked, StageStatus

-----------------------------------------------------------------------------
(* dispatchStage *)

LEMMA DispatchType ==
  ASSUME Inv, NEW g \in Threads, DispatchStage(g)
  PROVE  Inv'
  <1> USE DEF Inv, TypeOK, durable, history
  <1>0. /\ mem[g] \in Locals
        /\ pc[g] \in Committed \cup {"read_stage"} => mem[g].stage \in Stages
        /\ pc[g] \in {"poll", "progress", "attach"} => mem[g].job \in JobIds
    BY DEF Bound
  <1>1. CASE ReadStage(g)
    <2>1. CASE Return(g)
      BY <1>1, <2>1, ReturnType DEF ReadStage
    <2> DEFINE m == [mem[g] EXCEPT !.cell = row[mem[g].stage]]
    <2>2. CASE Goto(g, "mark") /\ Update(g, m) /\ UNCHANGED inFlight
      <3>1. mem[g].stage \in Stages
        BY <1>0, <1>1 DEF ReadStage, At
      <3>2. row[mem[g].stage] \in Row
        BY <3>1
      <3>3. m \in Locals /\ m.stage = mem[g].stage
        BY <1>0, <3>2 DEF Locals
      <3> HIDE DEF m
      <3>4. pc' \in [Threads -> Labels] /\ mem' \in [Threads -> Locals] /\ Bound'
        BY <2>2, <3>1, <3>3, StepType DEF Labels
      <3> QED
        BY <1>1, <2>2, <3>4 DEF ReadStage
    <2> QED
      BY <1>1, <2>1, <2>2 DEF ReadStage
  <1>2. CASE MarkDispatching(g)
    <2>1. mem[g].stage \in Stages
      BY <1>0, <1>2 DEF MarkDispatching, At, Committed
    <2>2. row' \in [Stages -> Row]
      BY <1>2, <2>1, SaveRowType DEF MarkDispatching, StageStatus
    <2>3. pc' \in [Threads -> Labels] /\ mem' \in [Threads -> Locals] /\ Bound'
      BY <1>2, <2>1, GotoType DEF MarkDispatching, Labels
    <2> QED
      BY <1>2, <2>2, <2>3 DEF MarkDispatching
  <1>3. CASE MarkRunning(g)
    <2>1. mem[g].stage \in Stages
      BY <1>0, <1>3 DEF MarkRunning, At, Committed
    <2>2. row' \in [Stages -> Row]
      BY <1>3, <2>1, SaveRowType DEF MarkRunning, StageStatus
    <2>3. \E l \in {"invoke", "create_job"} : Goto(g, l)
      BY <1>3 DEF MarkRunning
    <2>4. pc' \in [Threads -> Labels] /\ mem' \in [Threads -> Locals] /\ Bound'
      BY <1>3, <2>1, <2>3, GotoType DEF MarkRunning, Labels
    <2> QED
      BY <1>3, <2>2, <2>4 DEF MarkRunning
  <1>4. CASE AgentConnectionDropped(g)
    <2> DEFINE m == [mem[g] EXCEPT !.tries = @ + 1]
    <2>1. m \in Locals /\ m.stage = mem[g].stage /\ m.job = mem[g].job
      <3>1. mem[g].tries + 1 \in 0..MaxTransient
        BY <1>0, <1>4 DEF AgentConnectionDropped, Locals
      <3> QED
        BY <1>0, <3>1 DEF Locals
    <2>2. Update(g, m)
      BY <1>4 DEF AgentConnectionDropped
    <2> HIDE DEF m
    <2>3. /\ mem' \in [Threads -> Locals]
          /\ mem'[g] = m
          /\ \A u \in Threads \ {g} : mem'[u] = mem[u]
      BY <2>1, <2>2, UpdateType
    <2>4. UNCHANGED pc
      BY <1>4 DEF AgentConnectionDropped
    <2>5. Bound'
      BY <2>1, <2>3, <2>4 DEF Bound
    <2> QED
      BY <1>4, <2>3, <2>5 DEF AgentConnectionDropped
  <1>5. CASE AgentSucceeds(g)
    <2>1. mem[g].stage \in Stages
      BY <1>0, <1>5 DEF AgentSucceeds, At, Committed
    <2>2. pc' \in [Threads -> Labels] /\ mem' \in [Threads -> Locals] /\ Bound'
      BY <1>5, <2>1, ConcludeType, ParkedType DEF AgentSucceeds
    <2> QED
      BY <1>5, <2>1, <2>2 DEF AgentSucceeds
  <1>6. CASE AgentFails(g)
    <2>1. mem[g].stage \in Stages
      BY <1>0, <1>6 DEF AgentFails, At, Committed
    <2>2. pc' \in [Threads -> Labels] /\ mem' \in [Threads -> Locals] /\ Bound'
      BY <1>6, <2>1, ConcludeType DEF AgentFails, StageStatus
    <2> QED
      BY <1>6, <2>2 DEF AgentFails
  <1>7. CASE JobAccepted(g)
    <2>1. mem[g].stage \in Stages
      BY <1>0, <1>7 DEF JobAccepted, At, Committed
    <2> PICK j \in JobIds : NewJob(mem[g].stage, j) /\ Update(g, [mem[g] EXCEPT !.job = j])
      BY <1>7 DEF JobAccepted
    <2> DEFINE m == [mem[g] EXCEPT !.job = j]
    <2>2. m \in Locals /\ m.stage = mem[g].stage /\ m.job = j
      BY <1>0 DEF Locals
    <2>3. Update(g, m)
      OBVIOUS
    <2> HIDE DEF m
    <2>4. pc' \in [Threads -> Labels] /\ mem' \in [Threads -> Locals] /\ Bound'
      BY <1>7, <2>1, <2>2, <2>3, StepType DEF JobAccepted, Labels
    <2>5. jobs' \in [JobIds -> [stage : Stages \cup {NoStage}, state : JobStates]]
      BY <2>1, NewJobType
    <2> QED
      BY <1>7, <2>4, <2>5 DEF JobAccepted
  <1>8. CASE JobRefused(g)
    <2>1. mem[g].stage \in Stages
      BY <1>0, <1>8 DEF JobRefused, At, Committed
    <2>2. pc' \in [Threads -> Labels] /\ mem' \in [Threads -> Locals] /\ Bound'
      BY <1>8, <2>1, ConcludeType DEF JobRefused, StageStatus
    <2>3. jobs' \in [JobIds -> [stage : Stages \cup {NoStage}, state : JobStates]]
      <3>1. CASE UNCHANGED jobs
        BY <3>1
      <3>2. CASE \E j \in JobIds : NewJob(mem[g].stage, j)
        BY <2>1, <3>2, NewJobType
      <3> QED
        BY <1>8, <3>1, <3>2 DEF JobRefused
    <2> QED
      BY <1>8, <2>2, <2>3 DEF JobRefused
  <1>9. CASE AttachJob(g)
    <2>1. mem[g].stage \in Stages /\ mem[g].job \in JobIds
      BY <1>0, <1>9 DEF AttachJob, At, Committed
    <2>2. row' \in [Stages -> Row]
      BY <1>9, <2>1 DEF AttachJob, Row, StageStatus
    <2>3. watched' \in [Stages \X JobIds -> Nat]
      BY <1>9, <2>1 DEF AttachJob, AtMost
    <2>4. pc' \in [Threads -> Labels] /\ mem' \in [Threads -> Locals]
          /\ inFlight' \subseteq Keys /\ Bound'
      BY <1>9, ReturnType DEF AttachJob
    <2> QED
      BY <1>9, <2>2, <2>3, <2>4 DEF AttachJob
  <1> QED
    BY <1>1, <1>2, <1>3, <1>4, <1>5, <1>6, <1>7, <1>8, <1>9 DEF DispatchStage

-----------------------------------------------------------------------------
(* pollEDARun *)

LEMMA PollType ==
  ASSUME Inv, NEW g \in Threads, PollEDARun(g)
  PROVE  Inv'
  <1> USE DEF Inv, TypeOK, durable, history
  <1>0. /\ mem[g] \in Locals
        /\ pc[g] \in Committed => mem[g].stage \in Stages
        /\ pc[g] \in {"poll", "progress", "attach"} => mem[g].job \in JobIds
    BY DEF Bound
  <1>a. \A s \in Stages : LoopOf(s) \in LoopKeys
    BY DEF LoopOf, LoopKeys
  <1>1. CASE PollStatus(g)
    <2> DEFINE m == [mem[g] EXCEPT !.verdict = jobs[mem[g].job].state,
                                   !.cell = row[mem[g].stage]]
    <2>1. mem[g].stage \in Stages /\ mem[g].job \in JobIds
      BY <1>0, <1>1 DEF PollStatus, At, Committed
    <2>2. row[mem[g].stage] \in Row /\ jobs[mem[g].job].state \in JobStates
      BY <2>1
    <2>3. m \in Locals /\ m.stage = mem[g].stage /\ m.job = mem[g].job
      BY <1>0, <2>2 DEF Locals
    <2>4. Goto(g, "progress") /\ Update(g, m)
      BY <1>1 DEF PollStatus
    <2> HIDE DEF m
    <2>5. pc' \in [Threads -> Labels] /\ mem' \in [Threads -> Locals] /\ Bound'
      BY <2>1, <2>3, <2>4, StepType DEF Labels
    <2> QED
      BY <1>1, <2>5 DEF PollStatus
  <1>2. CASE WriteProgress(g)
    <2> DEFINE s == mem[g].stage
    <2>1. s \in Stages
      BY <1>0, <1>2 DEF WriteProgress, At, Committed
    <2>2. row' \in [Stages -> Row]
      BY <1>0, <1>2, <2>1, SaveRowType DEF WriteProgress, Locals, Row
    <2>3. /\ pc' \in [Threads -> Labels] /\ mem' \in [Threads -> Locals]
          /\ inFlight' \subseteq Keys /\ Bound'
      <3> DEFINE m == [mem[g] EXCEPT !.verdict = "absent", !.cell = FreshRow]
      <3>1. CASE Goto(g, "poll") /\ Update(g, m) /\ UNCHANGED inFlight
                 /\ mem[g].job \in JobIds
        <4>1. m \in Locals /\ m.stage = s /\ m.job = mem[g].job
          BY <1>0, RowType DEF Locals, JobStates
        <4> HIDE DEF m
        <4> QED
          BY <2>1, <3>1, <4>1, StepType DEF Labels
      <3>2. CASE Return(g)
        BY <3>2, ReturnType
      <3>3. CASE (\E l \in {"clear", "count"} : Goto(g, l)) /\ UNCHANGED <<mem, inFlight>>
        <4> PICK l \in {"clear", "count"} : Goto(g, l)
          BY <3>3
        <4>1. l \in Labels /\ l \notin {"poll", "progress", "attach"}
          BY DEF Labels
        <4> QED
          BY <2>1, <3>3, <4>1, GotoType
      <3>4. CASE (\E x \in {Parked(s), "FAILED"} : Conclude(g, x)) /\ UNCHANGED inFlight
        <4> PICK x \in {Parked(s), "FAILED"} : Conclude(g, x)
          BY <3>4
        <4>1. x \in StageStatus
          BY <2>1, ParkedType DEF StageStatus
        <4> QED
          BY <2>1, <3>4, <4>1, ConcludeType
      <3>5. mem[g].job \in JobIds
        BY <1>0, <1>2 DEF WriteProgress, At
      <3>6. \/ Goto(g, "poll") /\ Update(g, m) /\ UNCHANGED inFlight
            \/ Return(g)
            \/ (\E l \in {"clear", "count"} : Goto(g, l)) /\ UNCHANGED <<mem, inFlight>>
            \/ (\E x \in {Parked(s), "FAILED"} : Conclude(g, x)) /\ UNCHANGED inFlight
        BY <1>2 DEF WriteProgress
      <3> QED
        BY <3>1, <3>2, <3>3, <3>4, <3>5, <3>6
    <2> QED
      BY <1>2, <2>2, <2>3 DEF WriteProgress
  <1>3. CASE ClearRounds(g)
    <2>1. mem[g].stage \in Stages
      BY <1>0, <1>3 DEF ClearRounds, At, Committed
    <2>2. \E x \in StageStatus : Conclude(g, x)
      BY <1>3, <2>1, ParkedType DEF ClearRounds, StageStatus
    <2>3. pc' \in [Threads -> Labels] /\ mem' \in [Threads -> Locals] /\ Bound'
      BY <2>1, <2>2, ConcludeType
    <2>4. rounds' \in [LoopKeys -> Nat] /\ repairs' \in [LoopKeys -> Nat]
      BY <1>3 DEF ClearRounds
    <2> QED
      BY <1>3, <2>3, <2>4 DEF ClearRounds
  <1>4. CASE SpendRound(g)
    <2> DEFINE k == LoopOf(mem[g].stage)
    <2>1. mem[g].stage \in Stages /\ k \in LoopKeys
      BY <1>0, <1>4, <1>a DEF SpendRound, At, Committed
    <2> HIDE DEF k
    <2>2. rounds' \in [LoopKeys -> Nat]
      BY <1>4, <2>1 DEF SpendRound, k
    <2>3. CASE Goto(g, "repair") /\ repairs' = [repairs EXCEPT ![k] = @ + 1] /\ UNCHANGED mem
      <3>1. pc' \in [Threads -> Labels] /\ mem' \in [Threads -> Locals] /\ Bound'
        BY <2>1, <2>3, GotoType DEF Labels
      <3>2. repairs' \in [LoopKeys -> Nat]
        BY <2>1, <2>3
      <3> QED
        BY <1>4, <2>2, <3>1, <3>2 DEF SpendRound
    <2>4. CASE Conclude(g, "FAILED") /\ UNCHANGED repairs
      <3>1. pc' \in [Threads -> Labels] /\ mem' \in [Threads -> Locals] /\ Bound'
        BY <2>1, <2>4, ConcludeType DEF StageStatus
      <3> QED
        BY <1>4, <2>2, <2>4, <3>1 DEF SpendRound
    <2> QED
      BY <1>4, <2>3, <2>4 DEF SpendRound, k
  <1>5. CASE SpendRoundUncounted(g)
    <2> DEFINE k == LoopOf(mem[g].stage)
    <2>1. mem[g].stage \in Stages /\ k \in LoopKeys
      BY <1>0, <1>5, <1>a DEF SpendRoundUncounted, At, Committed
    <2>2. pc' \in [Threads -> Labels] /\ mem' \in [Threads -> Locals] /\ Bound'
      BY <1>5, <2>1, GotoType DEF SpendRoundUncounted, Labels
    <2>3. repairs' \in [LoopKeys -> Nat]
      BY <1>5, <2>1 DEF SpendRoundUncounted
    <2>4. budget' \in Budgets
      BY <1>5, BudgetType DEF SpendRoundUncounted
    <2> QED
      BY <1>5, <2>2, <2>3, <2>4 DEF SpendRoundUncounted
  <1>6. CASE RepairReturns(g)
    <2> DEFINE m == [mem[g] EXCEPT !.todo = {mem[g].stage} \cup Downstream[mem[g].stage]]
    <2>1. mem[g].stage \in Stages
      BY <1>0, <1>6 DEF RepairReturns, At, Committed
    <2>2. CASE Goto(g, "reset") /\ Update(g, m)
      <3>1. {mem[g].stage} \cup Downstream[mem[g].stage] \subseteq Stages
        BY <2>1, DownstreamType
      <3>2. m \in Locals
        BY <1>0, <3>1 DEF Locals
      <3> HIDE DEF m
      <3>3. pc' \in [Threads -> Labels] /\ mem' \in [Threads -> Locals] /\ Bound'
        BY <2>2, <3>2, StepType DEF Labels, Committed
      <3> QED
        BY <1>6, <3>3 DEF RepairReturns
    <2>3. CASE Conclude(g, "FAILED")
      <3>1. pc' \in [Threads -> Labels] /\ mem' \in [Threads -> Locals] /\ Bound'
        BY <2>1, <2>3, ConcludeType DEF StageStatus
      <3> QED
        BY <1>6, <3>1 DEF RepairReturns
    <2> QED
      BY <1>6, <2>2, <2>3 DEF RepairReturns
  <1> QED
    BY <1>1, <1>2, <1>3, <1>4, <1>5, <1>6 DEF PollEDARun

-----------------------------------------------------------------------------
(* The tick, API requests and the environment *)

LEMMA RunOnceType == ASSUME Inv, RunOnce PROVE Inv'
  <1> USE DEF Inv, TypeOK, durable, history
  <1>1. Tick \in Threads
    BY DEF Threads
  <1>2. budget' \in Budgets
    <2>1. CASE UNCHANGED budget
      BY <2>1
    <2>2. CASE budget.ticks > 0 /\ budget' = [budget EXCEPT !.ticks = @ - 1]
      BY <2>2, BudgetType
    <2> QED
      BY <2>1, <2>2 DEF RunOnce
  <1>3. pc' \in [Threads -> Labels] /\ mem' \in [Threads -> Locals] /\ Bound'
    BY <1>1, GotoType DEF RunOnce, Labels, Committed
  <1> QED
    BY <1>2, <1>3 DEF RunOnce

LEMMA ServeType == ASSUME Inv, NEW c \in Threads, Serve(c) PROVE Inv'
  <1> USE DEF Inv, TypeOK, durable, history
  <1>0. /\ mem[c] \in Locals
        /\ pc[c] \in Committed => mem[c].stage \in Stages
    BY DEF Bound
  <1>a. ASSUME NEW s \in Stages, Goto(c, "reset"),
               Update(c, [mem[c] EXCEPT !.todo = {s} \cup Downstream[s]])
        PROVE  pc' \in [Threads -> Labels] /\ mem' \in [Threads -> Locals] /\ Bound'
    <2> DEFINE m == [mem[c] EXCEPT !.todo = {s} \cup Downstream[s]]
    <2>1. {s} \cup Downstream[s] \subseteq Stages
      BY DownstreamType
    <2>2. m \in Locals /\ Update(c, m)
      BY <1>0, <1>a, <2>1 DEF Locals
    <2> HIDE DEF m
    <2> QED
      BY <1>a, <2>2, StepType DEF Labels, Committed
  <1>1. ASSUME NEW s \in Stages, RetryRequest(c, s) PROVE Inv'
    <2>1. pc' \in [Threads -> Labels] /\ mem' \in [Threads -> Locals] /\ Bound'
      BY <1>a, <1>1 DEF RetryRequest
    <2>2. budget' \in Budgets
      BY <1>1, BudgetType DEF RetryRequest
    <2> QED
      BY <1>1, <2>1, <2>2 DEF RetryRequest
  <1>2. ASSUME NEW s \in Stages, RejectRequest(c, s) PROVE Inv'
    <2>1. pc' \in [Threads -> Labels] /\ mem' \in [Threads -> Locals] /\ Bound'
      BY <1>a, <1>2 DEF RejectRequest
    <2>2. budget' \in Budgets
      BY <1>2, BudgetType DEF RejectRequest
    <2> QED
      BY <1>2, <2>1, <2>2 DEF RejectRequest
  <1>3. ASSUME NEW s \in Stages, ApproveRequest(c, s) PROVE Inv'
    <2> DEFINE m == [mem[c] EXCEPT !.stage = s]
    <2>1. m \in Locals /\ m.stage \in Stages /\ Update(c, m)
      BY <1>0, <1>3 DEF ApproveRequest, Locals
    <2> HIDE DEF m
    <2>2. pc' \in [Threads -> Labels] /\ mem' \in [Threads -> Locals] /\ Bound'
      BY <1>3, <2>1, StepType DEF ApproveRequest, Labels
    <2>3. budget' \in Budgets
      <3>1. CASE UNCHANGED budget
        BY <3>1
      <3>2. CASE budget.requests > 0 /\ budget' = [budget EXCEPT !.requests = @ - 1]
        BY <3>2, BudgetType
      <3> QED
        BY <1>3, <3>1, <3>2 DEF ApproveRequest
    <2> QED
      BY <1>3, <2>2, <2>3 DEF ApproveRequest
  <1>4. CASE ApproveStage(c)
    <2> DEFINE m == [mem[c] EXCEPT !.cell = [row[mem[c].stage] EXCEPT !.status = "RELEASED"]]
    <2>1. mem[c].stage \in Stages
      BY <1>0, <1>4 DEF ApproveStage, At, Committed
    <2>2. [row[mem[c].stage] EXCEPT !.status = "RELEASED"] \in Row
      BY <2>1, RowType DEF StageStatus
    <2>3. m \in Locals /\ m.stage \in Stages
      BY <1>0, <2>1, <2>2 DEF Locals
    <2>4. Update(c, m)
      BY <1>4 DEF ApproveStage
    <2> HIDE DEF m
    <2>5. pc' \in [Threads -> Labels] /\ mem' \in [Threads -> Locals] /\ Bound'
      BY <1>4, <2>3, <2>4, StepType DEF ApproveStage, Labels
    <2> QED
      BY <1>4, <2>5 DEF ApproveStage
  <1>5. CASE CancelRequest(c)
    <2>1. budget' \in Budgets
      BY <1>5, BudgetType DEF CancelRequest
    <2>2. TypeOK'
      BY <1>5, <2>1 DEF CancelRequest, TaskStatus
    <2>3. Bound'
      BY <1>5 DEF CancelRequest, Bound
    <2> QED
      BY <2>2, <2>3
  <1> QED
    BY <1>1, <1>2, <1>3, <1>4, <1>5 DEF Serve

LEMMA JobEndsType == ASSUME Inv, NEW j \in JobIds, JobEnds(j) PROVE Inv'
  <1> USE DEF Inv, TypeOK, durable, history
  <1>1. jobs' \in [JobIds -> [stage : Stages \cup {NoStage}, state : JobStates]]
    <2> PICK v \in Outcomes(jobs[j].stage) : jobs' = [jobs EXCEPT ![j].state = v]
      BY DEF JobEnds
    <2>1. v \in JobStates
      BY DEF Outcomes, JobStates
    <2>2. [jobs[j] EXCEPT !.state = v] \in [stage : Stages \cup {NoStage}, state : JobStates]
      BY <2>1
    <2> QED
      BY <2>2
  <1>2. TypeOK'
    BY <1>1 DEF JobEnds
  <1>3. Bound'
    BY DEF JobEnds, Bound
  <1> QED
    BY <1>2, <1>3

LEMMA CrashType == ASSUME Inv, Crash PROVE Inv'
  <1> USE DEF Inv, TypeOK, durable, history
  <1>1. budget' \in Budgets
    BY BudgetType DEF Crash
  <1>2. pc' \in [Threads -> Labels] /\ mem' \in [Threads -> Locals]
    BY BlankType DEF Crash, Labels
  <1>3. TypeOK'
    BY <1>1, <1>2 DEF Crash
  <1>4. Bound'
    BY DEF Crash, Bound, Committed
  <1> QED
    BY <1>3, <1>4

LEMMA NextType == Inv /\ [Next]_vars => Inv'
  <1> SUFFICES ASSUME Inv, [Next]_vars PROVE Inv'
    OBVIOUS
  <1>0. Workers \subseteq Threads /\ Clients \subseteq Threads
    BY DEF Threads
  <1>1. CASE UNCHANGED vars
    BY <1>1 DEF vars, Inv, TypeOK, Bound
  <1>2. CASE Next
    BY <1>0, <1>2, RunOnceType, EvaluateType, SaveType, ResetType, StartDispatchType,
       StartPollType, DispatchType, PollType, ServeType, JobEndsType, CrashType DEF Next
  <1> QED
    BY <1>1, <1>2

\* Type correctness of the scheduler for every value of the constants.
THEOREM TypeCorrect == Spec => []TypeOK
  <1>1. Spec => []Inv
    BY InitType, NextType, PTL DEF Spec
  <1>2. Inv => TypeOK
    BY DEF Inv
  <1> QED
    BY <1>1, <1>2, PTL

-----------------------------------------------------------------------------
(* The human gates: Review is inductive                                    *)

LEMMA StartedStays ==
  ASSUME done \subseteq done', released \subseteq released'
  PROVE  /\ \A s : Started(s) => Started(s)'
         /\ \A s, x : Recorded(s, x) => Recorded(s, x)'
  BY DEF Started, Recorded

LEMMA RowsStay ==
  ASSUME Inv, Review, UNCHANGED row, done \subseteq done', released \subseteq released'
  PROVE  RowsReviewed'
  BY DEF Review, RowsReviewed, Started, Recorded

LEMMA WatchesStay ==
  ASSUME Inv, Review, UNCHANGED watched, done \subseteq done', released \subseteq released'
  PROVE  WatchesReviewed'
  BY DEF Review, WatchesReviewed, Started

\* One row is written, and what is written is reviewed.
LEMMA RowStep ==
  ASSUME Inv, Review, done \subseteq done', released \subseteq released',
         NEW s \in Stages, \A u \in Stages \ {s} : row'[u] = row[u],
         row'[s].status \notin {"NOT_STARTED", "RELEASED"} => Started(s)',
         Recorded(s, row[s].status)'
  PROVE  RowsReviewed'
  BY DEF Review, RowsReviewed, Started, Recorded

\* One goroutine moves, and its new copy is reviewed.
LEMMA CopyStep ==
  ASSUME Inv, Review, done \subseteq done', released \subseteq released',
         NEW t \in Threads,
         \A u \in Threads \ {t} : pc'[u] = pc[u] /\ mem'[u] = mem[u],
         CopyReviewed(t)'
  PROVE  \A u \in Threads : CopyReviewed(u)'
  <1> SUFFICES ASSUME NEW u \in Threads \ {t} PROVE CopyReviewed(u)'
    OBVIOUS
  <1>1. CopyReviewed(u) /\ pc'[u] = pc[u] /\ mem'[u] = mem[u]
    BY DEF Review
  <1> QED
    BY <1>1 DEF CopyReviewed, Started, Recorded

LEMMA ReturnReviewed ==
  ASSUME Inv, Review, NEW t \in Threads, Return(t), UNCHANGED <<done, released>>
  PROVE  \A u \in Threads : CopyReviewed(u)'
  <1>1. /\ pc'[t] = "idle" /\ mem'[t] = Blank
        /\ \A u \in Threads \ {t} : pc'[u] = pc[u] /\ mem'[u] = mem[u]
    BY DEF Return, Goto, Update, Inv, TypeOK
  <1>2. CopyReviewed(t)'
    BY <1>1 DEF CopyReviewed, Blank, Committed, Working
  <1> QED
    BY <1>1, <1>2, CopyStep

LEMMA GotoReviewed ==
  ASSUME Inv, Review, NEW t \in Threads, NEW l \in Labels, Goto(t, l), UNCHANGED mem,
         UNCHANGED <<done, released>>, l \notin {"queue", "progress", "approve", "save"},
         l \in Working => Started(mem[t].stage)
  PROVE  \A u \in Threads : CopyReviewed(u)'
  <1>1. /\ pc'[t] = l /\ mem'[t] = mem[t]
        /\ \A u \in Threads \ {t} : pc'[u] = pc[u] /\ mem'[u] = mem[u]
    BY DEF Goto, Inv, TypeOK
  <1>2. \A w \in mem[t].follow : Started(w[1])
    BY DEF Review, CopyReviewed
  <1>3. CopyReviewed(t)'
    BY <1>1, <1>2 DEF CopyReviewed, Started
  <1> QED
    BY <1>1, <1>3, CopyStep

\* The locals change and the copy of the goroutine's own row does not matter.
LEMMA UpdateReviewed ==
  ASSUME Inv, Review, NEW t \in Threads, NEW l \in Labels, NEW m \in Locals,
         Goto(t, l), Update(t, m), UNCHANGED <<done, released>>,
         l \notin {"queue", "progress", "approve", "save"},
         \A w \in m.follow : Started(w[1]),
         l \in Working => Started(m.stage)
  PROVE  \A u \in Threads : CopyReviewed(u)'
  <1>1. /\ pc'[t] = l /\ mem'[t] = m
        /\ \A u \in Threads \ {t} : pc'[u] = pc[u] /\ mem'[u] = mem[u]
    BY DEF Goto, Update, Inv, TypeOK
  <1>2. CopyReviewed(t)'
    BY <1>1 DEF CopyReviewed, Started
  <1> QED
    BY <1>1, <1>2, CopyStep

LEMMA ConcludeReviewed ==
  ASSUME Inv, Review, NEW t \in Threads, NEW x \in StageStatus, Conclude(t, x),
         UNCHANGED <<done, released>>, Started(mem[t].stage), x # "RELEASED",
         x = "SUCCEEDED" => mem[t].stage \notin Gates
  PROVE  \A u \in Threads : CopyReviewed(u)'
  <1> DEFINE m == [mem[t] EXCEPT !.cell = [@ EXCEPT !.status = x], !.job = NoJob,
                                 !.verdict = "absent", !.tries = 0]
  <1>1. /\ pc'[t] = "save" /\ mem'[t] = m
        /\ \A u \in Threads \ {t} : pc'[u] = pc[u] /\ mem'[u] = mem[u]
    BY DEF Conclude, Goto, Update, Inv, TypeOK
  <1>2. mem[t] \in Locals /\ mem[t].cell \in Row
    BY DEF Inv, TypeOK, Locals
  <1>3. m.stage = mem[t].stage /\ m.follow = mem[t].follow /\ m.cell.status = x
    BY <1>2 DEF Locals, Row
  <1>4. \A w \in mem[t].follow : Started(w[1])
    BY DEF Review, CopyReviewed
  <1> HIDE DEF m
  <1>5. CopyReviewed(t)'
    BY <1>1, <1>3, <1>4 DEF CopyReviewed, Started
  <1> QED
    BY <1>1, <1>5, CopyStep

LEMMA EvaluateReviewed ==
  ASSUME Inv, Review, NEW t \in Threads, EvaluateTask(t)
  PROVE  Review'
  <1> USE DEF durable, history
  <1>0. mem[t] \in Locals /\ \A w \in mem[t].follow : Started(w[1])
    BY DEF Inv, TypeOK, Review, CopyReviewed
  <1>1. CASE LoadTask(t)
    <2>1. RowsReviewed' /\ WatchesReviewed'
      BY <1>1, RowsStay, WatchesStay DEF LoadTask
    <2>2. CASE Return(t)
      BY <1>1, <2>1, <2>2, ReturnReviewed DEF LoadTask, Review
    <2>3. CASE Goto(t, "load_stages") /\ UNCHANGED mem
      BY <1>1, <2>1, <2>3, GotoReviewed DEF LoadTask, Review, Labels, Committed, Working
    <2> QED
      BY <1>1, <2>2, <2>3 DEF LoadTask
  <1>2. CASE LoadStages(t)
    <2> DEFINE m == [mem[t] EXCEPT !.todo = Ready(row), !.wake = Woken(row),
                                   !.follow = Followed(row), !.next = NextTask(row)]
    <2>1. RowsReviewed' /\ WatchesReviewed'
      BY <1>2, RowsStay, WatchesStay DEF LoadStages
    <2>2. m.todo = Ready(row) /\ m.follow = Followed(row)
      BY <1>0 DEF Locals
    <2>3. /\ pc'[t] = "queue" /\ mem'[t] = m
          /\ \A u \in Threads \ {t} : pc'[u] = pc[u] /\ mem'[u] = mem[u]
      BY <1>2 DEF LoadStages, Goto, Update, Inv, TypeOK
    <2>4. \A s \in Ready(row) : Started(s)
      <3> SUFFICES ASSUME NEW s \in Ready(row), NEW d \in DependsOn[s]
                   PROVE  d \in done /\ (d \in Gates => d \in released)
        BY DEF Started
      <3>1. s \in Stages /\ d \in Stages /\ IsDone(row[d].status)
        BY DEF Ready
      <3>2. Recorded(d, row[d].status)
        BY <3>1 DEF Review, RowsReviewed
      <3> QED
        BY <3>1, <3>2 DEF Recorded, IsDone
    <2>5. \A w \in Followed(row) : Started(w[1])
      BY DEF Followed, Review, RowsReviewed
    <2> HIDE DEF m
    <2>6. CopyReviewed(t)'
      BY <1>2, <2>2, <2>3, <2>4, <2>5 DEF CopyReviewed, Started, LoadStages, Committed, Working
    <2>7. \A u \in Threads : CopyReviewed(u)'
      BY <1>2, <2>3, <2>6, CopyStep DEF LoadStages
    <2> QED
      BY <2>1, <2>7 DEF Review
  <1>3. CASE QueueStage(t)
    <2> PICK s \in mem[t].todo :
          /\ row' = [row EXCEPT ![s] = [FreshRow EXCEPT !.status = "QUEUED"]]
          /\ Update(t, [mem[t] EXCEPT !.todo = @ \ {s}])
      BY <1>3 DEF QueueStage
    <2> DEFINE m == [mem[t] EXCEPT !.todo = @ \ {s}]
    <2>1. m.todo = mem[t].todo \ {s} /\ m.follow = mem[t].follow
      BY <1>0 DEF Locals
    <2>2. s \in Stages /\ Started(s)
      BY <1>0, <1>3 DEF Locals, Review, CopyReviewed, QueueStage, At
    <2>3. /\ row'[s].status = "QUEUED"
          /\ \A u \in Stages \ {s} : row'[u] = row[u]
      BY <2>2 DEF Inv, TypeOK, FreshRow
    <2>4. RowsReviewed'
      BY <1>3, <2>2, <2>3, RowStep DEF QueueStage, Started, Recorded, IsDone
    <2>5. WatchesReviewed'
      BY <1>3, WatchesStay DEF QueueStage
    <2>6. /\ pc' = pc /\ mem'[t] = m /\ pc[t] = "queue"
          /\ \A u \in Threads \ {t} : mem'[u] = mem[u]
      BY <1>3 DEF QueueStage, Update, At, Inv, TypeOK
    <2> HIDE DEF m
    <2>7. \A u \in mem[t].todo : Started(u)
      BY <2>6 DEF Review, CopyReviewed
    <2>8. CopyReviewed(t)'
      BY <1>0, <1>3, <2>1, <2>6, <2>7 DEF CopyReviewed, Started, QueueStage, Committed, Working
    <2>9. \A u \in Threads : CopyReviewed(u)'
      BY <1>3, <2>6, <2>8, CopyStep DEF QueueStage
    <2> QED
      BY <2>4, <2>5, <2>9 DEF Review
  <1>4. CASE StartGoroutines(t)
    <2> DEFINE m == [mem[t] EXCEPT !.wake = {}, !.follow = {}]
    <2>1. m \in Locals /\ m.follow = {}
      BY <1>0 DEF Locals
    <2>2. Goto(t, "set_task") /\ Update(t, m) /\ UNCHANGED <<row, done, released>>
      BY <1>4 DEF StartGoroutines
    <2> HIDE DEF m
    <2>3. RowsReviewed'
      BY <2>2, RowsStay
    <2>4. WatchesReviewed'
      BY <1>0, <1>4, <2>2 DEF StartGoroutines, WatchesReviewed, Review, Started, Inv, TypeOK
    <2>5. \A u \in Threads : CopyReviewed(u)'
      BY <2>1, <2>2, UpdateReviewed DEF Labels, Committed, Working
    <2> QED
      BY <2>3, <2>4, <2>5 DEF Review
  <1>5. CASE SetTask(t)
    BY <1>5, RowsStay, WatchesStay, ReturnReviewed DEF SetTask, Review
  <1> QED
    BY <1>1, <1>2, <1>3, <1>4, <1>5 DEF EvaluateTask

LEMMA SaveReviewed ==
  ASSUME Inv, Review, NEW t \in Threads, SaveStage(t)
  PROVE  Review'
  <1> DEFINE m == [mem[t] EXCEPT !.cell = FreshRow]
  <1>0. mem[t].stage \in Stages /\ mem[t] \in Locals /\ mem[t].cell \in Row
    BY DEF SaveStage, At, Inv, TypeOK, Bound, Committed, Working, Locals
  <1> PICK s \in Stages, x \in StageStatus : s = mem[t].stage /\ x = mem[t].cell.status
    BY <1>0 DEF Row
  <1>1. x # "RELEASED" => Started(s)
    BY DEF SaveStage, At, Review, CopyReviewed
  <1>2. x = "SUCCEEDED" => s \notin Gates
    BY DEF SaveStage, At, Review, CopyReviewed
  <1>3. /\ row'[s].status = x
        /\ \A u \in Stages \ {s} : row'[u] = row[u]
    BY <1>0 DEF SaveStage, SaveRow, Inv, TypeOK, Row
  <1>4. /\ done \subseteq done' /\ released \subseteq released'
        /\ IsDone(x) => s \in done'
        /\ x = "RELEASED" => s \in released'
    BY DEF SaveStage
  <1>5. RowsReviewed'
    <2>1. x # "RELEASED" => Started(s)'
      BY <1>1, <1>4 DEF Started
    <2> QED
      BY <1>1, <1>2, <1>3, <1>4, <2>1, RowStep DEF Recorded
  <1>6. WatchesReviewed'
    BY <1>4, WatchesStay DEF SaveStage
  <1>7. /\ pc'[t] = "load_task" /\ mem'[t] = m
        /\ \A u \in Threads \ {t} : pc'[u] = pc[u] /\ mem'[u] = mem[u]
    BY DEF SaveStage, Goto, Update, Inv, TypeOK
  <1>8. m.follow = mem[t].follow
    BY <1>0 DEF Locals
  <1> HIDE DEF m
  <1>9. CopyReviewed(t)'
    <2>1. \A w \in mem[t].follow : Started(w[1])
      BY DEF Review, CopyReviewed
    <2> QED
      BY <1>4, <1>7, <1>8, <2>1 DEF CopyReviewed, Started, Committed, Working
  <1>10. \A u \in Threads : CopyReviewed(u)'
    BY <1>4, <1>7, <1>9, CopyStep
  <1> QED
    BY <1>5, <1>6, <1>10 DEF Review

LEMMA ResetReviewed ==
  ASSUME Inv, Review, NEW t \in Threads, ResetStage(t)
  PROVE  Review'
  <1> PICK s \in mem[t].todo :
        /\ row' = [row EXCEPT ![s] = FreshRow]
        /\ Update(t, [mem[t] EXCEPT !.todo = @ \ {s}])
        /\ pc' = [pc EXCEPT ![t] = IF mem[t].todo = {s} THEN "load_task" ELSE "reset"]
    BY DEF ResetStage
  <1> DEFINE m == [mem[t] EXCEPT !.todo = @ \ {s}]
  <1>0. mem[t] \in Locals
    BY DEF Inv, TypeOK
  <1>1. m.follow = mem[t].follow /\ m \in Locals /\ s \in Stages
    BY <1>0 DEF Locals
  <1>2. UNCHANGED <<watched, done, released>>
    BY DEF ResetStage, history
  <1>3. row'[s].status = "NOT_STARTED" /\ \A u \in Stages \ {s} : row'[u] = row[u]
    BY <1>1 DEF FreshRow, Inv, TypeOK
  <1>4. RowsReviewed' /\ WatchesReviewed'
    BY <1>1, <1>2, <1>3, RowStep, WatchesStay DEF Recorded, IsDone
  <1>5. \A w \in mem[t].follow : Started(w[1])
    BY DEF Review, CopyReviewed
  <1>6. (\E l \in {"load_task", "reset"} : Goto(t, l)) /\ Update(t, m)
    BY DEF Goto
  <1> HIDE DEF m
  <1>7. \A u \in Threads : CopyReviewed(u)'
    BY <1>1, <1>2, <1>5, <1>6, UpdateReviewed DEF Labels, Committed, Working
  <1> QED
    BY <1>4, <1>7 DEF Review

\* Starting a goroutine: it has locals of its own and no copy of a row.
LEMMA StartDispatchReviewed ==
  ASSUME Inv, Review, NEW s \in Stages, StartDispatch(s)
  PROVE  Review'
  <1>1. UNCHANGED <<row, watched, done, released>>
    BY DEF StartDispatch, durable, history
  <1>2. CASE UNCHANGED <<pc, mem>>
    BY <1>1, <1>2, RowsStay, WatchesStay DEF Review, CopyReviewed, Started, Recorded
  <1> DEFINE m == [Blank EXCEPT !.role = "dispatch", !.stage = s]
  <1>3. CASE \E g \in Workers : Goto(g, "read_stage") /\ Update(g, m)
    <2>1. m \in Locals
      BY BlankType DEF Locals
    <2>2. m.follow = {}
      BY DEF Blank
    <2> HIDE DEF m
    <2>3. \A u \in Threads : CopyReviewed(u)'
      BY <1>1, <1>3, <2>1, <2>2, UpdateReviewed DEF Labels, Committed, Working, Threads
    <2> QED
      BY <1>1, <2>3, RowsStay, WatchesStay DEF Review
  <1> QED
    BY <1>2, <1>3 DEF StartDispatch

LEMMA StartPollReviewed ==
  ASSUME Inv, Review, NEW s \in Stages, NEW j \in JobIds, StartPoll(s, j)
  PROVE  Review'
  <1>1. UNCHANGED <<row, done, released>> /\ Started(s)
    BY DEF StartPoll, durable, history, Review, WatchesReviewed
  <1>2. RowsReviewed' /\ WatchesReviewed'
    BY <1>1, RowsStay DEF StartPoll, Review, WatchesReviewed, Started, Inv, TypeOK
  <1>3. CASE UNCHANGED <<pc, mem>>
    BY <1>1, <1>2, <1>3 DEF Review, CopyReviewed, Started, Recorded
  <1> DEFINE m == [Blank EXCEPT !.role = "poll", !.stage = s, !.job = j]
  <1>4. CASE \E g \in Workers : Goto(g, "poll") /\ Update(g, m)
    <2>1. m \in Locals
      BY BlankType DEF Locals
    <2>2. m.follow = {} /\ m.stage = s
      BY DEF Blank
    <2> HIDE DEF m
    <2>3. \A u \in Threads : CopyReviewed(u)'
      BY <1>1, <1>4, <2>1, <2>2, UpdateReviewed DEF Labels, Threads
    <2> QED
      BY <1>2, <2>3 DEF Review
  <1> QED
    BY <1>3, <1>4 DEF StartPoll

LEMMA DispatchReviewed ==
  ASSUME Inv, Review, NEW g \in Threads, DispatchStage(g)
  PROVE  Review'
  <1> USE DEF durable, history
  <1>0. /\ mem[g] \in Locals /\ mem[g].cell \in Row
        /\ \A w \in mem[g].follow : Started(w[1])
        /\ pc[g] \in Committed \cup {"read_stage"} => mem[g].stage \in Stages
        /\ pc[g] \in Working => Started(mem[g].stage)
    BY DEF Inv, TypeOK, Bound, Review, CopyReviewed, Locals
  <1>1. CASE ReadStage(g)
    <2>1. RowsReviewed' /\ WatchesReviewed'
      BY <1>1, RowsStay, WatchesStay DEF ReadStage
    <2>2. CASE Return(g)
      BY <1>1, <2>1, <2>2, ReturnReviewed DEF ReadStage, Review
    <2> DEFINE m == [mem[g] EXCEPT !.cell = row[mem[g].stage]]
    <2>3. CASE Goto(g, "mark") /\ Update(g, m) /\ row[mem[g].stage].status = "QUEUED"
      <3>1. mem[g].stage \in Stages /\ row[mem[g].stage] \in Row /\ Started(mem[g].stage)
        BY <1>0, <1>1, <2>3 DEF ReadStage, At, Inv, TypeOK, Review, RowsReviewed
      <3>2. m \in Locals /\ m.stage = mem[g].stage /\ m.follow = mem[g].follow
        BY <1>0, <3>1 DEF Locals
      <3>3. UNCHANGED <<done, released>>
        BY <1>1 DEF ReadStage
      <3> HIDE DEF m
      <3>4. \A u \in Threads : CopyReviewed(u)'
        BY <1>0, <2>3, <3>1, <3>2, <3>3, UpdateReviewed DEF Labels
      <3> QED
        BY <2>1, <3>4 DEF Review
    <2> QED
      BY <1>1, <2>2, <2>3 DEF ReadStage
  <1>2. ASSUME NEW x \in {"DISPATCHING", "RUNNING"}, SaveRow(g, x),
               UNCHANGED <<watched, done, released>>,
               mem[g].stage \in Stages, Started(mem[g].stage)
        PROVE  RowsReviewed' /\ WatchesReviewed'
    <2> PICK s \in Stages : s = mem[g].stage
      BY <1>2
    <2>1. row'[s].status = x /\ \A u \in Stages \ {s} : row'[u] = row[u]
      BY <1>0, <1>2 DEF SaveRow, Inv, TypeOK, Row
    <2>2. Started(s)'
      BY <1>2 DEF Started
    <2>3. Recorded(s, row[s].status)'
      BY <2>1 DEF Recorded, IsDone
    <2> QED
      BY <1>2, <2>1, <2>2, <2>3, RowStep, WatchesStay
  <1>3. CASE MarkDispatching(g)
    <2>1. Started(mem[g].stage) /\ mem[g].stage \in Stages
      BY <1>0, <1>3 DEF MarkDispatching, At, Committed, Working
    <2>2. RowsReviewed' /\ WatchesReviewed'
      BY <1>2, <1>3, <2>1 DEF MarkDispatching
    <2>3. \A u \in Threads : CopyReviewed(u)'
      BY <1>3, <2>1, GotoReviewed DEF MarkDispatching, Labels
    <2> QED
      BY <2>2, <2>3 DEF Review
  <1>4. CASE MarkRunning(g)
    <2>1. Started(mem[g].stage) /\ mem[g].stage \in Stages
      BY <1>0, <1>4 DEF MarkRunning, At, Committed, Working
    <2>2. RowsReviewed' /\ WatchesReviewed'
      BY <1>2, <1>4, <2>1 DEF MarkRunning
    <2>3. \E l \in {"invoke", "create_job"} : Goto(g, l)
      BY <1>4 DEF MarkRunning
    <2>4. \A u \in Threads : CopyReviewed(u)'
      BY <1>4, <2>1, <2>3, GotoReviewed DEF MarkRunning, Labels
    <2> QED
      BY <2>2, <2>4 DEF Review
  <1>5. CASE AgentConnectionDropped(g)
    <2> DEFINE m == [mem[g] EXCEPT !.tries = @ + 1]
    <2>1. m.stage = mem[g].stage /\ m.follow = mem[g].follow
      BY <1>0 DEF Locals
    <2>2. /\ mem'[g] = m /\ pc[g] = "invoke"
          /\ pc' = pc /\ \A u \in Threads \ {g} : mem'[u] = mem[u]
          /\ UNCHANGED <<row, watched, done, released>>
      BY <1>5 DEF AgentConnectionDropped, At, Update, Inv, TypeOK
    <2> HIDE DEF m
    <2>3. CopyReviewed(g)'
      BY <1>0, <2>1, <2>2 DEF CopyReviewed, Started, Committed, Working
    <2>4. \A u \in Threads : CopyReviewed(u)'
      BY <2>2, <2>3, CopyStep
    <2> QED
      BY <2>2, <2>4, RowsStay, WatchesStay DEF Review
  <1>6. ASSUME UNCHANGED <<row, watched, done, released>>, pc[g] \in Working,
               \E x \in {Parked(mem[g].stage), "FAILED"} : Conclude(g, x)
        PROVE  Review'
    <2>1. mem[g].stage \in Stages /\ Started(mem[g].stage)
      BY <1>0, <1>6 DEF Working
    <2> PICK x \in {Parked(mem[g].stage), "FAILED"} : Conclude(g, x)
      BY <1>6
    <2>2. x \in StageStatus \ {"RELEASED"} /\ (x = "SUCCEEDED" => mem[g].stage \notin Gates)
      BY DEF Parked, StageStatus
    <2>3. \A u \in Threads : CopyReviewed(u)'
      BY <1>6, <2>1, <2>2, ConcludeReviewed
    <2> QED
      BY <1>6, <2>3, RowsStay, WatchesStay DEF Review
  <1>7. CASE AgentSucceeds(g) \/ AgentFails(g)
    BY <1>6, <1>7 DEF AgentSucceeds, AgentFails, At, Committed, Working
  <1>8. CASE JobAccepted(g)
    <2> PICK j \in JobIds : Update(g, [mem[g] EXCEPT !.job = j])
      BY <1>8 DEF JobAccepted
    <2> DEFINE m == [mem[g] EXCEPT !.job = j]
    <2>1. m \in Locals /\ m.stage = mem[g].stage /\ m.follow = mem[g].follow
      BY <1>0 DEF Locals
    <2>2. /\ Goto(g, "attach") /\ Update(g, m) /\ Started(mem[g].stage)
          /\ UNCHANGED <<row, watched, done, released>>
      BY <1>0, <1>8 DEF JobAccepted, At, Committed, Working
    <2> HIDE DEF m
    <2>3. \A u \in Threads : CopyReviewed(u)'
      BY <1>0, <2>1, <2>2, UpdateReviewed DEF Labels
    <2> QED
      BY <2>2, <2>3, RowsStay, WatchesStay DEF Review
  <1>9. CASE JobRefused(g)
    BY <1>6, <1>9 DEF JobRefused, At, Committed, Working
  <1>10. CASE AttachJob(g)
    <2>1. mem[g].stage \in Stages /\ Started(mem[g].stage) /\ UNCHANGED <<done, released>>
      BY <1>0, <1>10 DEF AttachJob, At, Committed, Working
    <2> PICK s \in Stages : s = mem[g].stage
      BY <2>1
    <2>2. /\ row'[s].status = "RUNNING" /\ \A u \in Stages \ {s} : row'[u] = row[u]
          /\ \A w \in Stages \X JobIds : watched'[w] > 0 => watched[w] > 0 \/ w[1] = s
      BY <1>10 DEF AttachJob, Inv, TypeOK
    <2>3. RowsReviewed'
      BY <2>1, <2>2, RowStep DEF Started, Recorded, IsDone
    <2>4. WatchesReviewed'
      BY <2>1, <2>2 DEF WatchesReviewed, Review, Started
    <2> QED
      BY <1>10, <2>1, <2>3, <2>4, ReturnReviewed DEF AttachJob, Review
  <1> QED
    BY <1>1, <1>3, <1>4, <1>5, <1>7, <1>8, <1>9, <1>10 DEF DispatchStage

LEMMA PollReviewed ==
  ASSUME Inv, Review, NEW g \in Threads, PollEDARun(g)
  PROVE  Review'
  <1> USE DEF durable, history
  <1>0. /\ mem[g] \in Locals /\ mem[g].cell \in Row
        /\ \A w \in mem[g].follow : Started(w[1])
        /\ pc[g] \in Working => mem[g].stage \in Stages /\ Started(mem[g].stage)
    BY DEF Inv, TypeOK, Bound, Review, CopyReviewed, Locals, Working
  <1>a. ASSUME pc[g] \in Working, UNCHANGED <<done, released>>,
               \E x \in {Parked(mem[g].stage), "FAILED"} : Conclude(g, x)
        PROVE  \A u \in Threads : CopyReviewed(u)'
    <2>1. mem[g].stage \in Stages /\ Started(mem[g].stage)
      BY <1>0, <1>a
    <2> PICK x \in {Parked(mem[g].stage), "FAILED"} : Conclude(g, x)
      BY <1>a
    <2>2. x \in StageStatus \ {"RELEASED"} /\ (x = "SUCCEEDED" => mem[g].stage \notin Gates)
      BY DEF Parked, StageStatus
    <2> QED
      BY <1>a, <2>1, <2>2, ConcludeReviewed
  <1>1. CASE PollStatus(g)
    <2> DEFINE m == [mem[g] EXCEPT !.verdict = jobs[mem[g].job].state,
                                   !.cell = row[mem[g].stage]]
    <2>1. mem[g].stage \in Stages /\ Started(mem[g].stage)
      BY <1>0, <1>1 DEF PollStatus, At, Committed, Working
    <2>2. m.stage = mem[g].stage /\ m.follow = mem[g].follow /\ m.cell = row[mem[g].stage]
      BY <1>0 DEF Locals
    <2>3. /\ pc'[g] = "progress" /\ mem'[g] = m
          /\ \A u \in Threads \ {g} : pc'[u] = pc[u] /\ mem'[u] = mem[u]
          /\ UNCHANGED <<row, watched, done, released>>
      BY <1>1 DEF PollStatus, Goto, Update, Inv, TypeOK
    <2> HIDE DEF m
    <2>4. Recorded(mem[g].stage, row[mem[g].stage].status)
      BY <2>1 DEF Review, RowsReviewed
    <2>5. CopyReviewed(g)'
      BY <1>0, <2>1, <2>2, <2>3, <2>4 DEF CopyReviewed, Started, Recorded
    <2>6. \A u \in Threads : CopyReviewed(u)'
      BY <2>3, <2>5, CopyStep
    <2> QED
      BY <2>3, <2>6, RowsStay, WatchesStay DEF Review
  <1>2. CASE WriteProgress(g)
    <2>1. /\ pc[g] \in Working /\ pc[g] = "progress"
          /\ mem[g].stage \in Stages /\ Started(mem[g].stage)
          /\ UNCHANGED <<watched, done, released>>
      BY <1>0, <1>2 DEF WriteProgress, At, Committed, Working
    <2> PICK s \in Stages, x \in StageStatus : s = mem[g].stage /\ x = mem[g].cell.status
      BY <1>0, <2>1 DEF Row
    <2>2. Recorded(s, x)
      BY <2>1 DEF Review, CopyReviewed
    <2>3. /\ row'[s].status = x
          /\ \A u \in Stages \ {s} : row'[u] = row[u]
      BY <1>0, <1>2 DEF WriteProgress, SaveRow, Inv, TypeOK, Row
    <2>4. RowsReviewed' /\ WatchesReviewed'
      BY <2>1, <2>2, <2>3, RowStep, WatchesStay DEF Started, Recorded
    <2> DEFINE m == [mem[g] EXCEPT !.verdict = "absent", !.cell = FreshRow]
    <2>5. \/ Goto(g, "poll") /\ Update(g, m)
          \/ Return(g)
          \/ (\E l \in {"clear", "count"} : Goto(g, l)) /\ UNCHANGED mem
          \/ \E y \in {Parked(mem[g].stage), "FAILED"} : Conclude(g, y)
      BY <1>2 DEF WriteProgress
    <2>6. CASE Goto(g, "poll") /\ Update(g, m)
      <3>1. m \in Locals /\ m.stage = mem[g].stage /\ m.follow = mem[g].follow
        BY <1>0, RowType DEF Locals, JobStates
      <3> HIDE DEF m
      <3>2. \A u \in Threads : CopyReviewed(u)'
        BY <1>0, <2>1, <2>6, <3>1, UpdateReviewed DEF Labels
      <3> QED
        BY <2>4, <3>2 DEF Review
    <2>7. CASE Return(g)
      BY <2>1, <2>4, <2>7, ReturnReviewed DEF Review
    <2>8. CASE (\E l \in {"clear", "count"} : Goto(g, l)) /\ UNCHANGED mem
      BY <2>1, <2>4, <2>8, GotoReviewed DEF Review, Labels
    <2>9. CASE \E y \in {Parked(mem[g].stage), "FAILED"} : Conclude(g, y)
      BY <1>a, <2>1, <2>4, <2>9 DEF Review
    <2> QED
      BY <2>5, <2>6, <2>7, <2>8, <2>9
  <1>3. ASSUME UNCHANGED <<row, watched, done, released>>, pc[g] \in Working,
               \/ (\E l \in {"repair"} : Goto(g, l)) /\ UNCHANGED mem
               \/ \E x \in {Parked(mem[g].stage), "FAILED"} : Conclude(g, x)
        PROVE  Review'
    <2>1. RowsReviewed' /\ WatchesReviewed'
      BY <1>3, RowsStay, WatchesStay
    <2>2. CASE Goto(g, "repair") /\ UNCHANGED mem
      BY <1>0, <1>3, <2>1, <2>2, GotoReviewed DEF Review, Labels
    <2>3. CASE \E x \in {Parked(mem[g].stage), "FAILED"} : Conclude(g, x)
      BY <1>3, <1>a, <2>1, <2>3 DEF Review
    <2> QED
      BY <1>3, <2>2, <2>3
  <1>4. CASE ClearRounds(g)
    BY <1>3, <1>4 DEF ClearRounds, At, Committed, Working
  <1>5. CASE SpendRound(g)
    BY <1>3, <1>5 DEF SpendRound, At, Committed, Working
  <1>6. CASE SpendRoundUncounted(g)
    BY <1>3, <1>6 DEF SpendRoundUncounted, At, Committed, Working
  <1>7. CASE RepairReturns(g)
    <2> DEFINE m == [mem[g] EXCEPT !.todo = {mem[g].stage} \cup Downstream[mem[g].stage]]
    <2>1. CASE Goto(g, "reset") /\ Update(g, m)
      <3>1. mem[g].stage \in Stages
        BY <1>0, <1>7 DEF RepairReturns, At, Committed, Working
      <3>2. {mem[g].stage} \cup Downstream[mem[g].stage] \subseteq Stages
        BY <3>1, DownstreamType
      <3>3. m \in Locals /\ m.follow = mem[g].follow
        BY <1>0, <3>2 DEF Locals
      <3>4. UNCHANGED <<row, watched, done, released>>
        BY <1>7 DEF RepairReturns
      <3> HIDE DEF m
      <3>5. \A u \in Threads : CopyReviewed(u)'
        BY <1>0, <2>1, <3>3, <3>4, UpdateReviewed DEF Labels, Committed, Working
      <3> QED
        BY <3>4, <3>5, RowsStay, WatchesStay DEF Review
    <2>2. CASE Conclude(g, "FAILED")
      BY <1>3, <1>7, <2>2 DEF RepairReturns, At, Committed, Working
    <2> QED
      BY <1>7, <2>1, <2>2 DEF RepairReturns
  <1> QED
    BY <1>1, <1>2, <1>4, <1>5, <1>6, <1>7 DEF PollEDARun

LEMMA ServeReviewed ==
  ASSUME Inv, Review, NEW c \in Threads, Serve(c)
  PROVE  Review'
  <1> USE DEF durable, history
  <1>0. /\ mem[c] \in Locals
        /\ \A w \in mem[c].follow : Started(w[1])
        /\ pc[c] = "approve" => mem[c].stage \in Stages
        /\ UNCHANGED <<row, watched, done, released>>
    BY DEF Inv, TypeOK, Bound, Committed, Review, CopyReviewed, Serve, RetryRequest, RejectRequest,
       ApproveRequest, ApproveStage, CancelRequest
  <1>1. RowsReviewed' /\ WatchesReviewed'
    BY <1>0, RowsStay, WatchesStay
  <1>2. ASSUME NEW s \in Stages, RetryRequest(c, s) \/ RejectRequest(c, s)
        PROVE  Review'
    <2> DEFINE m == [mem[c] EXCEPT !.todo = {s} \cup Downstream[s]]
    <2>1. {s} \cup Downstream[s] \subseteq Stages
      BY DownstreamType
    <2>2. m \in Locals /\ m.follow = mem[c].follow
      BY <1>0, <2>1 DEF Locals
    <2>3. Goto(c, "reset") /\ Update(c, m)
      BY <1>2 DEF RetryRequest, RejectRequest
    <2> HIDE DEF m
    <2>4. \A u \in Threads : CopyReviewed(u)'
      BY <1>0, <2>2, <2>3, UpdateReviewed DEF Labels, Committed, Working
    <2> QED
      BY <1>1, <2>4 DEF Review
  <1>3. ASSUME NEW s \in Stages, ApproveRequest(c, s) PROVE Review'
    <2> DEFINE m == [mem[c] EXCEPT !.stage = s]
    <2>1. m \in Locals /\ m.stage = s /\ m.follow = mem[c].follow
      BY <1>0 DEF Locals
    <2>2. Goto(c, "approve") /\ Update(c, m)
      BY <1>3 DEF ApproveRequest
    <2> HIDE DEF m
    <2>3. /\ pc'[c] = "approve" /\ mem'[c] = m
          /\ \A u \in Threads \ {c} : pc'[u] = pc[u] /\ mem'[u] = mem[u]
      BY <2>2 DEF Goto, Update, Inv, TypeOK
    <2>4. CopyReviewed(c)'
      BY <1>0, <2>1, <2>3 DEF CopyReviewed, Started, Working
    <2>5. \A u \in Threads : CopyReviewed(u)'
      BY <1>0, <2>3, <2>4, CopyStep
    <2> QED
      BY <1>1, <2>5 DEF Review
  <1>4. CASE ApproveStage(c)
    <2> DEFINE m == [mem[c] EXCEPT !.cell = [row[mem[c].stage] EXCEPT !.status = "RELEASED"]]
    <2>1. mem[c].stage \in Stages /\ row[mem[c].stage] \in Row
      BY <1>0, <1>4 DEF ApproveStage, At, Inv, TypeOK
    <2>2. /\ m.stage = mem[c].stage /\ m.follow = mem[c].follow
          /\ m.cell.status = "RELEASED"
      BY <1>0, <2>1 DEF Locals, Row
    <2>3. /\ pc'[c] = "save" /\ mem'[c] = m
          /\ \A u \in Threads \ {c} : pc'[u] = pc[u] /\ mem'[u] = mem[u]
      BY <1>4 DEF ApproveStage, Goto, Update, Inv, TypeOK
    <2> HIDE DEF m
    <2>4. CopyReviewed(c)'
      BY <1>0, <2>1, <2>2, <2>3 DEF CopyReviewed, Started, Working
    <2>5. \A u \in Threads : CopyReviewed(u)'
      BY <1>0, <2>3, <2>4, CopyStep
    <2> QED
      BY <1>1, <2>5 DEF Review
  <1>5. CASE CancelRequest(c)
    <2>1. UNCHANGED <<pc, mem, done, released>>
      BY <1>5 DEF CancelRequest
    <2>2. \A u \in Threads : CopyReviewed(u)'
      BY <2>1 DEF Review, CopyReviewed, Started, Recorded
    <2> QED
      BY <1>1, <2>2 DEF Review
  <1> QED
    BY <1>2, <1>3, <1>4, <1>5 DEF Serve

LEMMA NextReviewed == Inv /\ Review /\ [Next]_vars => Review'
  <1> SUFFICES ASSUME Inv, Review, [Next]_vars PROVE Review'
    OBVIOUS
  <1> USE DEF durable, history
  <1>0. Workers \subseteq Threads /\ Clients \subseteq Threads /\ Tick \in Threads
    BY DEF Threads
  <1>1. CASE UNCHANGED vars
    <2>1. UNCHANGED <<row, watched, pc, mem, done, released>>
      BY <1>1 DEF vars
    <2>2. \A u \in Threads : CopyReviewed(u)'
      BY <2>1 DEF Review, CopyReviewed, Started, Recorded
    <2> QED
      BY <2>1, <2>2, RowsStay, WatchesStay DEF Review
  <1>2. CASE RunOnce
    BY <1>0, <1>2, RowsStay, WatchesStay, GotoReviewed DEF RunOnce, Review, Labels, Committed, Working
  <1>3. CASE \E j \in JobIds : JobEnds(j)
    <2>1. UNCHANGED <<row, watched, pc, mem, done, released>>
      BY <1>3 DEF JobEnds
    <2>2. \A u \in Threads : CopyReviewed(u)'
      BY <2>1 DEF Review, CopyReviewed, Started, Recorded
    <2> QED
      BY <2>1, <2>2, RowsStay, WatchesStay DEF Review
  <1>4. CASE Crash
    <2>1. UNCHANGED <<row, done, released>>
      BY <1>4 DEF Crash
    <2>2. WatchesReviewed'
      BY <1>4 DEF Crash, WatchesReviewed
    <2>3. \A u \in Threads : CopyReviewed(u)'
      BY <1>4 DEF Crash, CopyReviewed, Blank, Committed, Working
    <2> QED
      BY <2>1, <2>2, <2>3, RowsStay DEF Review
  <1> QED
    BY <1>0, <1>1, <1>2, <1>3, <1>4, EvaluateReviewed, SaveReviewed, ResetReviewed,
       StartDispatchReviewed, StartPollReviewed, DispatchReviewed, PollReviewed, ServeReviewed DEF Next

LEMMA InitReviewed == Init => Review
  BY DEF Init, Review, RowsReviewed, WatchesReviewed, CopyReviewed, Started, Recorded,
     IsDone, FreshRow, Blank, Committed, Working

\* No interleaving of ticks, dispatchers, pollers, requests, cancellations and
\* restarts starts or finishes a stage before its dependencies were finished, or
\* released by a user, and every gate among them was released; a release itself is
\* taken for any stage.
THEOREM Reviewed == Spec => []ReviewedBeforeUse
  <1>1. Spec => [](Inv /\ Review)
    BY InitType, NextType, InitReviewed, NextReviewed, PTL DEF Spec
  <1>2. Review => ReviewedBeforeUse
    BY DEF Review, RowsReviewed, ReviewedBeforeUse
  <1> QED
    BY <1>1, <1>2, PTL

-----------------------------------------------------------------------------
(* Refinement of DesignFlow *)

\* A stage becomes done or released in one step only: when it is saved.
LEMMA OnlySaveFinishes ==
  ASSUME [Next]_vars
  PROVE  UNCHANGED <<done, released>> \/ \E t \in Threads : SaveStage(t)
  <1> USE DEF history
  <1>1. CASE \E t \in Threads : EvaluateTask(t)
    BY <1>1 DEF EvaluateTask, LoadTask, LoadStages, QueueStage, StartGoroutines, SetTask
  <1>2. CASE \E g \in Workers : DispatchStage(g)
    BY <1>2 DEF DispatchStage, ReadStage, MarkDispatching, MarkRunning, AgentConnectionDropped,
       AgentSucceeds, AgentFails, JobAccepted, JobRefused, AttachJob
  <1>3. CASE \E g \in Workers : PollEDARun(g)
    BY <1>3 DEF PollEDARun, PollStatus, WriteProgress, ClearRounds, SpendRound,
       SpendRoundUncounted, RepairReturns
  <1>4. CASE \E c \in Clients : Serve(c)
    BY <1>4 DEF Serve, RetryRequest, RejectRequest, ApproveRequest, ApproveStage, CancelRequest
  <1> QED
    BY <1>1, <1>2, <1>3, <1>4
       DEF Next, vars, RunOnce, ResetStage, StartDispatch, StartPoll, JobEnds, Crash

LEMMA SaveImplementsFlow ==
  ASSUME Inv, Review, NEW t \in Threads, SaveStage(t)
  PROVE  [Flow!Next]_Flow!vars
  <1> PICK s \in Stages, x \in StageStatus : s = mem[t].stage /\ x = mem[t].cell.status
    BY DEF SaveStage, At, Inv, TypeOK, Bound, Committed, Locals, Row
  <1>1. /\ x # "RELEASED" => Started(s)
        /\ x = "SUCCEEDED" => s \notin Gates
    BY DEF SaveStage, At, Review, CopyReviewed
  <1>2. CASE x = "SUCCEEDED"
    <2>1. Flow!Open(s)
      BY <1>1, <1>2 DEF Started, Flow!Open
    <2> QED
      BY <1>1, <1>2, <2>1 DEF SaveStage, IsDone, Flow!Next, Flow!Finish
  <1>3. CASE x = "RELEASED"
    BY <1>3 DEF SaveStage, IsDone, Flow!Next, Flow!Release
  <1>4. CASE x \notin {"SUCCEEDED", "RELEASED"}
    BY <1>4 DEF SaveStage, IsDone, Flow!vars
  <1> QED
    BY <1>2, <1>3, <1>4

\* The service implements the abstract design flow: whatever goroutines, stale
\* copies, retries, repairs and restarts do, stages are only finished along the
\* graph or by a user's release, and gates by such a release alone.
THEOREM FlowImplemented == Spec => ImplementsFlow
  <1>1. Spec => [](Inv /\ Review)
    BY InitType, NextType, InitReviewed, NextReviewed, PTL DEF Spec
  <1>2. Init => Flow!Init
    BY DEF Init, Flow!Init
  <1>3. Inv /\ Review /\ [Next]_vars => [Flow!Next]_Flow!vars
    BY OnlySaveFinishes, SaveImplementsFlow DEF Flow!vars
  <1> QED
    BY <1>1, <1>2, <1>3, PTL DEF Spec, ImplementsFlow, Flow!Spec

-----------------------------------------------------------------------------
(* A completed task *)

AllReviewed == done = Stages /\ Gates \subseteq released

\* COMPLETED is a status derived from a snapshot of finished rows, wherever it is
\* kept until it is written.
Completed ==
    /\ task = "COMPLETED" => AllReviewed
    /\ \A t \in Threads : mem[t].next = "COMPLETED" => AllReviewed

LEMMA AllReviewedStays ==
  ASSUME Inv, Inv', [Next]_vars, AllReviewed
  PROVE  AllReviewed'
  BY OnlySaveFinishes DEF AllReviewed, SaveStage, Inv, TypeOK

\* The verdict of a snapshot, taken when every row of it is recorded as finished.
LEMMA SnapshotCompleted ==
  ASSUME Inv, Review, NextTask(row) = "COMPLETED"
  PROVE  AllReviewed
  <1>1. \A s \in Stages : IsDone(row[s].status) /\ Recorded(s, row[s].status)
    BY DEF NextTask, Review, RowsReviewed
  <1>2. \A s \in Stages : s \in done /\ (s \in Gates => s \in released)
    BY <1>1 DEF Recorded, IsDone
  <1> QED
    BY <1>2, DagAssumption DEF AllReviewed, Inv, TypeOK

\* No other step invents a COMPLETED: a goroutine's derived status is kept, reset
\* with its locals, or derived from a snapshot.
Kept(t) ==
    /\ mem'[t].next \in {mem[t].next, "RUNNING"}
    /\ \A u \in Threads \ {t} : mem'[u] = mem[u]

LEMMA KeptReturn == ASSUME Inv, NEW t \in Threads, Return(t) PROVE Kept(t)
  BY DEF Kept, Return, Update, Blank, Inv, TypeOK

LEMMA KeptConclude == ASSUME Inv, NEW t \in Threads, NEW x, Conclude(t, x) PROVE Kept(t)
  BY DEF Kept, Conclude, Update, Locals, Inv, TypeOK

LEMMA KeptUnchanged == ASSUME UNCHANGED mem, NEW t \in Threads PROVE Kept(t)
  BY DEF Kept

LEMMA KeptUpdate ==
  ASSUME Inv, NEW t \in Threads, NEW m, Update(t, m), m.next \in {mem[t].next, "RUNNING"}
  PROVE  Kept(t)
  BY DEF Kept, Update, Inv, TypeOK

LEMMA KeptEvaluate ==
  ASSUME Inv, NEW t \in Threads, EvaluateTask(t), NextTask(row) # "COMPLETED"
  PROVE  Kept(t) \/ (mem'[t].next # "COMPLETED" /\ \A u \in Threads \ {t} : mem'[u] = mem[u])
  <1>0. mem[t] \in Locals
    BY DEF Inv, TypeOK
  <1>1. CASE LoadTask(t) \/ SetTask(t)
    BY <1>1, KeptReturn, KeptUnchanged DEF LoadTask, SetTask
  <1>2. CASE LoadStages(t)
    <2> DEFINE m == [mem[t] EXCEPT !.todo = Ready(row), !.wake = Woken(row),
                                   !.follow = Followed(row), !.next = NextTask(row)]
    <2>1. m.next = NextTask(row)
      BY <1>0 DEF Locals
    <2> HIDE DEF m
    <2>2. Update(t, m)
      BY <1>2 DEF LoadStages, m
    <2> QED
      BY <2>1, <2>2 DEF Update, Inv, TypeOK
  <1>3. CASE QueueStage(t)
    <2> PICK s \in Stages : Update(t, [mem[t] EXCEPT !.todo = @ \ {s}])
      BY <1>0, <1>3 DEF QueueStage, Locals
    <2> QED
      BY <1>0, KeptUpdate DEF Locals
  <1>4. CASE StartGoroutines(t)
    <2>1. [mem[t] EXCEPT !.wake = {}, !.follow = {}].next = mem[t].next
      BY <1>0 DEF Locals
    <2> QED
      BY <1>4, <2>1, KeptUpdate DEF StartGoroutines
  <1> QED
    BY <1>1, <1>2, <1>3, <1>4 DEF EvaluateTask

LEMMA KeptSaveReset ==
  ASSUME Inv, NEW t \in Threads, SaveStage(t) \/ ResetStage(t)
  PROVE  Kept(t)
  <1>0. mem[t] \in Locals
    BY DEF Inv, TypeOK
  <1>1. CASE SaveStage(t)
    <2>1. [mem[t] EXCEPT !.cell = FreshRow].next = mem[t].next
      BY <1>0 DEF Locals
    <2> QED
      BY <1>1, <2>1, KeptUpdate DEF SaveStage
  <1>2. CASE ResetStage(t)
    <2> PICK s \in mem[t].todo : Update(t, [mem[t] EXCEPT !.todo = @ \ {s}])
      BY <1>2 DEF ResetStage
    <2> QED
      BY <1>0, KeptUpdate DEF Locals
  <1> QED
    BY <1>1, <1>2

LEMMA KeptStart ==
  ASSUME Inv, NEW s \in Stages, StartDispatch(s) \/ \E j \in JobIds : StartPoll(s, j)
  PROVE  UNCHANGED mem \/ \E t \in Threads : Kept(t)
  <1>1. ASSUME NEW g \in Workers, Update(g, [Blank EXCEPT !.role = "dispatch", !.stage = s])
        PROVE  Kept(g)
    BY <1>1, KeptUpdate DEF Blank, Threads
  <1>2. ASSUME NEW g \in Workers, NEW j \in JobIds,
               Update(g, [Blank EXCEPT !.role = "poll", !.stage = s, !.job = j])
        PROVE  Kept(g)
    BY <1>2, KeptUpdate DEF Blank, Threads
  <1> QED
    BY <1>1, <1>2 DEF StartDispatch, StartPoll, Threads

LEMMA KeptDispatch == ASSUME Inv, NEW g \in Threads, DispatchStage(g) PROVE Kept(g)
  <1> USE DEF durable, history
  <1>0. mem[g] \in Locals
    BY DEF Inv, TypeOK
  <1>1. CASE MarkDispatching(g) \/ MarkRunning(g) \/ AttachJob(g)
    BY <1>1, KeptReturn, KeptUnchanged DEF MarkDispatching, MarkRunning, AttachJob
  <1>2. CASE AgentSucceeds(g) \/ AgentFails(g) \/ JobRefused(g)
    BY <1>2, KeptConclude DEF AgentSucceeds, AgentFails, JobRefused
  <1>3. CASE ReadStage(g)
    <2>1. [mem[g] EXCEPT !.cell = row[mem[g].stage]].next = mem[g].next
      BY <1>0 DEF Locals
    <2> QED
      BY <1>3, <2>1, KeptReturn, KeptUpdate DEF ReadStage
  <1>4. CASE AgentConnectionDropped(g)
    <2>1. [mem[g] EXCEPT !.tries = @ + 1].next = mem[g].next
      BY <1>0 DEF Locals
    <2> QED
      BY <1>4, <2>1, KeptUpdate DEF AgentConnectionDropped
  <1>5. CASE JobAccepted(g)
    <2> PICK j \in JobIds : Update(g, [mem[g] EXCEPT !.job = j])
      BY <1>5 DEF JobAccepted
    <2> QED
      BY <1>0, KeptUpdate DEF Locals
  <1> QED
    BY <1>1, <1>2, <1>3, <1>4, <1>5 DEF DispatchStage

LEMMA KeptPoll == ASSUME Inv, NEW g \in Threads, PollEDARun(g) PROVE Kept(g)
  <1> USE DEF durable, history
  <1>0. mem[g] \in Locals
    BY DEF Inv, TypeOK
  <1>1. CASE PollStatus(g)
    <2>1. [mem[g] EXCEPT !.verdict = jobs[mem[g].job].state,
                         !.cell = row[mem[g].stage]].next = mem[g].next
      BY <1>0 DEF Locals
    <2> QED
      BY <1>1, <2>1, KeptUpdate DEF PollStatus
  <1>2. CASE WriteProgress(g)
    <2>1. [mem[g] EXCEPT !.verdict = "absent", !.cell = FreshRow].next = mem[g].next
      BY <1>0 DEF Locals
    <2> QED
      BY <1>2, <2>1, KeptUpdate, KeptReturn, KeptConclude, KeptUnchanged DEF WriteProgress
  <1>3. CASE ClearRounds(g) \/ SpendRound(g) \/ SpendRoundUncounted(g)
    BY <1>3, KeptConclude, KeptUnchanged DEF ClearRounds, SpendRound, SpendRoundUncounted
  <1>4. CASE RepairReturns(g)
    <2>1. [mem[g] EXCEPT !.todo = {mem[g].stage} \cup Downstream[mem[g].stage]].next
            = mem[g].next
      BY <1>0 DEF Locals
    <2> QED
      BY <1>4, <2>1, KeptUpdate, KeptConclude DEF RepairReturns
  <1> QED
    BY <1>1, <1>2, <1>3, <1>4 DEF PollEDARun

LEMMA KeptServe == ASSUME Inv, NEW c \in Threads, Serve(c) PROVE Kept(c)
  <1>0. mem[c] \in Locals
    BY DEF Inv, TypeOK
  <1>1. ASSUME NEW s, RetryRequest(c, s) \/ RejectRequest(c, s) PROVE Kept(c)
    <2>1. [mem[c] EXCEPT !.todo = {s} \cup Downstream[s]].next = mem[c].next
      BY <1>0 DEF Locals
    <2> QED
      BY <1>1, <2>1, KeptUpdate DEF RetryRequest, RejectRequest
  <1>2. ASSUME NEW s, ApproveRequest(c, s) PROVE Kept(c)
    <2>1. [mem[c] EXCEPT !.stage = s].next = mem[c].next
      BY <1>0 DEF Locals
    <2> QED
      BY <1>2, <2>1, KeptUpdate DEF ApproveRequest
  <1>3. CASE ApproveStage(c)
    <2>1. [mem[c] EXCEPT !.cell = [row[mem[c].stage] EXCEPT !.status = "RELEASED"]].next
            = mem[c].next
      BY <1>0 DEF Locals
    <2> QED
      BY <1>3, <2>1, KeptUpdate DEF ApproveStage
  <1>4. CASE CancelRequest(c)
    BY <1>4, KeptUnchanged DEF CancelRequest
  <1> QED
    BY <1>1, <1>2, <1>3, <1>4 DEF Serve

LEMMA NextStatusStep ==
  ASSUME Inv, [Next]_vars, NEW t \in Threads, mem'[t].next = "COMPLETED"
  PROVE  mem[t].next = "COMPLETED" \/ NextTask(row) = "COMPLETED"
  <1>1. CASE UNCHANGED mem \/ \E u \in Threads : Kept(u)
    BY <1>1 DEF Kept
  <1>2. CASE \E u \in Threads : EvaluateTask(u)
    BY <1>2, KeptEvaluate DEF Kept
  <1>3. CASE Crash
    BY <1>3 DEF Crash, Blank
  <1> QED
    BY <1>1, <1>2, <1>3, KeptSaveReset, KeptStart, KeptDispatch, KeptPoll, KeptServe
       DEF Next, vars, Threads, RunOnce, JobEnds

\* The task row takes the status of some goroutine, or is cancelled.
LEMMA TaskStep ==
  ASSUME Inv, [Next]_vars, task' = "COMPLETED"
  PROVE  task = "COMPLETED" \/ \E t \in Threads : mem[t].next = "COMPLETED"
  <1> USE DEF durable, history
  <1>1. CASE \E t \in Threads : EvaluateTask(t)
    BY <1>1 DEF EvaluateTask, LoadTask, LoadStages, QueueStage, StartGoroutines, SetTask
  <1>2. CASE \E g \in Workers : DispatchStage(g)
    BY <1>2 DEF DispatchStage, ReadStage, MarkDispatching, MarkRunning, AgentConnectionDropped,
       AgentSucceeds, AgentFails, JobAccepted, JobRefused, AttachJob
  <1>3. CASE \E g \in Workers : PollEDARun(g)
    BY <1>3 DEF PollEDARun, PollStatus, WriteProgress, ClearRounds, SpendRound,
       SpendRoundUncounted, RepairReturns
  <1>4. CASE \E c \in Clients : Serve(c)
    BY <1>4 DEF Serve, RetryRequest, RejectRequest, ApproveRequest, ApproveStage, CancelRequest
  <1> QED
    BY <1>1, <1>2, <1>3, <1>4
       DEF Next, vars, RunOnce, SaveStage, ResetStage, StartDispatch, StartPoll, JobEnds, Crash

\* A task shown as COMPLETED has finished every stage and had every gate released
\* by a reviewer, however old the snapshot its status was derived from.
THEOREM CompletedReviewed == Spec => []CompletedIsReviewed
  <1>1. Init => Completed
    BY DEF Init, Completed, Blank
  <1>2. Inv /\ Inv' /\ Review /\ Completed /\ [Next]_vars => Completed'
    BY AllReviewedStays, SnapshotCompleted, NextStatusStep, TaskStep DEF Completed
  <1>3. Completed => CompletedIsReviewed
    BY DEF Completed, CompletedIsReviewed, AllReviewed
  <1> QED
    BY <1>1, <1>2, <1>3, InitType, NextType, InitReviewed, NextReviewed, PTL DEF Spec

-----------------------------------------------------------------------------
(* Evidence and ownership of jobs: Backed is inductive *)

\* Jobs and agents' answers are never taken back.
JobsKept ==
    /\ answered \subseteq answered'
    /\ \A j \in JobIds : jobs[j].state # "absent" =>
          /\ jobs'[j].stage = jobs[j].stage
          /\ jobs'[j].state # "absent"
          /\ jobs[j].state = "pass" => jobs'[j].state = "pass"

\* jobs and answered change in five steps only.
LEMMA OnlyJobSteps ==
  ASSUME [Next]_vars
  PROVE  \/ UNCHANGED <<jobs, answered>>
         \/ \E g \in Workers : AgentSucceeds(g) \/ JobAccepted(g) \/ JobRefused(g)
         \/ \E j \in JobIds : JobEnds(j)
  <1> USE DEF durable, history
  <1>1. CASE \E t \in Threads : EvaluateTask(t)
    BY <1>1 DEF EvaluateTask, LoadTask, LoadStages, QueueStage, StartGoroutines, SetTask
  <1>2. CASE \E g \in Workers : DispatchStage(g)
    BY <1>2 DEF DispatchStage, ReadStage, MarkDispatching, MarkRunning, AgentConnectionDropped,
       AgentFails, AttachJob
  <1>3. CASE \E g \in Workers : PollEDARun(g)
    BY <1>3 DEF PollEDARun, PollStatus, WriteProgress, ClearRounds, SpendRound,
       SpendRoundUncounted, RepairReturns
  <1>4. CASE \E c \in Clients : Serve(c)
    BY <1>4 DEF Serve, RetryRequest, RejectRequest, ApproveRequest, ApproveStage, CancelRequest
  <1> QED
    BY <1>1, <1>2, <1>3, <1>4
       DEF Next, vars, RunOnce, SaveStage, ResetStage, StartDispatch, StartPoll, Crash

LEMMA NewJobKept ==
  ASSUME Inv, NEW s \in Stages, NEW i \in JobIds, NewJob(s, i), UNCHANGED answered
  PROVE  JobsKept
  BY DEF Inv, TypeOK, NewJob, JobsKept

LEMMA NextJobsKept ==
  ASSUME Inv, [Next]_vars
  PROVE  JobsKept
  <1> USE DEF Inv, TypeOK
  <1>1. CASE UNCHANGED <<jobs, answered>>
    BY <1>1 DEF JobsKept
  <1>2. ASSUME NEW g \in Workers, AgentSucceeds(g) PROVE JobsKept
    BY <1>2 DEF AgentSucceeds, JobsKept, durable
  <1>3. ASSUME NEW g \in Workers, JobAccepted(g) \/ JobRefused(g) PROVE JobsKept
    <2>1. mem[g].stage \in Stages /\ UNCHANGED answered
      BY <1>3 DEF JobAccepted, JobRefused, At, Bound, Committed, Threads, history
    <2>2. CASE UNCHANGED jobs
      BY <2>1, <2>2 DEF JobsKept
    <2>3. CASE \E i \in JobIds : NewJob(mem[g].stage, i)
      BY <2>1, <2>3, NewJobKept
    <2> QED
      BY <1>3, <2>2, <2>3 DEF JobAccepted, JobRefused
  <1>4. ASSUME NEW i \in JobIds, JobEnds(i) PROVE JobsKept
    BY <1>4 DEF JobEnds, JobsKept, Outcomes, Verdicts, history
  <1> QED
    BY <1>1, <1>2, <1>3, <1>4, OnlyJobSteps

LEMMA EvidenceStays ==
  ASSUME Inv, Inv', JobsKept
  PROVE  /\ \A s, j : j \in JobIds /\ Owns(s, j) => Owns(s, j)'
         /\ \A s \in Stages : Evidence(s) => Evidence(s)'
  <1>1. ASSUME NEW s, NEW j \in JobIds, Owns(s, j) PROVE Owns(s, j)'
    BY <1>1 DEF JobsKept, Owns
  <1>2. ASSUME NEW s \in Stages, NEW j \in JobIds, jobs[j] = [stage |-> s, state |-> "pass"]
        PROVE  jobs'[j] = [stage |-> s, state |-> "pass"]
    <2>1. jobs[j].stage = s /\ jobs[j].state = "pass"
      BY <1>2
    <2>2. jobs'[j].stage = s /\ jobs'[j].state = "pass"
      BY <2>1 DEF JobsKept
    <2>3. jobs'[j] \in [stage : Stages \cup {NoStage}, state : JobStates]
      BY DEF Inv, TypeOK
    <2> QED
      BY <2>2, <2>3
  <1> QED
    BY <1>1, <1>2 DEF Evidence, JobsKept

\* A job of its own that ended with a pass is evidence for a stage.
LEMMA PassIsEvidence ==
  ASSUME Inv, NEW s, NEW j \in JobIds, Owns(s, j), jobs[j].state = "pass"
  PROVE  Evidence(s)
  BY DEF Inv, TypeOK, Owns, Evidence

LEMMA RowBackedStays ==
  ASSUME Inv, Inv', JobsKept, NEW s \in Stages, NEW r \in Row, RowBacked(s, r)
  PROVE  RowBacked(s, r)'
  BY EvidenceStays DEF RowBacked, OwnsIfAny, Claims, Row

LEMMA CopyBackedStays ==
  ASSUME Inv, Inv', JobsKept, NEW l \in Labels, NEW m \in Locals, CopyBacked(l, m),
         l \in Committed => m.stage \in Stages,
         l \in {"poll", "progress", "attach"} => m.job \in JobIds
  PROVE  CopyBacked(l, m)'
  <1>1. m.cell \in Row /\ m.job \in JobIds \cup {NoJob} /\ m.follow \subseteq Stages \X JobIds
    BY DEF Locals
  <1>2. \A w \in m.follow : Owns(w[1], w[2])'
    BY <1>1, EvidenceStays DEF CopyBacked
  <1>3. l \in Holding => OwnsIfAny(m.stage, m.cell.ext)'
    BY <1>1, EvidenceStays DEF CopyBacked, OwnsIfAny, Row
  <1>4. l \in {"attach", "poll", "progress"} => Owns(m.stage, m.job)'
    <2> SUFFICES ASSUME l \in {"attach", "poll", "progress"}
                 PROVE  Owns(m.stage, m.job)'
      OBVIOUS
    <2>1. Owns(m.stage, m.job) /\ m.job \in JobIds
      BY DEF CopyBacked
    <2> QED
      BY <2>1, EvidenceStays
  <1>5. l = "progress" => RowBacked(m.stage, m.cell)'
    BY <1>1, RowBackedStays DEF CopyBacked, Committed
  <1>6. (l \in {"progress", "clear"} /\ m.verdict = "pass") => Evidence(m.stage)'
    BY EvidenceStays DEF CopyBacked, Committed
  <1>7. l = "save" => Claims(m.stage, m.cell.status)'
    BY EvidenceStays DEF CopyBacked, Committed, Claims
  <1> QED
    BY <1>2, <1>3, <1>4, <1>5, <1>6, <1>7 DEF CopyBacked

\* One row is written, and what is written is backed.
LEMMA RowsBackedStep ==
  ASSUME Inv, Inv', Backed, JobsKept, NEW s \in Stages, NEW r \in Row,
         row' = [row EXCEPT ![s] = r], RowBacked(s, r)'
  PROVE  RowsBacked'
  <1> SUFFICES ASSUME NEW u \in Stages PROVE RowBacked(u, row[u])'
    BY DEF RowsBacked
  <1>1. CASE u = s
    BY <1>1 DEF Inv, TypeOK
  <1>2. CASE u # s
    <2> DEFINE q == row[u]
    <2>1. row'[u] = row[u] /\ row[u] \in Row /\ RowBacked(u, row[u])
      BY <1>2 DEF Inv, TypeOK, Backed, RowsBacked
    <2> PICK r2 \in Row : r2 = row[u]
      BY <2>1
    <2>2. RowBacked(u, r2)'
      BY <2>1, RowBackedStays
    <2> QED
      BY <2>1, <2>2
  <1> QED
    BY <1>1, <1>2

LEMMA RowsBackedStay ==
  ASSUME Inv, Inv', Backed, JobsKept, UNCHANGED row
  PROVE  RowsBacked'
  <1> SUFFICES ASSUME NEW u \in Stages PROVE RowBacked(u, row[u])'
    BY DEF RowsBacked
  <1> PICK r \in Row : r = row[u]
    BY DEF Inv, TypeOK
  <1>1. RowBacked(u, r)'
    BY RowBackedStays DEF Backed, RowsBacked
  <1> QED
    BY <1>1

\* A waiting poller was waiting before, or it is one for a job of this stage.
LEMMA WatchesBackedStep ==
  ASSUME Inv, Inv', Backed, JobsKept,
         \A s \in Stages, j \in JobIds : watched'[<<s, j>>] > 0 =>
            watched[<<s, j>>] > 0 \/ Owns(s, j)
  PROVE  WatchesBacked'
  BY EvidenceStays DEF Backed, WatchesBacked

\* Everybody else's copy stays backed while one goroutine moves.
LEMMA MoveBacked ==
  ASSUME Inv, Inv', Backed, JobsKept, NEW t \in Threads, NEW l, NEW m,
         pc' = [pc EXCEPT ![t] = l], mem' = [mem EXCEPT ![t] = m], CopyBacked(l, m)'
  PROVE  CopiesBacked'
  <1> SUFFICES ASSUME NEW u \in Threads PROVE CopyBacked(pc[u], mem[u])'
    BY DEF CopiesBacked
  <1>1. CASE u = t
    BY <1>1 DEF Inv, TypeOK
  <1>2. CASE u # t
    <2> PICK l2 \in Labels, m2 \in Locals : l2 = pc[u] /\ m2 = mem[u]
      BY DEF Inv, TypeOK
    <2>1. /\ CopyBacked(l2, m2)
          /\ l2 \in Committed => m2.stage \in Stages
          /\ l2 \in {"poll", "progress", "attach"} => m2.job \in JobIds
      BY DEF Backed, CopiesBacked, Inv, Bound
    <2>2. CopyBacked(l2, m2)'
      BY <2>1, CopyBackedStays
    <2>3. pc'[u] = l2 /\ mem'[u] = m2
      BY <1>2 DEF Inv, TypeOK
    <2> QED
      BY <2>2, <2>3
  <1> QED
    BY <1>1, <1>2

\* The same when the moving goroutine's copy is backed before the step already.
LEMMA MoveBackedBefore ==
  ASSUME Inv, Inv', Backed, JobsKept, NEW t \in Threads, NEW l \in Labels, NEW m \in Locals,
         Goto(t, l), Update(t, m), CopyBacked(l, m)
  PROVE  CopiesBacked'
  <1>1. pc'[t] = l /\ mem'[t] = m
    BY DEF Goto, Update, Inv, TypeOK
  <1>2. /\ l \in Committed => m.stage \in Stages
        /\ l \in {"poll", "progress", "attach"} => m.job \in JobIds
    BY <1>1 DEF Inv, Bound
  <1>3. CopyBacked(l, m)'
    BY <1>2, CopyBackedStays
  <1> QED
    BY <1>3, MoveBacked DEF Goto, Update

LEMMA GotoBacked ==
  ASSUME Inv, Inv', Backed, JobsKept, NEW t \in Threads, NEW l \in Labels,
         Goto(t, l), UNCHANGED mem, CopyBacked(l, mem[t])
  PROVE  CopiesBacked'
  <1> PICK m \in Locals : m = mem[t]
    BY DEF Inv, TypeOK
  <1>1. Update(t, m) /\ CopyBacked(l, m)
    BY DEF Update, Inv, TypeOK
  <1> QED
    BY <1>1, MoveBackedBefore

LEMMA ReturnBacked ==
  ASSUME Inv, Inv', Backed, JobsKept, NEW t \in Threads, Return(t)
  PROVE  CopiesBacked'
  <1>1. CopyBacked("idle", Blank)
    BY DEF CopyBacked, Blank, Holding, Handling
  <1> QED
    BY <1>1, BlankType, MoveBackedBefore DEF Return, Labels

LEMMA ConcludeBacked ==
  ASSUME Inv, Inv', Backed, JobsKept, NEW t \in Threads, NEW x \in Final, Conclude(t, x),
         pc[t] \in Holding, NEW s \in Stages, s = mem[t].stage, Claims(s, x)'
  PROVE  CopiesBacked'
  <1> DEFINE m == [mem[t] EXCEPT !.cell = [@ EXCEPT !.status = x], !.job = NoJob,
                                 !.verdict = "absent", !.tries = 0]
  <1>1. mem[t] \in Locals /\ mem[t].cell \in Row
    BY DEF Inv, TypeOK, Locals
  <1>2. /\ m.stage = s /\ m.follow = mem[t].follow
        /\ m.cell.status = x /\ m.cell.ext = mem[t].cell.ext
    BY <1>1 DEF Locals, Row
  <1> PICK e \in JobIds \cup {NoJob}, f \in SUBSET (Stages \X JobIds) :
        e = mem[t].cell.ext /\ f = mem[t].follow
    BY <1>1 DEF Locals, Row
  <1>3. (\A w \in f : Owns(w[1], w[2])) /\ OwnsIfAny(s, e)
    BY DEF Backed, CopiesBacked, CopyBacked
  <1>4. (\A w \in f : Owns(w[1], w[2])') /\ OwnsIfAny(s, e)'
    BY <1>3, EvidenceStays DEF OwnsIfAny
  <1>5. pc' = [pc EXCEPT ![t] = "save"] /\ mem' = [mem EXCEPT ![t] = m]
    BY DEF Conclude, Goto, Update
  <1> HIDE DEF m
  <1> PICK k : k = m
    OBVIOUS
  <1>6. k.stage = s /\ k.follow = f /\ k.cell.status = x /\ k.cell.ext = e
    BY <1>2
  <1>7. CopyBacked("save", k)'
    BY <1>4, <1>6 DEF CopyBacked, Holding, Handling
  <1> QED
    BY <1>5, <1>7, MoveBacked

LEMMA EvaluateBacked ==
  ASSUME Inv, Inv', Backed, JobsKept, NEW t \in Threads, EvaluateTask(t)
  PROVE  Backed'
  <1> USE DEF durable, history
  <1>0. mem[t] \in Locals /\ \A w \in mem[t].follow : Owns(w[1], w[2])
    BY DEF Inv, TypeOK, Backed, CopiesBacked, CopyBacked
  <1>1. CASE LoadTask(t)
    <2>1. RowsBacked' /\ WatchesBacked'
      BY <1>1, RowsBackedStay, WatchesBackedStep DEF LoadTask
    <2>2. CASE Return(t)
      BY <2>1, <2>2, ReturnBacked DEF Backed
    <2>3. CASE Goto(t, "load_stages") /\ UNCHANGED mem
      <3>1. CopyBacked("load_stages", mem[t])
        BY <1>0 DEF CopyBacked, Holding, Handling
      <3> QED
        BY <2>1, <2>3, <3>1, GotoBacked DEF Backed, Labels
    <2> QED
      BY <1>1, <2>2, <2>3 DEF LoadTask
  <1>2. CASE LoadStages(t)
    <2> DEFINE m == [mem[t] EXCEPT !.todo = Ready(row), !.wake = Woken(row),
                                   !.follow = Followed(row), !.next = NextTask(row)]
    <2>1. RowsBacked' /\ WatchesBacked'
      BY <1>2, RowsBackedStay, WatchesBackedStep DEF LoadStages
    <2>2. m \in Locals /\ m.follow = Followed(row)
      BY <1>0, SnapshotType DEF Locals, Inv, TypeOK
    <2>3. \A w \in Followed(row) : Owns(w[1], w[2])
      BY DEF Followed, Backed, RowsBacked, RowBacked, OwnsIfAny
    <2>4. Goto(t, "queue") /\ Update(t, m)
      BY <1>2 DEF LoadStages
    <2> HIDE DEF m
    <2>5. CopyBacked("queue", m)
      BY <2>2, <2>3 DEF CopyBacked, Holding, Handling
    <2> QED
      BY <2>1, <2>2, <2>4, <2>5, MoveBackedBefore DEF Backed, Labels
  <1>3. CASE QueueStage(t)
    <2> PICK s \in mem[t].todo :
          /\ row' = [row EXCEPT ![s] = [FreshRow EXCEPT !.status = "QUEUED"]]
          /\ Update(t, [mem[t] EXCEPT !.todo = @ \ {s}])
      BY <1>3 DEF QueueStage
    <2> DEFINE m == [mem[t] EXCEPT !.todo = @ \ {s}]
               r == [FreshRow EXCEPT !.status = "QUEUED"]
    <2>1. m \in Locals /\ m.follow = mem[t].follow /\ s \in Stages
      BY <1>0 DEF Locals
    <2>2. r \in Row /\ RowBacked(s, r)'
      BY DEF Row, FreshRow, StageStatus, RowBacked, OwnsIfAny, Claims
    <2>3. Goto(t, "queue") /\ Update(t, m) /\ UNCHANGED watched
      BY <1>3 DEF QueueStage, Goto, At, Inv, TypeOK
    <2> HIDE DEF m
    <2>4. CopyBacked("queue", m)
      BY <1>0, <2>1 DEF CopyBacked, Holding, Handling
    <2>5. RowsBacked' /\ WatchesBacked'
      BY <2>1, <2>2, <2>3, RowsBackedStep, WatchesBackedStep
    <2> QED
      BY <2>1, <2>3, <2>4, <2>5, MoveBackedBefore DEF Backed, Labels
  <1>4. CASE StartGoroutines(t)
    <2> DEFINE m == [mem[t] EXCEPT !.wake = {}, !.follow = {}]
    <2>1. m \in Locals /\ m.follow = {}
      BY <1>0 DEF Locals
    <2>2. Goto(t, "set_task") /\ Update(t, m) /\ UNCHANGED row
      BY <1>4 DEF StartGoroutines
    <2> HIDE DEF m
    <2>3. CopyBacked("set_task", m)
      BY <2>1 DEF CopyBacked, Holding, Handling
    <2>4. RowsBacked'
      BY <2>2, RowsBackedStay
    <2>5. WatchesBacked'
      BY <1>0, <1>4, WatchesBackedStep DEF StartGoroutines, Inv, TypeOK
    <2> QED
      BY <2>1, <2>2, <2>3, <2>4, <2>5, MoveBackedBefore DEF Backed, Labels
  <1>5. CASE SetTask(t)
    BY <1>5, RowsBackedStay, WatchesBackedStep, ReturnBacked DEF SetTask, Backed
  <1> QED
    BY <1>1, <1>2, <1>3, <1>4, <1>5 DEF EvaluateTask

LEMMA SaveBacked ==
  ASSUME Inv, Inv', Backed, JobsKept, NEW t \in Threads, SaveStage(t)
  PROVE  Backed'
  <1> DEFINE m == [mem[t] EXCEPT !.cell = FreshRow]
  <1>0. /\ mem[t] \in Locals /\ mem[t].cell \in Row /\ mem[t].stage \in Stages
        /\ CopyBacked("save", mem[t])
    BY DEF SaveStage, At, Inv, TypeOK, Bound, Committed, Locals, Backed, CopiesBacked
  <1> PICK s \in Stages, c \in Row : s = mem[t].stage /\ c = mem[t].cell
    BY <1>0
  <1> DEFINE q == [c EXCEPT !.status = c.status]
  <1>r. q \in Row /\ q = c
    BY DEF Row
  <1>1. RowBacked(s, q)
    <2>1. q.status = mem[t].cell.status /\ q.ext = mem[t].cell.ext
      BY <1>r
    <2>2. /\ OwnsIfAny(mem[t].stage, mem[t].cell.ext)
          /\ Claims(mem[t].stage, mem[t].cell.status)
          /\ mem[t].cell.status # "NOT_STARTED"
      BY <1>0 DEF CopyBacked, Holding, Final
    <2> QED
      BY <2>1, <2>2 DEF RowBacked
  <1>2. row' = [row EXCEPT ![s] = q]
    BY DEF SaveStage, SaveRow
  <1>3. RowsBacked' /\ WatchesBacked'
    BY <1>1, <1>2, <1>r, RowBackedStays, RowsBackedStep, WatchesBackedStep DEF SaveStage
  <1>4. m \in Locals /\ m.follow = mem[t].follow
    BY <1>0, RowType DEF Locals
  <1>5. Goto(t, "load_task") /\ Update(t, m)
    BY DEF SaveStage
  <1> HIDE DEF m
  <1>6. CopyBacked("load_task", m)
    BY <1>0, <1>4 DEF CopyBacked, Holding, Handling
  <1> QED
    BY <1>3, <1>4, <1>5, <1>6, MoveBackedBefore DEF Backed, Labels

LEMMA ResetBacked ==
  ASSUME Inv, Inv', Backed, JobsKept, NEW t \in Threads, ResetStage(t)
  PROVE  Backed'
  <1> PICK s \in mem[t].todo :
        /\ row' = [row EXCEPT ![s] = FreshRow]
        /\ Update(t, [mem[t] EXCEPT !.todo = @ \ {s}])
        /\ pc' = [pc EXCEPT ![t] = IF mem[t].todo = {s} THEN "load_task" ELSE "reset"]
    BY DEF ResetStage
  <1> DEFINE m == [mem[t] EXCEPT !.todo = @ \ {s}]
  <1>0. mem[t] \in Locals /\ \A w \in mem[t].follow : Owns(w[1], w[2])
    BY DEF Inv, TypeOK, Backed, CopiesBacked, CopyBacked
  <1>1. m \in Locals /\ m.follow = mem[t].follow /\ s \in Stages
    BY <1>0 DEF Locals
  <1>2. RowBacked(s, FreshRow)'
    BY DEF FreshRow, RowBacked, OwnsIfAny, Claims
  <1>3. RowsBacked' /\ WatchesBacked'
    BY <1>1, <1>2, RowType, RowsBackedStep, WatchesBackedStep DEF ResetStage
  <1> PICK l \in {"load_task", "reset"} : Goto(t, l)
    BY DEF Goto
  <1>4. Update(t, m)
    OBVIOUS
  <1> HIDE DEF m
  <1>5. CopyBacked(l, m)
    BY <1>0, <1>1 DEF CopyBacked, Holding, Handling
  <1> QED
    BY <1>1, <1>3, <1>4, <1>5, MoveBackedBefore DEF Backed, Labels

LEMMA StartDispatchBacked ==
  ASSUME Inv, Inv', Backed, JobsKept, NEW s \in Stages, StartDispatch(s)
  PROVE  Backed'
  <1>1. RowsBacked' /\ WatchesBacked'
    BY RowsBackedStay, WatchesBackedStep DEF StartDispatch, durable
  <1>2. CASE UNCHANGED <<pc, mem>>
    <2>1. Goto(Tick, pc[Tick]) /\ Tick \in Threads /\ pc[Tick] \in Labels
      BY <1>2 DEF Goto, Threads, Inv, TypeOK
    <2>2. CopyBacked(pc[Tick], mem[Tick])
      BY <2>1 DEF Backed, CopiesBacked
    <2> QED
      BY <1>1, <1>2, <2>1, <2>2, GotoBacked DEF Backed
  <1> DEFINE m == [Blank EXCEPT !.role = "dispatch", !.stage = s]
  <1>3. CASE \E g \in Workers : Goto(g, "read_stage") /\ Update(g, m)
    <2>1. m \in Locals /\ m.follow = {}
      BY BlankType DEF Locals, Blank
    <2> HIDE DEF m
    <2>2. CopyBacked("read_stage", m)
      BY <2>1 DEF CopyBacked, Holding, Handling
    <2> QED
      BY <1>1, <1>3, <2>1, <2>2, MoveBackedBefore DEF Backed, Labels, Threads
  <1> QED
    BY <1>2, <1>3 DEF StartDispatch

LEMMA StartPollBacked ==
  ASSUME Inv, Inv', Backed, JobsKept, NEW s \in Stages, NEW j \in JobIds, StartPoll(s, j)
  PROVE  Backed'
  <1>1. Owns(s, j)
    BY DEF StartPoll, Backed, WatchesBacked
  <1>2. RowsBacked' /\ WatchesBacked'
    BY <1>1, RowsBackedStay, WatchesBackedStep DEF StartPoll, durable, Inv, TypeOK
  <1>3. CASE UNCHANGED <<pc, mem>>
    <2>1. Goto(Tick, pc[Tick]) /\ Tick \in Threads /\ pc[Tick] \in Labels
      BY <1>3 DEF Goto, Threads, Inv, TypeOK
    <2>2. CopyBacked(pc[Tick], mem[Tick])
      BY <2>1 DEF Backed, CopiesBacked
    <2> QED
      BY <1>2, <1>3, <2>1, <2>2, GotoBacked DEF Backed
  <1> DEFINE m == [Blank EXCEPT !.role = "poll", !.stage = s, !.job = j]
  <1>4. CASE \E g \in Workers : Goto(g, "poll") /\ Update(g, m)
    <2>1. m \in Locals /\ m.follow = {} /\ m.stage = s /\ m.job = j
      BY BlankType DEF Locals, Blank
    <2> HIDE DEF m
    <2>2. CopyBacked("poll", m)
      BY <1>1, <2>1 DEF CopyBacked, Holding, Handling, Owns
    <2> QED
      BY <1>2, <1>4, <2>1, <2>2, MoveBackedBefore DEF Backed, Labels, Threads
  <1> QED
    BY <1>3, <1>4 DEF StartPoll

LEMMA ParkedFinal == ASSUME NEW s \in Stages PROVE Parked(s) \in Final
  BY DEF Parked, Final

\* A step that only concludes: its rows and watchers are left alone.
LEMMA StillBacked ==
  ASSUME Inv, Inv', Backed, JobsKept, UNCHANGED <<row, watched>>
  PROVE  RowsBacked' /\ WatchesBacked'
  BY RowsBackedStay, WatchesBackedStep

LEMMA DispatchBacked ==
  ASSUME Inv, Inv', Backed, JobsKept, NEW g \in Threads, DispatchStage(g)
  PROVE  Backed'
  <1> USE DEF durable, history
  <1>0. /\ mem[g] \in Locals /\ mem[g].cell \in Row /\ CopyBacked(pc[g], mem[g])
        /\ pc[g] \in Committed \cup {"read_stage"} => mem[g].stage \in Stages
    BY DEF Inv, TypeOK, Bound, Backed, CopiesBacked, Locals
  <1>1. CASE ReadStage(g)
    <2>1. RowsBacked' /\ WatchesBacked'
      BY <1>1, StillBacked DEF ReadStage
    <2> DEFINE m == [mem[g] EXCEPT !.cell = row[mem[g].stage]]
    <2>2. CASE Return(g)
      BY <2>1, <2>2, ReturnBacked DEF Backed
    <2>3. CASE Goto(g, "mark") /\ Update(g, m)
      <3>1. mem[g].stage \in Stages /\ row[mem[g].stage] \in Row
        BY <1>0, <1>1 DEF ReadStage, At, Inv, TypeOK
      <3>2. /\ m \in Locals /\ m.stage = mem[g].stage /\ m.follow = mem[g].follow
            /\ m.cell = row[mem[g].stage]
        BY <1>0, <3>1 DEF Locals
      <3> HIDE DEF m
      <3>3. CopyBacked("mark", m)
        BY <1>0, <3>1, <3>2 DEF CopyBacked, Holding, Handling, Backed, RowsBacked, RowBacked
      <3> QED
        BY <2>1, <2>3, <3>2, <3>3, MoveBackedBefore DEF Backed, Labels
    <2> QED
      BY <1>1, <2>2, <2>3 DEF ReadStage
  <1>2. ASSUME NEW x \in {"DISPATCHING", "RUNNING"}, SaveRow(g, x), UNCHANGED watched,
               pc[g] \in Holding, mem[g].stage \in Stages
        PROVE  RowsBacked' /\ WatchesBacked'
    <2> PICK s \in Stages : s = mem[g].stage
      BY <1>2
    <2> DEFINE r == [mem[g].cell EXCEPT !.status = x]
    <2>1. r \in Row /\ r.status = x /\ r.ext = mem[g].cell.ext
      BY <1>0 DEF Row, StageStatus
    <2>2. row' = [row EXCEPT ![s] = r]
      BY <1>2 DEF SaveRow
    <2> HIDE DEF r
    <2> PICK q \in Row : q = r
      BY <2>1
    <2>3. RowBacked(s, q)
      BY <1>0, <1>2, <2>1 DEF CopyBacked, RowBacked, Claims
    <2> QED
      BY <1>2, <2>2, <2>3, RowBackedStays, RowsBackedStep, WatchesBackedStep
  <1>3. CASE MarkDispatching(g)
    <2>1. RowsBacked' /\ WatchesBacked'
      BY <1>0, <1>2, <1>3 DEF MarkDispatching, At, Holding, Committed
    <2>2. CopyBacked("mark_running", mem[g])
      BY <1>0, <1>3 DEF MarkDispatching, At, CopyBacked, Holding, Handling
    <2> QED
      BY <1>3, <2>1, <2>2, GotoBacked DEF MarkDispatching, Backed, Labels
  <1>4. CASE MarkRunning(g)
    <2>1. RowsBacked' /\ WatchesBacked'
      BY <1>0, <1>2, <1>4 DEF MarkRunning, At, Holding, Committed
    <2> PICK l \in {"invoke", "create_job"} :
          Goto(g, l) /\ (l = "invoke" <=> mem[g].stage \in AgentStages)
      BY <1>4 DEF MarkRunning
    <2>2. CopyBacked(l, mem[g])
      BY <1>0, <1>4 DEF MarkRunning, At, CopyBacked, Holding, Handling
    <2> QED
      BY <1>4, <2>1, <2>2, GotoBacked DEF MarkRunning, Backed, Labels
  <1>5. CASE AgentConnectionDropped(g)
    <2> DEFINE m == [mem[g] EXCEPT !.tries = @ + 1]
    <2>0. m \in Locals
      BY <1>0, <1>5, LocalsType DEF AgentConnectionDropped
    <2>1. m.stage = mem[g].stage /\ m.follow = mem[g].follow /\ m.cell = mem[g].cell
      BY <1>0 DEF Locals
    <2>2. Goto(g, "invoke") /\ Update(g, m) /\ pc[g] = "invoke"
      BY <1>5 DEF AgentConnectionDropped, Goto, At, Inv, TypeOK
    <2> HIDE DEF m
    <2>3. CopyBacked("invoke", m)
      BY <1>0, <2>1, <2>2 DEF CopyBacked, Holding, Handling
    <2> QED
      BY <1>5, <2>0, <2>2, <2>3, StillBacked, MoveBackedBefore
         DEF AgentConnectionDropped, Backed, Labels
  <1>6. CASE AgentSucceeds(g)
    <2> PICK s \in Stages : s = mem[g].stage
      BY <1>0, <1>6 DEF AgentSucceeds, At, Committed
    <2>1. s \in AgentStages /\ pc[g] \in Holding
      BY <1>0, <1>6 DEF AgentSucceeds, At, CopyBacked, Holding
    <2>2. Claims(s, Parked(s))'
      BY <1>6, <2>1 DEF AgentSucceeds, Claims, Evidence
    <2>3. Conclude(g, Parked(s)) /\ UNCHANGED <<row, watched>>
      BY <1>6 DEF AgentSucceeds
    <2> QED
      BY <2>1, <2>2, <2>3, ParkedFinal, StillBacked, ConcludeBacked DEF Backed
  <1>7. CASE AgentFails(g) \/ JobRefused(g)
    <2> PICK s \in Stages : s = mem[g].stage
      BY <1>0, <1>7 DEF AgentFails, JobRefused, At, Committed
    <2>1. /\ Conclude(g, "FAILED") /\ UNCHANGED <<row, watched>>
          /\ pc[g] \in Holding /\ "FAILED" \in Final
      BY <1>7 DEF AgentFails, JobRefused, At, Holding, Final
    <2>2. Claims(s, "FAILED")'
      BY DEF Claims
    <2> QED
      BY <2>1, <2>2, StillBacked, ConcludeBacked DEF Backed
  <1>8. CASE JobAccepted(g)
    <2> PICK s \in Stages : s = mem[g].stage
      BY <1>0, <1>8 DEF JobAccepted, At, Committed
    <2> PICK j \in JobIds : NewJob(s, j) /\ Update(g, [mem[g] EXCEPT !.job = j])
      BY <1>8 DEF JobAccepted
    <2> DEFINE m == [mem[g] EXCEPT !.job = j]
    <2>1. /\ m \in Locals /\ m.stage = s /\ m.follow = mem[g].follow /\ m.job = j
          /\ m.cell = mem[g].cell
      BY <1>0 DEF Locals
    <2>2. /\ Goto(g, "attach") /\ Update(g, m) /\ UNCHANGED <<row, watched>>
          /\ pc[g] = "create_job"
      BY <1>8 DEF JobAccepted, At
    <2> HIDE DEF m
    <2> PICK k \in Locals : k = m
      BY <2>1
    <2>3. s \notin AgentStages
      BY <1>0, <2>2 DEF CopyBacked, Handling
    <2>4. Owns(s, j)'
      BY <2>3 DEF NewJob, Owns, Inv, TypeOK
    <2>5. \A w \in k.follow : Owns(w[1], w[2])'
      BY <1>0, <2>1, EvidenceStays DEF CopyBacked, Locals
    <2>6. CopyBacked("attach", k)'
      BY <2>1, <2>3, <2>4, <2>5 DEF CopyBacked, Holding, Handling
    <2> QED
      BY <2>2, <2>6, StillBacked, MoveBacked DEF Goto, Update, Backed
  <1>9. CASE AttachJob(g)
    <2> PICK s \in Stages, j \in JobIds : s = mem[g].stage /\ j = mem[g].job
      BY <1>0, <1>9 DEF AttachJob, At, Committed, Inv, Bound
    <2>1. Owns(s, j)
      BY <1>0, <1>9 DEF AttachJob, At, CopyBacked
    <2> DEFINE r == [status |-> "RUNNING", ext |-> j]
    <2>2. r \in Row /\ RowBacked(s, r)
      BY <2>1 DEF Row, StageStatus, RowBacked, OwnsIfAny, Claims
    <2>3. row' = [row EXCEPT ![s] = r]
      BY <1>9 DEF AttachJob
    <2> HIDE DEF r
    <2> PICK q \in Row : q = r
      BY <2>2
    <2>4. RowsBacked'
      BY <2>2, <2>3, RowBackedStays, RowsBackedStep
    <2>5. \A w \in Stages \X JobIds : watched'[w] > 0 => watched[w] > 0 \/ w = <<s, j>>
      BY <1>9 DEF AttachJob, Inv, TypeOK
    <2>6. WatchesBacked'
      BY <2>1, <2>5, WatchesBackedStep
    <2> QED
      BY <1>9, <2>4, <2>6, ReturnBacked DEF AttachJob, Backed
  <1> QED
    BY <1>1, <1>3, <1>4, <1>5, <1>6, <1>7, <1>8, <1>9 DEF DispatchStage

LEMMA PollBacked ==
  ASSUME Inv, Inv', Backed, JobsKept, NEW g \in Threads, PollEDARun(g)
  PROVE  Backed'
  <1> USE DEF durable, history
  <1>0. /\ mem[g] \in Locals /\ mem[g].cell \in Row /\ CopyBacked(pc[g], mem[g])
        /\ pc[g] \in Committed => mem[g].stage \in Stages
        /\ pc[g] \in {"poll", "progress", "attach"} => mem[g].job \in JobIds
    BY DEF Inv, TypeOK, Bound, Backed, CopiesBacked, Locals
  <1>1. CASE PollStatus(g)
    <2> PICK s \in Stages, j \in JobIds : s = mem[g].stage /\ j = mem[g].job
      BY <1>0, <1>1 DEF PollStatus, At, Committed
    <2> DEFINE m == [mem[g] EXCEPT !.verdict = jobs[mem[g].job].state,
                                   !.cell = row[mem[g].stage]]
    <2>1. row[s] \in Row /\ jobs[j].state \in JobStates /\ RowBacked(s, row[s]) /\ Owns(s, j)
      BY <1>0, <1>1 DEF Inv, TypeOK, Backed, RowsBacked, CopyBacked, PollStatus, At
    <2>2. /\ m \in Locals /\ m.stage = s /\ m.follow = mem[g].follow /\ m.job = j
          /\ m.cell = row[s] /\ m.verdict = jobs[j].state
      BY <1>0, <2>1 DEF Locals
    <2>3. Goto(g, "progress") /\ Update(g, m) /\ UNCHANGED <<row, watched>>
      BY <1>1 DEF PollStatus
    <2> HIDE DEF m
    <2>4. m.verdict = "pass" => Evidence(s)
      BY <2>1, <2>2, PassIsEvidence
    <2>5. CopyBacked("progress", m)
      BY <1>0, <2>1, <2>2, <2>4 DEF CopyBacked, Holding, Handling, RowBacked, Owns
    <2> QED
      BY <2>2, <2>3, <2>5, StillBacked, MoveBackedBefore DEF Backed, Labels
  <1>2. CASE WriteProgress(g)
    <2> PICK s \in Stages, c \in Row : s = mem[g].stage /\ c = mem[g].cell
      BY <1>0, <1>2 DEF WriteProgress, At, Committed
    <2> DEFINE q == [c EXCEPT !.status = c.status]
    <2>1. q \in Row /\ q = c
      BY DEF Row
    <2>2. pc[g] = "progress" /\ RowBacked(s, c) /\ row' = [row EXCEPT ![s] = q]
      BY <1>0, <1>2 DEF WriteProgress, At, CopyBacked, SaveRow
    <2>3. RowsBacked' /\ WatchesBacked'
      BY <1>2, <2>1, <2>2, RowBackedStays, RowsBackedStep, WatchesBackedStep DEF WriteProgress
    <2> HIDE DEF q
    <2> DEFINE m == [mem[g] EXCEPT !.verdict = "absent", !.cell = FreshRow]
    <2>4. \/ Goto(g, "poll") /\ Update(g, m)
          \/ Return(g)
          \/ (\E l \in {"clear", "count"} : Goto(g, l)) /\ UNCHANGED mem
          \/ mem[g].verdict = "pass" /\ Conclude(g, Parked(s))
          \/ Conclude(g, "FAILED")
      BY <1>2 DEF WriteProgress
    <2>5. CASE Goto(g, "poll") /\ Update(g, m)
      <3>1. /\ m \in Locals /\ m.stage = s /\ m.follow = mem[g].follow
            /\ m.job = mem[g].job
        BY <1>0, RowType DEF Locals, JobStates
      <3> HIDE DEF m
      <3>2. CopyBacked("poll", m)
        BY <1>0, <2>2, <3>1 DEF CopyBacked, Holding, Handling
      <3> QED
        BY <2>3, <2>5, <3>1, <3>2, MoveBackedBefore DEF Backed, Labels
    <2>6. CASE Return(g)
      BY <2>3, <2>6, ReturnBacked DEF Backed
    <2>7. CASE (\E l \in {"clear", "count"} : Goto(g, l)) /\ UNCHANGED mem
      <3> PICK l \in {"clear", "count"} : Goto(g, l)
        BY <2>7
      <3>1. CopyBacked(l, mem[g])
        BY <1>0, <2>2 DEF CopyBacked, Holding, Handling
      <3> QED
        BY <2>3, <2>7, <3>1, GotoBacked DEF Backed, Labels
    <2>8. CASE mem[g].verdict = "pass" /\ Conclude(g, Parked(s))
      <3>1. Claims(s, Parked(s))'
        BY <1>0, <2>2, <2>8, EvidenceStays DEF CopyBacked, Claims
      <3> QED
        BY <2>2, <2>3, <2>8, <3>1, ParkedFinal, ConcludeBacked DEF Backed, Holding
    <2>9. CASE Conclude(g, "FAILED")
      <3>1. Claims(s, "FAILED")' /\ "FAILED" \in Final
        BY DEF Claims, Final
      <3> QED
        BY <2>2, <2>3, <2>9, <3>1, ConcludeBacked DEF Backed, Holding
    <2> QED
      BY <2>4, <2>5, <2>6, <2>7, <2>8, <2>9
  <1>3. ASSUME UNCHANGED <<row, watched>>, pc[g] \in {"count", "repair", "clear"},
               Conclude(g, "FAILED")
        PROVE  Backed'
    <2> PICK s \in Stages : s = mem[g].stage
      BY <1>0, <1>3 DEF Committed
    <2>1. Claims(s, "FAILED")' /\ "FAILED" \in Final
      BY DEF Claims, Final
    <2> QED
      BY <1>3, <2>1, StillBacked, ConcludeBacked DEF Backed, Holding
  <1>4. CASE ClearRounds(g)
    <2> PICK s \in Stages : s = mem[g].stage
      BY <1>0, <1>4 DEF ClearRounds, At, Committed
    <2>1. CASE mem[g].verdict = "pass"
      <3>1. pc[g] = "clear" /\ Conclude(g, Parked(s)) /\ UNCHANGED <<row, watched>>
        BY <1>4, <2>1 DEF ClearRounds, At
      <3>2. Claims(s, Parked(s))'
        BY <1>0, <2>1, <3>1, EvidenceStays DEF CopyBacked, Claims
      <3> QED
        BY <3>1, <3>2, ParkedFinal, StillBacked, ConcludeBacked DEF Backed, Holding
    <2>2. CASE mem[g].verdict # "pass"
      BY <1>3, <1>4, <2>2 DEF ClearRounds, At
    <2> QED
      BY <2>1, <2>2
  <1>5. CASE Goto(g, "repair") /\ UNCHANGED <<mem, row, watched>> /\ pc[g] = "count"
    <2>1. CopyBacked("repair", mem[g])
      BY <1>0, <1>5 DEF CopyBacked, Holding, Handling
    <2> QED
      BY <1>5, <2>1, StillBacked, GotoBacked DEF Backed, Labels
  <1>6. CASE SpendRound(g)
    BY <1>3, <1>5, <1>6 DEF SpendRound, At
  <1>7. CASE SpendRoundUncounted(g)
    BY <1>5, <1>7 DEF SpendRoundUncounted, At
  <1>8. CASE RepairReturns(g)
    <2> DEFINE m == [mem[g] EXCEPT !.todo = {mem[g].stage} \cup Downstream[mem[g].stage]]
    <2>1. CASE Goto(g, "reset") /\ Update(g, m)
      <3>1. mem[g].stage \in Stages
        BY <1>0, <1>8 DEF RepairReturns, At, Committed
      <3>2. {mem[g].stage} \cup Downstream[mem[g].stage] \subseteq Stages
        BY <3>1, DownstreamType
      <3>3. m \in Locals /\ m.follow = mem[g].follow
        BY <1>0, <3>2 DEF Locals
      <3>4. UNCHANGED <<row, watched>>
        BY <1>8 DEF RepairReturns
      <3> HIDE DEF m
      <3>5. CopyBacked("reset", m)
        BY <1>0, <3>3 DEF CopyBacked, Holding, Handling
      <3> QED
        BY <2>1, <3>3, <3>4, <3>5, StillBacked, MoveBackedBefore DEF Backed, Labels
    <2>2. CASE Conclude(g, "FAILED")
      BY <1>3, <1>8, <2>2 DEF RepairReturns, At
    <2> QED
      BY <1>8, <2>1, <2>2 DEF RepairReturns
  <1> QED
    BY <1>1, <1>2, <1>4, <1>6, <1>7, <1>8 DEF PollEDARun

LEMMA ServeBacked ==
  ASSUME Inv, Inv', Backed, JobsKept, NEW c \in Threads, Serve(c)
  PROVE  Backed'
  <1> USE DEF durable, history
  <1>0. /\ mem[c] \in Locals /\ CopyBacked(pc[c], mem[c])
        /\ UNCHANGED <<row, watched>>
    BY DEF Inv, TypeOK, Backed, CopiesBacked, Serve, RetryRequest, RejectRequest,
       ApproveRequest, ApproveStage, CancelRequest
  <1>1. RowsBacked' /\ WatchesBacked'
    BY <1>0, StillBacked
  <1>2. ASSUME NEW s \in Stages, RetryRequest(c, s) \/ RejectRequest(c, s)
        PROVE  Backed'
    <2> DEFINE m == [mem[c] EXCEPT !.todo = {s} \cup Downstream[s]]
    <2>1. {s} \cup Downstream[s] \subseteq Stages
      BY DownstreamType
    <2>2. m \in Locals /\ m.follow = mem[c].follow
      BY <1>0, <2>1 DEF Locals
    <2>3. Goto(c, "reset") /\ Update(c, m)
      BY <1>2 DEF RetryRequest, RejectRequest
    <2> HIDE DEF m
    <2>4. CopyBacked("reset", m)
      BY <1>0, <2>2 DEF CopyBacked, Holding, Handling
    <2> QED
      BY <1>1, <2>2, <2>3, <2>4, MoveBackedBefore DEF Backed, Labels
  <1>3. ASSUME NEW s \in Stages, ApproveRequest(c, s) PROVE Backed'
    <2> DEFINE m == [mem[c] EXCEPT !.stage = s]
    <2>1. m \in Locals /\ m.follow = mem[c].follow
      BY <1>0 DEF Locals
    <2>2. Goto(c, "approve") /\ Update(c, m)
      BY <1>3 DEF ApproveRequest
    <2> HIDE DEF m
    <2>3. CopyBacked("approve", m)
      BY <1>0, <2>1 DEF CopyBacked, Holding, Handling
    <2> QED
      BY <1>1, <2>1, <2>2, <2>3, MoveBackedBefore DEF Backed, Labels
  <1>4. CASE ApproveStage(c)
    <2> PICK s \in Stages : s = mem[c].stage
      BY <1>4 DEF ApproveStage, At, Inv, Bound, Committed
    <2> PICK r \in Row : r = row[s]
      BY DEF Inv, TypeOK
    <2> DEFINE m == [mem[c] EXCEPT !.cell = [r EXCEPT !.status = "RELEASED"]]
    <2>1. /\ m \in Locals /\ m.stage = s /\ m.follow = mem[c].follow
          /\ m.cell.status = "RELEASED" /\ m.cell.ext = r.ext
      <3>1. [r EXCEPT !.status = "RELEASED"] \in Row
        BY RowType DEF StageStatus
      <3> QED
        BY <1>0, <3>1 DEF Locals, Row
    <2>2. Goto(c, "save") /\ Update(c, m)
      BY <1>4 DEF ApproveStage
    <2> HIDE DEF m
    <2>3. OwnsIfAny(s, r.ext)
      BY DEF Backed, RowsBacked, RowBacked
    <2>4. CopyBacked("save", m)
      BY <1>0, <2>1, <2>3 DEF CopyBacked, Holding, Handling, Final, Claims
    <2> QED
      BY <1>1, <2>1, <2>2, <2>4, MoveBackedBefore DEF Backed, Labels
  <1>5. CASE CancelRequest(c)
    <2>1. Goto(c, pc[c]) /\ UNCHANGED mem /\ pc[c] \in Labels
      BY <1>5 DEF CancelRequest, Goto, Inv, TypeOK
    <2> QED
      BY <1>0, <1>1, <2>1, GotoBacked DEF Backed
  <1> QED
    BY <1>2, <1>3, <1>4, <1>5 DEF Serve

LEMMA NextBacked == Inv /\ Inv' /\ Backed /\ [Next]_vars => Backed'
  <1> SUFFICES ASSUME Inv, Inv', Backed, [Next]_vars PROVE Backed'
    OBVIOUS
  <1> USE DEF durable, history
  <1>0. /\ Workers \subseteq Threads /\ Clients \subseteq Threads /\ Tick \in Threads
        /\ JobsKept
    BY NextJobsKept DEF Threads
  <1>1. ASSUME UNCHANGED <<row, watched, pc, mem>> PROVE Backed'
    <2>1. Goto(Tick, pc[Tick]) /\ pc[Tick] \in Labels /\ CopyBacked(pc[Tick], mem[Tick])
      BY <1>0, <1>1 DEF Goto, Inv, TypeOK, Backed, CopiesBacked
    <2> QED
      BY <1>0, <1>1, <2>1, StillBacked, GotoBacked DEF Backed
  <1>2. CASE UNCHANGED vars
    BY <1>1, <1>2 DEF vars
  <1>3. CASE RunOnce
    <2>1. CopyBacked("load_stages", mem[Tick])
      BY <1>0 DEF Backed, CopiesBacked, CopyBacked, Holding, Handling
    <2> QED
      BY <1>0, <1>3, <2>1, StillBacked, GotoBacked DEF RunOnce, Backed, Labels
  <1>4. CASE \E j \in JobIds : JobEnds(j)
    BY <1>1, <1>4 DEF JobEnds
  <1>5. CASE Crash
    <2>1. RowsBacked'
      BY <1>0, <1>5, RowsBackedStay DEF Crash
    <2>2. WatchesBacked'
      BY <1>5 DEF Crash, WatchesBacked
    <2>3. CopiesBacked'
      BY <1>5 DEF Crash, CopiesBacked, CopyBacked, Blank, Holding, Handling
    <2> QED
      BY <2>1, <2>2, <2>3 DEF Backed
  <1> QED
    BY <1>0, <1>2, <1>3, <1>4, <1>5, EvaluateBacked, SaveBacked, ResetBacked,
       StartDispatchBacked, StartPollBacked, DispatchBacked, PollBacked, ServeBacked DEF Next

LEMMA InitBacked == Init => Backed
  BY DEF Init, Backed, RowsBacked, WatchesBacked, CopiesBacked, RowBacked, CopyBacked,
     OwnsIfAny, Claims, FreshRow, Blank, Holding, Handling

\* However stale the copies dispatchers, pollers, reviewers and retries write, a
\* stage shown as succeeded or up for review has its agent's answer or a clean
\* pass of a job of its own behind it.
THEOREM DoneEvidenced == Spec => []DoneHasEvidence
  <1>1. Spec => [](Inv /\ Backed)
    BY InitType, NextType, InitBacked, NextBacked, PTL DEF Spec
  <1>2. Backed => DoneHasEvidence
    BY DEF Backed, RowsBacked, RowBacked, Claims, DoneHasEvidence
  <1> QED
    BY <1>1, <1>2, PTL

\* A stage that has not started has no job: no poller's or reviewer's stale copy
\* gives a reset row its old job id back.
THEOREM NotStartedIsFree == Spec => []NotStartedHasNoJob
  <1>1. Spec => [](Inv /\ Backed)
    BY InitType, NextType, InitBacked, NextBacked, PTL DEF Spec
  <1>2. Backed => NotStartedHasNoJob
    BY DEF Backed, RowsBacked, RowBacked, NotStartedHasNoJob
  <1> QED
    BY <1>1, <1>2, PTL

-----------------------------------------------------------------------------
(* inFlight is a lock: Locked is inductive *)

\* A running goroutine goes on under the key it holds.
KeyKept(t) ==
    /\ UNCHANGED inFlight
    /\ mem'[t].role = mem[t].role
    /\ t \in Workers => mem'[t].stage = mem[t].stage /\ pc[t] # "idle"
    /\ \A u \in Threads \ {t} : pc'[u] = pc[u] /\ mem'[u] = mem[u]
Releases(t) == Return(t) /\ pc[t] # "idle"
\* A goroutine starts under a key nobody holds.
Takes(g, role, s) ==
    /\ <<role, s>> \notin inFlight
    /\ inFlight' = inFlight \cup {<<role, s>>}
    /\ mem'[g].role = role /\ mem'[g].stage = s
    /\ pc'[g] = IF role = "dispatch" THEN "read_stage" ELSE "poll"
    /\ \A u \in Threads \ {g} : pc'[u] = pc[u] /\ mem'[u] = mem[u]

LEMMA KeyKeptStep ==
  ASSUME Inv, NEW t \in Threads, pc[t] # "idle" \/ t \notin Workers, UNCHANGED inFlight,
         NEW l, Goto(t, l) \/ UNCHANGED pc,
         NEW m, Update(t, m), m.role = mem[t].role,
         m.stage = mem[t].stage \/ t \notin Workers
  PROVE  KeyKept(t)
  <1>1. /\ mem'[t] = m /\ \A u \in Threads \ {t} : mem'[u] = mem[u]
        /\ \A u \in Threads \ {t} : pc'[u] = pc[u]
    BY DEF Goto, Update, Inv, TypeOK
  <1> QED
    BY <1>1 DEF KeyKept

LEMMA KeyKeptGoto ==
  ASSUME Inv, NEW t \in Threads, pc[t] # "idle" \/ t \notin Workers,
         UNCHANGED <<inFlight, mem>>, NEW l, Goto(t, l) \/ UNCHANGED pc
  PROVE  KeyKept(t)
  BY DEF KeyKept, Goto, Inv, TypeOK

LEMMA KeyKeptConclude ==
  ASSUME Inv, NEW t \in Threads, pc[t] # "idle", UNCHANGED inFlight, NEW x, Conclude(t, x)
  PROVE  KeyKept(t)
  <1> DEFINE m == [mem[t] EXCEPT !.cell = [@ EXCEPT !.status = x], !.job = NoJob,
                                 !.verdict = "absent", !.tries = 0]
  <1>1. m.role = mem[t].role /\ m.stage = mem[t].stage
    BY DEF Inv, TypeOK, Locals
  <1>2. Goto(t, "save") /\ Update(t, m)
    BY DEF Conclude
  <1> HIDE DEF m
  <1> QED
    BY <1>1, <1>2, KeyKeptStep

\* The locals' updates that leave role and stage alone.
LEMMA SameKey ==
  ASSUME NEW m \in Locals
  PROVE  /\ \A a : LET k == [m EXCEPT !.todo = a]
                   IN  k.role = m.role /\ k.stage = m.stage
         /\ \A a : LET k == [m EXCEPT !.cell = a]
                   IN  k.role = m.role /\ k.stage = m.stage
         /\ \A a : LET k == [m EXCEPT !.job = a]
                   IN  k.role = m.role /\ k.stage = m.stage
         /\ \A a : LET k == [m EXCEPT !.tries = a]
                   IN  k.role = m.role /\ k.stage = m.stage
         /\ \A a : [m EXCEPT !.stage = a].role = m.role
  BY DEF Locals

LEMMA KeyEvaluate ==
  ASSUME Inv, NEW t \in Threads, EvaluateTask(t) \/ SaveStage(t) \/ ResetStage(t)
  PROVE  KeyKept(t) \/ Releases(t)
  <1> USE DEF durable, history
  <1>0. mem[t] \in Locals /\ pc[t] # "idle"
    BY DEF Inv, TypeOK, EvaluateTask, LoadTask, LoadStages, QueueStage, StartGoroutines,
       SetTask, SaveStage, ResetStage, At
  <1>1. CASE LoadTask(t) \/ SetTask(t)
    BY <1>0, <1>1, KeyKeptGoto DEF LoadTask, SetTask, Releases
  <1>2. CASE LoadStages(t)
    <2> DEFINE m == [mem[t] EXCEPT !.todo = Ready(row), !.wake = Woken(row),
                                   !.follow = Followed(row), !.next = NextTask(row)]
    <2>1. m.role = mem[t].role /\ m.stage = mem[t].stage
      BY <1>0 DEF Locals
    <2>2. Goto(t, "queue") /\ Update(t, m) /\ UNCHANGED inFlight
      BY <1>2 DEF LoadStages
    <2> HIDE DEF m
    <2> QED
      BY <1>0, <2>1, <2>2, KeyKeptStep
  <1>3. CASE QueueStage(t)
    <2> PICK s \in Stages : Update(t, [mem[t] EXCEPT !.todo = @ \ {s}])
      BY <1>0, <1>3 DEF QueueStage, Locals
    <2> QED
      BY <1>0, <1>3, SameKey, KeyKeptStep DEF QueueStage
  <1>4. CASE StartGoroutines(t)
    <2> DEFINE m == [mem[t] EXCEPT !.wake = {}, !.follow = {}]
    <2>1. m.role = mem[t].role /\ m.stage = mem[t].stage
      BY <1>0 DEF Locals
    <2>2. Goto(t, "set_task") /\ Update(t, m) /\ UNCHANGED inFlight
      BY <1>4 DEF StartGoroutines
    <2> HIDE DEF m
    <2> QED
      BY <1>0, <2>1, <2>2, KeyKeptStep
  <1>5. CASE SaveStage(t)
    BY <1>0, <1>5, SameKey, KeyKeptStep DEF SaveStage
  <1>6. CASE ResetStage(t)
    <2> PICK s \in mem[t].todo :
          /\ Update(t, [mem[t] EXCEPT !.todo = @ \ {s}])
          /\ pc' = [pc EXCEPT ![t] = IF mem[t].todo = {s} THEN "load_task" ELSE "reset"]
      BY <1>6 DEF ResetStage
    <2>1. \E l : Goto(t, l)
      BY DEF Goto
    <2> QED
      BY <1>0, <1>6, <2>1, SameKey, KeyKeptStep DEF ResetStage
  <1> QED
    BY <1>1, <1>2, <1>3, <1>4, <1>5, <1>6 DEF EvaluateTask

LEMMA KeyDispatch ==
  ASSUME Inv, NEW g \in Threads, DispatchStage(g)
  PROVE  KeyKept(g) \/ Releases(g)
  <1> USE DEF durable, history
  <1>0. mem[g] \in Locals /\ pc[g] # "idle"
    BY DEF Inv, TypeOK, DispatchStage, ReadStage, MarkDispatching, MarkRunning,
       AgentConnectionDropped, AgentSucceeds, AgentFails, JobAccepted, JobRefused, AttachJob, At
  <1>1. CASE ReadStage(g)
    BY <1>0, <1>1, SameKey, KeyKeptStep DEF ReadStage, Releases
  <1>2. CASE MarkDispatching(g) \/ MarkRunning(g)
    BY <1>0, <1>2, KeyKeptGoto DEF MarkDispatching, MarkRunning
  <1>3. CASE AgentConnectionDropped(g)
    BY <1>0, <1>3, SameKey, KeyKeptStep DEF AgentConnectionDropped
  <1>4. CASE AgentSucceeds(g) \/ AgentFails(g) \/ JobRefused(g)
    BY <1>0, <1>4, KeyKeptConclude DEF AgentSucceeds, AgentFails, JobRefused
  <1>5. CASE JobAccepted(g)
    <2> PICK j \in JobIds : Update(g, [mem[g] EXCEPT !.job = j])
      BY <1>5 DEF JobAccepted
    <2> QED
      BY <1>0, <1>5, SameKey, KeyKeptStep DEF JobAccepted
  <1>6. CASE AttachJob(g)
    BY <1>0, <1>6 DEF AttachJob, Releases
  <1> QED
    BY <1>1, <1>2, <1>3, <1>4, <1>5, <1>6 DEF DispatchStage

LEMMA KeyPoll ==
  ASSUME Inv, NEW g \in Threads, PollEDARun(g)
  PROVE  KeyKept(g) \/ Releases(g)
  <1> USE DEF durable, history
  <1>0. mem[g] \in Locals /\ pc[g] # "idle"
    BY DEF Inv, TypeOK, PollEDARun, PollStatus, WriteProgress, ClearRounds, SpendRound,
       SpendRoundUncounted, RepairReturns, At
  <1>1. CASE PollStatus(g)
    <2> DEFINE m == [mem[g] EXCEPT !.verdict = jobs[mem[g].job].state,
                                   !.cell = row[mem[g].stage]]
    <2>1. m.role = mem[g].role /\ m.stage = mem[g].stage
      BY <1>0 DEF Locals
    <2>2. Goto(g, "progress") /\ Update(g, m) /\ UNCHANGED inFlight
      BY <1>1 DEF PollStatus
    <2> HIDE DEF m
    <2> QED
      BY <1>0, <2>1, <2>2, KeyKeptStep
  <1>2. CASE WriteProgress(g)
    <2> DEFINE m == [mem[g] EXCEPT !.verdict = "absent", !.cell = FreshRow]
    <2>1. m.role = mem[g].role /\ m.stage = mem[g].stage
      BY <1>0 DEF Locals
    <2>2. CASE Goto(g, "poll") /\ Update(g, m) /\ UNCHANGED inFlight
      <3> HIDE DEF m
      <3> QED
        BY <1>0, <2>1, <2>2, KeyKeptStep
    <2>3. CASE ~ (Goto(g, "poll") /\ Update(g, m) /\ UNCHANGED inFlight)
      BY <1>0, <1>2, <2>3, KeyKeptGoto, KeyKeptConclude DEF WriteProgress, Releases
    <2> QED
      BY <2>2, <2>3
  <1>3. CASE ClearRounds(g) \/ SpendRound(g) \/ SpendRoundUncounted(g)
    BY <1>0, <1>3, KeyKeptGoto, KeyKeptConclude
       DEF ClearRounds, SpendRound, SpendRoundUncounted
  <1>4. CASE RepairReturns(g)
    BY <1>0, <1>4, SameKey, KeyKeptStep, KeyKeptConclude DEF RepairReturns
  <1> QED
    BY <1>1, <1>2, <1>3, <1>4 DEF PollEDARun

LEMMA KeyServe == ASSUME Inv, NEW c \in Clients, Serve(c) PROVE KeyKept(c)
  <1> USE DEF durable, history
  <1>0. c \in Threads /\ c \notin Workers /\ mem[c] \in Locals
    BY DEF Threads, Inv, TypeOK
  <1>1. ASSUME NEW s, RetryRequest(c, s) \/ RejectRequest(c, s) PROVE KeyKept(c)
    BY <1>0, <1>1, SameKey, KeyKeptStep DEF RetryRequest, RejectRequest
  <1>2. ASSUME NEW s, ApproveRequest(c, s) PROVE KeyKept(c)
    BY <1>0, <1>2, SameKey, KeyKeptStep DEF ApproveRequest
  <1>3. CASE ApproveStage(c)
    BY <1>0, <1>3, SameKey, KeyKeptStep DEF ApproveStage
  <1>4. CASE CancelRequest(c)
    BY <1>0, <1>4, KeyKeptGoto DEF CancelRequest
  <1> QED
    BY <1>1, <1>2, <1>3, <1>4 DEF Serve

LEMMA KeyStart ==
  ASSUME Inv, NEW s \in Stages, StartDispatch(s) \/ \E j \in JobIds : StartPoll(s, j)
  PROVE  \/ UNCHANGED <<inFlight, pc, mem>>
         \/ \E g \in Workers, role \in {"dispatch", "poll"} : Takes(g, role, s)
  <1>0. Workers \subseteq Threads
    BY DEF Threads
  <1>1. ASSUME NEW g \in Workers, Goto(g, "read_stage"),
               Update(g, [Blank EXCEPT !.role = "dispatch", !.stage = s]),
               <<"dispatch", s>> \notin inFlight,
               inFlight' = inFlight \cup {<<"dispatch", s>>}
        PROVE  Takes(g, "dispatch", s)
    BY <1>0, <1>1 DEF Takes, Goto, Update, Blank, Inv, TypeOK
  <1>2. ASSUME NEW g \in Workers, NEW j \in JobIds, Goto(g, "poll"),
               Update(g, [Blank EXCEPT !.role = "poll", !.stage = s, !.job = j]),
               <<"poll", s>> \notin inFlight,
               inFlight' = inFlight \cup {<<"poll", s>>}
        PROVE  Takes(g, "poll", s)
    BY <1>0, <1>2 DEF Takes, Goto, Update, Blank, Inv, TypeOK
  <1> QED
    BY <1>1, <1>2 DEF StartDispatch, StartPoll

\* What any step does to inFlight and to the keys of the goroutines.
LEMMA KeyStep ==
  ASSUME Inv, [Next]_vars
  PROVE  \/ UNCHANGED <<inFlight, pc, mem>>
         \/ Crash
         \/ \E t \in Threads : KeyKept(t) \/ Releases(t)
         \/ \E g \in Workers, role \in {"dispatch", "poll"}, s \in Stages : Takes(g, role, s)
  <1>0. /\ Workers \subseteq Threads /\ Clients \subseteq Threads
        /\ Tick \in Threads /\ Tick \notin Workers
    BY DEF Threads
  <1>1. CASE RunOnce
    BY <1>0, <1>1, KeyKeptGoto DEF RunOnce
  <1>2. CASE \E j \in JobIds : JobEnds(j)
    BY <1>2 DEF JobEnds
  <1>3. CASE UNCHANGED vars
    BY <1>3 DEF vars
  <1> QED
    BY <1>0, <1>1, <1>2, <1>3, KeyEvaluate, KeyDispatch, KeyPoll, KeyServe, KeyStart DEF Next

LEMMA NextLocked == Inv /\ Locked /\ [Next]_vars => Locked'
  <1> SUFFICES ASSUME Inv, Locked, [Next]_vars PROVE Locked'
    OBVIOUS
  <1>0. Workers \subseteq Threads
    BY DEF Threads
  <1>1. CASE UNCHANGED <<inFlight, pc, mem>>
    BY <1>1 DEF Locked, OneGoroutinePerKey, HoldsKey, Key, At
  <1>2. CASE Crash
    BY <1>0, <1>2 DEF Crash, Locked, OneGoroutinePerKey, HoldsKey, At, Blank
  <1>3. ASSUME NEW t \in Threads, KeyKept(t) PROVE Locked'
    <2>1. \A u \in Workers : /\ pc'[u] # "idle" => pc[u] # "idle"
                            /\ mem'[u].role = mem[u].role
                            /\ mem'[u].stage = mem[u].stage
      BY <1>0, <1>3 DEF KeyKept
    <2>2. OneGoroutinePerKey'
      BY <2>1 DEF Locked, OneGoroutinePerKey, Key, At
    <2>3. \A u \in Threads : HoldsKey(u)'
      BY <1>3, <2>1 DEF Locked, HoldsKey, Key, At, KeyKept
    <2> QED
      BY <2>2, <2>3 DEF Locked
  <1>4. ASSUME NEW t \in Threads, Releases(t) PROVE Locked'
    <2>1. /\ pc'[t] = "idle" /\ mem'[t] = Blank /\ inFlight' = inFlight \ {Key(t)}
          /\ \A u \in Threads \ {t} : pc'[u] = pc[u] /\ mem'[u] = mem[u]
      BY <1>4 DEF Releases, Return, Goto, Update, Inv, TypeOK
    <2>2. OneGoroutinePerKey'
      BY <1>0, <2>1 DEF Locked, OneGoroutinePerKey, Key, At
    <2>3. ASSUME NEW u \in Workers \ {t}, pc[u] # "idle" PROVE Key(u) # Key(t)
      <3>1. CASE t \in Workers
        BY <1>4, <2>3, <3>1 DEF Releases, Locked, OneGoroutinePerKey, At
      <3>2. CASE t \notin Workers
        BY <1>0, <2>3, <3>2 DEF Locked, HoldsKey, Key, At
      <3> QED
        BY <3>1, <3>2
    <2>4. HoldsKey(t)'
      BY <2>1 DEF HoldsKey, At, Blank
    <2>5. ASSUME NEW u \in Threads \ {t} PROVE HoldsKey(u)'
      <3>1. HoldsKey(u) /\ pc'[u] = pc[u] /\ mem'[u] = mem[u]
        BY <2>1 DEF Locked
      <3> QED
        BY <2>1, <2>3, <3>1 DEF HoldsKey, Key, At
    <2> QED
      BY <2>2, <2>4, <2>5 DEF Locked
  <1>5. ASSUME NEW g \in Workers, NEW role \in {"dispatch", "poll"}, NEW s \in Stages,
               Takes(g, role, s)
        PROVE  Locked'
    <2>1. \A u \in Workers \ {g} : pc'[u] # "idle" => Key(u)' \in inFlight /\ Key(u)' = Key(u)
      BY <1>0, <1>5 DEF Takes, Locked, HoldsKey, Key, At
    <2>2. Key(g)' = <<role, s>> /\ mem'[g].role = role
      BY <1>5 DEF Takes, Key
    <2>3. OneGoroutinePerKey'
      <3>1. \A u \in Workers \ {g} : pc'[u] # "idle" => Key(u)' # Key(g)'
        BY <1>5, <2>1, <2>2 DEF Takes
      <3>2. ASSUME NEW u \in Workers \ {g}, NEW v \in Workers \ {g}, u # v,
                   pc'[u] # "idle", pc'[v] # "idle"
            PROVE  Key(u)' # Key(v)'
        BY <1>0, <1>5, <2>1, <3>2 DEF Takes, Locked, OneGoroutinePerKey, At
      <3> QED
        BY <3>1, <3>2 DEF OneGoroutinePerKey, At
    <2>4. HoldsKey(g)'
      BY <1>5, <2>2 DEF Takes, HoldsKey
    <2>5. ASSUME NEW u \in Threads \ {g} PROVE HoldsKey(u)'
      <3>1. HoldsKey(u) /\ pc'[u] = pc[u] /\ mem'[u] = mem[u]
        BY <1>5 DEF Takes, Locked
      <3> QED
        BY <1>5, <3>1 DEF Takes, HoldsKey, Key, At
    <2> QED
      BY <2>3, <2>4, <2>5 DEF Locked
  <1> QED
    BY <1>1, <1>2, <1>3, <1>4, <1>5, KeyStep

LEMMA InitLocked == Init => Locked
  BY DEF Init, Locked, OneGoroutinePerKey, HoldsKey, At, Blank, Threads

\* inFlight is a lock: at any time at most one dispatcher and one poller work on a
\* stage, however many goroutines ticks, requests and finished stages start.
THEOREM OneGoroutine == Spec => []OneGoroutinePerKey
  <1>1. Spec => [](Inv /\ Locked)
    BY InitType, NextType, InitLocked, NextLocked, PTL DEF Spec
  <1>2. Locked => OneGoroutinePerKey
    BY DEF Locked
  <1> QED
    BY <1>1, <1>2, PTL

-----------------------------------------------------------------------------
(* Running agent stages have a dispatcher: Attended is inductive *)

\* A goroutine past its guard is moved by its own steps only.
LEMMA OwnStep ==
  ASSUME Inv, [Next]_vars, ~Crash, NEW g \in Workers, pc[g] # "idle"
  PROVE  \/ UNCHANGED <<pc[g], mem[g]>>
         \/ EvaluateTask(g) \/ SaveStage(g) \/ DispatchStage(g)
         \/ pc'[g] \in {"idle", "load_task", "reset", "poll", "progress", "clear", "count",
                        "repair", "save"}
            /\ (PollEDARun(g) \/ ResetStage(g))
  <1>0. Workers \subseteq Threads /\ Clients \subseteq Threads /\ Tick \in Threads
    BY DEF Threads
  <1>1. ASSUME NEW t \in Threads, t # g, KeyKept(t) \/ Releases(t)
        PROVE  UNCHANGED <<pc[g], mem[g]>>
    BY <1>0, <1>1 DEF KeyKept, Releases, Return, Goto, Update, Inv, TypeOK
  <1>2. CASE UNCHANGED <<pc, mem>>
    BY <1>2
  <1>3. ASSUME NEW s \in Stages, StartDispatch(s) \/ \E j \in JobIds : StartPoll(s, j)
        PROVE  UNCHANGED <<pc[g], mem[g]>>
    BY <1>0, <1>3 DEF StartDispatch, StartPoll, At, Goto, Update, Inv, TypeOK
  <1>4. CASE RunOnce
    BY <1>0, <1>4 DEF RunOnce, Goto, Inv, TypeOK
  <1>5. CASE \E c \in Clients : Serve(c)
    BY <1>0, <1>1, <1>5, KeyServe
  <1>6. CASE \E t \in Threads : EvaluateTask(t) \/ SaveStage(t) \/ ResetStage(t)
    <2>1. CASE EvaluateTask(g) \/ SaveStage(g)
      BY <2>1
    <2>2. CASE ResetStage(g)
      BY <1>0, <2>2 DEF ResetStage, Inv, TypeOK
    <2>3. CASE \E t \in Threads \ {g} : EvaluateTask(t) \/ SaveStage(t) \/ ResetStage(t)
      BY <1>0, <1>1, <2>3, KeyEvaluate
    <2> QED
      BY <1>6, <2>1, <2>2, <2>3
  <1>7. CASE \E t \in Workers : DispatchStage(t)
    BY <1>0, <1>1, <1>7, KeyDispatch
  <1>8. CASE \E t \in Workers : PollEDARun(t)
    <2>1. CASE PollEDARun(g)
      BY <1>0, <2>1 DEF PollEDARun, PollStatus, WriteProgress, ClearRounds, SpendRound,
         SpendRoundUncounted, RepairReturns, Goto, Return, Conclude, Inv, TypeOK
    <2>2. CASE \E t \in Workers \ {g} : PollEDARun(t)
      BY <1>0, <1>1, <2>2, KeyPoll
    <2> QED
      BY <1>8, <2>1, <2>2
  <1> QED
    BY <1>2, <1>3, <1>4, <1>5, <1>6, <1>7, <1>8 DEF Next, vars, JobEnds

LEMMA IdleStep ==
  ASSUME Inv, [Next]_vars, ~Crash, NEW g \in Workers, pc[g] = "idle"
  PROVE  \/ pc'[g] \in {"idle", "poll"}
         \/ pc'[g] = "read_stage" /\ mem'[g].role = "dispatch"
  <1>0. g \in Threads
    BY DEF Threads
  <1>1. CASE UNCHANGED <<inFlight, pc, mem>>
    BY <1>1
  <1>2. ASSUME NEW t \in Threads, KeyKept(t) \/ Releases(t) PROVE pc'[g] = "idle"
    BY <1>0, <1>2 DEF KeyKept, Releases, Return, Goto, Inv, TypeOK
  <1>3. ASSUME NEW h \in Workers, NEW role \in {"dispatch", "poll"}, NEW s \in Stages,
               Takes(h, role, s)
        PROVE  \/ pc'[g] \in {"idle", "poll"}
               \/ pc'[g] = "read_stage" /\ mem'[g].role = "dispatch"
    BY <1>0, <1>3 DEF Takes
  <1> QED
    BY <1>1, <1>2, <1>3, KeyStep

\* Where the steps of evaluateTask and of a save lead.
LEMMA EvaluateLabels ==
  ASSUME Inv, NEW t \in Threads, EvaluateTask(t) \/ SaveStage(t)
  PROVE  pc'[t] \in {"idle", "load_task", "load_stages", "queue", "set_task"}
  BY DEF EvaluateTask, LoadTask, LoadStages, QueueStage, StartGoroutines, SetTask,
     SaveStage, At, Goto, Return, Inv, TypeOK

\* A dispatcher stays one until it has saved a final status.
LEMMA DispatchingStays ==
  ASSUME Inv, Backed, [Next]_vars, ~Crash, NEW s \in AgentStages, NEW g \in Workers,
         Dispatching(g, s), row'[s].status \in {"DISPATCHING", "RUNNING"}
  PROVE  Dispatching(g, s)'
  <1> USE DEF durable, history
  <1>0. /\ g \in Threads /\ s \in Stages /\ mem[g] \in Locals /\ mem[g].cell \in Row
        /\ pc[g] \in {"mark_running", "invoke", "save"}
        /\ mem[g].role = "dispatch" /\ mem[g].stage = s
    BY DEF Threads, Inv, TypeOK, Locals, Dispatching
  <1>1. CASE UNCHANGED <<pc[g], mem[g]>>
    BY <1>0, <1>1 DEF Dispatching
  <1>2. CASE EvaluateTask(g)
    BY <1>0, <1>2 DEF EvaluateTask, LoadTask, LoadStages, QueueStage, StartGoroutines,
       SetTask, At
  <1>3. CASE SaveStage(g)
    <2>1. mem[g].cell.status \in Final
      BY <1>0, <1>3 DEF SaveStage, At, Backed, CopiesBacked, CopyBacked
    <2>2. row'[s].status = mem[g].cell.status
      BY <1>0, <1>3 DEF SaveStage, SaveRow, Inv, TypeOK, Row
    <2> QED
      BY <2>1, <2>2 DEF Final
  <1>4. CASE DispatchStage(g)
    <2>1. KeyKept(g) \/ Releases(g)
      BY <1>0, <1>4, KeyDispatch
    <2>2. CASE MarkRunning(g)
      BY <1>0, <2>2 DEF MarkRunning, Goto, Dispatching, Inv, TypeOK
    <2>3. CASE AgentConnectionDropped(g)
      <3>1. pc' = pc /\ KeyKept(g)
        BY <1>0, <2>1, <2>3 DEF AgentConnectionDropped, At, Releases, Return, Goto, Inv, TypeOK
      <3> QED
        BY <1>0, <3>1 DEF KeyKept, Dispatching
    <2>4. CASE AgentSucceeds(g) \/ AgentFails(g)
      <3>1. pc'[g] = "save" /\ KeyKept(g)
        BY <1>0, <2>1, <2>4 DEF AgentSucceeds, AgentFails, Conclude, Releases, Return, Goto,
           Inv, TypeOK
      <3> QED
        BY <1>0, <3>1 DEF KeyKept, Dispatching
    <2>5. CASE \/ ReadStage(g) \/ MarkDispatching(g) \/ JobAccepted(g) \/ JobRefused(g)
               \/ AttachJob(g)
      BY <1>0, <2>5 DEF ReadStage, MarkDispatching, JobAccepted, JobRefused, AttachJob, At
    <2> QED
      BY <1>4, <2>2, <2>3, <2>4, <2>5 DEF DispatchStage
  <1>5. CASE PollEDARun(g) \/ ResetStage(g)
    BY <1>0, <1>5 DEF PollEDARun, PollStatus, WriteProgress, ClearRounds, SpendRound,
       SpendRoundUncounted, RepairReturns, ResetStage, At
  <1> QED
    BY <1>0, <1>1, <1>2, <1>3, <1>4, <1>5, OwnStep

LEMMA RowWriters ==
  ASSUME [Next]_vars
  PROVE  \/ UNCHANGED row
         \/ \E t \in Threads : QueueStage(t) \/ SaveStage(t) \/ ResetStage(t)
         \/ \E g \in Workers : \/ MarkDispatching(g) \/ MarkRunning(g) \/ AttachJob(g)
                               \/ WriteProgress(g)
  <1> USE DEF durable, history
  <1>1. CASE \E t \in Threads : EvaluateTask(t)
    BY <1>1 DEF EvaluateTask, LoadTask, LoadStages, StartGoroutines, SetTask
  <1>2. CASE \E g \in Workers : DispatchStage(g)
    BY <1>2 DEF DispatchStage, ReadStage, AgentConnectionDropped, AgentSucceeds, AgentFails,
       JobAccepted, JobRefused
  <1>3. CASE \E g \in Workers : PollEDARun(g)
    BY <1>3 DEF PollEDARun, PollStatus, ClearRounds, SpendRound, SpendRoundUncounted,
       RepairReturns
  <1>4. CASE \E c \in Clients : Serve(c)
    BY <1>4 DEF Serve, RetryRequest, RejectRequest, ApproveRequest, ApproveStage, CancelRequest
  <1> QED
    BY <1>1, <1>2, <1>3, <1>4
       DEF Next, vars, RunOnce, StartDispatch, StartPoll, JobEnds, Crash

\* An agent stage is only marked as dispatching or running by a dispatcher of it.
LEMMA MarkedByDispatcher ==
  ASSUME Inv, Backed, Attended, [Next]_vars, NEW s \in AgentStages,
         row'[s].status \in {"DISPATCHING", "RUNNING"},
         row[s].status \notin {"DISPATCHING", "RUNNING"}
  PROVE  \E g \in Workers : Dispatching(g, s)'
  <1>0. Workers \subseteq Threads /\ s \in Stages
    BY DEF Threads
  <1>1. ASSUME NEW t \in Threads, QueueStage(t) PROVE FALSE
    BY <1>0, <1>1 DEF QueueStage, FreshRow, Inv, TypeOK, Locals
  <1>2. ASSUME NEW t \in Threads, SaveStage(t) PROVE FALSE
    <2>1. mem[t].cell.status \in Final /\ mem[t].cell \in Row
      BY <1>2 DEF SaveStage, At, Backed, CopiesBacked, CopyBacked, Inv, TypeOK, Locals
    <2> QED
      BY <1>0, <1>2, <2>1 DEF SaveStage, SaveRow, Final, Inv, TypeOK, Row
  <1>3. ASSUME NEW t \in Threads, ResetStage(t) PROVE FALSE
    BY <1>0, <1>3 DEF ResetStage, FreshRow, Inv, TypeOK, Locals
  <1>4. ASSUME NEW g \in Workers, MarkDispatching(g) \/ MarkRunning(g)
        PROVE  Dispatching(g, s)'
    <2>1. mem[g].stage = s
      BY <1>0, <1>4 DEF MarkDispatching, MarkRunning, SaveRow, Inv, TypeOK
    <2>2. mem[g].role = "dispatch" /\ UNCHANGED mem
      BY <1>4 DEF Attended, MarkDispatching, MarkRunning, At
    <2>3. pc'[g] \in {"mark_running", "invoke"}
      BY <1>0, <1>4, <2>1 DEF MarkDispatching, MarkRunning, Goto, Inv, TypeOK
    <2> QED
      BY <2>1, <2>2, <2>3 DEF Dispatching
  <1>5. ASSUME NEW g \in Workers, AttachJob(g) \/ WriteProgress(g) PROVE FALSE
    <2>1. mem[g].stage \notin AgentStages
      BY <1>0, <1>5 DEF AttachJob, WriteProgress, At, Backed, CopiesBacked, CopyBacked, Handling
    <2> QED
      BY <1>0, <1>5, <2>1 DEF AttachJob, WriteProgress, SaveRow, Inv, TypeOK
  <1> QED
    BY <1>1, <1>2, <1>3, <1>4, <1>5, RowWriters

LEMMA CrashesLeft ==
  ASSUME Inv, [Next]_vars, ~Crash
  PROVE  budget'.crashes = budget.crashes
  <1> USE DEF durable, history, Inv, TypeOK, Budgets
  <1>1. CASE \E t \in Threads : EvaluateTask(t)
    BY <1>1 DEF EvaluateTask, LoadTask, LoadStages, QueueStage, StartGoroutines, SetTask
  <1>2. CASE \E g \in Workers : DispatchStage(g)
    BY <1>2 DEF DispatchStage, ReadStage, MarkDispatching, MarkRunning, AgentConnectionDropped,
       AgentSucceeds, AgentFails, JobAccepted, JobRefused, AttachJob
  <1>3. CASE \E g \in Workers : PollEDARun(g)
    BY <1>3 DEF PollEDARun, PollStatus, WriteProgress, ClearRounds, SpendRound,
       SpendRoundUncounted, RepairReturns
  <1>4. CASE \E c \in Clients : Serve(c)
    BY <1>4 DEF Serve, RetryRequest, RejectRequest, ApproveRequest, ApproveStage, CancelRequest
  <1>5. CASE RunOnce
    BY <1>5 DEF RunOnce
  <1> QED
    BY <1>1, <1>2, <1>3, <1>4, <1>5
       DEF Next, vars, SaveStage, ResetStage, StartDispatch, StartPoll, JobEnds

LEMMA NextAttended == Inv /\ Backed /\ Attended /\ [Next]_vars => Attended'
  <1> SUFFICES ASSUME Inv, Backed, Attended, [Next]_vars PROVE Attended'
    OBVIOUS
  <1>1. CASE Crash
    <2>1. budget'.crashes < budget.crashes
      BY <1>1 DEF Crash, Inv, TypeOK, Budgets
    <2>2. budget'.crashes < MaxCrashes /\ budget'.crashes \in Nat
      BY <1>1, <2>1 DEF Attended, Crash, Inv, TypeOK, Budgets
    <2>3. \A g \in Workers : pc'[g] = "idle"
      BY <1>1 DEF Crash, Threads
    <2> QED
      BY <2>2, <2>3 DEF Attended, AgentStageHasDispatcher
  <1>2. CASE ~Crash
    <2>1. budget'.crashes = budget.crashes
      BY <1>2, CrashesLeft
    <2>2. ASSUME NEW g \in Workers, pc'[g] \in {"read_stage", "mark", "mark_running", "invoke"}
          PROVE  mem'[g].role = "dispatch"
      <3>1. CASE pc[g] = "idle"
        BY <1>2, <2>2, <3>1, IdleStep
      <3>2. CASE pc[g] # "idle" /\ UNCHANGED <<pc[g], mem[g]>>
        BY <2>2, <3>2 DEF Attended
      <3>3. CASE EvaluateTask(g) \/ SaveStage(g)
        BY <2>2, <3>3, EvaluateLabels DEF Threads
      <3>4. CASE DispatchStage(g)
        <4>1. pc[g] \in {"read_stage", "mark", "mark_running", "invoke"}
          BY <2>2, <3>4 DEF DispatchStage, ReadStage, MarkDispatching, MarkRunning, JobAccepted,
             AgentConnectionDropped, AgentSucceeds, AgentFails, JobRefused, AttachJob, At, Goto,
             Return, Conclude, Threads, Inv, TypeOK
        <4>2. KeyKept(g) \/ Releases(g)
          BY <3>4, KeyDispatch DEF Threads
        <4>3. ~Releases(g)
          BY <2>2 DEF Releases, Return, Goto, Threads, Inv, TypeOK
        <4> QED
          BY <4>1, <4>2, <4>3 DEF KeyKept, Attended
      <3> QED
        BY <1>2, <2>2, <3>1, <3>2, <3>3, <3>4, OwnStep
    <2>3. ASSUME NEW s \in AgentStages, row'[s].status \in {"DISPATCHING", "RUNNING"},
                 budget.crashes = MaxCrashes
          PROVE  \E g \in Workers : Dispatching(g, s)'
      <3>1. CASE row[s].status \in {"DISPATCHING", "RUNNING"}
        <4> PICK g \in Workers : Dispatching(g, s)
          BY <2>3, <3>1 DEF Attended, AgentStageHasDispatcher
        <4> QED
          BY <1>2, <2>3, DispatchingStays
      <3>2. CASE row[s].status \notin {"DISPATCHING", "RUNNING"}
        BY <2>3, <3>2, MarkedByDispatcher
      <3> QED
        BY <3>1, <3>2
    <2> QED
      BY <2>1, <2>2, <2>3 DEF Attended, AgentStageHasDispatcher
  <1> QED
    BY <1>1, <1>2

LEMMA InitAttended == Init => Attended
  <1> SUFFICES ASSUME Init PROVE Attended
    OBVIOUS
  <1>1. \A g \in Workers : pc[g] = "idle"
    BY DEF Init, Threads
  <1>2. \A s \in AgentStages : row[s].status \notin {"DISPATCHING", "RUNNING"}
    BY DEF Init, FreshRow
  <1>3. budget.crashes <= MaxCrashes
    BY DEF Init
  <1> QED
    BY <1>1, <1>2, <1>3 DEF Attended, AgentStageHasDispatcher

\* As long as the service has not been restarted, no interleaving leaves an agent
\* stage shown as dispatching or running without a dispatcher that will conclude it.
THEOREM AgentStageAttended == Spec => []AgentStageHasDispatcher
  <1>1. Spec => [](Inv /\ Backed /\ Attended)
    BY InitType, NextType, InitBacked, NextBacked, InitAttended, NextAttended, PTL DEF Spec
  <1>2. Attended => AgentStageHasDispatcher
    BY DEF Attended
  <1> QED
    BY <1>1, <1>2, PTL

-----------------------------------------------------------------------------
(* The budget of the self-repair loops *)

LEMMA CounterWriters ==
  ASSUME Inv, [Next]_vars
  PROVE  \/ UNCHANGED <<rounds, repairs>> /\ budget'.faults = budget.faults
         \/ \E g \in Workers : ClearRounds(g) \/ SpendRound(g) \/ SpendRoundUncounted(g)
         \/ \E c \in Clients, s \in Stages : RetryRequest(c, s)
  <1> USE DEF durable, history
  <1>1. CASE \E t \in Threads : EvaluateTask(t)
    BY <1>1 DEF EvaluateTask, LoadTask, LoadStages, QueueStage, StartGoroutines, SetTask
  <1>2. CASE \E g \in Workers : DispatchStage(g)
    BY <1>2 DEF DispatchStage, ReadStage, MarkDispatching, MarkRunning, AgentConnectionDropped,
       AgentSucceeds, AgentFails, JobAccepted, JobRefused, AttachJob
  <1>3. CASE \E g \in Workers : PollEDARun(g)
    BY <1>3 DEF PollEDARun, PollStatus, WriteProgress, RepairReturns
  <1>4. CASE \E c \in Clients : Serve(c)
    BY <1>4 DEF Serve, RetryRequest, RejectRequest, ApproveRequest, ApproveStage,
       CancelRequest, Inv, TypeOK, Budgets
  <1>5. CASE RunOnce \/ Crash
    BY <1>5 DEF RunOnce, Crash, Inv, TypeOK, Budgets
  <1> QED
    BY <1>1, <1>2, <1>3, <1>4, <1>5
       DEF Next, vars, SaveStage, ResetStage, StartDispatch, StartPoll, JobEnds

LEMMA NextCounted == Inv /\ RepairsCounted /\ [Next]_vars => RepairsCounted'
  <1> SUFFICES ASSUME Inv, RepairsCounted, [Next]_vars PROVE RepairsCounted'
    OBVIOUS
  <1> USE DEF Inv, TypeOK, Budgets, durable
  <1>0. /\ \A s \in Stages : LoopOf(s) \in LoopKeys
        /\ \A g \in Workers : pc[g] \in {"clear", "count"} => mem[g].stage \in Stages
    BY DEF LoopOf, LoopKeys, Bound, Committed, Threads
  <1>1. CASE UNCHANGED <<rounds, repairs>> /\ budget'.faults = budget.faults
    BY <1>1 DEF RepairsCounted
  <1>2. ASSUME NEW g \in Workers, ClearRounds(g) PROVE RepairsCounted'
    BY <1>0, <1>2 DEF ClearRounds, At, RepairsCounted
  <1>3. ASSUME NEW g \in Workers, SpendRound(g) PROVE RepairsCounted'
    <2> PICK k \in LoopKeys : k = LoopOf(mem[g].stage)
      BY <1>0, <1>3 DEF SpendRound, At
    <2>1. /\ rounds' = [rounds EXCEPT ![k] = @ + 1] /\ UNCHANGED budget
          /\ \/ rounds[k] + 1 <= Budget[k] /\ repairs' = [repairs EXCEPT ![k] = @ + 1]
             \/ UNCHANGED repairs
      BY <1>3 DEF SpendRound
    <2> QED
      BY <2>1 DEF RepairsCounted
  <1>4. ASSUME NEW g \in Workers, SpendRoundUncounted(g) PROVE RepairsCounted'
    <2> PICK k \in LoopKeys : k = LoopOf(mem[g].stage)
      BY <1>0, <1>4 DEF SpendRoundUncounted, At
    <2>1. /\ UNCHANGED rounds /\ repairs' = [repairs EXCEPT ![k] = @ + 1]
          /\ budget.faults > 0 /\ budget'.faults = budget.faults - 1
      BY <1>4 DEF SpendRoundUncounted
    <2> QED
      BY <2>1 DEF RepairsCounted
  <1>5. ASSUME NEW c \in Clients, NEW s \in Stages, RetryRequest(c, s) PROVE RepairsCounted'
    BY <1>5 DEF RetryRequest, RepairsCounted
  <1> QED
    BY <1>1, <1>2, <1>3, <1>4, <1>5, CounterWriters

LEMMA InitCounted == Init => RepairsCounted
  BY DEF Init, RepairsCounted

\* However many pollers, retries and restarts spend from the counters, a loop runs
\* past its budget by at most the number of INCRs whose error was dropped.
THEOREM RepairsLimitedByFaults == Spec => []RepairsBoundedByFaults
  <1>1. Spec => [](Inv /\ RepairsCounted)
    BY InitType, NextType, InitCounted, NextCounted, PTL DEF Spec
  <1>2. Inv /\ RepairsCounted => RepairsBoundedByFaults
    BY DEF Inv, TypeOK, Budgets, RepairsCounted, RepairsBoundedByFaults
  <1> QED
    BY <1>1, <1>2, PTL

\* While Redis answers, a self-repair loop never dispatches more repair agents than
\* its budget between two passes or manual retries.
THEOREM RepairsLimited ==
  ASSUME MaxRedisFaults = 0
  PROVE  Spec => []RepairsBounded
  <1>1. RepairsBoundedByFaults => RepairsBounded
    BY DEF RepairsBoundedByFaults, RepairsBounded
  <1> QED
    BY <1>1, RepairsLimitedByFaults, PTL
=============================================================================
