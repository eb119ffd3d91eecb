----------------------------- MODULE EdaJobsProofs -----------------------------
(***************************************************************************)
(* Theorems about EdaJobs, for every set of jobs and every number of       *)
(* faults, restarts and deletions.                                         *)
(***************************************************************************)
EXTENDS EdaJobs, TLAPS

USE JobsAssumption

-----------------------------------------------------------------------------
(* Types *)

\* The phases of the worker in which it holds the id of a job.
Holding == worker.at \notin {"pop", "dead"}

\* The budgets only shrink.
Spent ==
    /\ budget.faults <= MaxFaults
    /\ budget.crashes <= MaxCrashes
    /\ budget.deletes <= MaxDeletes

Typed == TypeOK /\ Spent /\ (Holding => worker.job \in Jobs)

\* The parts of TypeOK the worker changes.
WorkerType == [at : {"pop", "begin", "announce", "progress", "running", "report",
                     "announce_failure", "dead"}, job : Jobs \cup {NoJob}]
BudgetType == [faults : Nat, crashes : Nat, deletes : Nat]

LEMMA InitTyped == Init => Typed
  BY DEF Init, Typed, TypeOK, Spent, Holding, Statuses, Results

\* A fault, a restart or a deletion spends one of its kind.
LEMMA Spending ==
  ASSUME Typed
  PROVE  /\ Fault => /\ budget' \in BudgetType /\ Spent'
                     /\ budget'.faults < MaxFaults
         /\ (budget.crashes > 0 /\ budget' = [budget EXCEPT !.crashes = @ - 1]) =>
               budget' \in BudgetType /\ Spent' /\ budget'.crashes < MaxCrashes
         /\ (budget.deletes > 0 /\ budget' = [budget EXCEPT !.deletes = @ - 1]) =>
               budget' \in BudgetType /\ Spent' /\ budget'.deletes < MaxDeletes
  <1>1. MaxFaults \in Nat /\ MaxCrashes \in Nat /\ MaxDeletes \in Nat
    OBVIOUS
  <1>2. /\ budget \in BudgetType
        /\ budget.faults \in Nat /\ budget.crashes \in Nat /\ budget.deletes \in Nat
        /\ budget.faults <= MaxFaults /\ budget.crashes <= MaxCrashes
        /\ budget.deletes <= MaxDeletes
    BY DEF Typed, TypeOK, Spent, BudgetType
  <1>3. ASSUME Fault
        PROVE  /\ budget' \in BudgetType /\ Spent' /\ budget'.faults < MaxFaults
    BY <1>1, <1>2, <1>3 DEF Fault, BudgetType, Spent
  <1>4. ASSUME budget.crashes > 0, budget' = [budget EXCEPT !.crashes = @ - 1]
        PROVE  budget' \in BudgetType /\ Spent' /\ budget'.crashes < MaxCrashes
    BY <1>1, <1>2, <1>4 DEF BudgetType, Spent
  <1>5. ASSUME budget.deletes > 0, budget' = [budget EXCEPT !.deletes = @ - 1]
        PROVE  budget' \in BudgetType /\ Spent' /\ budget'.deletes < MaxDeletes
    BY <1>1, <1>2, <1>5 DEF BudgetType, Spent
  <1>6. QED
    BY <1>3, <1>4, <1>5

\* What the helpers of the worker do to its place and its job.
LEMMA WorkerMoves ==
  ASSUME Typed,
         NEW label \in {"announce", "progress", "running", "report", "announce_failure", "dead"},
         WorkerTo(label)
  PROVE  worker' \in WorkerType /\ worker'.at = label /\ worker'.job = worker.job
  BY DEF Typed, TypeOK, WorkerTo, WorkerType

LEMMA NextJobMoves ==
  ASSUME NextJob
  PROVE  worker' \in WorkerType /\ worker'.at = "pop" /\ worker'.job = NoJob
  BY DEF NextJob, WorkerType

LEMMA SetRowType ==
  ASSUME Typed, NEW j \in Jobs, NEW s \in Statuses, SetRow(j, s)
  PROVE  /\ row' \in [Jobs -> Statuses]
         /\ \A k \in Jobs : k # j => row'[k] = row[k]
         /\ row'[j] = IF row[j] = "absent" THEN "absent" ELSE s
  BY DEF Typed, TypeOK, SetRow, Statuses

\* The requests.
LEMMA RequestTyped ==
  ASSUME Typed, NEW j \in Jobs, Post(j) \/ CreateJob(j) \/ ClientGivesUp(j) \/ Delete(j)
  PROVE  Typed'
  <1>1. CASE Post(j)
    BY <1>1 DEF Post, Typed, TypeOK, Spent, Holding
  <1>2. CASE CreateRow(j)
    BY <1>2 DEF CreateRow, Typed, TypeOK, Spent, Holding, Statuses
  <1>3. CASE Enqueue(j)
    <2>1. queue' \in Seq(Jobs)
      BY <1>3 DEF Enqueue, Typed, TypeOK
    <2>2. QED
      BY <1>3, <2>1 DEF Enqueue, Typed, TypeOK, Spent, Holding
  <1>4. CASE Reply(j)
    BY <1>4 DEF Reply, Typed, TypeOK, Spent, Holding
  <1>5. CASE HandlerFails(j)
    <2>1. budget' \in BudgetType /\ Spent'
      BY <1>5, Spending DEF HandlerFails
    <2>2. QED
      BY <1>5, <2>1 DEF HandlerFails, Typed, TypeOK, Holding, BudgetType
  <1>6. CASE ClientGivesUp(j)
    BY <1>6 DEF ClientGivesUp, Typed, TypeOK, Spent, Holding
  <1>7. CASE Delete(j)
    <2>1. budget' \in BudgetType /\ Spent'
      BY <1>7, Spending DEF Delete
    <2>2. QED
      BY <1>7, <2>1 DEF Delete, Typed, TypeOK, Holding, Statuses, BudgetType
  <1>8. QED
    BY <1>1, <1>2, <1>3, <1>4, <1>5, <1>6, <1>7 DEF CreateJob

\* Steps that only move the worker, or move it for a fault.
LEMMA MoveTyped ==
  ASSUME Typed, worker' \in WorkerType, Holding' => worker'.job \in Jobs,
         budget' = budget \/ (Fault /\ budget' \in BudgetType),
         row' \in [Jobs -> Statuses], queue' \in Seq(Jobs), starts' \in [Jobs -> Nat],
         outcome' \in [Jobs -> Results \cup {"none"}],
         UNCHANGED <<handler, client>>
  PROVE  Typed'
  <1>1. budget' \in BudgetType /\ Spent'
    BY Spending DEF Typed, TypeOK, Spent, BudgetType
  <1>2. QED
    BY <1>1 DEF Typed, TypeOK, WorkerType, BudgetType

LEMMA WorkerTyped == ASSUME Typed, WorkerLoop PROVE Typed'
  <1>1. /\ row \in [Jobs -> Statuses] /\ queue \in Seq(Jobs) /\ starts \in [Jobs -> Nat]
        /\ outcome \in [Jobs -> Results \cup {"none"}] /\ worker \in WorkerType
        /\ Holding => worker.job \in Jobs
    BY DEF Typed, TypeOK, WorkerType
  <1>2. Fault => budget' \in BudgetType
    BY Spending
  <1>3. CASE Pop
    <2>1. queue' \in Seq(Jobs) /\ Head(queue) \in Jobs
      BY <1>1, <1>3 DEF Pop
    <2>2. worker' \in WorkerType /\ worker'.job \in Jobs
      BY <1>3, <2>1 DEF Pop, WorkerType
    <2>3. QED
      BY <1>1, <1>3, <2>1, <2>2, MoveTyped DEF Pop
  <1>4. CASE PopFails
    <2>1. queue' \in Seq(Jobs)
      <3>1. queue # <<>> => Tail(queue) \in Seq(Jobs)
        BY <1>1
      <3>2. queue' = queue \/ (queue # <<>> /\ queue' = Tail(queue))
        BY <1>4 DEF PopFails
      <3>3. QED
        BY <1>1, <3>1, <3>2
    <2>2. worker' \in WorkerType /\ ~Holding'
      BY <1>4, WorkerMoves DEF PopFails, Holding
    <2>3. QED
      BY <1>1, <1>2, <1>4, <2>1, <2>2, MoveTyped DEF PopFails
  <1>5. CASE Begin
    <2>1. worker.job \in Jobs
      BY <1>1, <1>5 DEF Begin, WorkerAt, Holding
    <2>2. row' \in [Jobs -> Statuses] /\ starts' \in [Jobs -> Nat]
      <3>1. CASE row[worker.job] = "absent"
        BY <1>1, <1>5, <3>1 DEF Begin
      <3>2. CASE row[worker.job] # "absent"
        <4>1. SetRow(worker.job, "RUNNING")
              /\ starts' = [starts EXCEPT ![worker.job] = @ + 1]
          BY <1>5, <3>2 DEF Begin
        <4>2. row' \in [Jobs -> Statuses]
          BY <2>1, <4>1, SetRowType DEF Statuses
        <4>3. starts[worker.job] + 1 \in Nat
          BY <1>1, <2>1
        <4>4. starts' \in [Jobs -> Nat]
          BY <1>1, <4>1, <4>3
        <4>5. QED
          BY <4>2, <4>4
      <3>3. QED
        BY <3>1, <3>2
    <2>3. worker' \in WorkerType /\ (Holding' => worker'.job \in Jobs)
      BY <1>5, <2>1, WorkerMoves, NextJobMoves DEF Begin, Holding
    <2>4. QED
      BY <1>1, <1>5, <2>2, <2>3, MoveTyped DEF Begin
  <1>6. CASE Announce \/ Progress
    <2>1. worker' \in WorkerType /\ worker'.job = worker.job /\ worker.job \in Jobs
      BY <1>1, <1>6, WorkerMoves DEF Announce, Progress, WorkerAt, Holding
    <2>2. QED
      BY <1>1, <1>6, <2>1, MoveTyped DEF Announce, Progress
  <1>7. CASE AnnounceFails \/ AnnounceFailureFails
    <2>1. worker' \in WorkerType /\ ~Holding'
      BY <1>7, WorkerMoves DEF AnnounceFails, AnnounceFailureFails, Holding
    <2>2. QED
      BY <1>1, <1>2, <1>7, <2>1, MoveTyped DEF AnnounceFails, AnnounceFailureFails
  <1>8. CASE RunStage
    <2>1. worker.job \in Jobs
      BY <1>1, <1>8 DEF RunStage, WorkerAt, Holding
    <2>2. PICK r \in Results :
            /\ outcome' = [outcome EXCEPT ![worker.job] = r]
            /\ SetRow(worker.job, IF r = "clean" THEN "COMPLETED" ELSE "FAILED")
            /\ IF row[worker.job] = "absent" THEN NextJob
               ELSE WorkerTo(IF r = "raised" THEN "announce_failure" ELSE "report")
      BY <1>8 DEF RunStage
    <2>3. row' \in [Jobs -> Statuses] /\ outcome' \in [Jobs -> Results \cup {"none"}]
      BY <1>1, <2>1, <2>2, SetRowType DEF Statuses
    <2>4. worker' \in WorkerType /\ (Holding' => worker'.job \in Jobs)
      <3>1. CASE NextJob
        BY <3>1, NextJobMoves DEF Holding
      <3>2. CASE WorkerTo("announce_failure") \/ WorkerTo("report")
        BY <2>1, <3>2, WorkerMoves
      <3>3. QED
        BY <2>2, <3>1, <3>2
    <2>5. QED
      BY <1>1, <1>8, <2>3, <2>4, MoveTyped DEF RunStage
  <1>9. CASE Report \/ AnnounceFailure
    <2>1. worker' \in WorkerType /\ ~Holding'
      BY <1>9, NextJobMoves DEF Report, AnnounceFailure, Holding
    <2>2. QED
      BY <1>1, <1>9, <2>1, MoveTyped DEF Report, AnnounceFailure
  <1>10. CASE Caught
    <2>1. worker.job \in Jobs
      BY <1>1, <1>10 DEF Caught, Holding
    <2>2. row' \in [Jobs -> Statuses]
      BY <1>1, <1>10, <2>1, SetRowType DEF Caught, Statuses
    <2>3. worker' \in WorkerType /\ (Holding' => worker'.job \in Jobs)
      BY <1>10, <2>1, WorkerMoves, NextJobMoves DEF Caught, Holding
    <2>4. outcome' \in [Jobs -> Results \cup {"none"}]
      BY <1>1, <1>10, <2>1 DEF Caught
    <2>5. QED
      BY <1>1, <1>2, <1>10, <2>2, <2>3, <2>4, MoveTyped DEF Caught
  <1>11. QED
    BY <1>3, <1>4, <1>5, <1>6, <1>7, <1>8, <1>9, <1>10 DEF WorkerLoop

LEMMA CrashTyped == ASSUME Typed, Crash PROVE Typed'
  <1>1. worker' \in WorkerType /\ ~Holding'
    BY NextJobMoves DEF Crash, Holding
  <1>2. handler' \in [Jobs -> {"none", "create", "enqueue", "reply"}]
        /\ client' \in [Jobs -> {"none", "waiting", "accepted", "refused"}]
    BY DEF Crash, Typed, TypeOK
  <1>3. budget' \in BudgetType /\ Spent'
    BY Spending DEF Crash
  <1>4. QED
    BY <1>1, <1>2, <1>3 DEF Crash, Typed, TypeOK, WorkerType, BudgetType

LEMMA StepTyped == Typed /\ [Next]_vars => Typed'
  <1>1. CASE UNCHANGED vars
    BY <1>1 DEF vars, Typed, TypeOK, Spent, Holding
  <1>2. QED
    BY <1>1, RequestTyped, WorkerTyped, CrashTyped DEF Next

\* Every variable keeps its type (TypeOK), for every value of the constants.
THEOREM TypeCorrect == Spec => []TypeOK
  <1>1. Typed => TypeOK
    BY DEF Typed
  <1>2. QED
    BY <1>1, InitTyped, StepTyped, PTL DEF Spec

-----------------------------------------------------------------------------
(* What faults, restarts and deletions leave of the budget *)

\* No step gives anything back, and what is untouched after it saw none of the three.
LEMMA BudgetShrinks ==
  ASSUME Typed, [Next]_vars
  PROVE  /\ budget'.faults <= budget.faults
         /\ Untouched' => Untouched /\ ~Fault /\ budget' = budget
  <1>1. /\ budget.faults \in Nat
        /\ MaxFaults \in Nat /\ MaxCrashes \in Nat /\ MaxDeletes \in Nat
    BY DEF Typed, TypeOK
  <1>2. Untouched' => ~Fault
    <2>1. ASSUME Fault, Untouched' PROVE FALSE
      BY <1>1, <2>1, Spending DEF Untouched
    <2>2. QED
      BY <2>1
  <1>3. CASE budget' = budget
    BY <1>1, <1>2, <1>3 DEF Untouched
  <1>4. CASE Fault
    BY <1>1, <1>2, <1>4 DEF Fault, Typed, TypeOK
  <1>5. CASE Crash \/ \E j \in Jobs : Delete(j)
    <2>1. budget'.faults = budget.faults
      BY <1>5 DEF Crash, Delete, Typed, TypeOK
    <2>2. budget'.crashes < MaxCrashes \/ budget'.deletes < MaxDeletes
      BY <1>5, Spending DEF Crash, Delete
    <2>3. ~Untouched'
      BY <1>1, <2>2 DEF Untouched
    <2>4. QED
      BY <1>1, <2>1, <2>3
  <1>6. budget' = budget \/ Fault \/ Crash \/ \E j \in Jobs : Delete(j)
    BY DEF Next, vars, Post, CreateJob, CreateRow, Enqueue, Reply, HandlerFails, ClientGivesUp,
           WorkerLoop, Pop, PopFails, Begin, Announce, AnnounceFails, Progress, RunStage, Report,
           Caught, AnnounceFailure, AnnounceFailureFails
  <1>7. QED
    BY <1>3, <1>4, <1>5, <1>6

-----------------------------------------------------------------------------
(* HonestVerdict *)

LEMMA InitHonest == Init => HonestVerdict
  BY DEF Init, HonestVerdict

\* Steps that set no verdict, or FAILED because of a fault.
LEMMA NoVerdictHonest ==
  ASSUME Typed, Typed', HonestVerdict, budget'.faults <= budget.faults,
         \A j \in Jobs : \/ row'[j] = row[j] /\ outcome'[j] = outcome[j]
                         \/ row'[j] \notin Ended
                         \/ row'[j] = "FAILED" /\ budget'.faults < MaxFaults
  PROVE  HonestVerdict'
  <1>1. SUFFICES ASSUME NEW j \in Jobs
                 PROVE  /\ row'[j] = "COMPLETED" => outcome'[j] = "clean"
                        /\ row'[j] = "FAILED" /\ outcome'[j] = "clean" =>
                              budget'.faults < MaxFaults
    BY DEF HonestVerdict
  <1>2. MaxFaults \in Nat /\ budget.faults \in Nat /\ budget'.faults \in Nat
    BY DEF Typed, TypeOK
  <1>3. CASE row'[j] = row[j] /\ outcome'[j] = outcome[j]
    <2>1. /\ row[j] = "COMPLETED" => outcome[j] = "clean"
          /\ row[j] = "FAILED" /\ outcome[j] = "clean" => budget.faults < MaxFaults
      BY DEF HonestVerdict
    <2>2. budget.faults < MaxFaults => budget'.faults < MaxFaults
      BY <1>2
    <2>3. QED
      BY <1>3, <2>1, <2>2
  <1>4. QED
    BY <1>3 DEF Ended

\* The verdict of run_stage and the row it goes to change in one step.
LEMMA RunStageHonest == ASSUME Typed, HonestVerdict, RunStage PROVE HonestVerdict'
  <1>1. worker.job \in Jobs /\ outcome \in [Jobs -> Results \cup {"none"}] /\ budget' = budget
    BY DEF RunStage, WorkerAt, Typed, TypeOK, Holding
  <1>2. PICK r \in Results :
          /\ outcome' = [outcome EXCEPT ![worker.job] = r]
          /\ SetRow(worker.job, IF r = "clean" THEN "COMPLETED" ELSE "FAILED")
    BY DEF RunStage
  <1>3. /\ \A k \in Jobs : k # worker.job => row'[k] = row[k]
        /\ row'[worker.job] = IF row[worker.job] = "absent" THEN "absent"
                              ELSE IF r = "clean" THEN "COMPLETED" ELSE "FAILED"
    BY <1>1, <1>2, SetRowType DEF Statuses
  <1>4. QED
    BY <1>1, <1>2, <1>3 DEF HonestVerdict

LEMMA StepHonest == Typed /\ HonestVerdict /\ [Next]_vars => HonestVerdict'
  <1> SUFFICES ASSUME Typed, HonestVerdict, [Next]_vars PROVE HonestVerdict'
    OBVIOUS
  <1>1. Typed' /\ budget'.faults <= budget.faults
    BY StepTyped, BudgetShrinks
  <1>2. CASE RunStage
    BY <1>2, RunStageHonest
  <1>3. CASE outcome' = outcome /\ row' = row
    BY <1>1, <1>3, NoVerdictHonest
  <1>4. ASSUME NEW j \in Jobs, CreateRow(j) \/ Delete(j)
        PROVE  HonestVerdict'
    <2>1. outcome' = outcome /\ \A k \in Jobs : row'[k] = row[k] \/ row'[k] \notin Ended
      BY <1>4 DEF CreateRow, Delete, Typed, TypeOK, Ended
    <2>2. QED
      BY <1>1, <2>1, NoVerdictHonest
  <1>5. CASE Begin
    <2>1. worker.job \in Jobs
      BY <1>5 DEF Begin, WorkerAt, Typed, Holding
    <2>2. outcome' = outcome /\ (row' = row \/ SetRow(worker.job, "RUNNING"))
      BY <1>5 DEF Begin
    <2>3. \A k \in Jobs : row'[k] = row[k] \/ row'[k] \notin Ended
      BY <2>1, <2>2, SetRowType DEF Statuses, Ended
    <2>4. QED
      BY <1>1, <2>2, <2>3, NoVerdictHonest
  <1>6. CASE Caught
    <2>1. /\ worker.job \in Jobs
          /\ \A k \in Jobs : k # worker.job => outcome'[k] = outcome[k]
          /\ SetRow(worker.job, "FAILED") \/ UNCHANGED <<row, outcome>>
      BY <1>6 DEF Caught, Typed, TypeOK, Holding
    <2>2. budget'.faults < MaxFaults
      BY <1>6, Spending DEF Caught
    <2>3. \A k \in Jobs : \/ row'[k] = row[k] /\ outcome'[k] = outcome[k]
                          \/ row'[k] = "FAILED"
                          \/ row'[k] \notin Ended
      <3>1. CASE UNCHANGED <<row, outcome>>
        BY <3>1
      <3>2. CASE SetRow(worker.job, "FAILED")
        <4>1. /\ \A k \in Jobs : k # worker.job => row'[k] = row[k]
              /\ row'[worker.job] = IF row[worker.job] = "absent" THEN "absent" ELSE "FAILED"
          BY <2>1, <3>2, SetRowType DEF Statuses
        <4>2. QED
          BY <2>1, <4>1 DEF Ended
      <3>3. QED
        BY <2>1, <3>1, <3>2
    <2>4. QED
      BY <1>1, <2>1, <2>2, <2>3, NoVerdictHonest
  <1>7. \/ RunStage \/ Begin \/ Caught
        \/ outcome' = outcome /\ row' = row
        \/ \E j \in Jobs : CreateRow(j) \/ Delete(j)
    BY DEF Next, vars, Post, CreateJob, Enqueue, Reply, HandlerFails, ClientGivesUp, Crash,
           WorkerLoop, Pop, PopFails, Announce, AnnounceFails, Progress, Report,
           AnnounceFailure, AnnounceFailureFails
  <1>8. QED
    BY <1>2, <1>3, <1>4, <1>5, <1>6, <1>7

\* The verdict shown is the one run_stage gave (HonestVerdict): COMPLETED means a clean
\* report, and a clean report is shown FAILED only after an error of Redis or the database.
THEOREM VerdictHonest == Spec => []HonestVerdict
  BY InitTyped, StepTyped, InitHonest, StepHonest, PTL DEF Spec

-----------------------------------------------------------------------------
(* RunAtMostOnce.  An id is queued once, by its own request, and handed out once: a
   job that waits to be queued or taken has never been started, and nothing else
   leads to a start. *)

\* The request of the job has yet to queue it.
Unqueued(j) == client[j] = "none" \/ handler[j] \in {"create", "enqueue"}

QueuedOnce == \A i, k \in 1..Len(queue) : queue[i] = queue[k] => i = k

Once ==
    /\ \A j \in Jobs : client[j] = "none" => handler[j] = "none"
    /\ \A j \in Jobs : Unqueued(j) => ~Queued(j)
    /\ \A j \in Jobs : Unqueued(j) \/ Queued(j) => worker.job # j /\ starts[j] = 0
    /\ QueuedOnce
    /\ worker.at = "begin" => starts[worker.job] = 0
    /\ RunAtMostOnce

LEMMA InitOnce == Init => Once
  <1> SUFFICES ASSUME Init PROVE Once
    OBVIOUS
  <1>1. \A j \in Jobs : ~Queued(j) /\ starts[j] = 0 /\ worker.job # j /\ handler[j] = "none"
    <2>1. Len(queue) = 0 /\ worker.job = NoJob
      BY DEF Init
    <2>2. \A j \in Jobs : ~Queued(j)
      BY <2>1 DEF Queued
    <2>3. QED
      BY <2>1, <2>2 DEF Init
  <1>2. QueuedOnce /\ worker.at # "begin"
    BY DEF Init, QueuedOnce
  <1>3. QED
    BY <1>1, <1>2 DEF Once, RunAtMostOnce

\* The queue without its head holds the ids it held, but no longer the head's.
LEMMA TailQueue ==
  ASSUME queue \in Seq(Jobs), queue # <<>>, QueuedOnce, queue' = Tail(queue)
  PROVE  /\ QueuedOnce'
         /\ Queued(Head(queue))
         /\ \A j \in Jobs : Queued(j)' => Queued(j) /\ j # Head(queue)
         /\ \A j \in Jobs : Queued(j) => Queued(j)' \/ j = Head(queue)
  <1>1. /\ Len(queue) \in Nat \ {0} /\ Len(queue') = Len(queue) - 1
        /\ \A i \in 1..Len(queue') : i + 1 \in 1..Len(queue) /\ queue'[i] = queue[i + 1]
        /\ Head(queue) = queue[1]
    OBVIOUS
  <1>2. QueuedOnce'
    BY <1>1 DEF QueuedOnce
  <1>3. Queued(Head(queue))
    BY <1>1 DEF Queued
  <1>4. ASSUME NEW j \in Jobs, Queued(j)' PROVE Queued(j) /\ j # Head(queue)
    BY <1>1, <1>4 DEF Queued, QueuedOnce
  <1>5. ASSUME NEW j \in Jobs, Queued(j), j # Head(queue) PROVE Queued(j)'
    <2>1. PICK i \in 1..Len(queue) : queue[i] = j
      BY <1>5 DEF Queued
    <2>2. i # 1 /\ i - 1 \in 1..Len(queue') /\ queue'[i - 1] = j
      BY <1>1, <1>5, <2>1
    <2>3. QED
      BY <2>2 DEF Queued
  <1>6. QED
    BY <1>2, <1>3, <1>4, <1>5

LEMMA AppendQueue ==
  ASSUME queue \in Seq(Jobs), NEW j \in Jobs, QueuedOnce, ~Queued(j),
         queue' = Append(queue, j)
  PROVE  /\ QueuedOnce'
         /\ \A k \in Jobs : Queued(k)' <=> Queued(k) \/ k = j
  <1>1. /\ Len(queue) \in Nat /\ Len(queue') = Len(queue) + 1
        /\ \A i \in 1..Len(queue) : queue'[i] = queue[i]
        /\ queue'[Len(queue) + 1] = j
    OBVIOUS
  <1>2. QueuedOnce'
    BY <1>1 DEF QueuedOnce, Queued
  <1>3. \A k \in Jobs : Queued(k)' <=> Queued(k) \/ k = j
    BY <1>1 DEF Queued
  <1>4. QED
    BY <1>2, <1>3

\* Steps after which no job waits that did not wait before, and that start none.
LEMMA QuietOnce ==
  ASSUME Once, UNCHANGED <<queue, starts>>,
         worker' = worker \/ (worker'.at # "begin" /\ worker'.job \in {worker.job, NoJob}),
         \A j \in Jobs : Unqueued(j)' => Unqueued(j),
         \A j \in Jobs : client'[j] = "none" => handler'[j] = "none"
  PROVE  Once'
  <1>1. \A j \in Jobs : Queued(j)' <=> Queued(j)
    BY DEF Queued
  <1>2. QueuedOnce'
    BY DEF Once, QueuedOnce
  <1>3. \A j \in Jobs : worker.job # j => worker'.job # j
    OBVIOUS
  <1>4. worker'.at = "begin" => starts'[worker'.job] = 0
    BY DEF Once
  <1>5. RunAtMostOnce'
    BY DEF Once, RunAtMostOnce
  <1>6. QED
    BY <1>1, <1>2, <1>3, <1>4, <1>5 DEF Once

LEMMA EnqueueOnce == ASSUME Typed, Once, NEW j \in Jobs, Enqueue(j) PROVE Once'
  <1>1. /\ queue \in Seq(Jobs) /\ QueuedOnce
        /\ handler[j] = "enqueue" /\ Unqueued(j) /\ ~Queued(j) /\ queue' = Append(queue, j)
        /\ client[j] # "none"
    BY DEF Enqueue, Typed, TypeOK, Once, Unqueued
  <1>2. QueuedOnce' /\ \A k \in Jobs : Queued(k)' <=> Queued(k) \/ k = j
    BY <1>1, AppendQueue
  <1>3. /\ UNCHANGED <<client, worker, starts>>
        /\ \A k \in Jobs : handler'[k] = IF k = j THEN "reply" ELSE handler[k]
    BY DEF Enqueue, Typed, TypeOK
  <1>4. \A k \in Jobs : Unqueued(k)' => Unqueued(k) /\ k # j
    BY <1>1, <1>3 DEF Unqueued
  <1>5. \A k \in Jobs : client'[k] = "none" => handler'[k] = "none"
    BY <1>1, <1>3 DEF Once
  <1>6. RunAtMostOnce' /\ (worker'.at = "begin" => starts'[worker'.job] = 0)
    BY <1>3 DEF Once, RunAtMostOnce
  <1>7. \A k \in Jobs : Unqueued(k)' \/ Queued(k)' => worker'.job # k /\ starts'[k] = 0
    BY <1>1, <1>2, <1>3, <1>4 DEF Once
  <1>8. \A k \in Jobs : Unqueued(k)' => ~Queued(k)'
    BY <1>2, <1>4 DEF Once
  <1>9. QED
    BY <1>2, <1>5, <1>6, <1>7, <1>8 DEF Once

LEMMA PopOnce == ASSUME Typed, Once, Pop \/ PopFails PROVE Once'
  <1>1. /\ queue \in Seq(Jobs) /\ QueuedOnce
        /\ UNCHANGED <<handler, client, starts>>
        /\ worker' \in WorkerType
    BY WorkerTyped, StepTyped DEF Pop, PopFails, Typed, TypeOK, Once, WorkerLoop, Next, WorkerType
  <1>2. CASE queue' = queue /\ PopFails
    <2>1. worker'.at # "begin" /\ worker'.job = worker.job
      BY <1>2, WorkerMoves DEF PopFails
    <2>2. QED
      BY <1>1, <1>2, <2>1, QuietOnce DEF Once, Unqueued
  <1>3. CASE queue # <<>> /\ queue' = Tail(queue)
    <2>1. /\ QueuedOnce' /\ Queued(Head(queue)) /\ Head(queue) \in Jobs
          /\ \A j \in Jobs : Queued(j)' => Queued(j) /\ j # Head(queue)
      BY <1>1, <1>3, TailQueue
    <2>2. \/ worker'.at = "begin" /\ worker'.job = Head(queue)
          \/ worker'.at = "dead" /\ worker'.job = worker.job
      BY WorkerMoves DEF Pop, PopFails
    <2>3. \A j \in Jobs : Unqueued(j)' <=> Unqueued(j)
      BY <1>1 DEF Unqueued
    <2>4. \A j \in Jobs : Unqueued(j)' => ~Queued(j)'
      BY <2>1, <2>3 DEF Once
    <2>5. \A j \in Jobs : Unqueued(j)' \/ Queued(j)' => worker'.job # j /\ starts'[j] = 0
      <3>1. SUFFICES ASSUME NEW j \in Jobs, Unqueued(j)' \/ Queued(j)'
                     PROVE  worker'.job # j /\ starts'[j] = 0
        OBVIOUS
      <3>2. worker.job # j /\ starts[j] = 0 /\ j # Head(queue)
        BY <2>1, <2>3, <3>1 DEF Once
      <3>3. QED
        BY <1>1, <2>2, <3>2
    <2>6. worker'.at = "begin" => starts'[worker'.job] = 0
      BY <1>1, <2>1, <2>2 DEF Once
    <2>7. RunAtMostOnce' /\ \A j \in Jobs : client'[j] = "none" => handler'[j] = "none"
      BY <1>1 DEF Once, RunAtMostOnce
    <2>8. QED
      BY <2>1, <2>4, <2>5, <2>6, <2>7 DEF Once
  <1>4. QED
    BY <1>2, <1>3 DEF Pop, PopFails

LEMMA BeginOnce == ASSUME Typed, Once, Begin PROVE Once'
  <1>1. /\ worker.job \in Jobs /\ starts[worker.job] = 0 /\ starts \in [Jobs -> Nat]
        /\ UNCHANGED <<queue, handler, client>>
    BY DEF Begin, WorkerAt, Typed, TypeOK, Holding, Once
  <1>2. CASE row[worker.job] = "absent"
    <2>1. NextJob /\ starts' = starts
      BY <1>2 DEF Begin
    <2>2. worker'.at # "begin" /\ worker'.job = NoJob
      BY <2>1, NextJobMoves
    <2>3. QED
      BY <1>1, <2>1, <2>2, QuietOnce DEF Once, Unqueued
  <1>3. CASE row[worker.job] # "absent"
    <2>1. WorkerTo("announce") /\ starts' = [starts EXCEPT ![worker.job] = @ + 1]
      BY <1>3 DEF Begin
    <2>2. worker'.at # "begin" /\ worker'.job = worker.job
      BY <2>1, WorkerMoves
    <2>3. \A j \in Jobs : starts'[j] = IF j = worker.job THEN 1 ELSE starts[j]
      BY <1>1, <2>1
    <2>4. /\ QueuedOnce' /\ RunAtMostOnce'
          /\ \A j \in Jobs : (Queued(j)' <=> Queued(j)) /\ (Unqueued(j)' <=> Unqueued(j))
      BY <1>1, <2>3 DEF Once, QueuedOnce, Queued, Unqueued, RunAtMostOnce
    <2>5. QED
      BY <1>1, <2>2, <2>3, <2>4 DEF Once
  <1>4. QED
    BY <1>2, <1>3

LEMMA StepOnce == Typed /\ Once /\ [Next]_vars => Once'
  <1> SUFFICES ASSUME Typed, Once, [Next]_vars PROVE Once'
    OBVIOUS
  <1>1. \A j \in Jobs : client[j] = "none" => handler[j] = "none"
    BY DEF Once
  <1>2. ASSUME NEW j \in Jobs,
               Post(j) \/ CreateRow(j) \/ Reply(j) \/ HandlerFails(j) \/ ClientGivesUp(j)
                 \/ Delete(j)
        PROVE  Once'
    <2>1. UNCHANGED <<queue, starts, worker>>
      BY <1>2 DEF Post, CreateRow, Reply, HandlerFails, ClientGivesUp, Delete
    <2>2. \A k \in Jobs : Unqueued(k)' => Unqueued(k)
      BY <1>2 DEF Unqueued, Post, CreateRow, Reply, HandlerFails, ClientGivesUp, Delete,
                  Typed, TypeOK
    <2>3. \A k \in Jobs : client'[k] = "none" => handler'[k] = "none"
      BY <1>1, <1>2 DEF Post, CreateRow, Reply, HandlerFails, ClientGivesUp, Delete, Typed, TypeOK
    <2>4. QED
      BY <2>1, <2>2, <2>3, QuietOnce
  <1>3. ASSUME NEW j \in Jobs, Enqueue(j) PROVE Once'
    BY <1>3, EnqueueOnce
  <1>4. CASE Pop \/ PopFails
    BY <1>4, PopOnce
  <1>5. CASE Begin
    BY <1>5, BeginOnce
  <1>6. CASE Announce \/ AnnounceFails \/ Progress \/ RunStage \/ Report \/ Caught
               \/ AnnounceFailure \/ AnnounceFailureFails
    <2>1. UNCHANGED <<queue, starts, client, handler>>
      BY <1>6 DEF Announce, AnnounceFails, Progress, RunStage, Report, Caught, AnnounceFailure,
                  AnnounceFailureFails
    <2>2. worker'.at # "begin" /\ worker'.job \in {worker.job, NoJob}
      BY <1>6, WorkerMoves, NextJobMoves
         DEF Announce, AnnounceFails, Progress, RunStage, Report, Caught, AnnounceFailure,
             AnnounceFailureFails
    <2>3. QED
      BY <1>1, <2>1, <2>2, QuietOnce DEF Unqueued
  <1>7. CASE Crash
    <2>1. UNCHANGED <<queue, starts>> /\ worker'.at # "begin" /\ worker'.job = NoJob
      BY <1>7, NextJobMoves DEF Crash
    <2>2. \A k \in Jobs : /\ Unqueued(k)' => Unqueued(k)
                          /\ client'[k] = "none" => handler'[k] = "none"
      BY <1>7 DEF Crash, Unqueued
    <2>3. QED
      BY <2>1, <2>2, QuietOnce
  <1>8. CASE UNCHANGED vars
    BY <1>1, <1>8, QuietOnce DEF vars, Unqueued
  <1>9. QED
    BY <1>2, <1>3, <1>4, <1>5, <1>6, <1>7, <1>8 DEF Next, CreateJob, WorkerLoop

\* No job runs twice (RunAtMostOnce), whatever fails and however often the service
\* restarts.
THEOREM RunOnlyOnce == Spec => []RunAtMostOnce
  <1>1. Once => RunAtMostOnce
    BY DEF Once
  <1>2. QED
    BY <1>1, InitTyped, StepTyped, InitOnce, StepOnce, PTL DEF Spec

-----------------------------------------------------------------------------
(* NothingLost.  Without a fault, a restart or a deletion every live job is in hand,
   and the worker only lets go of a job whose verdict is committed. *)

Live(j) == row[j] \in {"QUEUED", "RUNNING"}
InHand(j) == handler[j] = "enqueue" \/ Queued(j) \/ Worked(j)

Tidy ==
    Untouched =>
        /\ \A j \in Jobs : Live(j) => InHand(j)
        /\ worker.at = "pop" => worker.job = NoJob
        /\ worker.at \in {"report", "announce_failure"} => ~Live(worker.job)

LEMMA InitTidy == Init => Tidy
  BY DEF Init, Tidy, Live

LEMMA RequestTidy ==
  ASSUME Typed, Once, Tidy, Untouched, NEW j \in Jobs,
         Post(j) \/ CreateRow(j) \/ Enqueue(j) \/ Reply(j) \/ ClientGivesUp(j)
  PROVE  Tidy'
  <1>1. worker' = worker /\ \A k \in Jobs : Worked(k)' <=> Worked(k)
    BY DEF Post, CreateRow, Enqueue, Reply, ClientGivesUp, Worked
  <1>2. \A k \in Jobs : Live(k) => InHand(k)
    BY DEF Tidy
  <1>3. CASE CreateRow(j)
    <2>1. /\ \A k \in Jobs : k # j => row'[k] = row[k] /\ handler'[k] = handler[k]
          /\ handler'[j] = "enqueue" /\ queue' = queue
      BY <1>3 DEF CreateRow, Typed, TypeOK
    <2>2. worker.job # j
      BY <1>3 DEF CreateRow, Once, Unqueued
    <2>3. \A k \in Jobs : Queued(k)' <=> Queued(k)
      BY <2>1 DEF Queued
    <2>4. \A k \in Jobs : Live(k)' => InHand(k)'
      BY <1>1, <1>2, <2>1, <2>3 DEF Live, InHand
    <2>5. worker'.at \in {"report", "announce_failure"} => ~Live(worker.job)'
      BY <1>1, <2>1, <2>2 DEF Tidy, Typed, Holding, Live
    <2>6. QED
      BY <1>1, <2>4, <2>5 DEF Tidy
  <1>4. CASE Enqueue(j)
    <2>1. \A k \in Jobs : Queued(k)' <=> Queued(k) \/ k = j
      <3>1. queue \in Seq(Jobs) /\ QueuedOnce /\ ~Queued(j) /\ queue' = Append(queue, j)
        BY <1>4 DEF Enqueue, Typed, TypeOK, Once, Unqueued
      <3>2. QED
        BY <3>1, AppendQueue
    <2>2. row' = row /\ \A k \in Jobs : k # j => handler'[k] = handler[k]
      BY <1>4 DEF Enqueue, Typed, TypeOK
    <2>3. QED
      BY <1>1, <1>2, <2>1, <2>2 DEF Tidy, Live, InHand
  <1>5. CASE Post(j) \/ Reply(j) \/ ClientGivesUp(j)
    <2>1. /\ UNCHANGED <<row, queue>>
          /\ \A k \in Jobs : handler[k] = "enqueue" => handler'[k] = "enqueue"
      BY <1>5 DEF Post, Reply, ClientGivesUp, Typed, TypeOK, Once
    <2>2. \A k \in Jobs : Queued(k)' <=> Queued(k)
      BY <2>1 DEF Queued
    <2>3. QED
      BY <1>1, <1>2, <2>1, <2>2 DEF Tidy, Live, InHand
  <1>6. QED
    BY <1>3, <1>4, <1>5

\* A step of the worker on the job it holds.
LEMMA WorkTidy ==
  ASSUME Typed, Tidy, Untouched, Holding, UNCHANGED <<queue, handler>>,
         \A k \in Jobs : k # worker.job => row'[k] = row[k],
         \/ worker'.job = worker.job /\ worker'.at # "dead"
         \/ row'[worker.job] \notin {"QUEUED", "RUNNING"},
         worker'.at = "pop" => worker'.job = NoJob,
         worker'.at \in {"report", "announce_failure"} => ~Live(worker.job)'
  PROVE  Tidy'
  <1>1. \A k \in Jobs : Queued(k)' <=> Queued(k)
    BY DEF Queued
  <1>2. ASSUME NEW k \in Jobs, Live(k)' PROVE InHand(k)'
    <2>1. CASE k = worker.job
      BY <1>2, <2>1 DEF InHand, Worked, Live
    <2>2. CASE k # worker.job
      <3>1. Live(k) /\ ~Worked(k)
        BY <1>2, <2>2 DEF Live, Worked
      <3>2. QED
        BY <1>1, <3>1 DEF Tidy, InHand
    <2>3. QED
      BY <2>1, <2>2
  <1>3. QED
    BY <1>2 DEF Tidy

LEMMA PopTidy == ASSUME Typed, Once, Tidy, Untouched, Pop PROVE Tidy'
  <1>1. queue \in Seq(Jobs) /\ queue # <<>> /\ QueuedOnce /\ queue' = Tail(queue)
    BY DEF Pop, Typed, TypeOK, Once
  <1>2. \A k \in Jobs : Queued(k) => Queued(k)' \/ k = Head(queue)
    BY <1>1, TailQueue
  <1>3. worker'.at = "begin" /\ worker'.job = Head(queue) /\ UNCHANGED <<row, handler>>
    BY DEF Pop
  <1>4. ASSUME NEW k \in Jobs, Live(k)' PROVE InHand(k)'
    <2>1. Live(k) /\ InHand(k)
      BY <1>3, <1>4 DEF Live, Tidy
    <2>2. ~Worked(k)
      BY DEF Tidy, Worked, Pop, WorkerAt
    <2>3. QED
      BY <1>2, <1>3, <2>1, <2>2 DEF InHand, Worked
  <1>5. QED
    BY <1>3, <1>4 DEF Tidy

LEMMA BeginTidy == ASSUME Typed, Tidy, Untouched, Begin PROVE Tidy'
  <1>1. worker.job \in Jobs /\ Holding
    BY DEF Begin, WorkerAt, Typed, Holding
  <1>2. CASE row[worker.job] = "absent"
    <2>1. NextJob /\ row' = row
      BY <1>2 DEF Begin
    <2>2. QED
      BY <1>1, <1>2, <2>1, NextJobMoves, WorkTidy DEF Begin
  <1>3. CASE row[worker.job] # "absent"
    <2>1. WorkerTo("announce") /\ SetRow(worker.job, "RUNNING")
      BY <1>3 DEF Begin
    <2>2. \A k \in Jobs : k # worker.job => row'[k] = row[k]
      BY <1>1, <2>1, SetRowType DEF Statuses
    <2>3. QED
      BY <1>1, <2>1, <2>2, WorkerMoves, WorkTidy DEF Begin
  <1>4. QED
    BY <1>2, <1>3

LEMMA RunStageTidy == ASSUME Typed, Tidy, Untouched, RunStage PROVE Tidy'
  <1>1. worker.job \in Jobs /\ Holding
    BY DEF RunStage, WorkerAt, Typed, Holding
  <1>2. PICK r \in Results :
          /\ SetRow(worker.job, IF r = "clean" THEN "COMPLETED" ELSE "FAILED")
          /\ IF row[worker.job] = "absent" THEN NextJob
             ELSE WorkerTo(IF r = "raised" THEN "announce_failure" ELSE "report")
    BY DEF RunStage
  <1>3. /\ \A k \in Jobs : k # worker.job => row'[k] = row[k]
        /\ row'[worker.job] \notin {"QUEUED", "RUNNING"}
    BY <1>1, <1>2, SetRowType DEF Statuses
  <1>4. \/ worker'.at = "pop" /\ worker'.job = NoJob
        \/ worker'.at \in {"report", "announce_failure"} /\ worker'.job = worker.job
    BY <1>2, NextJobMoves, WorkerMoves
  <1>5. worker'.at \in {"report", "announce_failure"} => ~Live(worker.job)'
    BY <1>3, <1>4 DEF Live
  <1>6. QED
    BY <1>1, <1>3, <1>4, <1>5, WorkTidy DEF RunStage

LEMMA StepTidy == Typed /\ Once /\ Tidy /\ [Next]_vars => Tidy'
  <1> SUFFICES ASSUME Typed, Once, Tidy, [Next]_vars, Untouched' PROVE Tidy'
    BY DEF Tidy
  <1>1. Untouched /\ ~Fault /\ budget' = budget
    BY BudgetShrinks
  <1>2. ASSUME NEW j \in Jobs,
               Post(j) \/ CreateRow(j) \/ Enqueue(j) \/ Reply(j) \/ ClientGivesUp(j)
        PROVE  Tidy'
    BY <1>1, <1>2, RequestTidy
  <1>3. CASE Pop
    BY <1>1, <1>3, PopTidy
  <1>4. CASE Begin
    BY <1>1, <1>4, BeginTidy
  <1>5. CASE Announce \/ Progress
    <2>1. worker'.job = worker.job /\ worker'.at \in {"progress", "running"} /\ Holding
      BY <1>5, WorkerMoves DEF Announce, Progress, WorkerAt, Holding
    <2>2. UNCHANGED <<row, queue, handler>>
      BY <1>5 DEF Announce, Progress
    <2>3. QED
      BY <1>1, <2>1, <2>2, WorkTidy
  <1>6. CASE RunStage
    BY <1>1, <1>6, RunStageTidy
  <1>7. CASE Report \/ AnnounceFailure
    <2>1. worker'.job = NoJob /\ worker'.at = "pop" /\ Holding
      BY <1>7, NextJobMoves DEF Report, AnnounceFailure, WorkerAt, Holding
    <2>2. UNCHANGED <<row, queue, handler>> /\ ~Live(worker.job)
      BY <1>1, <1>7 DEF Report, AnnounceFailure, WorkerAt, Tidy
    <2>3. QED
      BY <1>1, <2>1, <2>2, WorkTidy DEF Live
  <1>8. CASE UNCHANGED vars
    BY <1>8 DEF vars, Tidy, Untouched, Live, InHand, Queued, Worked
  <1>9. ~Crash /\ ~\E j \in Jobs : Delete(j)
    BY <1>1, Spending DEF Crash, Delete, Untouched
  <1>10. QED
    BY <1>1, <1>2, <1>3, <1>4, <1>5, <1>6, <1>7, <1>8, <1>9
       DEF Next, CreateJob, WorkerLoop, HandlerFails, PopFails, AnnounceFails, Caught,
           AnnounceFailureFails

\* A job that is shown as QUEUED or RUNNING is in the hands of its request, the queue
\* or the worker, unless a fault, a restart or a deletion hit the service (NothingLost).
THEOREM NoneLost == Spec => []NothingLost
  <1>1. Tidy => NothingLost
    BY DEF Tidy, NothingLost, Live, InHand
  <1>2. QED
    BY <1>1, InitTyped, StepTyped, InitOnce, StepOnce, InitTidy, StepTidy, PTL DEF Spec

-----------------------------------------------------------------------------
(* The contract.  Where nothing is deleted, faults and restarts may delay a job for
   ever but break none of the safety the orchestrator relies on. *)

\* A request creates its row once, and a job is taken up before it has a verdict.
Known ==
    \A j \in Jobs :
        /\ client[j] = "none" \/ handler[j] = "create" => row[j] = "absent"
        /\ handler[j] \in {"enqueue", "reply"} => row[j] # "absent"
        /\ handler[j] # "none" => client[j] \in {"waiting", "refused"}
        /\ handler[j] = "enqueue" \/ Queued(j) \/ (worker.at = "begin" /\ worker.job = j)
             => row[j] \notin Ended

LEMMA InitKnown == Init => Known
  <1> SUFFICES ASSUME Init PROVE Known
    OBVIOUS
  <1>1. \A j \in Jobs : ~Queued(j) /\ worker.at # "begin"
    <2>1. Len(queue) = 0
      BY DEF Init
    <2>2. \A j \in Jobs : ~Queued(j)
      BY <2>1 DEF Queued
    <2>3. QED
      BY <2>2 DEF Init
  <1>2. QED
    BY <1>1 DEF Init, Known

LEMMA RequestKnown ==
  ASSUME Typed, Once, Known, NEW j \in Jobs,
         Post(j) \/ CreateRow(j) \/ Enqueue(j) \/ Reply(j) \/ HandlerFails(j)
           \/ ClientGivesUp(j)
  PROVE  Known'
  <1>1. worker' = worker
    BY DEF Post, CreateRow, Enqueue, Reply, HandlerFails, ClientGivesUp
  <1>2. CASE Enqueue(j)
    <2>1. \A k \in Jobs : Queued(k)' <=> Queued(k) \/ k = j
      <3>1. queue \in Seq(Jobs) /\ QueuedOnce /\ ~Queued(j) /\ queue' = Append(queue, j)
        BY <1>2 DEF Enqueue, Typed, TypeOK, Once, Unqueued
      <3>2. QED
        BY <3>1, AppendQueue
    <2>2. /\ handler[j] = "enqueue" /\ UNCHANGED <<row, client>>
          /\ \A k \in Jobs : handler'[k] = IF k = j THEN "reply" ELSE handler[k]
      BY <1>2 DEF Enqueue, Typed, TypeOK
    <2>3. QED
      BY <1>1, <2>1, <2>2 DEF Known
  <1>3. CASE CreateRow(j)
    <2>1. /\ handler[j] = "create" /\ UNCHANGED <<queue, client>>
          /\ \A k \in Jobs : /\ row'[k] = IF k = j THEN "QUEUED" ELSE row[k]
                             /\ handler'[k] = IF k = j THEN "enqueue" ELSE handler[k]
      BY <1>3 DEF CreateRow, Typed, TypeOK
    <2>2. \A k \in Jobs : Queued(k)' <=> Queued(k)
      BY <2>1 DEF Queued
    <2>3. client[j] # "none"
      BY <2>1 DEF Once
    <2>4. QED
      BY <1>1, <2>1, <2>2, <2>3 DEF Known, Ended
  <1>4. CASE Post(j) \/ Reply(j) \/ HandlerFails(j) \/ ClientGivesUp(j)
    <2>1. UNCHANGED <<row, queue>>
      BY <1>4 DEF Post, Reply, HandlerFails, ClientGivesUp
    <2>2. \A k \in Jobs : Queued(k)' <=> Queued(k)
      BY <2>1 DEF Queued
    <2>3. ASSUME NEW k \in Jobs
          PROVE  /\ \/ handler'[k] = "none"
                    \/ handler'[k] = handler[k]
                    \/ handler'[k] = "create" /\ client[k] = "none"
                 /\ client'[k] = "none" => client[k] = "none"
                 /\ handler'[k] # "none" => client'[k] \in {"waiting", "refused"}
      <3>1. /\ handler[k] # "none" => client[k] \in {"waiting", "refused"}
            /\ DOMAIN handler = Jobs /\ DOMAIN client = Jobs
        BY DEF Known, Typed, TypeOK
      <3>2. CASE Post(j)
        BY <3>1, <3>2 DEF Post
      <3>3. CASE Reply(j)
        BY <3>1, <3>3 DEF Reply
      <3>4. CASE HandlerFails(j)
        BY <3>1, <3>4 DEF HandlerFails
      <3>5. CASE ClientGivesUp(j)
        BY <3>1, <3>5 DEF ClientGivesUp
      <3>6. QED
        BY <1>4, <3>2, <3>3, <3>4, <3>5
    <2>4. QED
      BY <1>1, <2>1, <2>2, <2>3 DEF Known
  <1>5. QED
    BY <1>2, <1>3, <1>4

\* A step of the worker on the row of the job it holds, or on no row.
LEMMA WorkKnown ==
  ASSUME Known, UNCHANGED <<handler, client>>,
         \A k \in Jobs : Queued(k)' => Queued(k),
         \A k \in Jobs : worker'.at = "begin" /\ worker'.job = k => Queued(k),
         \A k \in Jobs : row'[k] = row[k]
                           \/ (row[k] # "absent" /\ row'[k] # "absent" /\ ~Unqueued(k) /\ ~Queued(k))
  PROVE  Known'
  <1>1. SUFFICES ASSUME NEW k \in Jobs
                 PROVE  /\ client[k] = "none" \/ handler[k] = "create" => row'[k] = "absent"
                        /\ handler[k] \in {"enqueue", "reply"} => row'[k] # "absent"
                        /\ handler[k] # "none" => client[k] \in {"waiting", "refused"}
                        /\ handler[k] = "enqueue" \/ Queued(k) => row'[k] \notin Ended
    BY DEF Known
  <1>2. QED
    BY DEF Known, Unqueued

LEMMA StepKnown ==
  ASSUME MaxDeletes = 0
  PROVE  Typed /\ Once /\ Known /\ [Next]_vars => Known'
  <1> SUFFICES ASSUME Typed, Once, Known, [Next]_vars PROVE Known'
    OBVIOUS
  <1>1. ASSUME NEW j \in Jobs,
               Post(j) \/ CreateRow(j) \/ Enqueue(j) \/ Reply(j) \/ HandlerFails(j)
                 \/ ClientGivesUp(j)
        PROVE  Known'
    BY <1>1, RequestKnown
  <1>2. CASE Pop \/ PopFails
    <2>1. queue \in Seq(Jobs) /\ QueuedOnce /\ UNCHANGED <<row, handler, client>>
      BY <1>2 DEF Pop, PopFails, Typed, TypeOK, Once
    <2>2. CASE queue' = queue /\ PopFails
      <3>1. \A k \in Jobs : (Queued(k)' <=> Queued(k)) /\ worker'.at # "begin"
        BY <2>2, WorkerMoves DEF PopFails, Queued
      <3>2. QED
        BY <2>1, <3>1, WorkKnown
    <2>3. CASE queue # <<>> /\ queue' = Tail(queue)
      <3>1. Queued(Head(queue)) /\ \A k \in Jobs : Queued(k)' => Queued(k)
        BY <2>1, <2>3, TailQueue
      <3>2. worker'.at = "begin" => worker'.job = Head(queue)
        BY <1>2, WorkerMoves DEF Pop, PopFails
      <3>3. QED
        BY <2>1, <3>1, <3>2, WorkKnown
    <2>4. QED
      BY <1>2, <2>2, <2>3 DEF Pop, PopFails
  <1>3. CASE Begin \/ Announce \/ AnnounceFails \/ Progress \/ RunStage \/ Report \/ Caught
               \/ AnnounceFailure \/ AnnounceFailureFails
    <2>1. worker.job \in Jobs /\ UNCHANGED <<queue, handler, client>>
      BY <1>3 DEF Begin, Announce, AnnounceFails, Progress, RunStage, Report, Caught,
                  AnnounceFailure, AnnounceFailureFails, WorkerAt, Typed, Holding
    <2>2. worker'.at # "begin"
      BY <1>3, WorkerMoves, NextJobMoves
         DEF Begin, Announce, AnnounceFails, Progress, RunStage, Report, Caught,
             AnnounceFailure, AnnounceFailureFails
    <2>3. row' = row \/ \E s \in {"RUNNING", "COMPLETED", "FAILED"} : SetRow(worker.job, s)
      BY <1>3 DEF Begin, Announce, AnnounceFails, Progress, RunStage, Report, Caught,
                  AnnounceFailure, AnnounceFailureFails
    <2>4. \A k \in Jobs : \/ row'[k] = row[k]
                          \/ row[k] # "absent" /\ row'[k] # "absent" /\ k = worker.job
      BY <2>1, <2>3, SetRowType DEF Statuses
    <2>5. ~Unqueued(worker.job) /\ ~Queued(worker.job)
      BY <2>1 DEF Once
    <2>6. \A k \in Jobs : Queued(k)' <=> Queued(k)
      BY <2>1 DEF Queued
    <2>7. QED
      BY <2>1, <2>2, <2>4, <2>5, <2>6, WorkKnown
  <1>4. CASE Crash
    <2>1. UNCHANGED <<row, queue>> /\ worker'.at # "begin"
      BY <1>4, NextJobMoves DEF Crash
    <2>2. \A k \in Jobs : Queued(k)' <=> Queued(k)
      BY <2>1 DEF Queued
    <2>3. \A k \in Jobs : handler'[k] = "none" /\ (client'[k] = "none" => client[k] = "none")
      BY <1>4 DEF Crash
    <2>4. QED
      BY <2>1, <2>2, <2>3 DEF Known
  <1>5. CASE UNCHANGED vars
    BY <1>5 DEF vars, Known, Queued
  <1>6. ~\E j \in Jobs : Delete(j)
    BY DEF Delete, Typed, Spent, TypeOK
  <1>7. QED
    BY <1>1, <1>2, <1>3, <1>4, <1>5, <1>6 DEF Next, CreateJob, WorkerLoop

\* Every step changes at most one job for its caller, in one of the contract's ways.
ContractStep ==
    \/ \E j \in Jobs :
        /\ \/ row[j] = "absent" /\ row'[j] = "QUEUED"
           \/ row[j] \in {"QUEUED", "RUNNING"} /\ row'[j] \in Ended
        /\ \A k \in Jobs \ {j} : row'[k] = row[k]
        /\ \A k \in Jobs : client'[k] = client[k]
    \/ \E j \in Jobs :
        /\ row[j] # "absent" /\ client'[j] = "accepted"
        /\ \A k \in Jobs \ {j} : client'[k] = client[k]
        /\ \A k \in Jobs : row'[k] = row[k]
    \/ \A k \in Jobs :
        /\ client'[k] = "accepted" <=> client[k] = "accepted"
        /\ \/ row'[k] = row[k]
           \/ row[k] \in Ended /\ row'[k] \in Ended
           \/ row[k] \in {"QUEUED", "RUNNING"} /\ row'[k] \in {"QUEUED", "RUNNING"}

LEMMA StepContract ==
  ASSUME MaxDeletes = 0, Typed, Known, [Next]_vars
  PROVE  ContractStep
  <1>1. ASSUME NEW j \in Jobs, CreateRow(j) PROVE ContractStep
    <2>1. row[j] = "absent"
      BY <1>1 DEF CreateRow, Known
    <2>2. /\ row'[j] = "QUEUED" /\ client' = client
          /\ \A k \in Jobs \ {j} : row'[k] = row[k]
      BY <1>1 DEF CreateRow, Typed, TypeOK
    <2>3. QED
      BY <2>1, <2>2 DEF ContractStep
  <1>2. ASSUME NEW j \in Jobs, Reply(j) PROVE ContractStep
    <2>1. row[j] # "absent" /\ row' = row
      BY <1>2 DEF Reply, Known
    <2>2. /\ \A k \in Jobs \ {j} : client'[k] = client[k]
          /\ client'[j] = IF client[j] = "waiting" THEN "accepted" ELSE client[j]
      BY <1>2 DEF Reply, Typed, TypeOK
    <2>3. CASE client[j] = "waiting"
      BY <2>1, <2>2, <2>3 DEF ContractStep
    <2>4. CASE client[j] # "waiting"
      BY <2>1, <2>2, <2>4 DEF ContractStep
    <2>5. QED
      BY <2>3, <2>4
  <1>3. ASSUME NEW j \in Jobs, Post(j) \/ Enqueue(j) \/ HandlerFails(j) \/ ClientGivesUp(j)
        PROVE  ContractStep
    <2>1. row' = row
      BY <1>3 DEF Post, Enqueue, HandlerFails, ClientGivesUp
    <2>2. \A k \in Jobs : client'[k] = client[k]
                            \/ (client[k] # "accepted" /\ client'[k] # "accepted")
      <3>1. handler[j] # "none" => client[j] # "accepted"
        BY DEF Known
      <3>2. CASE Post(j) \/ Enqueue(j)
        BY <3>2 DEF Post, Enqueue, Typed, TypeOK
      <3>3. CASE HandlerFails(j)
        BY <3>1, <3>3 DEF HandlerFails, Typed, TypeOK
      <3>4. CASE ClientGivesUp(j)
        BY <3>4 DEF ClientGivesUp, Typed, TypeOK
      <3>5. QED
        BY <1>3, <3>2, <3>3, <3>4
    <2>3. QED
      BY <2>1, <2>2 DEF ContractStep
  <1>4. CASE Crash
    BY <1>4 DEF Crash, ContractStep
  <1>5. CASE Begin \/ RunStage \/ Caught
    <2>1. worker.job \in Jobs /\ client' = client
      BY <1>5 DEF Begin, RunStage, Caught, WorkerAt, Typed, Holding
    <2>2. row[worker.job] \in Statuses
      BY <2>1 DEF Typed, TypeOK
    <2>3. CASE row' = row
      BY <2>1, <2>3 DEF ContractStep
    <2>4. CASE Begin /\ row' # row
      <3>1. /\ \A k \in Jobs : k # worker.job => row'[k] = row[k]
            /\ row'[worker.job] = IF row[worker.job] = "absent" THEN "absent" ELSE "RUNNING"
        BY <2>1, <2>4, SetRowType DEF Begin, Statuses
      <3>2. row[worker.job] \notin Ended
        BY <2>1, <2>4 DEF Begin, WorkerAt, Known
      <3>3. QED
        BY <2>1, <2>2, <3>1, <3>2 DEF ContractStep, Statuses, Ended
    <2>5. CASE (RunStage \/ Caught) /\ row' # row
      <3>1. \E s \in Ended : SetRow(worker.job, s)
        BY <2>5 DEF RunStage, Caught, Ended
      <3>2. PICK s \in Ended : SetRow(worker.job, s)
        BY <3>1
      <3>3. /\ \A k \in Jobs : k # worker.job => row'[k] = row[k]
            /\ row'[worker.job] = IF row[worker.job] = "absent" THEN "absent" ELSE s
        BY <2>1, <3>2, SetRowType DEF Statuses, Ended
      <3>4. CASE row[worker.job] \in {"QUEUED", "RUNNING"}
        BY <2>1, <3>3, <3>4 DEF ContractStep
      <3>5. CASE row[worker.job] \notin {"QUEUED", "RUNNING"}
        BY <2>1, <2>2, <3>3, <3>5 DEF ContractStep, Statuses, Ended
      <3>6. QED
        BY <3>4, <3>5
    <2>6. QED
      BY <1>5, <2>3, <2>4, <2>5
  <1>6. CASE \/ Pop \/ PopFails \/ Announce \/ AnnounceFails \/ Progress \/ Report
             \/ AnnounceFailure \/ AnnounceFailureFails \/ UNCHANGED vars
    BY <1>6 DEF Pop, PopFails, Announce, AnnounceFails, Progress, Report, AnnounceFailure,
                AnnounceFailureFails, vars, ContractStep
  <1>7. ~\E j \in Jobs : Delete(j)
    BY DEF Delete, Typed, Spent, TypeOK
  <1>8. QED
    BY <1>1, <1>2, <1>3, <1>4, <1>5, <1>6, <1>7 DEF Next, CreateJob, WorkerLoop

\* The two variables of the contract, as Contract maps them.
State == [j \in Jobs |-> IF row[j] = "absent" THEN "absent"
                         ELSE IF row[j] \in Ended THEN "ended" ELSE "live"]
Accepted == {j \in Jobs : client[j] = "accepted"}

LEMMA ContractStepRefines ==
  ASSUME Typed, Typed', ContractStep
  PROVE  [Contract!Next]_(Contract!vars)
  <1>1. CASE \E j \in Jobs :
              /\ \/ row[j] = "absent" /\ row'[j] = "QUEUED"
                 \/ row[j] \in {"QUEUED", "RUNNING"} /\ row'[j] \in Ended
              /\ \A k \in Jobs \ {j} : row'[k] = row[k]
              /\ \A k \in Jobs : client'[k] = client[k]
    <2>1. PICK j \in Jobs :
              /\ \/ row[j] = "absent" /\ row'[j] = "QUEUED"
                 \/ row[j] \in {"QUEUED", "RUNNING"} /\ row'[j] \in Ended
              /\ \A k \in Jobs \ {j} : row'[k] = row[k]
              /\ \A k \in Jobs : client'[k] = client[k]
      BY <1>1
    <2>2. Accepted' = Accepted
      BY <2>1 DEF Accepted
    <2>3. CASE row[j] = "absent" /\ row'[j] = "QUEUED"
      <3>1. State[j] = "absent" /\ State' = [State EXCEPT ![j] = "live"]
        BY <2>1, <2>3 DEF State, Ended
      <3>2. Contract!Create(j)
        BY <2>2, <3>1 DEF Contract!Create, State, Accepted
      <3>3. QED
        BY <3>2 DEF Contract!Next
    <2>4. CASE row[j] \in {"QUEUED", "RUNNING"} /\ row'[j] \in Ended
      <3>1. State[j] = "live" /\ State' = [State EXCEPT ![j] = "ended"]
        BY <2>1, <2>4 DEF State, Ended
      <3>2. Contract!End(j)
        BY <2>2, <3>1 DEF Contract!End, State, Accepted
      <3>3. QED
        BY <3>2 DEF Contract!Next
    <2>5. QED
      BY <2>1, <2>3, <2>4
  <1>2. CASE \E j \in Jobs :
              /\ row[j] # "absent" /\ client'[j] = "accepted"
              /\ \A k \in Jobs \ {j} : client'[k] = client[k]
              /\ \A k \in Jobs : row'[k] = row[k]
    <2>1. PICK j \in Jobs :
              /\ row[j] # "absent" /\ client'[j] = "accepted"
              /\ \A k \in Jobs \ {j} : client'[k] = client[k]
              /\ \A k \in Jobs : row'[k] = row[k]
      BY <1>2
    <2>2. State' = State /\ State[j] # "absent"
      BY <2>1 DEF State
    <2>3. Accepted' = Accepted \cup {j}
      BY <2>1 DEF Accepted
    <2>4. Contract!Accept(j)
      BY <2>2, <2>3 DEF Contract!Accept, State, Accepted
    <2>5. QED
      BY <2>4 DEF Contract!Next
  <1>3. CASE \A k \in Jobs :
              /\ client'[k] = "accepted" <=> client[k] = "accepted"
              /\ \/ row'[k] = row[k]
                 \/ row[k] \in Ended /\ row'[k] \in Ended
                 \/ row[k] \in {"QUEUED", "RUNNING"} /\ row'[k] \in {"QUEUED", "RUNNING"}
    <2>1. State' = State
      BY <1>3 DEF State, Ended
    <2>2. Accepted' = Accepted
      BY <1>3 DEF Accepted
    <2>3. QED
      BY <2>1, <2>2 DEF Contract!vars, State, Accepted
  <1>4. QED
    BY <1>1, <1>2, <1>3 DEF ContractStep

LEMMA ContractInit == Init => Contract!Init
  BY DEF Init, Contract!Init

\* Where nothing is deleted, and whatever else fails, eda-service keeps the safety part
\* of its contract: what it accepted exists, and what has ended stays ended.
THEOREM ContractKept == ASSUME MaxDeletes = 0 PROVE Spec => Contract!Spec
  <1>1. Typed /\ Typed' /\ Known /\ [Next]_vars => [Contract!Next]_(Contract!vars)
    BY StepContract, ContractStepRefines
  <1>2. Typed /\ Once /\ Known /\ [Next]_vars => Known'
    BY StepKnown
  <1>3. QED
    BY <1>1, <1>2, InitTyped, StepTyped, InitOnce, StepOnce, InitKnown, ContractInit, PTL
       DEF Spec, Contract!Spec

=============================================================================
