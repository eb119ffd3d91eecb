----------------------------- MODULE MCOrchService -----------------------------
(***************************************************************************)
(* orchestrator-service while users and restarts interfere: a slice of the *)
(* stage graph and the rows of a task, explored in one run.  slice names   *)
(* what a behaviour is about:                                              *)
(*   "loop"    SIM alone with its repair loop and defects, with one retry, *)
(*             rejection or release and one restart at every point;        *)
(*   "fork"    PNR, STA and DRC_LVS side by side, SIGNOFF that joins them, *)
(*             one cancellation and every failure: two stages spend the    *)
(*             rounds of one repair loop;                                  *)
(*   "keeps"   createTask beside the scheduler and a reader, one statement *)
(*             that fails and one restart (the constants of the cfg);      *)
(*   "deletes" deleteTask beside all of them, for a task without           *)
(*             attachments, which leave no row that could come back.       *)
(* Both modules keep tasks, stages, the set inFlight and the goroutines    *)
(* under the same names, so these variables are shared.                    *)
(***************************************************************************)
EXTENDS TaskLifecycle, StageGraphs, TLC

CONSTANTS w1, w2  \* the goroutines of the fork

VARIABLES
    slice,
    rounds, jobs, watched, budget, done, released, answered, repairs

Deletion == INSTANCE TaskLifecycle WITH
    Deletes <- TRUE, MaxFaults <- 0, MaxCrashes <- 0, MaxRuns <- 1

Loop == INSTANCE Orchestrator WITH
    Stages <- LoopStages, DependsOn <- LoopDependsOn, Rank <- LoopRank,
    AgentStages <- {}, Gates <- {"SIM"}, SimStages <- {"SIM"},
    HardenStages <- {}, CheckedStages <- {"SIM"}, Budget <- OneRound,
    MaxTransient <- 0, JobIds <- {1, 2, 3}, Workers <- {"w1"}, Clients <- {"c1"},
    Tick <- "tick", NoStage <- "none",
    Requests <- {"approve", "override", "retry", "reject"}, Failures <- {"verdict"},
    MaxRequests <- 1, MaxTicks <- 1, Unbounded <- 9, MaxCrashes <- 1,
    MaxRedisFaults <- 0, MaxSpawned <- 1

Fork == INSTANCE Orchestrator WITH
    Stages <- ForkStages, DependsOn <- ForkDependsOn, Rank <- ForkRank,
    AgentStages <- {"SIGNOFF"}, Gates <- {}, SimStages <- {},
    HardenStages <- {"PNR", "DRC_LVS"}, CheckedStages <- {"PNR"}, Budget <- OneRound,
    MaxTransient <- 1, JobIds <- {1, 2, 3}, Workers <- {w1, w2}, Clients <- {"c1"},
    Tick <- "tick", NoStage <- "none",
    Requests <- {"cancel"}, Failures <- {"agent", "create", "job", "verdict"},
    MaxRequests <- 1, MaxTicks <- 1, Unbounded <- 9, MaxCrashes <- 0,
    MaxRedisFaults <- 0, MaxSpawned <- 1

Interchangeable == Permutations({w1, w2})

flowVars == <<rounds, jobs, watched, budget, done, released, answered, repairs>>
rowVars == <<attempts, request, bounds, runs, deleted>>

-----------------------------------------------------------------------------
RowsRest ==
    /\ attempts = {} /\ files = "none" /\ answer = None
    /\ faults = 0 /\ crashes = 0 /\ views = 0
    /\ runs = <<>> /\ deleted = FALSE

FlowRests ==
    /\ rounds = <<>> /\ jobs = <<>> /\ watched = <<>> /\ budget = <<>>
    /\ done = {} /\ released = {} /\ answered = {} /\ repairs = <<>>

ServiceInit ==
    \/ slice = "loop" /\ Loop!Init /\ RowsRest
    \/ slice = "fork" /\ Fork!Init /\ RowsRest
    \/ slice = "keeps" /\ Init /\ FlowRests
    \/ slice = "deletes" /\ Deletion!Init /\ files = "none" /\ FlowRests

ServiceNext ==
    /\ UNCHANGED slice
    /\ \/ slice = "loop" /\ Loop!Next /\ UNCHANGED rowVars
       \/ slice = "fork" /\ Fork!Next /\ UNCHANGED rowVars
       \/ slice = "keeps" /\ Next /\ UNCHANGED flowVars
       \/ slice = "deletes" /\ Deletion!Next /\ UNCHANGED flowVars

ServiceSpec == ServiceInit /\ [][ServiceNext]_<<slice, vars, flowVars>>

-----------------------------------------------------------------------------
(* Properties, beside AttachmentsFirst and DeletedIsGone *)

\* Between two manual retries a loop dispatches no more repairs than its rounds allow, though
\* stages side by side spend them at once.
RepairsAreBounded ==
    /\ slice = "loop" => Loop!RepairsBounded
    /\ slice = "fork" => Fork!RepairsBounded

\* A request answered 201 has made every stage, as long as nobody deletes the task.
CreatedIsWhole == slice = "keeps" => AnsweredIsWhole
===============================================================================
