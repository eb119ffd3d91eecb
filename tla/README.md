# Chip-Orchestra: a verification development

Chip-Orchestra turns a design brief into a chip layout. An orchestrator (Go) drives a task
through a graph of eighteen stages; agents (Python, language models) write the golden model, the
RTL and the testbenches; an EDA service (Python) runs simulators and LibreLane; people approve
the results at three gates. This directory holds TLA+ models of the parts that decide *what runs
when*, *what counts as passed* and *what of it is shown to the reviewer*, the TLC runs that check
them, and TLAPS proofs about eight of the modules.

Contents: [Inventory](#inventory), [Modules](#modules), [Runs](#runs),
[Proofs](#proofs), [Where the code does something else](#where-the-code-does-something-else),
[Not modelled](#not-modelled), [Plan](#plan), [How to run](#how-to-run).

## Inventory

| Part | State it keeps | Operations | Talks to |
|---|---|---|---|
| Orchestrator scheduler, `orchestrator.go` | rows of tasks, stages, attempts (MySQL); repair counters (Redis); `inFlight` keys (memory) | `ScheduleLoop`/`RunOnce`, `evaluateTask`, `dispatchStage`, `pollEDARun`, `RetryStage`, `ApproveStage`, `RejectStage`, `QueueInitialStages`, `EnsureStages` | agent service (one blocking call per stage), EDA service (create a job, poll its status), workspace files |
| Orchestrator API, `handlers.go` | the same rows | create, patch, clone, delete a task; list and retry stages; approve or reject a gate; upload an input; files; events | scheduler by function call, browser by HTTP and event stream |
| EDA job queue, `eda-service/main.py`, `jobs/manager.py` | `eda_jobs` rows, Redis list `eda:jobs:queue` | create, status, logs, delete; `worker_loop`, `process_job` | orchestrator by HTTP, tool runners by a function call that blocks the event loop |
| Hardening runner, `toolchain/harden_runner.py` | workspace: `.tune_state.json`, `.run_fingerprint`, `runs/`, `gds/`, `achieved_clock.json` | `run_harden`, called for SYNTH, PNR and DRC_LVS | LibreLane; the stamp of the simulation runner |
| Simulation runner, `toolchain/sim_runner.py` | workspace: `waves/chip_output.mem`, `waves/golden_output.mem`, `verified_rtl.json` | `run_simulation`, `run_lint` | iverilog, vvp; `process_job`; `pollEDARun` |
| Analyses after layout, `sta_runner.py`, `gl_sim.py`, `render.py` | workspace: reports, the simulation image, traces, drawings of earlier runs | `run_sta`, `run_gl_sim`, `run_render` | OpenSTA, iverilog, yosys, KLayout; `runs/` of hardening |
| Pad ring, `padring_runner.py`, `librelane.py` | workspace: `padring/`, `gds/`, `runs/`, the pinout | `run_padring`, `run_chip_flow` | gdspy, KLayout, LibreLane |
| Agent stages, `agents/stage_handlers.py`, `hwsw.py`, `rtl_author.py` | workspace: `golden/`, `rtl/`, `tb/`, `hwsw/`, `reports/` | one handler per stage: GOLDEN_GEN, RTL_GEN, RTL_REPAIR, TB_GEN, HW_SW_VERIFY, SIGNOFF, EXPORT and stages of one model call | deep agents, compilers, the reports of eda-service |
| Deep agent and tools, `agents/deep_agent.py`, `verilog_check.py` | counters of a session; errors of the last writes; `work/_snippet.py`, `sw/scripts/`, the list of packages | the session loop; file tools, `run_python`, `pip_install`; compile checks | language model, iverilog, pip |
| Agent memory, `lessons.py`, `memory/store.py` | one JSON file on the shared volume; a table | learn and recall a lesson; save and search memories | every stage of every task |
| Agent service, `main.py`, `agents/graph.py`, `llm.py` | the model override of the process | `/agent/invoke`: load, select, execute, persist | stages, providers |
| Uploads, `uploads.py` | `context/uploads/`, digest, manifest | store, classify, describe; find the chip's input | a vision model, every stage |
| Reports, `reporting/` | figures, `.tex`, `.pdf` of earlier exports | collect evidence, typeset | pdflatex, EXPORT |
| Frontend, login, deployment | none that the flow depends on | | API |

How they interact. A tick every few seconds selects the tasks that can still move and evaluates
each one: it reads all stage rows once, saves the stages whose dependencies are done as QUEUED,
starts a goroutine for each queued stage and one for each running job, and writes the task's
status. A dispatcher marks its stage DISPATCHING and RUNNING and calls the agent, or creates an
EDA job and leaves a poller behind. Dispatchers, pollers and API requests evaluate the task again
when they are finished. All of them write whole rows from copies read earlier (gorm's `Save`); no
transaction spans two statements, and only `inFlight`, a set in memory, keeps two goroutines from
doing the same thing.

Stages and runners talk to each other through *files of one workspace per task*. Nothing clears
it between two runs of a stage: every handler and runner finds the results of earlier runs, of
other tops and of superseded RTL beside those it is about to make. It tells them apart by name,
order, age, a fingerprint, or not at all. Most properties below are about this.

What is hard about it, and what has to be true:

| Part | Hard behaviour | It is correct when |
|---|---|---|
| Scheduler | stale snapshots and rows, a retry or rejection amid running goroutines, pollers that give up, restarts, dropped Redis errors, two stages that share one counter | nothing starts on work nobody finished and reviewed, unless a user releases it by hand; a stage shown as done has evidence; COMPLETED means everything was done; the repair loops are bounded; nothing hangs |
| Rows of a task | creation and deletion statement by statement beside the tick, dispatchers that save deleted rows | no stage precedes its attachments; an accepted task is whole; what is deleted stays deleted |
| Job queue | three non-atomic steps of a creation, a job popped before its row is updated, errors after the verdict, a blocked event loop | no job runs twice, none is lost, no verdict is made up, every job ends |
| Hardening | results reused across jobs and designs, tune state that outlives crashes, RTL rewritten in between | what is delivered belongs to the RTL asked for and verified; no design inherits another one's clock |
| Simulation | a verdict that passes through three programs in two languages, files left by earlier runs, silent and absent testbenches | nothing is called green that failed; where a testbench was run, green means that it passed on the design's own, fresh output; only RTL that was run and passed is stamped |
| Analyses, pad ring, reports | outputs of other attempts, tops and layouts found by pattern; tools that fail half way | what passed, was measured, is wrapped or is printed belongs to the present layout |
| Agent stages | agents that write anything; passes that undo each other; verdicts made before the last rewrite; a handler that guesses why it was called | what is delivered satisfies the approved contract; failures with evidence are answered; the gate shows what the reviewer believes to see; every stage ends |
| Sessions, tools, memory | loops, refusals, empty answers; calls of one message on threads; a file shared by all tasks | a loop is cut; a lesson is earned; a call alone is exact; no lesson is lost |
| Requests, uploads | one override for all tasks; vision that fails, and probes that fail; restarts between two files | tasks that pick a model keep it; a reading is kept; the chip is fed data |

The list of hazards, each at its line and with the properties that cover it, is `hazards` in
`PROJECT.json`.

## Modules

| Module | Models | Extends, instantiates |
|---|---|---|
| `DesignFlow` | the abstract promise: stages finish along the graph, gates wait for a release | |
| `Orchestrator` | scheduler and the API handlers that write its rows, one task | refines `DesignFlow` |
| `TaskLifecycle` | the rows of a task from `createTask` to `deleteTask` beside the scheduler | |
| `JobContract` | the abstract promise of the EDA service | |
| `EdaJobs` | endpoints and worker of the EDA service | `JobLimits`; refines `JobContract` |
| `Hardening` | `run_harden`, job after job in one workspace | |
| `SimVerdict` | runner, job and poller of the stage SIM | |
| `PostLayout` | STA, GL_SIM and RENDER | |
| `PadRing` | PADRING: the ring, the Chip flow, what is collected | |
| `GoldenGen` | GOLDEN_GEN | |
| `RtlDirectory` | what RTL_GEN and RTL_REPAIR read of `rtl/` | |
| `RtlGen` | RTL_GEN | `RtlDirectory`, `StageLimits` |
| `RtlRepair` | RTL_REPAIR | `RtlDirectory`, `StageLimits` |
| `TbGen` | TB_GEN | |
| `HwSwVerify` | HW_SW_VERIFY, uploads beside it, runs nobody waits for | |
| `Export` | SIGNOFF and EXPORT with the reports they read | |
| `DeepAgent` | one session of a deep agent, and its repetitions | |
| `PythonTools` | `run_python` and `pip_install` with calls that overlap | `AgentCalls` |
| `LessonStore` | the file of lessons | `AgentCalls` |
| `AgentService` | requests side by side: model override and memories | |
| `Uploads` | pictures from their upload to digest, manifest and input | |
| `JobLimits`, `StageLimits`, `AgentCalls` | constants and their assumptions, shared by modules that one run composes | |
| `*Proofs` (eight) | theorems and their proofs | the module they are named after (`GoldenProofs`: `GoldenGen`; `StagesProofs`, `AgentToolsProofs`, `EdaServiceProofs`: the service modules `MCStages`, `MCAgentTools`, `MCEdaService`; `TaskLifecycleProofs`: `TaskLifecycle` and, for its theorems about `ServiceSpec`, `MCOrchService`), TLAPS |
| `StageGraphs` | slices of the stage graph, for TLC | |
| `MCOrchestrator`, `MCHardening` | instances for TLC | `Orchestrator`, `Hardening` |
| `MCOrchService`, `MCEdaService`, `MCStages`, `MCAgentTools` | one service each, with all its parts | see below |

Operators whose comment starts with "Mutant:" are deliberate bugs. No specification uses them;
`mutants` in `PROJECT.json` says which definition each one replaces and which property must then
fail.

*The four service modules.* Each takes the parts of one service together, with their small
instances, and explores their disjoint union: a variable (`slice`, `part`, `stage`) is fixed in
the initial state and names the part that acts for the whole behaviour, the others rest in a state
of theirs. The parts of a service do interact, but through what is already inside the modules
(the workspace that a stage finds may be left by any earlier stage; the report an analysis reads
may be of any attempt), so that a product of their steps would add interleavings and no state of a
part. `MCOrchService` goes one step further: `Orchestrator` and `TaskLifecycle` share the
variables they have in common (rows, goroutines, `inFlight`). Properties of a part are invariants
of the union because the resting states satisfy them or because they are guarded by the part's
name; fairness is meaningful because no step of a resting part is enabled. `MCEdaService`,
`MCStages` and `MCAgentTools` leave the bounds of their parts to the configuration, as constants
with named assumptions, so that what is proved about them holds for every instance.

### Orchestrator

One step is one access to MySQL, Redis or another service together with the local code that
follows it, so that every row can be stale when it is written. A goroutine is a member of
`Workers` (dispatchers and pollers, pooled), `Clients` (API requests) or `Tick`; `pc` says where
it is and `mem` holds its locals. `spawned` and `watched` count goroutines that were started and
are not yet at their guard.

A stage row keeps `status` and `external_job_id`, the columns that guards read. Progress, times,
error texts, attempts and events are data. Attempts need no variable here: a poller finds the
attempt of its job because nothing deletes attempts of a task that lives.

| Code | Actions |
|---|---|
| `RunOnce`, `evaluateTask` | `RunOnce`, `LoadTask`, `LoadStages` (the snapshot), `QueueStage` (one `Save` per stage, in `stageDefs` order), `StartGoroutines`, `SetTask` |
| `dispatchStage` | `StartDispatch` (the `inFlight` guard), `ReadStage`, `MarkDispatching`, `MarkRunning`, `AgentConnectionDropped`, `AgentSucceeds`, `AgentFails`, `JobAccepted`, `JobRefused`, `AttachJob` |
| `pollEDARun` | `StartPoll`, `PollStatus`, `WriteProgress`, `ClearRounds`, `SpendRound`, `SpendRoundUncounted` (INCR fails), `RepairReturns` |
| `failStage`, the success paths | `SaveStage`, then `evaluateTask` |
| `RetryStage` | `ResetStage`, one UPDATE per row in no particular order |
| handlers | `RetryRequest`, `RejectRequest`, `ApproveRequest`, `ApproveStage`, `CancelRequest` |
| environment | `JobEnds`, `Crash` |

Approvals and rejections look at neither stage nor status: neither the handlers
(`handlers.go:983-1004`) nor `ApproveStage` do, and the export button of the UI releases SIGNOFF
whatever it is doing (`TaskDetailPage.tsx:632-660`). So there are two kinds of request. `approve`
is the reviewer's answer to a gate that waits when it is sent, which fairness may rely on
(`AnswerGate`); `override` is a release of any stage at any time. Rejections hit any stage, too. What
a user releases by hand counts as reviewed: `ReviewedBeforeUse` and `Release` of `DesignFlow` take
their word for it, and claim that nothing but such a word (no race, stale row or restart) opens a
stage before its dependencies.

What the workspace and eda-service say about an ended job is one of four verdicts: `pass`;
`defect`, which a repair loop takes up; `unverified`, a clean job whose evidence is missing (no
chip output, negative slack); `broken`, a toolchain failure. `SimVerdict` models how the first
ones come about for SIM.

### TaskLifecycle

The same granularity, for the statements `Orchestrator` starts after: `createTask`
(`CreateTask`, `SaveTaskAttachments`, `CreateStage` per stage, `ReadInitial`, `QueueInitial`,
`Answer`), `deleteTask` (`DeleteAttempts`, `DeleteStages`, `DeleteRow`), `getStages`
(`ViewStages`, `EnsureStage`), a tick (`RunOnce`, `ReadStages`, `QueueReady`, `UpdateTask`) and
dispatchers (`Dispatch` to `SaveResult`). gorm's `Save` of a row that is gone inserts it, but a
stage's row needs the row of its task (`MayInsert`, the association of `models.go`); an attempt's
needs none. Stages form a chain and agents succeed; everything else a stage does is the subject
of `Orchestrator`.

### EdaJobs

Endpoints and worker are coroutines of one event loop, so one step is the code between two
awaits. `run_stage` is an ordinary call inside a coroutine: while the worker is at `running`, no
endpoint answers (`LoopFree`), and that is the only time a caller's 60 s timeout runs out. Faults,
restarts and deletions come out of `budget`. A fault is a command to Redis or to the database that
raises: in `create_job` it refuses the caller (`HandlerFails`), before the `try` of `process_job` it
ends the worker (`AnnounceFails`), inside it is caught, and the handler that marks the job FAILED
may meet it again (`Caught`).

### Hardening

The content of `rtl/` is a version. `Code` gives the part of a version that the simulation stamp
hashes, `Declared` the clock it declares. The state is what jobs leave in the workspace for each
other: the tune state, the chip directory with its fingerprint, the delivered GDS, the published
clock. LibreLane may end a run with any layout or none. The tuning rules are two: a miss of setup
timing relaxes the clock by an arbitrary amount; every other violation climbs one rung of a
ladder that stands for utilization, density, diodes and repair margins. `slow` and `quiet` are
history variables.

The early returns of `run_harden` before the tune state is touched (no RTL, no top module) change
nothing and are left out.

### SimVerdict

What a run meets is a record of seven facts, chosen anew for every run from all possible
combinations; what a run leaves behind stays in the workspace. The three steps are the three
programs. The messages in `report.errors` matter, since `simRunFailed` looks for words in them,
and so they are model values of their own. A "silent" run printed neither verdict. A run that
executes nothing because `vvp` is missing (`sim_runner.py:409`), or has no testbench to judge it,
leaves a warning and is COMPLETED (`NothingJudged`).

### PostLayout

`Harden` leaves one directory per attempt, which may have ended before its netlist, between
netlist and GDS, or with both (`reached`). The layout delivered is that of the last attempt that has
a GDS (`Delivered`), the netlist OpenSTA takes that of the newest one that has a netlist (`Netlist`):
they are not of one attempt when the last ones failed half way (`Overtaken`). The three jobs are
taken in the order their pollers enqueued them (`Take`) and run whole: `Sta` (OpenSTA on a
netlist, else the metrics), `GlSim` (`GlSkipped`, `GlCompile`, `GlSimulate`), `Render`
(`RenderSchematic`, `RenderGds`). A file is represented by the run or RTL it stems from, and files
of earlier jobs stay. `Retry` and `Rework` bring the stages back on the same and on another RTL.

### PadRing

The gdspy path is a sequence of steps because each may fail and leave the outputs of an earlier
run in place: `Skip`, `Place` (`FindCore`, `Rendered`), `Merge`, `MergeFails`, `KLayout`, `Copy`,
`Preview`, `End`; the Chip flow is one step (`ChipFlow`: `FlowEnds`, `Collected`, `Extracted`).
`Harden` adds cores under any name between runs. Placement by the padring binary may end in an
assembly that writes nothing, and then the chip layout of an earlier run passes for this one's
(`padring_runner.py:992`). Geometry is left out; which nets are routed is
kept (`Routed`).

### GoldenGen

`Start`, `AgentPass` (any workspace), `CheckWorkspace` (`VerdictOn`, `Rendered`, `Summarized`,
`GapsOf`), `Repair`, `Conclude`, with `ProviderRefuses`, the `Template` without a model, and
`Rerun`. The verdict of the tests is four facts into three flags, as `_run_golden_tests` computes
it: pytest or the scripts, passing, failing, skipping, empty. The picture is drawn from the dump
only where that is possible (`drawable`: there is a dump with words in it, of a side of two pixels
at least, and an imaging library); otherwise what the agent may have left there stays.

### RtlDirectory, RtlGen, RtlRepair

A file of `rtl/` is named after the module it should declare; its content is one of the kinds the
stages tell apart (`Contents`): absent, broken, a stub, one with a frame buffer, and so on. The
operators of `RtlDirectory` are the functions of `stage_handlers.py` that read the directory:
`Broken`, `Declared`, `Missing`, `Unimplemented`, `StructureGaps`, `Streaming`.

| `run_rtl_gen` | Actions of `RtlGen` |
|---|---|
| first pass | `Start`, `Generate`, `ProviderRefuses` |
| completeness gate, sweeps over single modules | `CompletePass`, `CompletePassesEnd`, `ModuleSweep` |
| deletion and regeneration of frame buffers | `Deframe`, `Regenerate`, `RegenerateEnds` |
| judgement, one-shot author | `Judge` (`Unmet`, `OneShotAllowed`), `Author`, `AuthorRepairs`, `AuthorDone`, `AuthorRefused` |

| `run_rtl_repair` | Actions of `RtlRepair` |
|---|---|
| who dispatches it, and what they leave | `Simulated`, `Synthesised`, `Dispatch` |
| synthesis, simulation, instruction | `SynthesisDue` … `RepairSynthesis`, `NoSynthesisError`, `RepairSimulation`, `NoSimulationError`, `FollowInstruction`, `NoInstruction` |
| `_repair_regression_pass` | `RegressionPass` |
| the ordinary path | `AlreadyClean`, `RepairCompile`, `CorrectOneFile`, `OneFile`, `NoFile` |

`report` of `RtlGen` and `status` of `RtlRepair` are the local variables that keep what was last
seen; when they are looked at again is the point of both modules. The brief of `RtlRepair` is short,
long (it alone makes the ordinary prompt reach the 180 characters of `stage_handlers.py:2217`) or one
that names simulation.

### TbGen

`Start` (what is asked for), `AgentPass` (any set of testbenches), `Check` (`Missing`), `Judge`,
`Template`, `Rerun`. A testbench is good, cannot fail, drives nothing, does not elaborate, does not
dump, or writes the golden output. The list of what is missing is made where the code makes it: at
the head of a round.

### HwSwVerify

A file under `hwsw/` is represented by the input its content stems from, the chip's answer also by
whether it is right. The driver is the generated one, which writes the stimulus before anything
else, or one an agent has written, which may end well and leave every file as it was (`AgentPass`,
`Encode`). `Decode` compares what lies there (`Compared`), or repeats
what an agent's driver left in its report, be it that of an earlier run. A run of the handler goes
through `Dispatch`, `Bridge` (bench against the validated testbench), `Encode`, `Compile`,
`Simulate`, `Decode`, `Repair`, `Conclude`; beside it the reviewer's `Upload`, `Reject`,
`RetryStage`, a rewritten reference bench, and `GiveUp`: the client's limit ends the call and not
the run.

### Export

Hardening jobs write their reports (`HardenJob`), SIGNOFF sums them up (`Signoff`), EXPORT authors
notes (`Author`), collects the evidence (`Collect`), typesets figures and paper (`Typeset`, one
`Pass` of pdflatex after the other, each may fail, hang or be `Killed`) and falls back to a plain
PDF (`GeneratePdf`). `Crash` restarts the service in between; `Again` and `Rework` ask for another
export of the same or another RTL.

### DeepAgent, PythonTools

A session reads a message (`Think`: the guards count it before its call is made), makes the call
(`Act`: write, delete, rename, check), and ends by `Conclude`, `Breaks` (a guard) or `Refuses` (the
provider); `NextSession` repeats an empty one. A design and its testbench stand for the files; a
text is one of few that differ in what the compiler says of them.

Calls of `run_python` go through `CountKept`, `Keep`, `WriteScript`, `Run`, calls of `pip_install`
through `TryPip`, `ReadRequirements`, `Record`, each step one access to a shared file. `together`
is the history of which calls overlapped.

### LessonStore, AgentService, Uploads

`LessonStore`: `Acquire` the lock, `Read` the file, `Truncate`, `Write`; `Crash` at any point.
Errors of the file are swallowed: one that cannot be read is an empty one (`ReadFails`), one that
cannot be written is left as it is or torn (`SaveFails`). `AgentService`: every request loads
memories, applies its pick to the process (`ApplyModel`), talks or completes (`Talk`, `Complete`),
saves a memory under a key of one-second resolution (`SaveMemory`, `Tick`) and reports. A completion
uses the pick of its task; without one it uses the model of the process where the provider is
Ollama, which is what another task has applied last (`RuntimeModel`). With Ollama, whether a model
can see is asked anew for every picture, and a probe that fails says no (`Probes` of `Uploads`).
`Uploads`: `Create` and `Invoke` store pictures; `Ingest`, `Classify`, `Describe`, `WriteDigest`,
`WriteManifest` read them once; `FindInput` chooses what the chip is fed; `Crash` between the two
writes.

## Runs

TLC explores each instance exhaustively, and every passing run ends within five minutes with two
workers. The numbers of distinct states are approximate. A property whose name is set in the
service module is the conjunction of the properties in parentheses, which the modules state.

| Run | Instance | Shows | States |
|---|---|---|---|
| `orch_chain` | GOLDEN_GEN (agent, gate), RTL_GEN (agent), SIM (EDA, gate, repair loop); two goroutines, a reviewer, one tick besides the evaluations of the goroutines, two jobs, one failing INCR, every kind of failure | `TypeOK`, `DoneHasEvidence`, `OneGoroutinePerKey`, `AgentStageHasDispatcher` | 850 000 |
| `orch_live` | GOLDEN_GEN and SIM without failures, ticks unbounded | `Delivered` | 410 000 |
| `orch_recover` | GOLDEN_GEN and SIM, one goroutine, one retry, rejection, release of any stage or cancellation, one restart, defects | `ReviewedBeforeUse`, `CompletedIsReviewed`, `NotStartedHasNoJob`, `RepairsBounded`, and that the service implements `DesignFlow` (`ImplementsFlow`) | 2 390 000 |
| `orch_service` | *loop*: SIM alone with defects and three jobs, one retry, rejection or release, one restart. *fork*: PNR, then STA and DRC_LVS side by side, then SIGNOFF; one cancellation. *keeps*: creation of a task with two stages beside tick, dispatcher and reader, one failing statement, one restart. *deletes*: the same with a deletion | `RepairsAreBounded` (`RepairsBounded` of both), `AttachmentsFirst`, `CreatedIsWhole`, `DeletedIsGone` | 2 790 000 |
| `eda_service` | *queue*: three jobs; one fault of Redis or the database, one restart, one deletion. *sim*: all combinations of facts, run after run. *layout*: two versions, two attempts, four jobs. *padring*: three names, two cores, three runs. *export*: two exports, a rework, a restart | `TypesOK`, `RunAtMostOnce`, `HonestVerdict`, `NothingLost`, `VerdictIsEarned` (`GreenHasPassed`, `StampHasPassed`, `OutputIsFresh`, `StampIsGreen`, `ToolFailureSurfaces`), `ChecksAreOfLayout` (`PassedIsOfLayout`, `MeasuredIsOfLayout`, `FailedAreOfLayout`), `RingIsOfThisRun` (`RingIsNotNested`, `AssembledByThisRun`, `PreviewIsOfLayout`, `ChipVerdictIsHonest`), `PaperIsWhole` (`AuthoredIsInPaper`, `PlainIsFallback`, `DeclaredIsWhole`) | 1 920 000 |
| `harden_flow` | two designs, one of them in two versions that differ in a file the stamp does not hash, the other with a declared clock; three attempts, two rewrites, clocks up to 3, one rung | `LayoutIsFresh`, `VerifiedCode`, `SlowOnlyWhenLate`, `TuneIsResumed` | 3 100 000 |
| `stages` | RTL_GEN over two modules under every contract and plan; RTL_REPAIR over the same under none and a full contract, with every kind of brief; TB_GEN with two rounds; HW_SW_VERIFY with one, an upload and both drivers; two EDA jobs without faults | `ContractIsImplemented`, `RepairIsHonest` (`EvidenceIsAnswered`, `VerifiedIsLeftAlone`, `ConclusionIsCurrent`, `RepairIsGated`), `DeliveredIsUsable` (with `ImageOutputIsDumped`), `AnswerIsHonest` (`AnswerIsForInput`, `MatchIsHonest`, `BenchIsCurrent`), `RunsEnd`, `KeepsContract` | 561 000 |
| `agent_tools` | two repair rounds of GOLDEN_GEN, every workspace after each; a session of four messages and two attempts; two snippets and two installations; three writers, a reader and a death or file error; three requests of two tasks; two pictures, two requests, a restart | `VerdictIsCurrent`, `FailingModelIsRefused`, `SessionIsGuarded` (`SpinIsCut`, `EmptyIsRetried`, `RefusalFails`), `LessonsAreEarned` (with `BenchIsBound`), `CallsAreExact` (`AloneIsExact`, `AloneIsKept`, `RecordedIsInstalled`), `NothingIsLost`, `RequestsAreApart` (`TextUsesOwnModel`, `AloneUsesOwnModel`, `AnsweredIsRemembered`, `OnlyTwinsCollide`), `PicturesAreRead` (`RolesAreDigested`, `ReadingIsKept`, `UnreadIsTried`, `InputIsData`) | 1 370 000 |
| `orch_gate_race` | GOLDEN_GEN and SIM, one retry | refutes `QueuedBehindOpenGates` | |
| `harden_clock`, `harden_verified` | as `harden_flow` with two attempts and one rewrite | refute `AchievedIsClosed` and `OnlyVerified` | |
| `sim_output` | all combinations of facts | refutes `OutputIsVerifiable` | |

Why the bounds are enough.

- Stages. The rows interact through dependencies and through one goroutine that evaluates all of
  them. The instances have every kind of edge: agent to agent, agent to EDA, gate to stage, a fork
  and a join. Every graph is covered by the proofs for what they state.
- Goroutines. `Workers` bounds how many goroutines are past their guard at once, not how many are
  started: the others wait in `spawned` and `watched`, where `MaxSpawned = 1` keeps one per stage
  or job. A second waiting goroutine of the same key behaves as the first one does. Races of two
  writers of a row need two goroutines, or one and a request or tick, and these instances have
  them.
- Ticks. A tick adds nothing to the evaluations that end every goroutine and request but its time:
  one tick at every point is enough to be stale against everything. In `orch_live` ticks are
  unbounded, since they restart pollers.
- Rounds and retries. `Budget` is one round instead of ten; a second one is what exceeds it.
  `MaxTransient` is one of the re-dispatches, `MaxRequests`, `MaxCrashes`, `MaxRedisFaults`
  (`Orchestrator`) and `MaxFaults` (`EdaJobs`, `TaskLifecycle`) one each, except where a run is
  about their absence. Repair rounds of the agent stages are one or two instead of three: a round in
  which the agent may leave anything behind, and one after it.
- Job ids. Two or three are enough for a first run, a repeated one and one in parallel. When they
  are used up, a dispatcher waits at `create_job` and that behaviour is cut off.
- Hardening. Three attempts instead of four: a first, a middle and a last one. Clocks 1 to 3 hold
  the default, the declared and one slower clock.
- Workspaces. Agents may leave every workspace the stages can tell apart, in every round: here the
  instances are complete, and only the number of modules (a top and one that may have a serial
  interface) is small. A second run on the same workspace is what makes files stale, and every
  instance has one.
- Serial interfaces. A streaming design is known by its brief, contract or files
  (`Streaming`); the instance of RTL_REPAIR leaves the brief out, since a contract with `uart` tells the
  same whatever files there are. Contracts of that instance are none and all modules: a partial one
  differs in what is missing, and files may be missing under the full one, too.
- Uploads. `MaxUploads` is one: the stage runs on the canonical input first, and the upload, which may
  come at any point of that run, brings another; what is stale afterwards is the first one's.
- Testbenches. The instance of TB_GEN has one unit beside the top, within the caps on units and
  elaborations (sixteen and twelve in the code): `DeliveredIsUsable` speaks of what is asked for.
  What the caps cut off nobody asks for; see `EveryModuleHasBench` below.
- Session. Four messages reach each guard (three writes of a path, two equal calls) and leave one
  call to clear it.

Deadlock is not checked (`CHECK_DEADLOCK FALSE`) where budgets end the behaviour or the system
may really stop, which a finished task, an empty queue and an idle workspace do.

### Fairness

- `Orchestrator!Fairness`: every goroutine goes on (the Go runtime), the ticker ticks, agents answer
  (the client has a timeout), jobs end (promised by `JobContract`), the reviewer answers open gates
  (`AnswerGate`; releases of stages that wait for nobody are never forced). Weak fairness is enough
  for each: no step of a goroutine is disabled by another one except a start that waits for a free
  worker. `Delivered` is claimed when nothing fails only.
- `EdaJobs!Fairness`: the event loop runs every coroutine that can go on, and `run_stage` ends
  because every tool it starts has a timeout. Nothing is assumed of callers.
- `RtlGen`, `RtlRepair`, `TbGen`, `HwSwVerify`: within a run every step is taken, since a session
  is bounded in steps and every tool in time. Retries, uploads and dispatches are not fair, with
  one exception: a QUEUED HW_SW_VERIFY is dispatched, as `orch_live` shows for any stage.
- The other modules claim no liveness.

## Proofs

### OrchestratorProofs

`OrchestratorProofs` proves, for every stage graph that satisfies the assumptions of
`Orchestrator`, every number of goroutines, jobs and requests, and every bound:

| Theorem | Statement |
|---|---|
| `TypeCorrect` | `Spec => []TypeOK` |
| `Reviewed` | `Spec => []ReviewedBeforeUse`: a stage that has started has dependencies that were finished and whose gates were released, or that a user has released by hand |
| `FlowImplemented` | `Spec => ImplementsFlow`, that is `Spec => Flow!Spec` |
| `CompletedReviewed` | `Spec => []CompletedIsReviewed` |
| `DoneEvidenced` | `Spec => []DoneHasEvidence` |
| `NotStartedIsFree` | `Spec => []NotStartedHasNoJob` |
| `OneGoroutine` | `Spec => []OneGoroutinePerKey` |
| `AgentStageAttended` | `Spec => []AgentStageHasDispatcher` |
| `RepairsLimitedByFaults` | `Spec => []RepairsBoundedByFaults`: a loop makes its budget of repairs and one more for each INCR that failed, at most |
| `RepairsLimited` | `Spec => []RepairsBounded` when `MaxRedisFaults = 0` |

Assumptions: `DagAssumption`, `ThreadAssumption` and `BoundAssumption`, which say that the
constants have the types their comments give them and that thread names do not overlap. That the
graph has no cycle is not needed.

*The argument.* `ReviewedBeforeUse` is not inductive. A goroutine between two accesses holds
copies that it will write whatever has happened since: the stages a snapshot found ready, the jobs
it found running, the row a dispatcher read, the verdict a poller is about to save. The
strengthening is `Review`, the conjunction of

- `RowsReviewed`: what a row says is on record: a stage that has left NOT_STARTED has
  dependencies that were once finished and reviewed, and a done stage is in `done`, a released
  one in `released`;
- `WatchesReviewed`: the same for pollers that wait at their guard;
- `CopyReviewed(t)` for every goroutine: at each place from which it may still write a status
  other than NOT_STARTED, the stage it will write has dependencies that were finished and
  reviewed.

A release is always a user's (`ApproveStage`), and a row that says RELEASED is on record as such, so
that an approval which hits a stage that was never started is a step of the flow, and the record
what the dependents rest on.

`done` and `released` only grow (`StartedStays`), so a copy that was justified when it was read is
justified whenever it is written. That is why stale rows do no harm to this property, and why the
stronger one, that gates are open *now*, fails (`orch_gate_race`). `Review` is proved action by
action; `CopyStep` reduces each to the goroutine that moves.

`FlowImplemented` needs only `SaveStage` to be looked at, the one action that changes `done` or
`released`; `Review` gives it the guard of `Finish`; a `Release` needs none. `CompletedReviewed` adds to
`Review` what a snapshot knew: a goroutine about to write COMPLETED has seen every stage done.

The other theorems have inductive invariants of their own, all of them about what a goroutine
still holds; TLC has checked each on the instances of `orch_chain` and `orch_recover` before it
was proved.

- `Backed` gives `DoneHasEvidence` and `NotStartedHasNoJob`. Rows (`RowsBacked`), pollers that
  wait at their guard (`WatchesBacked`) and copies (`CopyBacked`) name only jobs of their own EDA
  stage, and nothing that is written or may still be written claims a success without an answered
  agent or a passed job. A job's pass is final and jobs are not removed (`JobsKept`), so evidence
  that was there when a copy was taken is there when it is saved (`EvidenceStays`). The delicate
  place is a poller's progress write after a retry: the row it writes may be stale, so `CopyBacked`
  demands `RowBacked` of the copy itself.
- `Locked` gives `OneGoroutinePerKey`: a worker between its guard and its end has its key in
  `inFlight`. A restart clears `inFlight` and ends the goroutines with it.
- `Attended` gives `AgentStageHasDispatcher` on top of `Backed`: whoever sets an agent stage to
  DISPATCHING or RUNNING is at one of the three places of `Dispatching`, and a stage it leaves has
  been saved with a final status; nobody else writes such a status, since pollers only handle EDA
  stages.
- `RepairsCounted` bounds repairs by the counter in Redis plus the faults spent so far, and by the
  budget. Under faults `RepairsBounded` itself is false: the code drops the error of INCR and
  repairs again. Hence the general bound `RepairsBoundedByFaults`, of which `RepairsLimited` is the
  case without faults, the one `orch_recover` checks.

### EdaJobsProofs

For every set of jobs and every number of faults (of Redis and of the database), restarts and deletions
(`JobsAssumption`):

| Theorem | Statement |
|---|---|
| `TypeCorrect` | `Spec => []TypeOK` |
| `VerdictHonest` | `Spec => []HonestVerdict`: COMPLETED is a clean report, and a clean report is FAILED only after a fault |
| `RunOnlyOnce` | `Spec => []RunAtMostOnce` |
| `NoneLost` | `Spec => []NothingLost` |
| `ContractKept` | `Spec => Contract!Spec` when `MaxDeletes = 0` |

*The argument.* `HonestVerdict` is inductive once `budget.faults` is known to shrink
(`BudgetShrinks`). `RunAtMostOnce` is not: the invariant `Once` says that an id is in the queue at
most once, that its own request is the only one to put it there, and that an id which waits to be
queued, waits in the queue or was just popped has not been started. No `UNIQUE` constraint and no
check of the row's status enforces this in the code; it follows from who pushes an id, and when.
`Tidy` strengthens `NothingLost` by what the worker knows when it lets go of a job. `Known` ties
the row of a job to its request, so that a row is created once and taken up before it has a
verdict; with it every step is one of `JobContract` or a stutter, under faults and restarts as
well. A deletion breaks it, since a creation in flight may then be accepted without its row.

### HardeningProofs

For every set of versions, every clock range, ladder and number of attempts and rewrites
(`HardeningAssumption`, `NothingAssumption`):

| Theorem | Statement |
|---|---|
| `TypeCorrect` | `Spec => []TypeOK` |
| `TuneResumed` | `Spec => []TuneIsResumed` |
| `LayoutFresh` | `Spec => []LayoutIsFresh` |
| `CodeVerified` | `Spec => []VerifiedCode` |
| `ClockNotInherited` | `Spec => []SlowOnlyWhenLate` |
| `VerifiedWhenStamped` | `Spec => []OnlyVerified` when the stamp tells any two versions apart (`StampCoversAll`) |
| `PublishedClosed` | `Spec => []ClosedOrRefused`: the clock published with a clean layout is the one it was built for, unless that is slower than the declared one |
| `AchievedWhenUndeclared` | `Spec => []AchievedIsClosed` when no version declares a clock |

*The argument.* A job works on files that earlier jobs, for other RTL, left behind. As long as no
rewrite has hit a running job (`quiet`), the invariant `Earned` holds: a layout below `chip/` was
built from the RTL its fingerprint names (`ChipMarked`); a running job works for the RTL that is
there, and so does the layout it has so far (`JobCurrent`); a pass was given for the RTL of the
delivered layout, whose code the stamp covers (`VerdictEarned`); and a saved or current clock
slower than the design's own belongs to an RTL that has missed timing (`ClockEarned`).
`LayoutFresh`, `CodeVerified` and `ClockNotInherited` are read off it. `TuneIsResumed` holds with
rewrites too and is inductive with the types alone.

The last three theorems bound the two defects that `harden_verified` and `harden_clock` show. Under
`Earned` a passing job's layout has the code of the stamp; if equal code means equal files, which is
what `StampCoversAll` says and the code does not ensure, it is the version of the stamp. So the files
the stamp leaves out are the only way around the check. For the clock, `Settled` says where it is
kept: while a job looks for a clean layout there is none, and no fingerprint (`Sought`); the clock of
a job, and that of a clean layout that may be reused, is what the tune state gives the next job, or
slower than its design declares (`Remembered`); what a job is about to publish is of that clock
(`Published`). The exception is where the swallowed error keeps the state from being written; it is
part of the invariant, and a design without a declared clock never meets it.

### TaskLifecycleProofs

For every number of stages, dispatchers, readers, faults and restarts (`LifecycleAssumption`):

| Theorem | Statement |
|---|---|
| `ShapeCorrect` | `Spec => []Shape`, the types |
| `DeletedStays` | `Spec => []DeletedIsGone` |
| `AttachmentsStored` | `Spec => []AttachmentsFirst` |
| `AnsweredMakesAll` | `Spec => []AnsweredIsWhole`: unless the user may delete the task, one that was answered 201 has all its stages |
| `CreatedWhole` | `ServiceSpec => []CreatedIsWhole`: the same in `MCOrchService`, whose slices share variables |
| `RowsServed` | `ServiceSpec => [](AttachmentsFirst /\ DeletedIsGone)`: both in every slice |
| `RepairsWithinRounds` | `ServiceSpec => []RepairsAreBounded` |

*The argument.* `DeletedIsGone` is inductive with the types, although dispatchers still hold rows
that they will save: a stage's row is only inserted while the row of its task is there
(`MayInsert`), and `deleteTask` removes that one last, when the stages are gone already.
`AttachmentsFirst` needs `Pending`: as long as the attachments are not stored, nobody, neither the
request nor a tick nor a dispatcher, has a stage in hand. It holds because `createTask` stores them
before it inserts the first stage, and because the listing of stages, the only other place that
inserts one, completes a graph that has some stages and leaves an empty one alone.
`AnsweredIsWhole` is what `CreatedIsWhole` says of the part `keeps` of `orch_service`. Its
strengthening `MadeSoFar` says that `createTask` has made every stage it has passed; it survives
the others because rows are never removed without a deletion (`RowsKept`) and because a reader
that fills in a row first makes the insertion fail, which ends the request with 500.

In `MCOrchService` the slice with a deletion is an instance of `TaskLifecycle` with constants of its
own. `DeletionStep` shows that its steps are steps of the module, except for the two its constants
decide: a deletion begins, and a dispatcher goes on to its agent or leaves. Both leave the rows
alone (`BesideStep`). `RepairsAreBounded` is about the two slices of the stage graph. `Spent` says
that a loop dispatches no repair it has not counted, nor one beyond its budget. The counter itself
passes the budget, by the defect that fails the stage; two stages side by side spend the rounds of one
loop, but each compares what its own INCR returned.

### GoldenProofs

For every number of repair rounds (`RoundsAssumption`) and every workspace an agent may leave:

| Theorem | Statement |
|---|---|
| `TypeCorrect` | `Spec => []TypeOK` |
| `GateCorrect` | `Spec => []GateInv` |
| `VerdictCurrent`, `FailingRefused` | `Spec => []VerdictIsCurrent`, `Spec => []FailingModelIsRefused` |
| `PictureHonest` | `Spec => []PictureIsOfDump`: wherever the dump can be drawn, the picture at the gate shows it |
| `EarlyGateComplete` | `Spec => []EarlyGateIsComplete`: a gate reached before the rounds are used up has no gaps |
| `RunSpends` | `Spec => [](Left \in Nat) /\ [][~Ended => Left' < Left]_vars`: every step before the gate or the failure lessens what is left of the run |

*The argument.* The verdict is made when the workspace is checked and used when the stage
concludes, and the agent acts in between. `GateInv` adds what is known at each place: which verdict
was made of which workspace (`Checked`), and that the stage leaves the loop the right way
(`RightWay`): to the gate with a verdict on what is there, to failure with a reason.

### StagesProofs

About RTL_GEN (`RtlGen`, whose specification is `Spec`) and the stages of `MCStages`
(`StagesSpec`), for every set of modules, units and inputs, every contract and plan, and every
number of passes, rounds, uploads and versions of the testbench (`DirectoryAssumption`,
`PassesAssumption`, `BenchAssumption`, `BridgeAssumption`):

| Theorem | Statement |
|---|---|
| `TypeCorrect` | `Spec => []TypeOK` |
| `DeliveryCorrect` | `Spec => []DeliveryInv` |
| `ContractImplemented` | `Spec => []ContractIsImplemented` |
| `FrameStoreRefused` | `Spec => []NoFrameStore`: a streaming design is not delivered with a frame buffer |
| `ReportCurrent` | `Spec => []ReportIsCurrent`: where nothing was deleted, what the stage reports is what is on disk |
| `StubRefused` | `Spec => []StubOnlyForOneModule`: a one-shot module never stands in for an approved decomposition |
| `ContractOfStages` | `StagesSpec => []ContractIsImplemented` |
| `RepairCorrect` | `StagesSpec => [](Repair!EvidenceIsAnswered /\ Repair!ConclusionIsCurrent /\ Repair!RepairIsGated)` |
| `RepairHonest` | `StagesSpec => []RepairIsHonest`: the three claims of `RepairCorrect`, and RTL that compiles and was simulated is left alone, unless the brief itself reads like a repair prompt and then the conclusion tells of a repair |
| `BenchUsable` | `StagesSpec => []DeliveredIsUsable` |
| `AnswerHonest` | `StagesSpec => []AnswerIsHonest`: what is shown is the answer to the stimulus beside it, that of the input named when the driver is the generated one, and a match is a right answer where the expected one is that of this input |
| `GenerationSpends` | `Spec => [](GenLeft \in Nat) /\ [][~GenEnded => GenLeft' < GenLeft]_vars` |
| `RepairSpends`, `BenchSpends`, `BridgeSpends` | the same under `StagesSpec` for RTL_REPAIR, TB_GEN and HW_SW_VERIFY (`RepairLeft`, `BenchLeft`, `BridgeLeft`) |

*The argument.* Each stage decides late on what it has seen early, so each invariant says what is
still known of the earlier look. `DeliveryInv`: RTL_GEN judges the directory by `report`, which is
older than the directory once frame buffers have been deleted, so "the report is current" is no
invariant. `ReportOrDeleted` is: either the report is of the directory, or files were deleted and
no frame buffer is left. Each pass that rewrites the directory makes the report again before
anybody looks at it (`ReportFollows`), whatever gaps it reintroduced, and the last judgement reads
the present contract. `RepairInv`: as long as RTL_REPAIR has made no pass, `rtl/` is
what it was dispatched with and the branches it has left behind do not apply (`RuledOut`).
`LeaveAloneInv` adds that RTL which compiles
and was simulated has not been touched as long as the brief was not taken for an instruction
(`RepairedForBrief`). With a prompt of about 70 characters around it, any brief of some length is:
the stage then rewrites RTL that SIM has verified, which is the refuted `BriefIsNoInstruction`, and
the theorem says that its conclusion then tells of a repair and not of clean RTL. `ListInv`: the list
of what is missing may be older than the testbenches, but an empty one is not, since no pass
follows it; `BenchAssumption` is needed because a stage without a round would deliver unchecked,
and the code gives at least one. `BridgeInv` with `InHand`: at each place of the handler, which of
the files under `hwsw/` are of its own input, and, where the driver may leave them alone, which of
them are of one another's. It is a statement about one run (`Runs` is `{"r1"}` in
`MCStages`); with a second one that nobody waits for, the property is false (see below). Uploads
beside the run, and callers that give up, are included.

*The end of a run.* A run that goes round without counting would keep its dispatcher waiting until
the client's timeout, and go on beside the retry that follows. What is left of a run (`Left` of
`GoldenProofs`, `GenLeft` and the others) is a natural number: the passes left in the present loop,
and all of those after it. Each step of a run lessens it, whatever the agent leaves on disk and
whatever the checks find. For RTL_GEN it needs that the counter, which all loops use, is reset only
on the way to the next one and stays within the present one's limit (`WithinLimit`); for TB_GEN that
a round is counted whenever something is missing (`BenchCounts`). Uploads and clients beside
HW_SW_VERIFY leave its run alone. This is the safety half of `RunsEnd`; the other half, that a run
which has not ended can take a step and that it is taken, stays with TLC.

### AgentToolsProofs

About `MCAgentTools`, for every set of calls, threads, readers, requests, tasks, models and
pictures and every limit (`CallsAssumption`, `StoreAssumption`, `SessionAssumption`,
`ServiceAssumption`, `UploadAssumption`):

| Theorem | Statement |
|---|---|
| `StoreCorrect` | `ToolsSpec => []StoreSafe`: types, mutual exclusion and the invariant of the store |
| `NoneLost` | `ToolsSpec => []NothingIsLost`, for a service that lives and whose file can be used |
| `WholeRead` | `ToolsSpec => Store!ReadersSeeWhole`: a reader never loads a file in the middle of a write |
| `CallsExact` | `ToolsSpec => []CallsAreExact` |
| `SessionGuarded` | `ToolsSpec => []SessionIsGuarded` |
| `LessonsEarned` | `ToolsSpec => LessonsAreEarned`, an action property |
| `SessionIsBounded` | `ToolsSpec =>` every step of a session lessens what is left of the attempt (`TurnsLeft`, a natural number) or begins the next of at most `Attempts`, and none follows its result |
| `RequestsApart` | `ToolsSpec => []RequestsAreApart`: of the completions, for those of a task that has a pick, or whose provider is not Ollama |
| `PicturesRead` | `ToolsSpec => PicturesAreRead`, an invariant and three action properties; a picture is given up after every try, or when a probe said that no model can see |

*The argument.*

- *Lessons.* That of a critical section: what the holder of the lock has loaded is still all that
  was learned when it writes (`LoadedIsLearned`), and the file is only torn while the holder is
  between truncation and write (`TornByWriter`). `NothingIsLost` is claimed as long as the service
  lives and its file can be read and written; after a death in that window `LessonsSurvive` fails
  (see below).
- *Python tools.* `Seen` says of two calls under way that neither counts as alone, `Exact` that a
  call alone so far finds its own snippet in the script, and `Installed` what a call that is about
  to record has done. That a snippet is kept rests on counting: as long as no calls have overlapped
  and no file was deleted, the files are numbered from one without a gap (`InOrder`), so the number
  a call computes from their count is free (`NumberFits`).
- *Sessions.* Every count is below its limit while the session goes on (`BelowLimits`); the guard
  that would let it reach the limit ends the session before the call is made.
- *Requests.* The model override of the process is the pick of the task of whoever has applied it
  and was not overtaken since (`OverrideIsOwn`), and only who is answered, or about to be, has
  saved a memory (`SavedIsAnswered`).
- *Uploads.* A digest that exists is the draft of a finished reading, or there is none yet
  (`UploadInv`); the readings and roles of all later stages follow.

### EdaServiceProofs

About `MCEdaService`, for every set of jobs and of names, and every number of layouts, attempts,
analysis jobs, cores, runs, exports, reworks and restarts (`JobsAssumption`, `LayoutAssumption`,
`RingAssumption`, `ExportAssumption`). The module extends `EdaJobsProofs`, for the types of the
queue.

| Theorem | Statement |
|---|---|
| `SimCorrect` | `ServiceSpec => []SimSafe` |
| `VerdictEarned` | `ServiceSpec => []VerdictIsEarned`: green has passed or nothing judged it; what is stamped was executed and has passed |
| `LayoutCorrect` | `ServiceSpec => [](part = "layout" => LayoutInv)` |
| `RingCorrect` | `ServiceSpec => []RingSafe` |
| `RingOfThisRun` | `ServiceSpec => []RingIsOfThisRun`: the ring is of this run, or a leftover where padring worked and its assembly failed, which claims no routes |
| `PaperWhole` | `ServiceSpec => []PaperIsWhole` |
| `ChecksOfLayout` | `ServiceSpec => []ChecksAreOfLayout`: of the slack, unless the last attempts failed half way (`Overtaken`) |
| `TypesCorrect` | `ServiceSpec => []TypesOK` |

*The argument.* Every part works in a directory with the files of earlier runs, so "the file is of
this run" is no invariant. Each invariant says from which place of a run on it holds.

- *Simulation.* A run ends with a report of its own (`ReportIsOfRun`), from which status and
  decision follow (`StatusIsOfReport`). While it is under way the report is still the previous one,
  and nobody decides on it; a stamp that is there then is of an earlier run.
- *Analyses.* `LayoutInv` needs beside the two claims only that the image about to be run was
  compiled from the present layout. It survives a rework, which leaves all files in place, because
  the rows are reset with it and the claims are about rows that have COMPLETED.
- *Pad ring.* The preview is unset until it is drawn, and at the place where the ring is copied the
  ring is of this run, or the report has no routes and the assembly failed (`RingInv`). That the
  core found is no ring, and that the first file of the Chip flow exists, needs a least element of a
  set of numbers, which is the well-foundedness of the naturals (`LeastIsOne`); no induction of this
  module is needed.
- *Paper.* `SummaryIsOfLayout`: the report of DRC_LVS is of the layout once the hardening stages
  are over, because they are repeated in order from wherever a user starts. `EvidenceIsOfNotes`:
  the evidence collected, and the source written from it, have the notes of this export.
  `PdfIsOfRun`: a PDF that this run wrote is torn only when the paper has been given up, and then
  nothing is declared but a plain layout that has replaced the file.

### Only model-checked

- Liveness (`Delivered`, `RunsEnd`, the termination in `KeepsContract`): the prover handles neither
  fairness nor ENABLED. Of `RunsEnd` it is proved that no run goes on for ever by its own steps
  (`StagesProofs`, the end of a run); that a run which has not ended always has a step, and that
  fairness has it taken, TLC checks.
- The counterexamples below. Of the two about `Hardening` the theorems say how far the claim holds.

Every safety invariant and action property of the passing runs is stated by a theorem.

## Where the code does something else

Four runs have a counterexample, each against a comment of the code itself; `findings` in
`PROJECT.json` quotes them.

1. `orch_gate_race`: a dependent is queued, and dispatched, behind a gate that a retry has just
   reset.
2. `harden_clock`: `lines` is used at `harden_runner.py:651` before it is assigned at line 677.
   The error is swallowed, and with it the tuned state of every design that declares a clock and
   needed a slower one. If its layout is then reused, the declared clock is published as the
   achieved one. Designs that declare no clock are not affected (`AchievedWhenUndeclared`).
3. `harden_verified`: the stamp of the verified RTL does not cover `.sv`, `.svh` and `.mem`
   files, which hardening stages. Nothing else gets past the check (`VerifiedWhenStamped`).
4. `sim_output`: `golden_output.mem` counts as the chip's own output.

### Refuted properties of the modules

The modules state at their end, under the heading "What the comments claim and the code does not
keep" or one like it, further
properties that a comment or document claims and that TLC refutes on the module's instance. They
are kept with the model as a record of where code and comment part, and no run checks them: to see
a counterexample, add the name to the configuration of the run that explores the module.

| Property | What happens instead |
|---|---|
| `Orchestrator!AcceptedHasOutput`, `ReleasedWasWaiting` | A release is taken for any stage in any status, one that has not run included (`orchestrator.go:624`, `handlers.go:983`); `docs/ARCHITECTURE.md:486` releases what waits for approval. |
| `SimVerdict!SimulatedBeforeReview` | Without `vvp` (`sim_runner.py:409`), or without a testbench, nothing is executed and the reviewer is told that the chip has been simulated (`orchestrator.go:648`). |
| `GoldenGen!GateShowsCurrentOutput` | A dump older than the models is a gap, and gaps other than a missing model and failing tests are dropped after the last round (`stage_handlers.py:1318`). |
| `GoldenGen!PassedHasAsserted` | A suite whose tests are all skipped counts as passed (`:804`). |
| `GoldenGen!PictureIsFrameworks` | Where the dump cannot be drawn, the picture of the agent stays at the gate (`stage_handlers.py:864`). |
| `RtlGen!NeverBroken` | Without a contract module missing, broken files are delivered (`:1908`). |
| `RtlGen!DeletedIsRegenerated` | A deleted file that is no contract module is not written again (`:1845`). |
| `RtlRepair!RewriteIsGated` | The branch for compile errors returns without the regression pass (`:2292`). |
| `RtlRepair!HardeningIsFollowed` | The prompt of a failed hardening contains "simulation" and is taken for a simulation failure (`:2087`). |
| `RtlRepair!BriefIsNoInstruction` | A brief of about 110 characters makes the ordinary prompt long enough to be taken for a repair instruction, and RTL that SIM has verified is rewritten (`:2217`). |
| `TbGen!FailureIsOutstanding` | The stage raises on a list made before the last repair pass (`:2639`). |
| `TbGen!EveryModuleHasBench` | Units beyond the sixteenth are neither asked for nor missed (`:2437`). |
| `TbGen!StimulusIsDumped` | The search for `.mem` looks in a list of Verilog files (`:2531`). |
| `TbGen!NoOwnGolden` | Only the main testbench is searched for a dump of the golden output (`:2585`). |
| `HwSwVerify!CheckedAgainstInput` | Expected values of the previous input stay when the model gives none (`hwsw.py:722`). |
| `HwSwVerify!MatchIsRight`, `AnswerIsOfInput` | Values are compared with whatever expected answer lies there (`hwsw.py:741`); a driver that ends well and writes nothing is answered for the previous stimulus (`stage_handlers.py:2812`). |
| `HwSwVerify!UploadIsAnswered` | A dispatcher's save undoes the reset made by an upload (`orchestrator.go:375`). |
| `HwSwVerify!WaveIsOfRun` | The picture of the waveform is not removed before a run (`hwsw.py:845`). |
| `HwSwVerify!AnswerIsForInput` with a run nobody waits for | The client gives up at 1800 s, the co-simulation at 2400 s; retry and abandoned run share their files. |
| `PadRing!SkippedUnlessAsked`, `CollectsChip`, `PinoutIsOfDie` | A `config.yaml` starts the Chip flow whatever was asked (`manager.py:131`); the core's results sort before the chip's (`librelane.py:437`) and give the pinout (`manager.py:231`). |
| `PadRing!WrapsHardenedCore`, `NoLeftoverRing`, `NoPhantomRoutes`, `PlacedDeterministically` | A core of an earlier name is preferred (`padring_runner.py:260`); a chip layout of an earlier run passes when the assembly writes none (`:992`); unknown ports route every pad (`:424`); an old DEF is kept (`:954`). |
| `DeepAgent!RewriteIsNoProgress`, `DataIsThere`, `LessonIsFix` | Rewriting one file clears the count of repetitions (`deep_agent.py:651`); `check_tb` does not look for data files (`verilog_check.py:596`); an unchanged file that compiles again is a lesson (`deep_agent.py:263`). |
| `PythonTools!ResultIsOfCode`, `EverySnippetIsKept`, `EveryPackageIsRecorded` | Calls that overlap share the script (`deep_agent.py:410`), the number (`:417`) and the list (`:477`). |
| `LessonStore!LessonsSurvive` | A death between truncation and write loses every lesson (`lessons.py:47`), and so does a load that cannot read the file, once it is saved (`:39`). |
| `AgentService!OverrideIsPerRun`, `PickIsUsed`, `ErrorNamesModel` | With Ollama, a completion without a pick uses the model another task has applied (`llm.py:97`, `:689`); a deep agent follows the pick with one provider only (`llm.py:453`); an error names the pick of another request (`stage_handlers.py:194`). |
| `Uploads!TransientIsRetried`, `AttachmentsAreDigested`, `ReadBySeeing`, `RolesArePersisted` | One failed probe of Ollama skips every try, and the digest is kept (`uploads.py:176`, `:149`); a later picture is never read (`uploads.py:148`); a model that cannot see may be asked (`llm.py:317`); a restart between digest and manifest loses the roles (`uploads.py:207`). |
| `TaskLifecycle!CompletedIsWhole`, `RefusedIsUndone`, `RunsOnce`, `AttemptsCascade` | A tick completes a task that has one stage yet (`handlers.go:352`); a refused task remains (`:346`); SPEC_INGEST is queued twice (`orchestrator.go:132`); an attempt comes back after a deletion (`:374`). |
| `Export!ReadyIsOfLayout`, `CleanIsMeasured`, `PaperIsOfThisExport`, `FiguresAreOfRtl` | A report of an earlier layout keeps a later one ready (`evidence.py:227`); no metrics reads as clean (`stage_handlers.py:3091`); paper (`latex_report.py:955`) and figures (`diagrams.py:565`) of an earlier export are returned. |
| `PostLayout!SlackIsOfLayout`, `GuardrailPassed`, `MetIsMeasured`, `FallbackIsOfLayout` | The netlist of a last attempt that failed before its GDS is timed (`sta_runner.py:96`), the layout delivered is an earlier one's (`harden_runner.py:993`); STA and GL_SIM complete whatever they find (`handlers.go:969`); no slack counts as met (`sta_runner.py:139`); the metrics of any attempt stand in (`:55`). |
| `PostLayout!CellModelsSkip`, `WaveformIsOfRun`, `SchematicIsOfRtl`, `OutputIsOfSim` | Missing cell models fail the compilation (`gl_sim.py:156`); old trace (`:170`) and old schematic (`render.py:55`) are reported; the gate-level run overwrites the simulation's image (`gl_sim.py:161`). |

### Further behaviour

The models reach it, or reading showed it:

- *Duplicate jobs.* A stale QUEUED row written back by a tick, or a job whose creation timed out,
  lets a stage run two EDA jobs at a time. `docs/ARCHITECTURE.md:465` asks for idempotency keys;
  the code has none.
- *Cancellation.* `patchTask` writes CANCELLED, `SetTask` may overwrite it from an evaluation in
  flight, and goroutines already started dispatch their stage (`docs/ARCHITECTURE.md:448`).
- *Restart during dispatch.* A stage left in DISPATCHING is never picked up again
  (`docs/ARCHITECTURE.md:477`: "DISPATCHING to QUEUED: dispatch timeout").
- *Redis errors in the repair loops.* The error of INCR is dropped and reads as round 0
  (`orchestrator.go:460`), so `RepairsBounded` needs `MaxRedisFaults = 0`.
- *Verdicts overwritten.* An error of Redis after a COMPLETED verdict was committed turns the job
  FAILED (`manager.py:439`; `docs/architecture_v2.md:566-569` knows no such transition).
- *Unclaimed jobs.* A creation that meets a blocked event loop times out for the caller, and its
  job is run all the same.
- *The worker can die.* An error of Redis at `manager.py:345` or `367`, or of the database at
  `:354-360` or in the handler at `:440`, ends `worker_loop`.
- *Unreachable loop.* A hardening job without a layout always has an error and is FAILED, so the
  repair loop of the COMPLETED branch (`orchestrator.go:489`) is not entered. `Orchestrator`
  keeps it, as the code does.
- *Stale log.* A `librelane.log` that mentions slang turns a failing simulation into a
  missing-plugin failure (`orchestrator.go:556`).
- *Rounds.* The comment at `orchestrator.go:457` speaks of two rounds per manual retry; the
  default is ten (`orchestrator.go:875-882`).
- *Golden output.* `golden_output.mem` written by a testbench that was rejected stays in `waves/`
  and is what a repaired chip is compared with (`sim_runner.py:509`). `SimVerdict` does not record
  who wrote it.
- *Listing during a deletion.* A GET of the stages between two statements of `deleteTask` fails on
  the missing task's row when it inserts a stage, and answers 500.
- *Somebody else's model.* With Ollama a deep agent goes on with the model another request has
  applied to the process in between, and so does a completion without a pick (`OverrideIsPerRun`);
  `TextUsesOwnModel` and `AloneUsesOwnModel` say what is safe from this.
- *Which metrics.* The sign-off of a hardening job is that of the newest `final/metrics.json`, and of
  any other `metrics.json` only where there is none (`harden_runner.py:857-866`). `Export` takes it for
  the checks of the layout (`layout.checks`); a completed run that left no final metrics would differ.

## Not modelled

- Several tasks in one scheduler: they share the tick and the worker of the EDA service, and no
  rows. (Where tasks do share state, in `AgentService` and `LessonStore`, there are several.)
- Cloning and editing of tasks, the event stream, listing of files; the review feedback key.
- Errors of MySQL in the orchestrator, except those of `createTask` that leave part of a task
  behind. (Those of eda-service are faults of `EdaJobs`.) They are real: the goroutines drop the
  errors of most writes (`_ = ...Save`, `orchestrator.go:324-540`) and go on as if the row had
  changed, so that one lost write leaves an agent stage RUNNING whose agent has answered, or a job
  nobody polls. `AgentStageHasDispatcher`, `DoneHasEvidence` and `Delivered` are claims for a database
  that takes every write. A read that fails ends the goroutine that made it.
- What language models and tools compute. Their results are alternatives of actions.
- `run_lint`, waveform drawing, simulation pictures: sequential code without state of its own.
- Provider adapters and research (HTTP requests and text), the Verilog checks of
  `verilog_check.py` beyond what a write is told, the text of prompts.
- Geometry of the pad ring, colours of drawings, layout of the reports.
- Stages that are one call of a model and a file (SPEC_INGEST, ARCH_REVIEW and the like): for the
  flow they are agent stages of `Orchestrator`.
- Frontend, login, start-up, deployment.

`components` in `PROJECT.json` lists all of them with the files.

## Plan

Done: the modules above, in the order of their importance for the flow. What would add most next:

1. `Flow`: `Orchestrator` composed with `EdaJobs`, so that the jobs of the scheduler are rows of
   the queue: lost, unclaimed and duplicate jobs end to end.
2. `Workspace`: `SimVerdict` and `Hardening` over one `rtl/`, with `RtlRepair` as writer and the
   scheduler's order of stages: drops the condition `quiet`, shows the unreachable loop, and
   records who wrote the golden output.
3. `StageDag`: the eighteen stages; `dependsTransitively` against reachability.
4. `ReviewFeedback`: the feedback key between rejection, retry and approval.
5. Proofs: the invariants of the compositions 1 and 2.

## How to run

    tlc -workers 2 -config Orch_chain.cfg MCOrchestrator
    tlapm OrchestratorProofs.tla

The other runs take the configuration and module that `runs` in `PROJECT.json` names.
