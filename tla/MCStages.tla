-------------------------------- MODULE MCStages -------------------------------
(***************************************************************************)
(* What the scheduler waits for, each on its small instance for TLC: the   *)
(* stages of agent-service that work on the workspace of a task, and the   *)
(* jobs of the other stages.  The orchestrator waits for one of them at a  *)
(* time here; stage names it for a whole behaviour, and the others rest in *)
(* a state in which they have ended.  RTL_GEN (the variables of RtlGen)    *)
(* and RTL_REPAIR work on the same directory rtl/.                         *)
(*                                                                         *)
(* "EDA" is the queue of eda-service with two jobs and nothing that fails: *)
(* it is to keep what the orchestrator relies on (JobContract).            *)
(***************************************************************************)
EXTENDS RtlGen, TLC

CONSTANTS
    Briefs,                                     \* of RtlRepair
    Units, UnitCap, ElabCap, BenchRounds,       \* of TbGen
    Inputs, Canonical, BridgeRounds, MaxUploads, MaxRefs  \* of HwSwVerify

\* stage_handlers.py:2373: TB_GEN is given one round at least, whatever is configured.
ASSUME BenchAssumption == BenchRounds \in Nat \ {0}
ASSUME BriefsAssumption == Briefs # {} /\ Briefs \subseteq {"short", "long", "simulating"}
ASSUME BridgeAssumption ==
    /\ Canonical \in Inputs \cup {"none"}
    /\ {BridgeRounds, MaxUploads} \subseteq Nat /\ MaxRefs \in Nat \ {0}

VARIABLES
    stage,
    repairPhase, repairDeep, repairContract, repairSerial, repairText, repairSimLog,
    repairSynth, repairSource, repairBefore, repairStatus, repairPasses, repairGated,
    repairMode,
    benchPhase, benchDeep, benchImages, benchMem, benchUnits, benchElab, benchBench,
    benchGolden, benchMissing, benchRounds,
    bridgeStatus, bridgeWaiting, bridgeFeedback, bridgeActive, bridgeUploads,
    bridgeRef, bridgeDriver, bridgeBench, bridgeFiles, bridgeReport, bridgeRun,
    row, queue, handler, client, worker, budget, starts, outcome

Repair == INSTANCE RtlRepair WITH
    phase <- repairPhase, deep <- repairDeep, contract <- repairContract,
    serial <- repairSerial, text <- repairText, simLog <- repairSimLog,
    synth <- repairSynth, source <- repairSource, before <- repairBefore,
    status <- repairStatus, passes <- repairPasses, gated <- repairGated,
    mode <- repairMode

Bench == INSTANCE TbGen WITH
    phase <- benchPhase, deep <- benchDeep, images <- benchImages, mem <- benchMem,
    units <- benchUnits, elab <- benchElab, bench <- benchBench,
    golden <- benchGolden, missing <- benchMissing, rounds <- benchRounds,
    Rounds <- BenchRounds

Bridge == INSTANCE HwSwVerify WITH
    status <- bridgeStatus, waiting <- bridgeWaiting, feedback <- bridgeFeedback,
    active <- bridgeActive, uploads <- bridgeUploads, ref <- bridgeRef,
    driver <- bridgeDriver, bench <- bridgeBench, files <- bridgeFiles, report <- bridgeReport,
    run <- bridgeRun, Runs <- {"r1"}, Rounds <- BridgeRounds

Queue == INSTANCE EdaJobs WITH
    Jobs <- {1, 2}, NoJob <- 0, MaxFaults <- 0, MaxCrashes <- 0, MaxDeletes <- 0

genVars == <<phase, inputs, report, passes, deleted, oneShot>>
repairVars == <<repairPhase, repairDeep, repairContract, repairSerial, repairText, repairSimLog,
                repairSynth, repairSource, repairBefore, repairStatus, repairPasses,
                repairGated, repairMode>>
benchVars == <<benchPhase, benchDeep, benchImages, benchMem, benchUnits, benchElab, benchBench,
               benchGolden, benchMissing, benchRounds>>
bridgeVars == <<bridgeStatus, bridgeWaiting, bridgeFeedback, bridgeActive, bridgeUploads,
                bridgeRef, bridgeDriver, bridgeBench, bridgeFiles, bridgeReport, bridgeRun>>
queueVars == <<row, queue, handler, client, worker, budget, starts, outcome>>

-----------------------------------------------------------------------------
(* Stages that have ended: no step of theirs is forced *)

RtlRests == rtl = [m \in Modules |-> "absent"]

GenRests ==
    /\ phase = "failed" /\ deep = FALSE /\ brief = FALSE
    /\ contract = {} /\ planned = {} /\ deleted = {}
    /\ report = NoReport /\ passes = 0 /\ oneShot = "none"

RepairRests ==
    /\ repairPhase = "idle" /\ repairDeep = FALSE /\ repairSerial = FALSE /\ repairGated = FALSE
    /\ repairContract = {} /\ repairStatus = {}
    /\ repairText = (CHOOSE b \in Briefs : TRUE) /\ repairSource = "flow" /\ repairMode = "none"
    /\ repairSimLog = "absent" /\ repairSynth = "absent"
    /\ repairBefore = rtl /\ repairPasses = 0

BenchRests ==
    /\ benchPhase = "failed"
    /\ benchDeep = FALSE /\ benchImages = FALSE /\ benchMem = FALSE /\ benchGolden = FALSE
    /\ benchUnits = {} /\ benchElab = {} /\ benchMissing = {} /\ benchRounds = 0
    /\ benchBench = [m \in Units \cup {Top} |-> "absent"]

BridgeRests ==
    /\ bridgeStatus = "FAILED" /\ bridgeWaiting = Bridge!None /\ bridgeFeedback = FALSE
    /\ bridgeActive = Bridge!None /\ bridgeUploads = 0 /\ bridgeRef = 1
    /\ bridgeDriver = "generated" /\ bridgeBench = [ref |-> 0, works |-> FALSE]
    /\ bridgeFiles = Bridge!NoFiles /\ bridgeReport = Bridge!NoReport
    /\ bridgeRun = [r \in {"r1"} |-> Bridge!Idle]

\* Without jobs no coroutine of the queue can go on.
QueueRests ==
    /\ row = <<>> /\ queue = <<>> /\ handler = <<>> /\ client = <<>>
    /\ worker = [at |-> "pop", job |-> 0]
    /\ budget = [faults |-> 0, crashes |-> 0, deletes |-> 0]
    /\ starts = <<>> /\ outcome = <<>>

StagesInit ==
    \/ /\ stage = "RTL_GEN" /\ Init
       /\ RepairRests /\ BenchRests /\ BridgeRests /\ QueueRests
    \* A serial interface is told by the contract or by a file, not by the brief as well; the
    \* contract, where there is one, names every module.
    \/ /\ stage = "RTL_REPAIR" /\ Repair!Init /\ ~repairSerial
       /\ repairContract \in {{}, Modules}
       /\ GenRests /\ BenchRests /\ BridgeRests /\ QueueRests
    \/ /\ stage = "TB_GEN" /\ Bench!Init
       /\ RtlRests /\ GenRests /\ RepairRests /\ BridgeRests /\ QueueRests
    \/ /\ stage = "HW_SW_VERIFY" /\ Bridge!Init
       /\ RtlRests /\ GenRests /\ RepairRests /\ BenchRests /\ QueueRests
    \/ /\ stage = "EDA" /\ Queue!Init
       /\ RtlRests /\ GenRests /\ RepairRests /\ BenchRests /\ BridgeRests

StagesNext ==
    /\ UNCHANGED stage
    /\ \/ /\ stage = "RTL_GEN" /\ Next
          /\ UNCHANGED <<repairVars, benchVars, bridgeVars, queueVars>>
       \/ /\ stage = "RTL_REPAIR" /\ Repair!Next
          /\ UNCHANGED <<genVars, benchVars, bridgeVars, queueVars>>
       \/ /\ stage = "TB_GEN" /\ Bench!Next
          /\ UNCHANGED <<vars, repairVars, bridgeVars, queueVars>>
       \/ /\ stage = "HW_SW_VERIFY" /\ Bridge!Next
          /\ UNCHANGED <<vars, repairVars, benchVars, queueVars>>
       \/ /\ stage = "EDA" /\ Queue!Next
          /\ UNCHANGED <<vars, repairVars, benchVars, bridgeVars>>

\* The fairness of every stage; a stage that rests has no step that it could force.  The
\* event loop of eda-service runs every coroutine that can go on (EdaJobs!Fairness).
StagesSpec ==
    /\ StagesInit
    /\ [][StagesNext]_<<stage, vars, repairVars, benchVars, bridgeVars, queueVars>>
    /\ Fairness /\ Repair!Fairness /\ Bench!Fairness /\ Bridge!Fairness
    /\ WF_queueVars(stage = "EDA" /\ Queue!WorkerLoop)
    /\ \A j \in {1, 2} : WF_queueVars(stage = "EDA" /\ Queue!CreateJob(j))

-----------------------------------------------------------------------------
(* Properties, beside those of RtlGen; their parts are stated in the modules *)

\* RTL_REPAIR never answers a failure with evidence by "already clean", edits RTL that passed
\* its simulation for no process condition but only for a brief it takes for an instruction,
\* concludes with the compile verdict of the files it leaves, and
\* looks at the architecture rules after a simulation or hardening repair.
RepairIsHonest ==
    /\ Repair!EvidenceIsAnswered /\ Repair!VerifiedIsLeftAlone
    /\ Repair!ConclusionIsCurrent /\ Repair!RepairIsGated
\* What TB_GEN delivers can be elaborated, drives pins and can fail; with a picture as input
\* it dumps what SIM needs to compare outputs.
DeliveredIsUsable == Bench!DeliveredIsUsable /\ Bench!ImageOutputIsDumped
\* The reviewer of HW_SW_VERIFY sees an answer of this run, given on the pins of the testbench
\* SIM validated last; with the generated driver it is to the input the report names, and,
\* where the golden answer to that input is at hand, "match" is said of right answers only.
AnswerIsHonest ==
    /\ Bridge!AnswerIsForInput /\ Bridge!MatchIsHonest /\ Bridge!BenchIsCurrent

\* Whoever starts or waits for one of these stages gets its end, delivered or failed.
Begun ==
    \/ phase = "start" \/ benchPhase = "start"
    \/ repairPhase \in {"synthesis", "one file"}
    \/ bridgeStatus = "RUNNING"

StageEnded ==
    /\ phase \in {"done", "failed"} /\ benchPhase \in {"done", "failed"}
    /\ repairPhase \in {"idle", "done", "failed"}
    /\ bridgeStatus \in {"QUEUED", "AWAITING_APPROVAL", "FAILED"}

RunsEnd == Begun ~> StageEnded

\* What the caller of the first of the two jobs can see of it; they are interchangeable.
Contract == INSTANCE JobContract WITH
    Jobs <- {1},
    state <- [j \in {1} |-> IF stage # "EDA" \/ row[j] = "absent" THEN "absent"
                            ELSE IF row[j] \in Queue!Ended THEN "ended" ELSE "live"],
    accepted <- {j \in {1} : stage = "EDA" /\ client[j] = "accepted"}

\* Without faults eda-service keeps its contract: what it accepted exists, what exists
\* ends, and what has ended stays ended.
KeepsContract == Contract!FairSpec
===================================================================================
