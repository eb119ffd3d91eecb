------------------------------ MODULE MCEdaService ------------------------------
(***************************************************************************)
(* eda-service: the queue of jobs, and what its worker runs and leaves for *)
(* the reports, each on a small instance for TLC.  A whole job is one step *)
(* of the queue (RunStage), so part names the one a behaviour is about:    *)
(*   "queue"   three jobs, with faults, a restart and a deletion;          *)
(*   "sim"     simulations, run after run in one workspace;                *)
(*   "layout"  STA, GL_SIM and RENDER on the layouts hardening leaves;     *)
(*   "padring" the pad ring and the Chip flow, with two names besides that *)
(*             of the top: one that comes first in the order of files, and *)
(*             one that looks like an assembly;                            *)
(*   "export"  SIGNOFF and EXPORT, which read what the runners leave.      *)
(***************************************************************************)
EXTENDS EdaJobs, TLC

CONSTANTS
    Versions, Attempts, AnalysisJobs,                        \* of PostLayout
    Names, Top, ChipNamed, Nets, MaxCores, MaxRuns,          \* of PadRing
    Reworks, Exports, ExportCrashes                          \* of Export

\* Names are numbered in the order of their files.
ASSUME LayoutAssumption == Versions \in Nat \ {0} /\ {Attempts, AnalysisJobs} \subseteq Nat
ASSUME RingAssumption ==
    /\ Names \subseteq Nat /\ Top \in Names /\ {MaxCores, MaxRuns} \subseteq Nat
ASSUME ExportAssumption == Exports \in Nat \ {0} /\ {Reworks, ExportCrashes} \subseteq Nat

VARIABLES
    part,
    simPhase, simFacts, simChipOut, simGolden, simSlangLog, simInput, simStamp,
    simReport, simStatus, simDecision,
    layoutRtl, layoutRuns, layoutSta, layoutGl, layoutImage, layoutWave, layoutOutput,
    layoutDot, layoutLayoutPng, layoutImages, layoutRow, layoutTodo, layoutPc, layoutJobs,
    ringPhase, ringAsked, ringConfig, ringPorts, ringGds, ringCores, ringRing,
    ringFinals, ringPinout, ringRuns, ringReal, ringReport,
    paperDesign, paperLayout, paperReports, paperSummary, paperNotes, paperCtx,
    paperFigures, paperPages, paperTex, paperPdf, paperAnswer, paperPc, paperExport,
    paperCrashes

Sim == INSTANCE SimVerdict WITH
    phase <- simPhase, facts <- simFacts, chipOut <- simChipOut, golden <- simGolden,
    slangLog <- simSlangLog, input <- simInput, stamp <- simStamp,
    report <- simReport, status <- simStatus, decision <- simDecision

Analyses == INSTANCE PostLayout WITH
    rtl <- layoutRtl, runs <- layoutRuns, sta <- layoutSta, gl <- layoutGl,
    image <- layoutImage, wave <- layoutWave, output <- layoutOutput,
    dot <- layoutDot, layoutPng <- layoutLayoutPng, images <- layoutImages,
    row <- layoutRow, todo <- layoutTodo, pc <- layoutPc, jobs <- layoutJobs,
    Jobs <- AnalysisJobs

Ring == INSTANCE PadRing WITH
    phase <- ringPhase, asked <- ringAsked, config <- ringConfig, ports <- ringPorts,
    gds <- ringGds, cores <- ringCores, ring <- ringRing, finals <- ringFinals,
    pinout <- ringPinout, runs <- ringRuns, real <- ringReal, report <- ringReport

Paper == INSTANCE Export WITH
    design <- paperDesign, layout <- paperLayout, reports <- paperReports,
    summary <- paperSummary, notes <- paperNotes, ctx <- paperCtx,
    figures <- paperFigures, pages <- paperPages, tex <- paperTex, pdf <- paperPdf,
    answer <- paperAnswer, pc <- paperPc, export <- paperExport,
    crashes <- paperCrashes, MaxCrashes <- ExportCrashes

Interchangeable == Permutations(Jobs)

simVars == <<simPhase, simFacts, simChipOut, simGolden, simSlangLog, simInput, simStamp,
             simReport, simStatus, simDecision>>
layoutVars == <<layoutRtl, layoutRuns, layoutSta, layoutGl, layoutImage, layoutWave,
                layoutOutput, layoutDot, layoutLayoutPng, layoutImages, layoutRow, layoutTodo,
                layoutPc, layoutJobs>>
ringVars == <<ringPhase, ringAsked, ringConfig, ringPorts, ringGds, ringCores, ringRing,
              ringFinals, ringPinout, ringRuns, ringReal, ringReport>>
paperVars == <<paperDesign, paperLayout, paperReports, paperSummary, paperNotes, paperCtx,
               paperFigures, paperPages, paperTex, paperPdf, paperAnswer, paperPc, paperExport,
               paperCrashes>>

-----------------------------------------------------------------------------
(* At rest *)

\* A queue that has had no request.
QueueRests == Init

SimRests ==
    /\ simPhase = "decided" /\ simChipOut = "none"
    /\ simGolden = FALSE /\ simSlangLog = FALSE /\ simInput = FALSE
    /\ simFacts = [sources |-> FALSE, compile |-> "missing", run |-> "missing",
                   testbench |-> FALSE, fabricates |-> FALSE, dumps |-> FALSE, matches |-> TRUE]
    /\ simStamp = "none" /\ simReport = Sim!NoReport
    /\ simStatus = "FAILED" /\ simDecision = "failed"

LayoutRests ==
    /\ layoutRtl = 1 /\ layoutRuns = <<>> /\ layoutTodo = {} /\ layoutPc = "harden"
    /\ layoutSta = Analyses!NoSta /\ layoutGl = Analyses!NoGl /\ layoutImages = Analyses!NoImages
    /\ layoutRow = [s \in Analyses!Stages |-> "NOT_STARTED"] /\ layoutJobs = 0
    /\ layoutImage = Analyses!Missing /\ layoutDot = Analyses!Missing
    /\ layoutLayoutPng = Analyses!Missing /\ layoutWave = "none" /\ layoutOutput = "sim"

RingRests ==
    /\ ringPhase = "idle" /\ ringAsked = FALSE /\ ringConfig = FALSE /\ ringReal = FALSE
    /\ ringPorts = {}
    /\ ringGds = [n \in Names |-> 0] /\ ringCores = 0 /\ ringRuns = 0
    /\ ringRing = Ring!NoRing /\ ringFinals = {} /\ ringPinout = Ring!Nowhere
    /\ ringReport = Ring!NoReport

PaperRests ==
    /\ paperPc = "done" /\ paperDesign = 1 /\ paperExport = 1 /\ paperCrashes = 0
    /\ paperLayout = [of |-> Paper!NoRtl, checks |-> "failed"]
    /\ paperReports = [s \in Paper!Harden |-> Paper!NoReport] /\ paperSummary = Paper!NoReport
    /\ paperNotes = {} /\ paperCtx = Paper!NoEvidence
    /\ paperFigures = Paper!NoRtl /\ paperPages = FALSE
    /\ paperTex = Paper!NoTex /\ paperPdf = Paper!NoPdf /\ paperAnswer = Paper!NoAnswer

-----------------------------------------------------------------------------
ServiceInit ==
    \/ part = "queue" /\ Init /\ SimRests /\ LayoutRests /\ RingRests /\ PaperRests
    \/ part = "sim" /\ Sim!Init /\ QueueRests /\ LayoutRests /\ RingRests /\ PaperRests
    \/ part = "layout" /\ Analyses!Init /\ QueueRests /\ SimRests /\ RingRests /\ PaperRests
    \/ part = "padring" /\ Ring!Init /\ QueueRests /\ SimRests /\ LayoutRests /\ PaperRests
    \/ part = "export" /\ Paper!Init /\ QueueRests /\ SimRests /\ LayoutRests /\ RingRests

ServiceNext ==
    /\ UNCHANGED part
    /\ \/ part = "queue" /\ Next /\ UNCHANGED <<simVars, layoutVars, ringVars, paperVars>>
       \/ part = "sim" /\ Sim!Next /\ UNCHANGED <<vars, layoutVars, ringVars, paperVars>>
       \/ part = "layout" /\ Analyses!Next /\ UNCHANGED <<vars, simVars, ringVars, paperVars>>
       \/ part = "padring" /\ Ring!Next /\ UNCHANGED <<vars, simVars, layoutVars, paperVars>>
       \/ part = "export" /\ Paper!Next /\ UNCHANGED <<vars, simVars, layoutVars, ringVars>>

allVars == <<part, vars, simVars, layoutVars, ringVars, paperVars>>
ServiceSpec == ServiceInit /\ [][ServiceNext]_allVars

-----------------------------------------------------------------------------
(* Properties, beside those of EdaJobs; their parts are stated in the modules *)

\* Every variable of every part keeps its type.
TypesOK ==
    /\ TypeOK /\ Sim!TypeOK /\ Ring!TypeOK /\ Paper!TypeOK
    /\ part = "layout" => Analyses!TypeOK

\* What is put up for review has passed, or nothing judged it (no vvp, no testbench); no output
\* of an earlier run is taken for its own.  The stamp hardening trusts is written only by a run
\* whose testbench was executed and passed on an output that is the golden one, and that is put
\* up for review.  A toolchain that cannot compile is neither a pass nor a defect of the design.
VerdictIsEarned ==
    /\ Sim!GreenHasPassed /\ Sim!OutputIsFresh /\ Sim!StampHasPassed /\ Sim!StampIsGreen
    /\ Sim!ToolFailureSurfaces
\* The gate-level simulation that passed is of the RTL that is hardened now, the slack that was
\* measured and the failed checks SIGNOFF lists are those of the layout that is delivered, not
\* of one it has replaced; an attempt that failed after its netlist is the exception.
ChecksAreOfLayout ==
    /\ part = "layout" => Analyses!PassedIsOfLayout /\ Analyses!MeasuredIsOfLayout
    /\ Paper!FailedAreOfLayout
\* The ring delivered surrounds a core that is no ring and was assembled by this run, or by an
\* earlier one if its report states no routes; its preview shows it, and a Chip flow that ended
\* with an error is not COMPLETED.
RingIsOfThisRun ==
    /\ Ring!RingIsNotNested /\ Ring!AssembledByThisRun
    /\ Ring!PreviewIsOfLayout /\ Ring!ChipVerdictIsHonest
\* The paper has what this export authored, the plain layout never replaces it, and a PDF
\* that this export wrote and declares is complete.
PaperIsWhole == Paper!AuthoredIsInPaper /\ Paper!PlainIsFallback /\ Paper!DeclaredIsWhole
=================================================================================
