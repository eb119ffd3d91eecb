---------------------------- MODULE EdaServiceProofs ----------------------------
(***************************************************************************)
(* Theorems about what the worker of eda-service runs and leaves for the   *)
(* reports (MCEdaService): the verdict on a simulation, the analyses after *)
(* layout, the pad ring and the paper, for every number of layouts, jobs,  *)
(* runs, exports and restarts.  The queue itself has a module of its own,  *)
(* EdaJobsProofs.                                                          *)
(*                                                                         *)
(* All four parts work in a directory that still has the files of earlier  *)
(* runs.  The invariants say at each place of a run which files are its    *)
(* own by then.                                                            *)
(***************************************************************************)
EXTENDS MCEdaService, EdaJobsProofs, WellFoundedInduction

-----------------------------------------------------------------------------
(* The verdict on a simulation *)

\* Why a run ends early, of the facts it may meet.
LEMMA Early ==
    ASSUME NEW f \in Sim!Possible
    PROVE  /\ Sim!EarlyError(f) = {} <=> f.sources /\ f.compile = "ok"
           /\ ~f.sources => Sim!EarlyError(f) = {"no sources"}
           /\ f.sources /\ f.compile = "missing" => Sim!EarlyError(f) = {"iverilog not available"}
           /\ f.sources /\ f.compile = "error" => Sim!EarlyError(f) = {"compile failed"}
           /\ Sim!EarlyError(f) \subseteq Sim!Errors
           /\ f.run = "missing" \/ Sim!EarlyError(f) = {}
           /\ f.sources \in BOOLEAN /\ f.testbench \in BOOLEAN
           /\ f.fabricates \in BOOLEAN /\ f.matches \in BOOLEAN
           /\ f.dumps => f.testbench
           /\ f.run \in {"passes", "fails", "silent", "timeout", "missing"}
BY DEF Sim!Possible, Sim!Facts, Sim!EarlyError, Sim!Errors

LEMMA NoReportType == Sim!NoReport \in Sim!Report
BY DEF Sim!NoReport, Sim!Report

\* What a report and the files beside it say of the run they are of.
ReportIsOfRun ==
    /\ Sim!EarlyError(simFacts) # {} =>
          simReport = [errors |-> Sim!EarlyError(simFacts), passed |-> "none"]
    /\ Sim!EarlyError(simFacts) = {} =>
          /\ simReport.passed = "false" <=> simReport.errors # {}
          /\ simReport.passed = "false" <=> "testbench FAILED" \in simReport.errors
          /\ simFacts.fabricates => simReport.passed = "false"
          /\ simGolden /\ simChipOut = "this" /\ ~simFacts.matches => simReport.passed = "false"
          /\ simFacts.run \in {"fails", "timeout"} => simReport.passed = "false"
          /\ simFacts.testbench /\ simFacts.run = "silent" => simReport.passed = "false"
    /\ simFacts.sources => simChipOut # "earlier"
    /\ simStamp = "this" =>
          /\ Sim!EarlyError(simFacts) = {} /\ simReport.passed # "false"
          /\ Sim!Executed(simFacts) /\ simFacts.testbench
          /\ simGolden /\ simChipOut = "this" /\ simFacts.matches

StatusIsOfReport == simStatus = IF simReport.errors = {} THEN "COMPLETED" ELSE "FAILED"

SimInv ==
    /\ Sim!TypeOK
    /\ simPhase = "run" => simStamp # "this"
    /\ simPhase # "run" => ReportIsOfRun
    /\ simPhase \in {"poll", "decided"} => StatusIsOfReport
    /\ simDecision = IF simPhase = "decided" THEN Sim!Decision ELSE "none"

LEMMA SimEarned == SimInv => VerdictIsEarned
<1> SUFFICES ASSUME SimInv PROVE VerdictIsEarned
    OBVIOUS
<1> USE DEF SimInv
<1>0. /\ simFacts \in Sim!Possible /\ simPhase \in {"run", "process", "poll", "decided"}
      /\ simReport.passed \in {"true", "false", "none"}
    BY DEF Sim!TypeOK, Sim!Report
<1>a. Sim!StampHasPassed
    <2> SUFFICES ASSUME simStamp = "this"
                 PROVE  /\ Sim!Executed(simFacts) /\ simFacts.testbench
                        /\ simFacts.run = "passes" /\ ~simFacts.fabricates
                        /\ simGolden /\ simChipOut = "this" /\ simFacts.matches
        BY DEF Sim!StampHasPassed
    <2>1. ReportIsOfRun
        OBVIOUS
    <2> QED BY <1>0, <2>1, Early DEF ReportIsOfRun, Sim!Executed
<1>1. CASE simPhase # "decided"
    BY <1>a, <1>1 DEF VerdictIsEarned, Sim!GreenHasPassed, Sim!OutputIsFresh, Sim!StampIsGreen,
       Sim!ToolFailureSurfaces
<1>2. CASE simPhase = "decided"
    <2>1. /\ ReportIsOfRun /\ StatusIsOfReport /\ simDecision = Sim!Decision
        BY <1>2
    <2>2. simDecision = "review" => simReport.errors = {} /\ simReport.passed # "false"
        BY <2>1 DEF StatusIsOfReport, Sim!Decision, Sim!TestbenchFailed
    <2>3. Sim!GreenHasPassed
        <3> SUFFICES ASSUME simDecision = "review"
                     PROVE  /\ simFacts.run = "passes" \/ Sim!NothingJudged(simFacts)
                            /\ ~simFacts.fabricates
                            /\ simGolden /\ simChipOut = "this" => simFacts.matches
            BY DEF Sim!GreenHasPassed
        <3>1. simReport.errors = {} => Sim!EarlyError(simFacts) = {}
            BY <2>1 DEF ReportIsOfRun
        <3>2. Sim!EarlyError(simFacts) = {} /\ simReport.passed # "false"
            BY <2>2, <3>1
        <3> QED BY <1>0, <2>1, <3>2, Early DEF ReportIsOfRun, Sim!NothingJudged
    <2>4. Sim!OutputIsFresh
        <3>1. simReport.errors = {} => Sim!EarlyError(simFacts) = {}
            BY <2>1 DEF ReportIsOfRun
        <3> QED BY <1>0, <2>1, <2>2, <3>1, Early DEF Sim!OutputIsFresh, ReportIsOfRun
    <2>5. Sim!StampIsGreen
        <3> SUFFICES ASSUME simStamp = "this" PROVE simDecision = "review"
            BY DEF Sim!StampIsGreen
        <3>1. simReport.errors = {} /\ simReport.passed # "false" /\ simGolden
            BY <2>1, <1>2 DEF ReportIsOfRun
        <3> QED BY <2>1, <3>1 DEF StatusIsOfReport, Sim!Decision, Sim!TestbenchFailed,
                   Sim!HasChipOutput
    <2>6. Sim!ToolFailureSurfaces
        <3> SUFFICES ASSUME ~simFacts.sources \/ simFacts.compile \in {"missing", "error"}
                     PROVE  simDecision = "failed"
            BY DEF Sim!ToolFailureSurfaces
        <3>1. simReport.errors \in {{"no sources"}, {"iverilog not available"}, {"compile failed"}}
            <4>1. Sim!EarlyError(simFacts)
                      \in {{"no sources"}, {"iverilog not available"}, {"compile failed"}}
                <5>1. CASE simFacts.sources
                    BY <1>0, <5>1, Early
                <5>2. CASE ~simFacts.sources
                    BY <1>0, <5>2, Early
                <5> QED BY <5>1, <5>2
            <4>2. Sim!EarlyError(simFacts) # {}
                BY <4>1
            <4>3. simReport = [errors |-> Sim!EarlyError(simFacts), passed |-> "none"]
                BY <2>1, <4>2 DEF ReportIsOfRun
            <4> QED BY <4>1, <4>3
        <3>2. simStatus = "FAILED" /\ ~Sim!RunFailed
            BY <2>1, <3>1 DEF StatusIsOfReport, Sim!RunFailed
        <3> QED BY <2>1, <3>2 DEF Sim!Decision
    <2> QED BY <1>a, <2>3, <2>4, <2>5, <2>6 DEF VerdictIsEarned
<1> QED BY <1>1, <1>2

LEMMA InitSim == Sim!Init => SimInv
BY NoReportType DEF Sim!Init, SimInv, Sim!TypeOK

\* The report of a run, with what it leaves in the workspace.
LEMMA RunSim == ASSUME SimInv, Sim!RunSimulation PROVE SimInv'
<1> USE DEF SimInv, Sim!TypeOK
<1>0. /\ simPhase = "run" /\ simPhase' = "process" /\ simFacts' = simFacts
      /\ simFacts \in Sim!Possible
    BY DEF Sim!RunSimulation
<1>1. simReport' \in Sim!Report
    BY <1>0, Early DEF Sim!RunSimulation, Sim!ReportOf, Sim!Errors, Sim!Printed, Sim!Report
<1>2. simChipOut' \in {"none", "this", "earlier"} /\ simGolden' \in BOOLEAN
    BY DEF Sim!RunSimulation, Sim!OutputAfter, Sim!GoldenAfter
<1>3. Sim!TypeOK'
    BY <1>0, <1>1, <1>2 DEF Sim!RunSimulation
<1>4. CASE Sim!EarlyError(simFacts) # {}
    <2>1. simReport' = [errors |-> Sim!EarlyError(simFacts), passed |-> "none"]
        BY <1>4 DEF Sim!RunSimulation, Sim!ReportOf
    <2>2. simFacts.sources => simChipOut' # "earlier"
        BY <1>0, Early DEF Sim!RunSimulation, Sim!OutputAfter
    <2>3. simStamp' # "this"
        BY <1>0, <1>4 DEF Sim!RunSimulation, Sim!Stamps
    <2> QED BY <1>0, <1>3, <1>4, <2>1, <2>2, <2>3 DEF ReportIsOfRun, Sim!RunSimulation
<1>5. CASE Sim!EarlyError(simFacts) = {}
    <2> DEFINE fabricated == IF simFacts.fabricates
                             THEN {"testbench fabricates golden_output.mem"} ELSE {}
               differs == IF Sim!Compared(simFacts) /\ ~simFacts.matches
                          THEN {"chip output != golden output"} ELSE {}
               passed == IF fabricated \cup differs # {} THEN "false" ELSE Sim!Printed(simFacts)
    <2>1. simReport' = [errors |-> fabricated \cup differs \cup
                                   IF passed = "false" THEN {"testbench FAILED"} ELSE {},
                        passed |-> passed]
        BY <1>5 DEF Sim!RunSimulation, Sim!ReportOf
    <2>2. /\ passed = "false" <=> simReport'.errors # {}
          /\ passed = "false" <=> "testbench FAILED" \in simReport'.errors
          /\ simReport'.passed = passed
        BY <2>1
    <2>3. /\ simFacts.fabricates => passed = "false"
          /\ simFacts.run \in {"fails", "timeout"} => passed = "false"
          /\ simFacts.testbench /\ simFacts.run = "silent" => passed = "false"
        BY <1>0, Early DEF Sim!Printed
    <2>4. simGolden' /\ simChipOut' = "this" /\ ~simFacts.matches => passed = "false"
        BY DEF Sim!RunSimulation, Sim!Compared
    <2>5. simFacts.sources => simChipOut' # "earlier"
        BY DEF Sim!RunSimulation, Sim!OutputAfter
    <2>6. simStamp' = "this" =>
            /\ simReport'.passed # "false" /\ simGolden' /\ simChipOut' = "this"
            /\ Sim!Executed(simFacts) /\ simFacts.testbench /\ simFacts.matches
        <3> SUFFICES ASSUME simStamp' = "this"
                     PROVE  /\ simReport'.passed # "false" /\ simGolden' /\ simChipOut' = "this"
                            /\ Sim!Executed(simFacts) /\ simFacts.testbench /\ simFacts.matches
            OBVIOUS
        <3>1. Sim!Stamps(simFacts)
            BY <1>0 DEF Sim!RunSimulation
        <3>2. simFacts.sources
            BY <1>0, <1>5, Early
        <3>3. Sim!OutputAfter(simFacts) # "none"
            BY <3>1 DEF Sim!Stamps, Sim!Compared
        <3>4. Sim!Executed(simFacts) /\ simFacts.dumps /\ Sim!OutputAfter(simFacts) = "this"
            BY <3>2, <3>3 DEF Sim!OutputAfter
        <3> QED BY <1>0, <3>1, <3>4, Early DEF Sim!RunSimulation, Sim!Stamps, Sim!Compared
    <2> HIDE DEF passed
    <2>7. ReportIsOfRun'
        BY <1>0, <1>5, <2>2, <2>3, <2>4, <2>5, <2>6 DEF ReportIsOfRun
    <2> QED BY <1>0, <1>3, <2>7 DEF Sim!RunSimulation
<1> QED BY <1>4, <1>5

LEMMA NextSim == ASSUME SimInv, [Sim!Next]_simVars PROVE SimInv'
<1>1. CASE Sim!RunSimulation
    BY <1>1, RunSim
<1>2. CASE Sim!ProcessJob
    <2>1. /\ simStatus' = IF simReport.errors = {} THEN "COMPLETED" ELSE "FAILED"
          /\ simPhase = "process" /\ simPhase' = "poll" /\ simReport' = simReport
        BY <1>2 DEF Sim!ProcessJob, Sim!StatusOf
    <2>2. Sim!TypeOK'
        BY <1>2, <2>1 DEF SimInv, Sim!TypeOK, Sim!ProcessJob
    <2>3. ReportIsOfRun'
        BY <1>2, <2>1 DEF SimInv, Sim!ProcessJob, ReportIsOfRun
    <2>4. simDecision' = "none" /\ simStamp' = simStamp
        BY <1>2 DEF SimInv, Sim!ProcessJob
    <2> QED BY <2>1, <2>2, <2>3, <2>4 DEF SimInv, StatusIsOfReport
<1>3. CASE Sim!Poll
    <2>1. Sim!Decision' = Sim!Decision /\ Sim!Decision \in {"repair", "failed", "review"}
        BY <1>3 DEF Sim!Poll, Sim!Decision, Sim!TestbenchFailed, Sim!RunFailed,
           Sim!HasChipOutput
    <2>2. /\ simPhase = "poll" /\ simPhase' = "decided" /\ simDecision' = Sim!Decision
          /\ UNCHANGED <<simFacts, simChipOut, simGolden, simSlangLog, simInput, simStamp, simReport,
                         simStatus>>
        BY <1>3 DEF Sim!Poll
    <2>3. Sim!TypeOK'
        BY <2>1, <2>2 DEF SimInv, Sim!TypeOK
    <2>4. ReportIsOfRun' /\ StatusIsOfReport'
        BY <2>2 DEF SimInv, ReportIsOfRun, StatusIsOfReport
    <2> QED BY <2>1, <2>2, <2>3, <2>4 DEF SimInv
<1>4. CASE Sim!Rerun
    BY <1>4, NoReportType DEF SimInv, Sim!TypeOK, Sim!Rerun
<1>5. CASE UNCHANGED simVars
    <2>1. Sim!Decision' = Sim!Decision
        BY <1>5 DEF simVars, Sim!Decision, Sim!TestbenchFailed, Sim!RunFailed, Sim!HasChipOutput
    <2>2. ReportIsOfRun' = ReportIsOfRun /\ StatusIsOfReport' = StatusIsOfReport
        BY <1>5 DEF simVars, ReportIsOfRun, StatusIsOfReport
    <2>3. Sim!TypeOK'
        BY <1>5 DEF simVars, SimInv, Sim!TypeOK
    <2> QED BY <1>5, <2>1, <2>2, <2>3 DEF simVars, SimInv
<1> QED BY <1>1, <1>2, <1>3, <1>4, <1>5 DEF Sim!Next

SimSafe == IF part = "sim" THEN SimInv ELSE Sim!TypeOK /\ VerdictIsEarned

LEMMA SimStep == SimSafe /\ [ServiceNext]_allVars => SimSafe'
<1> SUFFICES ASSUME SimSafe, [ServiceNext]_allVars PROVE SimSafe'
    OBVIOUS
<1>0. part' = part
    BY DEF ServiceNext, allVars
<1>1. CASE part = "sim" /\ [Sim!Next]_simVars
    BY <1>0, <1>1, NextSim DEF SimSafe
<1>2. CASE part # "sim" /\ UNCHANGED simVars
    BY <1>0, <1>2 DEF SimSafe, simVars, Sim!TypeOK, VerdictIsEarned, Sim!GreenHasPassed,
       Sim!OutputIsFresh, Sim!StampHasPassed, Sim!StampIsGreen, Sim!ToolFailureSurfaces
<1> QED BY <1>1, <1>2 DEF ServiceNext, allVars

\* Report, files, status and decision follow from what the present run did, each from the step
\* on that writes it (run_simulation in sim_runner.py, manager.py, pollEDARun).
THEOREM SimCorrect == ServiceSpec => []SimSafe
<1>1. ServiceInit => SimSafe
    <2>1. SimRests => Sim!TypeOK /\ VerdictIsEarned
        <3> SUFFICES ASSUME SimRests PROVE Sim!TypeOK /\ VerdictIsEarned
            OBVIOUS
        <3>1. simFacts \in Sim!Possible
            BY DEF SimRests, Sim!Possible, Sim!Facts
        <3>2. Sim!TypeOK
            BY <3>1, NoReportType DEF SimRests, Sim!TypeOK
        <3> QED BY <3>2 DEF SimRests, VerdictIsEarned, Sim!GreenHasPassed, Sim!OutputIsFresh,
                   Sim!NothingJudged, Sim!StampHasPassed, Sim!StampIsGreen, Sim!ToolFailureSurfaces
    <2> QED BY <2>1, InitSim DEF ServiceInit, SimSafe
<1> QED BY <1>1, SimStep, PTL DEF ServiceSpec, allVars

\* What is put up for review has passed its testbench or was judged by nothing (no vvp, no
\* testbench), and takes no output of an earlier run for its own; the stamp hardening trusts is
\* written only by a run whose testbench was executed and passed on an output equal to the
\* golden one; a toolchain that cannot compile is neither a pass nor a defect of the design
\* (sim_runner.py, manager.py, pollEDARun), for every sequence of runs in one workspace.
THEOREM VerdictEarned == ServiceSpec => []VerdictIsEarned
<1>1. SimSafe => VerdictIsEarned
    BY SimEarned DEF SimSafe
<1> QED BY <1>1, SimCorrect, PTL

-----------------------------------------------------------------------------
(* The analyses after layout *)

\* An image that is being run was compiled in this job, a stage that measured says what the
\* present layout has.
LayoutInv ==
    /\ Analyses!TypeOK
    /\ layoutPc = "simulate" => layoutImage = layoutRtl
    /\ layoutPc # "harden" => \E i \in DOMAIN layoutRuns : Analyses!Delivered(i)
    /\ Analyses!PassedIsOfLayout /\ Analyses!MeasuredIsOfLayout

\* The netlist found is that of the layout delivered, unless a later attempt wrote one.
LEMMA NetlistOfLayout ==
    ASSUME Analyses!TypeOK, \E i \in DOMAIN layoutRuns : Analyses!Delivered(i), ~Analyses!Overtaken
    PROVE  Analyses!Netlist = Analyses!Layout
<1> DEFINE d == CHOOSE i \in DOMAIN layoutRuns : Analyses!Delivered(i)
           n == CHOOSE i \in DOMAIN layoutRuns : Analyses!Newest(i, Analyses!HasNetlist)
<1>1. DOMAIN layoutRuns \subseteq Nat
    BY DEF Analyses!TypeOK
<1>2. d \in DOMAIN layoutRuns /\ Analyses!Delivered(d)
    OBVIOUS
<1>3. Analyses!Newest(d, Analyses!HasNetlist)
    <2>1. \A j \in DOMAIN layoutRuns : layoutRuns[j].reached \in Analyses!HasNetlist => ~(d < j)
        BY <1>2 DEF Analyses!Overtaken
    <2>2. layoutRuns[d].reached \in Analyses!HasNetlist
        BY <1>2 DEF Analyses!Delivered, Analyses!Newest, Analyses!HasNetlist, Analyses!Reach
    <2> QED BY <1>1, <1>2, <2>1, <2>2 DEF Analyses!Newest
<1>4. n \in DOMAIN layoutRuns /\ Analyses!Newest(n, Analyses!HasNetlist)
    BY <1>2, <1>3
<1>5. n <= d /\ d <= n
    BY <1>2, <1>3, <1>4 DEF Analyses!Newest
<1>6. n \in Nat /\ d \in Nat
    BY <1>1, <1>2, <1>4
<1> HIDE DEF n, d
<1>7. n = d
    BY <1>5, <1>6
<1> QED BY <1>7 DEF Analyses!Netlist, Analyses!Layout, n, d

\* The attempts of a hardening, as a sequence.
LEMMA AttemptsType ==
    ASSUME NEW n \in 1..Attempts, NEW s \in [1..n -> Analyses!Attempt]
    PROVE  /\ s \in Seq(Analyses!Attempt) /\ Len(s) = n /\ Len(s) <= Attempts
<1>1. n \in Nat
    BY LayoutAssumption
<1>2. s \in Seq(Analyses!Attempt)
    BY <1>1
<1>3. Len(s) = n
    BY <1>1, <1>2
<1> QED BY <1>2, <1>3, LayoutAssumption

LEMMA InitLayout == Analyses!Init => LayoutInv
BY LayoutAssumption DEF Analyses!Init, LayoutInv, Analyses!TypeOK, Analyses!PassedIsOfLayout,
   Analyses!MeasuredIsOfLayout, Analyses!Version, Analyses!NoSta, Analyses!NoGl,
   Analyses!NoImages, Analyses!Missing, Analyses!Done, Analyses!Stages

LEMMA HardenLayout == ASSUME LayoutInv, Analyses!Harden PROVE LayoutInv'
<1> USE DEF LayoutInv
<1>1. PICK n \in 1..Attempts : layoutRuns' \in [1..n -> Analyses!Attempt]
    BY DEF Analyses!Harden
<1>2. Len(layoutRuns') <= Attempts /\ layoutRuns' \in Seq(Analyses!Attempt)
    BY <1>1, AttemptsType
<1>3. Analyses!TypeOK'
    BY <1>2 DEF Analyses!Harden, Analyses!TypeOK, Analyses!Stages
<1>4. layoutRow'["STA"] = "RUNNING" /\ layoutRow'["GL_SIM"] = "RUNNING" /\ layoutPc' = "idle"
    BY DEF Analyses!Harden, Analyses!Stages
<1>5. \E i \in DOMAIN layoutRuns' : Analyses!Delivered(i)'
    BY DEF Analyses!Harden
<1> QED BY <1>3, <1>4, <1>5 DEF Analyses!PassedIsOfLayout, Analyses!MeasuredIsOfLayout, Analyses!Done

\* Steps that leave what the properties compare alone.
LEMMA BesideLayout ==
    ASSUME LayoutInv, Analyses!TypeOK', UNCHANGED <<layoutRtl, layoutRuns, layoutSta, layoutGl>>,
           \A s \in Analyses!Stages : layoutRow'[s] = "COMPLETED" => layoutRow[s] = "COMPLETED"
                                                                     \/ s = "RENDER",
           layoutPc' # "harden" => layoutPc # "harden",
           layoutPc' = "simulate" => layoutPc = "simulate" /\ layoutImage' = layoutImage
    PROVE  LayoutInv'
<1>1. "STA" \in Analyses!Stages /\ "GL_SIM" \in Analyses!Stages
    BY DEF Analyses!Stages
<1>2. Analyses!PassedIsOfLayout'
    BY <1>1 DEF LayoutInv, Analyses!PassedIsOfLayout, Analyses!Done
<1>3. Analyses!MeasuredIsOfLayout'
    BY <1>1 DEF LayoutInv, Analyses!MeasuredIsOfLayout, Analyses!Done, Analyses!Layout,
       Analyses!Overtaken, Analyses!Delivered, Analyses!Newest
<1>4. (layoutPc # "harden" => \E i \in DOMAIN layoutRuns : Analyses!Delivered(i))'
    BY DEF LayoutInv, Analyses!Delivered, Analyses!Newest
<1> QED BY <1>2, <1>3, <1>4 DEF LayoutInv

LEMMA StaLayout == ASSUME LayoutInv, Analyses!Sta PROVE LayoutInv'
<1> USE DEF LayoutInv
<1>1. /\ layoutPc = "sta" /\ layoutPc' = "idle"
      /\ layoutRow' = [layoutRow EXCEPT !["STA"] = "COMPLETED"]
      /\ UNCHANGED <<layoutRtl, layoutRuns, layoutImage, layoutWave, layoutOutput, layoutDot,
                     layoutLayoutPng, layoutGl, layoutImages, layoutTodo, layoutJobs>>
    BY DEF Analyses!Sta, Analyses!OpenSta, Analyses!FromMetrics, Analyses!Finish, Analyses!files
<1>2. /\ layoutSta' \in [engine : {"none", "opensta", "metrics"}, found : BOOLEAN, met : BOOLEAN]
      /\ layoutSta'.engine = "opensta" /\ layoutSta'.found /\ ~Analyses!Overtaken
            => (layoutSta'.met <=> Analyses!Layout.slack = "met")
    <2>1. CASE \E met \in BOOLEAN : /\ met <=> Analyses!Netlist.slack = "met"
                                   /\ layoutSta' = [engine |-> "opensta", found |-> TRUE, met |-> met]
        <3>1. ~Analyses!Overtaken => Analyses!Netlist = Analyses!Layout
            BY <1>1, NetlistOfLayout
        <3> QED BY <2>1, <3>1
    <2>2. CASE layoutSta' = [engine |-> "opensta", found |-> FALSE, met |-> TRUE]
        BY <2>2
    <2>3. CASE \E found \in BOOLEAN : \E met \in BOOLEAN :
                  layoutSta' = [engine |-> "metrics", found |-> found, met |-> met]
        BY <2>3
    <2>4. (Analyses!Layout.slack = "met") \in BOOLEAN
          /\ (Analyses!Netlist.slack = "met") \in BOOLEAN
          /\ \A i \in Analyses!Metrics : (layoutRuns[i].slack = "met") \in BOOLEAN
        OBVIOUS
    <2> QED BY <2>1, <2>2, <2>3, <2>4, Zenon DEF Analyses!Sta, Analyses!OpenSta,
               Analyses!FromMetrics, Analyses!Report
<1>3. /\ Analyses!Layout' = Analyses!Layout /\ Analyses!Overtaken' = Analyses!Overtaken
      /\ (\E i \in DOMAIN layoutRuns : Analyses!Delivered(i))'
    BY <1>1 DEF Analyses!Layout, Analyses!Overtaken, Analyses!Delivered, Analyses!Newest
<1>4. Analyses!TypeOK'
    BY <1>1, <1>2 DEF Analyses!TypeOK
<1>5. Analyses!PassedIsOfLayout'
    BY <1>1 DEF Analyses!PassedIsOfLayout, Analyses!Done, Analyses!TypeOK
<1> QED BY <1>1, <1>2, <1>3, <1>4, <1>5 DEF Analyses!MeasuredIsOfLayout

LEMMA GlSimLayout == ASSUME LayoutInv, Analyses!GlSim PROVE LayoutInv'
<1> USE DEF LayoutInv
<1>0. /\ UNCHANGED <<layoutRtl, layoutRuns, layoutSta, layoutDot, layoutLayoutPng, layoutImages,
                     layoutTodo, layoutJobs>>
      /\ layoutRow' = layoutRow \/ \E s \in {"COMPLETED", "FAILED"} :
            layoutRow' = [layoutRow EXCEPT !["GL_SIM"] = s]
      /\ layoutPc' \in {"idle", "simulate"}
    BY DEF Analyses!GlSim, Analyses!GlSkipped, Analyses!GlCompile, Analyses!GlSimulate,
       Analyses!Finish, Analyses!files
<1>1. layoutRow' \in [Analyses!Stages -> {"NOT_STARTED", "RUNNING", "COMPLETED", "FAILED"}]
    BY <1>0 DEF Analyses!TypeOK
<1>2. layoutRow'["STA"] = layoutRow["STA"]
    BY <1>0 DEF Analyses!TypeOK, Analyses!Stages
<1>3. Analyses!MeasuredIsOfLayout'
    BY <1>0, <1>2 DEF Analyses!MeasuredIsOfLayout, Analyses!Done, Analyses!Layout,
       Analyses!Overtaken, Analyses!Delivered, Analyses!Newest
<1>4. /\ layoutImage' \in {layoutImage, layoutRtl} /\ layoutWave' \in {layoutWave, "now"}
      /\ layoutOutput' \in {layoutOutput, "gl"}
    BY DEF Analyses!GlSim, Analyses!GlSkipped, Analyses!GlCompile, Analyses!GlSimulate,
       Analyses!files
<1>5. /\ layoutGl' \in [compiled : BOOLEAN, passed : BOOLEAN, waveform : BOOLEAN,
                        of : {Analyses!Missing} \cup Analyses!Version, cells : BOOLEAN]
      /\ layoutGl'.passed => layoutGl'.of = layoutRtl
      /\ layoutPc' = "simulate" => layoutImage' = layoutRtl
    <2>1. CASE Analyses!GlSkipped \/ Analyses!GlCompile
        <3>1. PICK compiled \in BOOLEAN, cells \in BOOLEAN :
                  layoutGl' = [compiled |-> compiled, passed |-> FALSE, waveform |-> FALSE,
                               of |-> Analyses!Missing, cells |-> cells]
            BY <2>1 DEF Analyses!GlSkipped, Analyses!GlCompile, Analyses!NoGl
        <3>2. layoutPc' = "simulate" => layoutImage' = layoutRtl
            BY <2>1 DEF Analyses!GlSkipped, Analyses!GlCompile, Analyses!Finish
        <3> QED BY <3>1, <3>2
    <2>2. CASE Analyses!GlSimulate
        BY <2>2 DEF Analyses!GlSimulate, Analyses!Finish, Analyses!TypeOK
    <2> QED BY <2>1, <2>2 DEF Analyses!GlSim
<1>6. Analyses!TypeOK'
    BY <1>0, <1>1, <1>4, <1>5 DEF Analyses!TypeOK
<1>7. layoutPc # "harden" /\ (\E i \in DOMAIN layoutRuns : Analyses!Delivered(i))'
    <2>1. layoutPc # "harden"
        BY DEF Analyses!GlSim, Analyses!GlSkipped, Analyses!GlCompile, Analyses!GlSimulate
    <2> QED BY <1>0, <2>1 DEF Analyses!Delivered, Analyses!Newest
<1> QED BY <1>0, <1>3, <1>5, <1>6, <1>7 DEF Analyses!PassedIsOfLayout

LEMMA RenderLayout == ASSUME LayoutInv, Analyses!Render PROVE LayoutInv'
<1>1. CASE Analyses!RenderSchematic
    <2>1. Analyses!TypeOK'
        BY <1>1 DEF LayoutInv, Analyses!TypeOK, Analyses!RenderSchematic, Analyses!NoImages
    <2> QED BY <1>1, <2>1, BesideLayout DEF Analyses!RenderSchematic
<1>2. CASE Analyses!RenderGds
    <2>0. layoutImages' \in [schematic : {Analyses!Missing} \cup Analyses!Version,
                             layout : {Analyses!Missing} \cup Analyses!Version]
        BY <1>2 DEF LayoutInv, Analyses!TypeOK, Analyses!RenderGds
    <2>1. Analyses!TypeOK'
        BY <1>2, <2>0 DEF LayoutInv, Analyses!TypeOK, Analyses!RenderGds, Analyses!Finish,
           Analyses!files
    <2>2. \A s \in Analyses!Stages : s # "RENDER" => layoutRow'[s] = layoutRow[s]
        BY <1>2 DEF LayoutInv, Analyses!TypeOK, Analyses!RenderGds, Analyses!Finish
    <2> QED BY <1>2, <2>1, <2>2, BesideLayout DEF Analyses!RenderGds, Analyses!Finish,
               Analyses!files
<1> QED BY <1>1, <1>2 DEF Analyses!Render

LEMMA NextLayout == ASSUME LayoutInv, [Analyses!Next]_layoutVars PROVE LayoutInv'
<1>1. CASE Analyses!Harden
    BY <1>1, HardenLayout
<1>2. CASE \E s \in Analyses!Stages : Analyses!Take(s)
    <2>1. PICK s \in Analyses!Stages : Analyses!Take(s)
        BY <1>2
    <2>2. /\ layoutPc = "idle" /\ layoutPc' \in {"sta", "compile", "schematic"}
          /\ layoutTodo' = layoutTodo \ {s} /\ layoutJobs < AnalysisJobs
          /\ layoutJobs' = layoutJobs + 1 /\ layoutWave' \in {"none", "old"}
          /\ UNCHANGED <<layoutRtl, layoutRuns, layoutSta, layoutGl, layoutImages, layoutRow,
                         layoutImage, layoutOutput, layoutDot, layoutLayoutPng>>
        BY <2>1 DEF Analyses!Take, Analyses!Stages, Analyses!reports
    <2>3. layoutJobs' \in 0..AnalysisJobs
        BY <2>2, LayoutAssumption DEF LayoutInv, Analyses!TypeOK
    <2>4. Analyses!TypeOK'
        BY <2>2, <2>3 DEF LayoutInv, Analyses!TypeOK
    <2> QED BY <2>2, <2>4, BesideLayout
<1>3. CASE Analyses!Sta \/ Analyses!GlSim \/ Analyses!Render
    BY <1>3, StaLayout, GlSimLayout, RenderLayout
<1>4. CASE Analyses!Retry
    <2>1. Analyses!TypeOK'
        BY <1>4 DEF LayoutInv, Analyses!TypeOK, Analyses!Retry, Analyses!files
    <2> QED BY <1>4, <2>1, BesideLayout DEF Analyses!Retry, Analyses!files
<1>5. CASE Analyses!Rework
    <2>1. layoutRtl' \in Analyses!Version
        BY <1>5, LayoutAssumption DEF LayoutInv, Analyses!TypeOK, Analyses!Rework, Analyses!Version
    <2>2. Analyses!TypeOK'
        BY <1>5, <2>1 DEF LayoutInv, Analyses!TypeOK, Analyses!Rework
    <2>3. layoutPc' = "harden" /\ \A s \in Analyses!Stages : layoutRow'[s] = "NOT_STARTED"
        BY <1>5 DEF Analyses!Rework
    <2> QED BY <2>2, <2>3 DEF LayoutInv, Analyses!PassedIsOfLayout, Analyses!MeasuredIsOfLayout,
               Analyses!Done, Analyses!Stages
<1>6. CASE UNCHANGED layoutVars
    <2>1. Analyses!TypeOK'
        BY <1>6 DEF layoutVars, LayoutInv, Analyses!TypeOK
    <2> QED BY <1>6, <2>1, BesideLayout DEF layoutVars
<1> QED BY <1>1, <1>2, <1>3, <1>4, <1>5, <1>6 DEF Analyses!Next

LEMMA LayoutStep ==
    (part = "layout" => LayoutInv) /\ [ServiceNext]_allVars => (part = "layout" => LayoutInv)'
<1> SUFFICES ASSUME part = "layout" => LayoutInv, [ServiceNext]_allVars, part' = "layout"
             PROVE  LayoutInv'
    OBVIOUS
<1>1. part = "layout"
    BY DEF ServiceNext, allVars
<1>2. [Analyses!Next]_layoutVars
    BY <1>1 DEF ServiceNext, allVars
<1> QED BY <1>1, <1>2, NextLayout

\* The analyses after layout keep their types and speak of the layout that is there (run_sta,
\* run_gl_sim, run_render).
THEOREM LayoutCorrect == ServiceSpec => [](part = "layout" => LayoutInv)
<1>1. ServiceInit => (part = "layout" => LayoutInv)
    BY InitLayout DEF ServiceInit
<1> QED BY <1>1, LayoutStep, PTL DEF ServiceSpec

-----------------------------------------------------------------------------
(* The pad ring *)

\* The least of some numbers is one of them: with what FindCore takes and with the first of the
\* runs of the Chip flow there is a file.
LEMMA LeastIsOne == ASSUME NEW S, S \subseteq Nat, S # {} PROVE Ring!Least(S) \in S
<1> DEFINE Before == OpToRel(<, Nat)
<1>1. IsWellFoundedOn(Before, Nat)
    BY NatLessThanWellFounded
<1>2. ASSUME NEW x \in Nat, NEW y \in Nat, <<y, x>> \notin Before PROVE x <= y
    <2>1. y < x => <<y, x>> \in Before
        BY Zenon DEF OpToRel
    <2> HIDE DEF Before
    <2> QED BY <1>2, <2>1
<1> HIDE DEF Before
<1>3. PICK n \in S : \A m \in S : <<m, n>> \notin Before
    BY <1>1, WFMin
<1>4. \A m \in S : n <= m
    BY <1>2, <1>3
<1> QED BY <1>4 DEF Ring!Least

\* Outside of a run the verdict is that of the last one; in a run there is none yet, and what
\* will be delivered is known from the place on where it is made.
RingInv ==
    /\ Ring!TypeOK
    /\ ringPhase # "idle" => ringReport.verdict = "none" /\ ringRuns > 0
    /\ ringPhase \in {"skip", "place", "merge", "klayout", "preview", "flow"} => ~ringReport.preview
    /\ ringPhase = "klayout" => ringReal
    /\ ringPhase \in {"place", "merge", "klayout"} => ringReport.routes = {}
    /\ ringPhase \in {"preview", "copy"}
         => ringRing.by = ringRuns \/ (ringReal /\ ringReport.routes = {})
    /\ ringPhase = "copy" /\ ringReport.preview => ringRing.preview = ringRing.by
    /\ RingIsOfThisRun

LEMMA NoReportOfRing ==
    /\ Ring!NoReport \in Ring!Reports /\ Ring!NoReport.verdict = "none"
    /\ ~Ring!NoReport.preview /\ Ring!NoReport.routes = {}
BY RingAssumption DEF Ring!NoReport, Ring!Reports, Ring!Sources, Ring!Nowhere

LEMMA NoRingType ==
    /\ Ring!NoRing \in Ring!Rings /\ Ring!NoRing.by = 0
    /\ 0 \in Ring!Layouts /\ 0 \in 0 .. MaxRuns /\ Ring!Nowhere \in Ring!Sources /\ Ring!Core \in Ring!Sources
BY RingAssumption DEF Ring!NoRing, Ring!Rings, Ring!Layouts, Ring!Nowhere, Ring!Core, Ring!Sources

LEMMA InitRing == Ring!Init => RingInv
<1> SUFFICES ASSUME Ring!Init PROVE RingInv
    OBVIOUS
<1>1. Ring!TypeOK
    BY NoReportOfRing, NoRingType, RingAssumption DEF Ring!Init, Ring!TypeOK
<1> QED BY <1>1, NoReportOfRing, NoRingType DEF Ring!Init, RingInv, RingIsOfThisRun,
           Ring!RingIsNotNested, Ring!AssembledByThisRun, Ring!PreviewIsOfLayout,
           Ring!ChipVerdictIsHonest, Ring!Completed

\* A core that is found is a layout that was hardened.
LEMMA FoundCore ==
    ASSUME Ring!TypeOK, NEW c \in Ring!FindCore PROVE c \in Ring!Layouts /\ c > 0
<1> DEFINE found == {n \in Names \ ChipNamed : ringGds[n] > 0}
<1>1. CASE ringGds[Top] > 0
    BY <1>1, RingAssumption DEF Ring!FindCore, Ring!TypeOK
<1>2. CASE ~(ringGds[Top] > 0)
    <2>1. found # {} /\ c = ringGds[Ring!Least(found)]
        BY <1>2 DEF Ring!FindCore
    <2>2. Ring!Least(found) \in found
        BY <2>1, LeastIsOne, RingAssumption
    <2> QED BY <2>1, <2>2 DEF Ring!TypeOK
<1> QED BY <1>1, <1>2

\* A job that ends sets the verdict and the path of its report.
LEMMA EndOfRing ==
    ASSUME Ring!TypeOK, NEW verdict \in {"COMPLETED", "FAILED"},
           NEW path \in {"skipped", "ring"}, Ring!End(verdict, path)
    PROVE  /\ ringPhase' = "idle" /\ ringReport' \in Ring!Reports
           /\ ringReport'.verdict = verdict /\ ringReport'.path = path
           /\ ringReport'.preview = ringReport.preview
           /\ ringReport'.routes = ringReport.routes
BY DEF Ring!End, Ring!TypeOK, Ring!Reports

\* A job that fails or is skipped delivers nothing.
LEMMA NothingDelivered ==
    ASSUME RingInv, Ring!TypeOK', ringPhase' = "idle", Ring!RingIsNotNested',
           ringReport'.verdict = "FAILED" \/ ringReport'.path = "skipped"
    PROVE  RingInv'
BY DEF RingInv, RingIsOfThisRun, Ring!AssembledByThisRun, Ring!PreviewIsOfLayout,
   Ring!ChipVerdictIsHonest, Ring!Completed

\* A step within a run.
LEMMA WithinRun ==
    ASSUME RingInv, Ring!TypeOK', ringPhase' # "idle", Ring!RingIsNotNested',
           ringReport'.verdict = "none", ringRuns' > 0,
           ringPhase' \in {"skip", "place", "merge", "klayout", "preview", "flow"}
                => ~ringReport'.preview,
           ringPhase' = "klayout" => ringReal',
           ringPhase' \in {"place", "merge", "klayout"} => ringReport'.routes = {},
           ringPhase' \in {"preview", "copy"}
             => ringRing'.by = ringRuns' \/ (ringReal' /\ ringReport'.routes = {}),
           ringPhase' = "copy" /\ ringReport'.preview => ringRing'.preview = ringRing'.by
    PROVE  RingInv'
BY DEF RingInv, RingIsOfThisRun, Ring!AssembledByThisRun, Ring!PreviewIsOfLayout,
   Ring!ChipVerdictIsHonest, Ring!Completed

LEMMA PlaceRing == ASSUME RingInv, Ring!Place PROVE RingInv'
<1> USE DEF RingInv
<1>1. PICK d \in {"absent", "binary", "partial", "stub"} : ringRing' = [ringRing EXCEPT !.def = d]
    BY DEF Ring!Place, Ring!Rendered, Ring!TypeOK, Ring!Rings
<1>2. /\ ringRing' \in Ring!Rings /\ ringRing'.core = ringRing.core /\ ringRing'.by = ringRing.by
      /\ ringRing'.preview = ringRing.preview
    BY <1>1 DEF Ring!TypeOK, Ring!Rings
<1>3. /\ ringPhase = "place" /\ ringPhase' = "merge" /\ ringReal' \in BOOLEAN
      /\ UNCHANGED <<ringAsked, ringConfig, ringPorts, ringGds, ringCores, ringFinals, ringPinout,
                     ringRuns, ringReport>>
    BY DEF Ring!Place, Ring!inputs
<1>4. Ring!TypeOK'
    BY <1>2, <1>3 DEF Ring!TypeOK
<1>5. Ring!RingIsNotNested'
    BY <1>2 DEF RingIsOfThisRun, Ring!RingIsNotNested
<1> QED BY <1>3, <1>4, <1>5, WithinRun

LEMMA MergeRing == ASSUME RingInv, Ring!Merge PROVE RingInv'
<1> USE DEF RingInv
<1>1. PICK c \in Ring!FindCore : ringRing' = [ringRing EXCEPT !.core = c, !.by = ringRuns]
    BY DEF Ring!Merge
<1>2. c \in Ring!Layouts /\ c > 0
    BY FoundCore
<1>3. /\ ringRing' \in Ring!Rings /\ ringRing'.core = c /\ ringRing'.by = ringRuns
    BY <1>1, <1>2 DEF Ring!TypeOK, Ring!Rings
<1>4. /\ ringReport' \in Ring!Reports /\ ringReport'.verdict = ringReport.verdict
      /\ ringReport'.preview = ringReport.preview
    BY DEF Ring!Merge, Ring!Routed, Ring!TypeOK, Ring!Reports
<1>5. /\ ringPhase = "merge" /\ ringPhase' = "preview"
      /\ UNCHANGED <<ringAsked, ringConfig, ringPorts, ringGds, ringCores, ringFinals, ringPinout,
                     ringRuns, ringReal>>
    BY DEF Ring!Merge, Ring!inputs
<1>6. Ring!TypeOK'
    BY <1>3, <1>4, <1>5 DEF Ring!TypeOK
<1>7. Ring!RingIsNotNested'
    BY <1>2, <1>3 DEF Ring!RingIsNotNested
<1> QED BY <1>3, <1>4, <1>5, <1>6, <1>7, WithinRun

LEMMA MergeFailsRing == ASSUME RingInv, Ring!MergeFails PROVE RingInv'
<1> USE DEF RingInv
<1>1. /\ ringPhase = "merge"
      /\ UNCHANGED <<ringAsked, ringConfig, ringPorts, ringGds, ringCores, ringRing, ringFinals,
                     ringPinout, ringRuns, ringReal>>
    BY DEF Ring!MergeFails, Ring!inputs
<1>2. Ring!RingIsNotNested'
    BY <1>1 DEF RingIsOfThisRun, Ring!RingIsNotNested
<1>3. CASE ringReal
    <2>1. ringPhase' = "klayout" /\ ringReport' = ringReport
        BY <1>3 DEF Ring!MergeFails
    <2>2. Ring!TypeOK'
        BY <1>1, <2>1 DEF Ring!TypeOK
    <2> QED BY <1>1, <1>2, <1>3, <2>1, <2>2, WithinRun
<1>4. CASE ~ringReal
    <2>1. Ring!End("FAILED", "ring")
        BY <1>4 DEF Ring!MergeFails
    <2>2. ringPhase' = "idle" /\ ringReport' \in Ring!Reports /\ ringReport'.verdict = "FAILED"
        BY <2>1, EndOfRing
    <2>3. Ring!TypeOK'
        BY <1>1, <2>2 DEF Ring!TypeOK
    <2> QED BY <1>2, <2>2, <2>3, NothingDelivered
<1> QED BY <1>3, <1>4

LEMMA KLayoutRing == ASSUME RingInv, Ring!KLayout PROVE RingInv'
<1> USE DEF RingInv
<1>1. /\ ringPhase = "klayout"
      /\ UNCHANGED <<ringAsked, ringConfig, ringPorts, ringGds, ringCores, ringRing, ringFinals,
                     ringPinout, ringRuns, ringReal>>
    BY DEF Ring!KLayout, Ring!inputs
<1>2. Ring!RingIsNotNested'
    BY <1>1 DEF RingIsOfThisRun, Ring!RingIsNotNested
<1>3. CASE ringPhase' = "preview" /\ ringReport' = ringReport
    <2>1. Ring!TypeOK'
        BY <1>1, <1>3 DEF Ring!TypeOK
    <2> QED BY <1>1, <1>2, <1>3, <2>1, WithinRun
<1>4. CASE Ring!End("FAILED", "ring")
    <2>1. ringPhase' = "idle" /\ ringReport' \in Ring!Reports /\ ringReport'.verdict = "FAILED"
        BY <1>4, EndOfRing
    <2>2. Ring!TypeOK'
        BY <1>1, <2>1 DEF Ring!TypeOK
    <2> QED BY <1>2, <2>1, <2>2, NothingDelivered
<1> QED BY <1>3, <1>4 DEF Ring!KLayout

LEMMA PreviewRing == ASSUME RingInv, Ring!Preview PROVE RingInv'
<1> USE DEF RingInv
<1>1. /\ ringPhase = "preview"
      /\ UNCHANGED <<ringAsked, ringConfig, ringPorts, ringGds, ringCores, ringFinals,
                     ringPinout, ringRuns, ringReal>>
    BY DEF Ring!Preview, Ring!inputs
<1>2. CASE /\ ringRing' = [ringRing EXCEPT !.preview = ringRing.by]
           /\ ringReport' = [ringReport EXCEPT !.preview = TRUE] /\ ringPhase' = "copy"
    <2>1. /\ ringRing' \in Ring!Rings /\ ringRing'.preview = ringRing.by
          /\ ringRing'.by = ringRing.by /\ ringRing'.core = ringRing.core
        BY <1>2 DEF Ring!TypeOK, Ring!Rings
    <2>2. /\ ringReport' \in Ring!Reports /\ ringReport'.verdict = ringReport.verdict
          /\ ringReport'.routes = ringReport.routes
        BY <1>2 DEF Ring!TypeOK, Ring!Reports
    <2>3. Ring!TypeOK'
        BY <1>1, <1>2, <2>1, <2>2 DEF Ring!TypeOK
    <2>4. Ring!RingIsNotNested'
        BY <2>1 DEF RingIsOfThisRun, Ring!RingIsNotNested
    <2> QED BY <1>1, <1>2, <2>1, <2>2, <2>3, <2>4, WithinRun
<1>3. CASE ringReport' = ringReport /\ ringPhase' = "copy" /\ UNCHANGED ringRing
    <2>1. Ring!TypeOK'
        BY <1>1, <1>3 DEF Ring!TypeOK
    <2>2. Ring!RingIsNotNested'
        BY <1>3 DEF RingIsOfThisRun, Ring!RingIsNotNested
    <2> QED BY <1>1, <1>3, <2>1, <2>2, WithinRun
<1>4. CASE Ring!End("FAILED", "ring") /\ UNCHANGED ringRing
    <2>1. ringPhase' = "idle" /\ ringReport' \in Ring!Reports /\ ringReport'.verdict = "FAILED"
        BY <1>4, EndOfRing
    <2>2. Ring!TypeOK'
        BY <1>1, <1>4, <2>1 DEF Ring!TypeOK
    <2>3. Ring!RingIsNotNested'
        BY <1>4 DEF RingIsOfThisRun, Ring!RingIsNotNested
    <2> QED BY <2>1, <2>2, <2>3, NothingDelivered
<1> QED BY <1>2, <1>3, <1>4 DEF Ring!Preview

LEMMA CopyRing == ASSUME RingInv, Ring!Copy PROVE RingInv'
<1> USE DEF RingInv
<1>1. /\ ringPhase = "copy"
      /\ UNCHANGED <<ringAsked, ringConfig, ringPorts, ringGds, ringCores, ringFinals,
                     ringPinout, ringRuns, ringReal>>
    BY DEF Ring!Copy, Ring!inputs
<1>2. /\ ringPhase' = "idle" /\ ringReport' \in Ring!Reports
      /\ ringReport'.path = "ring" /\ ringReport'.preview = ringReport.preview
      /\ ringReport'.routes = ringReport.routes
    BY EndOfRing DEF Ring!Copy
<1>3. /\ ringRing' \in Ring!Rings /\ ringRing'.by = ringRing.by /\ ringRing'.core = ringRing.core
      /\ ringRing'.preview = ringRing.preview
    BY DEF Ring!Copy, Ring!TypeOK, Ring!Rings
<1>4. Ring!TypeOK'
    BY <1>1, <1>2, <1>3 DEF Ring!TypeOK
<1>5. RingIsOfThisRun'
    BY <1>1, <1>2, <1>3 DEF RingIsOfThisRun, Ring!RingIsNotNested, Ring!AssembledByThisRun,
       Ring!PreviewIsOfLayout, Ring!ChipVerdictIsHonest, Ring!Completed
<1> QED BY <1>2, <1>4, <1>5

\* What is collected stems from the core, from a run of the Chip flow, or from nowhere.
LEMMA CollectedType ==
    ASSUME NEW done, done \subseteq 1 .. MaxRuns PROVE Ring!Collected(done) \in Ring!Sources
<1>1. CASE ringCores > 0 \/ done = {}
    BY <1>1, NoRingType DEF Ring!Collected
<1>2. CASE ~(ringCores > 0) /\ done # {}
    <2>1. Ring!Least(done) \in done
        <3>1. 1 .. MaxRuns \subseteq Nat
            OBVIOUS
        <3> QED BY <1>2, <3>1, LeastIsOne
    <2>2. Ring!Collected(done) = Ring!Least(done)
        BY <1>2 DEF Ring!Collected
    <2>3. MaxRuns \in Nat
        BY RingAssumption
    <2>4. 1 .. MaxRuns \subseteq Ring!Sources
        BY <2>3 DEF Ring!Sources
    <2> QED BY <2>1, <2>2, <2>4
<1> QED BY <1>1, <1>2

LEMMA ChipFlowRing == ASSUME RingInv, Ring!ChipFlow PROVE RingInv'
<1> USE DEF RingInv
<1>1. PICK ok \in BOOLEAN, final \in BOOLEAN :
          /\ Ring!FlowEnds(ok, final)
          /\ ringReport' = [ringReport EXCEPT
                 !.flow = ok, !.source = Ring!Collected(ringFinals'), !.path = "chip",
                 !.verdict = IF ok THEN "COMPLETED" ELSE "FAILED"]
          /\ Ring!Extracted(Ring!Collected(ringFinals'))
    BY DEF Ring!ChipFlow
<1>2. /\ ringPhase = "flow" /\ ringPhase' = "idle"
      /\ UNCHANGED <<ringAsked, ringConfig, ringPorts, ringGds, ringCores, ringRing, ringRuns,
                     ringReal>>
    BY DEF Ring!ChipFlow, Ring!inputs
<1>3. ringFinals' \subseteq 1 .. MaxRuns
    <2>1. ringFinals' = ringFinals \/ ringFinals' = ringFinals \cup {ringRuns}
        BY <1>1 DEF Ring!FlowEnds
    <2>2. ringFinals \subseteq 1 .. MaxRuns /\ ringRuns \in 0 .. MaxRuns
        BY DEF Ring!TypeOK
    <2>3. ringRuns > 0
        BY <1>2
    <2>4. ringRuns \in 1 .. MaxRuns
        BY <2>2, <2>3
    <2> QED BY <2>1, <2>2, <2>4
<1>4. Ring!Collected(ringFinals') \in Ring!Sources
    BY <1>3, CollectedType
<1>5. ringPinout' \in Ring!Sources
    BY <1>1, <1>4 DEF Ring!Extracted, Ring!TypeOK
<1>6. /\ ringReport' \in Ring!Reports /\ ringReport'.path = "chip"
      /\ ringReport'.verdict = "COMPLETED" => ringReport'.flow
    BY <1>1, <1>4 DEF Ring!TypeOK, Ring!Reports
<1>7. Ring!TypeOK'
    BY <1>2, <1>3, <1>5, <1>6 DEF Ring!TypeOK
<1>8. RingIsOfThisRun'
    BY <1>2, <1>6 DEF RingIsOfThisRun, Ring!RingIsNotNested, Ring!AssembledByThisRun,
       Ring!PreviewIsOfLayout, Ring!ChipVerdictIsHonest, Ring!Completed
<1> QED BY <1>2, <1>7, <1>8

LEMMA NextRing == ASSUME RingInv, [Ring!Next]_ringVars PROVE RingInv'
<1> USE DEF RingInv
<1>1. CASE \E n \in Names : Ring!Harden(n)
    <2>1. PICK n \in Names : Ring!Harden(n)
        BY <1>1
    <2>2. ringCores' \in Ring!Layouts
        BY <2>1, RingAssumption DEF Ring!Harden, Ring!TypeOK, Ring!Layouts
    <2>3. ringGds' \in [Names -> Ring!Layouts]
        BY <2>1, <2>2 DEF Ring!Harden, Ring!TypeOK
    <2>4. ringPhase = "idle" /\ UNCHANGED <<ringPhase, ringAsked, ringConfig, ringPorts, ringRing,
                                ringFinals, ringPinout, ringRuns, ringReal, ringReport>>
        BY <2>1 DEF Ring!Harden, Ring!inputs
    <2>5. Ring!TypeOK'
        BY <2>2, <2>3, <2>4 DEF Ring!TypeOK
    <2>6. RingIsOfThisRun'
        BY <2>4 DEF RingIsOfThisRun, Ring!RingIsNotNested, Ring!AssembledByThisRun,
           Ring!PreviewIsOfLayout, Ring!ChipVerdictIsHonest, Ring!Completed
    <2> QED BY <2>4, <2>5, <2>6
<1>2. CASE Ring!Start
    <2>1. /\ ringPhase' \in {"flow", "place", "skip"} /\ ringReport' = Ring!NoReport
          /\ ringReal' = FALSE
          /\ UNCHANGED <<ringAsked, ringConfig, ringPorts, ringGds, ringCores, ringRing,
                         ringFinals, ringPinout>>
        BY <1>2 DEF Ring!Start, Ring!inputs
    <2>2. ringRuns' \in 0 .. MaxRuns /\ ringRuns' > 0
        BY <1>2, RingAssumption DEF Ring!Start, Ring!TypeOK
    <2>3. Ring!TypeOK'
        BY <2>1, <2>2, NoReportOfRing DEF Ring!TypeOK
    <2>4. Ring!RingIsNotNested'
        BY <2>1 DEF RingIsOfThisRun, Ring!RingIsNotNested
    <2> QED BY <2>1, <2>2, <2>3, <2>4, NoReportOfRing, WithinRun
<1>3. CASE Ring!Skip
    <2>1. ringPhase' = "idle" /\ ringReport' \in Ring!Reports /\ ringReport'.path = "skipped"
        BY <1>3, EndOfRing DEF Ring!Skip
    <2>2. UNCHANGED <<ringAsked, ringConfig, ringPorts, ringGds, ringCores, ringRing,
                      ringFinals, ringPinout, ringRuns, ringReal>>
        BY <1>3 DEF Ring!Skip, Ring!inputs
    <2>3. Ring!TypeOK'
        BY <2>1, <2>2 DEF Ring!TypeOK
    <2>4. Ring!RingIsNotNested'
        BY <2>2 DEF RingIsOfThisRun, Ring!RingIsNotNested
    <2> QED BY <2>1, <2>3, <2>4, NothingDelivered
<1>4. CASE Ring!Place \/ Ring!Merge \/ Ring!MergeFails \/ Ring!KLayout
    BY <1>4, PlaceRing, MergeRing, MergeFailsRing, KLayoutRing
<1>5. CASE Ring!Preview \/ Ring!Copy \/ Ring!ChipFlow
    BY <1>5, PreviewRing, CopyRing, ChipFlowRing
<1>6. CASE UNCHANGED ringVars
    <2>1. Ring!TypeOK'
        BY <1>6 DEF ringVars, Ring!TypeOK
    <2>2. RingIsOfThisRun'
        BY <1>6 DEF ringVars, RingIsOfThisRun, Ring!RingIsNotNested, Ring!AssembledByThisRun,
           Ring!PreviewIsOfLayout, Ring!ChipVerdictIsHonest, Ring!Completed
    <2> QED BY <1>6, <2>1, <2>2 DEF ringVars
<1> QED BY <1>1, <1>2, <1>3, <1>4, <1>5, <1>6 DEF Ring!Next, Ring!Job

\* A resting ring has no run behind it.
RingSafe == IF part = "padring" THEN RingInv ELSE Ring!TypeOK /\ RingIsOfThisRun

LEMMA RingStep == RingSafe /\ [ServiceNext]_allVars => RingSafe'
<1> SUFFICES ASSUME RingSafe, [ServiceNext]_allVars PROVE RingSafe'
    OBVIOUS
<1>0. part' = part
    BY DEF ServiceNext, allVars
<1>1. CASE part = "padring" /\ [Ring!Next]_ringVars
    BY <1>0, <1>1, NextRing DEF RingSafe
<1>2. CASE part # "padring" /\ UNCHANGED ringVars
    <2>1. Ring!TypeOK'
        BY <1>2 DEF RingSafe, ringVars, Ring!TypeOK
    <2>2. RingIsOfThisRun'
        BY <1>2 DEF RingSafe, ringVars, RingIsOfThisRun, Ring!RingIsNotNested,
           Ring!AssembledByThisRun, Ring!PreviewIsOfLayout, Ring!ChipVerdictIsHonest,
           Ring!Completed
    <2> QED BY <1>0, <1>2, <2>1, <2>2 DEF RingSafe
<1> QED BY <1>1, <1>2 DEF ServiceNext, allVars

\* At each place of a run of the pad ring, which of the files are its own (run_padring).
THEOREM RingCorrect == ServiceSpec => []RingSafe
<1>1. RingRests => Ring!TypeOK /\ RingIsOfThisRun
    <2> SUFFICES ASSUME RingRests PROVE Ring!TypeOK /\ RingIsOfThisRun
        OBVIOUS
    <2>1. Ring!TypeOK
        BY NoReportOfRing, NoRingType, RingAssumption DEF RingRests, Ring!TypeOK
    <2> QED BY <2>1, NoReportOfRing, NoRingType DEF RingRests, RingIsOfThisRun,
               Ring!RingIsNotNested, Ring!AssembledByThisRun, Ring!PreviewIsOfLayout,
               Ring!ChipVerdictIsHonest, Ring!Completed
<1>2. ServiceInit => RingSafe
    BY <1>1, InitRing DEF ServiceInit, RingSafe
<1> QED BY <1>2, RingStep, PTL DEF ServiceSpec

\* The ring delivered surrounds a core that is no ring and was assembled by this run, or is left
\* from an earlier one after KLayout stood in for a failed assembly, and then no routes are
\* reported; its preview shows it, and a Chip flow that ended with an error is not COMPLETED
\* (padring_runner.py: run_padring; manager.py: _run_chip_pnr), for every number of cores, names
\* and runs.
THEOREM RingOfThisRun == ServiceSpec => []RingIsOfThisRun
<1>1. RingSafe => RingIsOfThisRun
    BY DEF RingSafe, RingInv
<1> QED BY <1>1, RingCorrect, PTL

-----------------------------------------------------------------------------
(* The paper *)

Typesetting == {"pass 1", "pass 2", "result"}
AfterPaper == Typesetting \cup {"plain", "done"}

\* The last report, and the summary, are of the layout once they have been written.
SummaryIsOfLayout ==
    /\ paperPc \notin Paper!Harden => (paperReports["DRC_LVS"].failed <=> paperLayout.checks = "failed")
    /\ paperPc \notin Paper!Harden \cup {"signoff"} =>
          (paperSummary.failed <=> paperLayout.checks = "failed")

\* The evidence has what is authored from its collection on, the source of this run has the
\* evidence.
EvidenceIsOfNotes ==
    /\ paperPc \in {"figures", "paper"} =>
          paperCtx.math = ("math" \in paperNotes) /\ paperCtx.related = ("related" \in paperNotes)
    /\ paperTex.now =>
          /\ paperPc \in AfterPaper
          /\ paperTex.math = ("math" \in paperNotes) /\ paperTex.related = ("related" \in paperNotes)

\* Until the end nothing is declared, and a PDF of this run is the paper; it is torn only when
\* the paper has been given up.
PdfIsOfRun ==
    /\ paperPc # "done" => paperAnswer.ieee = FALSE /\ paperAnswer.plain = FALSE
    /\ paperPdf.now /\ paperPc # "done" => paperPc \in AfterPaper /\ paperPdf.by = "ieee"
    /\ paperPdf.now /\ paperPc \in Typesetting => paperPdf.whole

PaperInv ==
    /\ Paper!TypeOK /\ paperPc \in Paper!Harden \cup {"signoff", "math", "related", "collect", "figures",
                                                  "paper"} \cup AfterPaper
    /\ SummaryIsOfLayout /\ EvidenceIsOfNotes /\ PdfIsOfRun
    /\ Paper!PlainIsFallback /\ Paper!DeclaredIsWhole

LEMMA HardenStages ==
    /\ Paper!Harden = {"SYNTH", "PNR", "DRC_LVS"}
    /\ Paper!Order[Len(Paper!Order)] = "DRC_LVS"
BY DEF Paper!Harden, Paper!Order

LEMMA FollowedSteps ==
    /\ Paper!Followed["SYNTH"] = "PNR" /\ Paper!Followed["PNR"] = "DRC_LVS"
    /\ Paper!Followed["DRC_LVS"] = "signoff" /\ Paper!Followed["signoff"] = "math"
    /\ Paper!Followed["math"] = "related" /\ Paper!Followed["related"] = "collect"
    /\ Paper!Followed["collect"] = "figures" /\ Paper!Followed["figures"] = "paper"
    /\ Paper!Followed["paper"] = "pass 1"
BY DEF Paper!Followed

LEMMA PaperRight == PaperInv => Paper!FailedAreOfLayout /\ PaperIsWhole
BY HardenStages DEF PaperInv, PaperIsWhole, Paper!FailedAreOfLayout, SummaryIsOfLayout,
   Paper!AuthoredIsInPaper, EvidenceIsOfNotes

LEMMA BlankPaper ==
    /\ Paper!NoReport \in [ready : BOOLEAN, failed : BOOLEAN]
    /\ Paper!NoEvidence \in [math : BOOLEAN, related : BOOLEAN, ready : BOOLEAN, failed : BOOLEAN]
    /\ Paper!NoTex \in [math : BOOLEAN, related : BOOLEAN, ready : BOOLEAN,
                        figures : 0..Reworks + 1, now : BOOLEAN]
    /\ Paper!NoPdf \in [by : {Paper!None, "ieee", "plain"}, now : BOOLEAN, whole : BOOLEAN]
    /\ Paper!NoAnswer \in [ieee : BOOLEAN, plain : BOOLEAN]
    /\ [of |-> Paper!NoRtl, checks |-> "failed"] \in [of : 0..Reworks + 1, checks : Paper!Checks]
    /\ Paper!NoRtl \in 0..Reworks + 1 /\ 1 \in 1..Reworks + 1 /\ 1 \in 1..Exports
    /\ 0 \in 0..ExportCrashes
    /\ ~Paper!NoTex.now /\ ~Paper!NoPdf.now /\ ~Paper!NoAnswer.ieee /\ ~Paper!NoAnswer.plain
BY ExportAssumption DEF Paper!NoReport, Paper!NoEvidence, Paper!NoTex, Paper!NoPdf, Paper!NoAnswer,
   Paper!NoRtl, Paper!Checks, Paper!None

LEMMA InitPaper == Paper!Init => PaperInv
<1> SUFFICES ASSUME Paper!Init PROVE PaperInv
    OBVIOUS
<1>1. Paper!TypeOK
    <2>1. paperReports \in [Paper!Harden -> [ready : BOOLEAN, failed : BOOLEAN]]
        BY BlankPaper DEF Paper!Init
    <2>2. paperNotes \subseteq Paper!Notes
        BY DEF Paper!Init, Paper!Notes
    <2>3. /\ paperLayout \in [of : 0..Reworks + 1, checks : Paper!Checks]
          /\ paperDesign \in 1..Reworks + 1 /\ paperFigures \in 0..Reworks + 1
          /\ paperExport \in 1..Exports /\ paperCrashes \in 0..ExportCrashes
        BY BlankPaper DEF Paper!Init
    <2>4. /\ paperSummary \in [ready : BOOLEAN, failed : BOOLEAN]
          /\ paperCtx \in [math : BOOLEAN, related : BOOLEAN, ready : BOOLEAN, failed : BOOLEAN]
          /\ paperTex \in [math : BOOLEAN, related : BOOLEAN, ready : BOOLEAN,
                            figures : 0..Reworks + 1, now : BOOLEAN]
          /\ paperPdf \in [by : {Paper!None, "ieee", "plain"}, now : BOOLEAN, whole : BOOLEAN]
          /\ paperAnswer \in [ieee : BOOLEAN, plain : BOOLEAN] /\ paperPages \in BOOLEAN
        BY BlankPaper DEF Paper!Init
    <2> QED BY <2>1, <2>2, <2>3, <2>4 DEF Paper!TypeOK
<1>2. paperPc = "SYNTH" /\ "SYNTH" \in Paper!Harden
    BY HardenStages DEF Paper!Init
<1>3. SummaryIsOfLayout
    BY <1>2 DEF SummaryIsOfLayout
<1>4. EvidenceIsOfNotes /\ PdfIsOfRun
    BY <1>2, BlankPaper DEF Paper!Init, EvidenceIsOfNotes, PdfIsOfRun, Typesetting
<1> QED BY <1>1, <1>2, <1>3, <1>4 DEF PaperInv, Paper!PlainIsFallback, Paper!DeclaredIsWhole,
           Paper!AtEnd

LEMMA HardenPaper == ASSUME PaperInv, Paper!HardenJob PROVE PaperInv'
<1> USE DEF PaperInv
<1>1. PICK c \in Paper!Checks :
          paperLayout' = IF Paper!Reusable THEN paperLayout ELSE [of |-> paperDesign, checks |-> c]
    BY DEF Paper!HardenJob
<1>2. /\ paperPc \in {"SYNTH", "PNR", "DRC_LVS"} /\ paperPc' \in {"PNR", "DRC_LVS", "signoff"}
      /\ paperPc' = "signoff" => paperPc = "DRC_LVS"
    <2>1. paperPc \in {"SYNTH", "PNR", "DRC_LVS"} /\ paperPc' = Paper!Followed[paperPc]
        BY HardenStages DEF Paper!HardenJob, Paper!Go
    <2> QED BY <2>1, FollowedSteps
<1>3. /\ paperReports' = [paperReports EXCEPT ![paperPc] =
                              [ready |-> paperLayout'.checks \in Paper!Clean,
                               failed |-> paperLayout'.checks = "failed"]]
      /\ UNCHANGED <<paperDesign, paperSummary, paperNotes, paperCtx, paperFigures, paperPages,
                     paperTex, paperPdf, paperAnswer, paperExport, paperCrashes>>
    BY DEF Paper!HardenJob
<1>4. paperLayout' \in [of : 0..Reworks + 1, checks : Paper!Checks]
    BY <1>1, ExportAssumption DEF Paper!TypeOK
<1>5. /\ (paperLayout'.checks \in Paper!Clean) \in BOOLEAN
      /\ (paperLayout'.checks = "failed") \in BOOLEAN
    OBVIOUS
<1>6. paperReports' \in [Paper!Harden -> [ready : BOOLEAN, failed : BOOLEAN]]
    BY <1>2, <1>3, <1>5, HardenStages DEF Paper!TypeOK
<1>7. Paper!TypeOK'
    BY <1>2, <1>3, <1>4, <1>6 DEF Paper!TypeOK
<1>8. paperPc' = "signoff" => (paperReports'["DRC_LVS"].failed <=> paperLayout'.checks = "failed")
    BY <1>2, <1>3, HardenStages DEF Paper!TypeOK
<1>9. SummaryIsOfLayout'
    BY <1>2, <1>3, <1>8, HardenStages DEF SummaryIsOfLayout
<1>10. ~paperTex.now /\ ~paperPdf.now /\ paperPc # "done"
    BY <1>2, <1>3 DEF EvidenceIsOfNotes, PdfIsOfRun, AfterPaper, Typesetting
<1>11. EvidenceIsOfNotes' /\ PdfIsOfRun'
    BY <1>2, <1>3, <1>10 DEF EvidenceIsOfNotes, PdfIsOfRun
<1> QED BY <1>2, <1>3, <1>7, <1>9, <1>11, HardenStages DEF Paper!PlainIsFallback, Paper!DeclaredIsWhole,
           Paper!AtEnd

\* Steps after hardening that write neither reports nor layout.
LEMMA SummaryStays ==
    ASSUME SummaryIsOfLayout, UNCHANGED <<paperLayout, paperReports, paperSummary>>,
           paperPc \notin Paper!Harden \cup {"signoff"}
    PROVE  SummaryIsOfLayout'
BY DEF SummaryIsOfLayout

\* A step before the end of an export that declares nothing.
LEMMA BeforeEnd ==
    ASSUME Paper!TypeOK', paperPc' # "done", SummaryIsOfLayout', EvidenceIsOfNotes', PdfIsOfRun',
           paperPc' \in Paper!Harden \cup {"signoff", "math", "related", "collect", "figures",
                                           "paper"} \cup AfterPaper
    PROVE  PaperInv'
BY DEF PaperInv, Paper!PlainIsFallback, Paper!DeclaredIsWhole, Paper!AtEnd

LEMMA CollectPaper ==
    ASSUME PaperInv, Paper!Signoff \/ Paper!Author \/ Paper!Collect PROVE PaperInv'
<1> USE DEF PaperInv
<1>1. CASE Paper!Signoff
    <2>1. /\ paperPc = "signoff" /\ paperPc' = "math"
          /\ paperSummary' = [ready |-> Paper!Ready, failed |-> paperReports["DRC_LVS"].failed]
          /\ UNCHANGED <<paperDesign, paperLayout, paperReports, paperNotes, paperCtx, paperFigures,
                         paperPages, paperTex, paperPdf, paperAnswer, paperExport, paperCrashes>>
        BY <1>1, HardenStages DEF Paper!Signoff, Paper!Go, Paper!Followed, Paper!FailedChecks
    <2>2. Paper!Ready \in BOOLEAN
        BY DEF Paper!Ready
    <2>3. paperReports["DRC_LVS"].failed \in BOOLEAN
        BY HardenStages DEF Paper!TypeOK
    <2>4. Paper!TypeOK'
        BY <2>1, <2>2, <2>3 DEF Paper!TypeOK
    <2>5. SummaryIsOfLayout'
        BY <2>1, HardenStages DEF SummaryIsOfLayout
    <2>6. EvidenceIsOfNotes' /\ PdfIsOfRun'
        BY <2>1 DEF EvidenceIsOfNotes, PdfIsOfRun, AfterPaper, Typesetting
    <2> QED BY <2>1, <2>4, <2>5, <2>6, BeforeEnd
<1>2. CASE Paper!Author
    <2>1. /\ paperPc \in {"math", "related"} /\ paperPc' \in {"related", "collect"}
          /\ paperNotes' \subseteq Paper!Notes
          /\ UNCHANGED <<paperDesign, paperLayout, paperReports, paperSummary, paperCtx,
                         paperFigures, paperPages, paperTex, paperPdf, paperAnswer, paperExport,
                         paperCrashes>>
        <3>1. paperPc \in {"math", "related"} /\ paperPc' = Paper!Followed[paperPc]
            BY <1>2 DEF Paper!Author, Paper!Notes, Paper!Go
        <3>2. paperPc' \in {"related", "collect"}
            BY <3>1, FollowedSteps
        <3>3. paperNotes' \subseteq Paper!Notes
            BY <1>2, <3>1 DEF Paper!Author, Paper!Notes, Paper!TypeOK
        <3> QED BY <1>2, <3>1, <3>2, <3>3 DEF Paper!Author
    <2>2. Paper!TypeOK'
        BY <2>1 DEF Paper!TypeOK
    <2>3. SummaryIsOfLayout'
        BY <2>1, SummaryStays, HardenStages
    <2>4. EvidenceIsOfNotes' /\ PdfIsOfRun'
        BY <2>1 DEF EvidenceIsOfNotes, PdfIsOfRun, AfterPaper, Typesetting
    <2> QED BY <2>1, <2>2, <2>3, <2>4, BeforeEnd
<1>3. CASE Paper!Collect
    <2>1. /\ paperPc = "collect" /\ paperPc' = "figures"
          /\ paperCtx' = [math |-> "math" \in paperNotes, related |-> "related" \in paperNotes,
                          ready |-> Paper!Ready, failed |-> paperReports["DRC_LVS"].failed]
          /\ UNCHANGED <<paperDesign, paperLayout, paperReports, paperSummary, paperNotes,
                         paperFigures, paperPages, paperTex, paperPdf, paperAnswer, paperExport,
                         paperCrashes>>
        BY <1>3, HardenStages DEF Paper!Collect, Paper!Go, Paper!Followed, Paper!FailedChecks,
           Paper!files
    <2>2. /\ Paper!Ready \in BOOLEAN /\ ("math" \in paperNotes) \in BOOLEAN
          /\ ("related" \in paperNotes) \in BOOLEAN
        BY DEF Paper!Ready
    <2>3. paperReports["DRC_LVS"].failed \in BOOLEAN
        BY HardenStages DEF Paper!TypeOK
    <2>4. Paper!TypeOK'
        BY <2>1, <2>2, <2>3 DEF Paper!TypeOK
    <2>5. SummaryIsOfLayout'
        BY <2>1, SummaryStays, HardenStages
    <2>6. EvidenceIsOfNotes' /\ PdfIsOfRun'
        BY <2>1 DEF EvidenceIsOfNotes, PdfIsOfRun, AfterPaper, Typesetting
    <2> QED BY <2>1, <2>4, <2>5, <2>6, BeforeEnd
<1> QED BY <1>1, <1>2, <1>3


\* What a run writes keeps the types.
TexType == [math : BOOLEAN, related : BOOLEAN, ready : BOOLEAN, figures : 0..Reworks + 1,
            now : BOOLEAN]
PdfType == [by : {Paper!None, "ieee", "plain"}, now : BOOLEAN, whole : BOOLEAN]

BesideTyped ==
    /\ paperDesign \in 1..Reworks + 1
    /\ paperLayout \in [of : 0..Reworks + 1, checks : Paper!Checks]
    /\ paperReports \in [Paper!Harden -> [ready : BOOLEAN, failed : BOOLEAN]]
    /\ paperSummary \in [ready : BOOLEAN, failed : BOOLEAN] /\ paperNotes \subseteq Paper!Notes
    /\ paperCtx \in [math : BOOLEAN, related : BOOLEAN, ready : BOOLEAN, failed : BOOLEAN]
    /\ paperFigures \in 0..Reworks + 1 /\ paperPages \in BOOLEAN
    /\ paperAnswer \in [ieee : BOOLEAN, plain : BOOLEAN]
    /\ paperExport \in 1..Exports /\ paperCrashes \in 0..ExportCrashes

LEMMA PaperTyped ==
    /\ Paper!TypeOK <=> BesideTyped /\ paperTex \in TexType /\ paperPdf \in PdfType
    /\ Paper!TypeOK' <=> BesideTyped' /\ paperTex' \in TexType /\ paperPdf' \in PdfType
BY DEF Paper!TypeOK, BesideTyped, TexType, PdfType

LEMMA PdfTyped ==
    /\ \A b \in {"ieee", "plain"}, n, w \in BOOLEAN : [by |-> b, now |-> n, whole |-> w] \in PdfType
    /\ \A p \in PdfType : /\ [p EXCEPT !.now = FALSE] \in PdfType
                          /\ [p EXCEPT !.now = FALSE].now = FALSE
BY DEF PdfType

LEMMA TexTyped ==
    ASSUME NEW m \in BOOLEAN, NEW r \in BOOLEAN, NEW y \in BOOLEAN, NEW f \in 0..Reworks + 1
    PROVE  [math |-> m, related |-> r, ready |-> y, figures |-> f, now |-> TRUE] \in TexType
BY DEF TexType

LEMMA TypesetPaper ==
    ASSUME PaperInv, Paper!CompileFigures \/ Paper!GenerateLatex PROVE PaperInv'
<1> USE DEF PaperInv
<1>1. CASE Paper!CompileFigures
    <2>1. /\ paperPc = "figures" /\ paperPc' = "paper" /\ paperPages' \in BOOLEAN
          /\ paperFigures' \in {paperFigures, paperDesign}
          /\ UNCHANGED <<paperDesign, paperLayout, paperReports, paperSummary, paperNotes, paperCtx,
                         paperTex, paperPdf, paperAnswer, paperExport, paperCrashes>>
        <3>1. paperPc = "figures" /\ paperPc' = Paper!Followed[paperPc]
            BY <1>1 DEF Paper!CompileFigures, Paper!Go
        <3>2. paperPages' \in BOOLEAN /\ paperFigures' \in {paperFigures, paperDesign}
            BY <1>1 DEF Paper!CompileFigures
        <3> QED BY <1>1, <3>1, <3>2, FollowedSteps DEF Paper!CompileFigures
    <2>2. paperFigures' \in 0..Reworks + 1
        BY <2>1, ExportAssumption DEF Paper!TypeOK
    <2>3. Paper!TypeOK'
        BY <2>1, <2>2 DEF Paper!TypeOK
    <2>4. SummaryIsOfLayout'
        BY <2>1, SummaryStays, HardenStages
    <2>5. EvidenceIsOfNotes' /\ PdfIsOfRun'
        BY <2>1 DEF EvidenceIsOfNotes, PdfIsOfRun, AfterPaper, Typesetting
    <2> QED BY <2>1, <2>3, <2>4, <2>5, BeforeEnd
<1>2. CASE Paper!GenerateLatex
    <2>1. /\ paperPc = "paper" /\ paperPc' \in {"pass 1", "plain"}
          /\ UNCHANGED <<paperDesign, paperLayout, paperReports, paperSummary, paperNotes, paperCtx,
                         paperFigures, paperPages, paperPdf, paperAnswer, paperExport, paperCrashes>>
        BY <1>2, FollowedSteps DEF Paper!GenerateLatex, Paper!Go
    <2>2. \/ UNCHANGED paperTex
          \/ paperTex' = [math |-> paperCtx.math, related |-> paperCtx.related,
                          ready |-> paperCtx.ready,
                          figures |-> IF paperPages THEN paperFigures ELSE Paper!NoRtl, now |-> TRUE]
        BY <1>2 DEF Paper!GenerateLatex
    <2>3. (IF paperPages THEN paperFigures ELSE Paper!NoRtl) \in 0..Reworks + 1
        BY BlankPaper DEF Paper!TypeOK
    <2>4. /\ paperCtx.math \in BOOLEAN /\ paperCtx.related \in BOOLEAN
          /\ paperCtx.ready \in BOOLEAN
        BY DEF Paper!TypeOK
    <2>5. paperTex' \in TexType
        BY <2>2, <2>3, <2>4, TexTyped, PaperTyped
    <2>6. Paper!TypeOK'
        <3>1. BesideTyped'
            BY <2>1, PaperTyped DEF BesideTyped
        <3> QED BY <2>1, <2>5, <3>1, PaperTyped
    <2>7. SummaryIsOfLayout'
        BY <2>1, SummaryStays, HardenStages
    <2>8. EvidenceIsOfNotes'
        <3>1. CASE UNCHANGED paperTex
            BY <2>1, <3>1 DEF EvidenceIsOfNotes, AfterPaper, Typesetting
        <3>2. CASE paperPc' = "pass 1" /\ paperTex'.math = paperCtx.math
                   /\ paperTex'.related = paperCtx.related
            BY <2>1, <3>2 DEF EvidenceIsOfNotes, AfterPaper, Typesetting
        <3>3. ~ UNCHANGED paperTex => paperPc' = "pass 1"
            BY <1>2, FollowedSteps DEF Paper!GenerateLatex, Paper!Go
        <3>4. UNCHANGED paperTex \/ (paperTex'.math = paperCtx.math
                                      /\ paperTex'.related = paperCtx.related)
            BY <2>2
        <3> QED BY <3>1, <3>2, <3>3, <3>4
    <2>9. PdfIsOfRun'
        BY <2>1 DEF PdfIsOfRun, AfterPaper, Typesetting
    <2> QED BY <2>1, <2>6, <2>7, <2>8, <2>9, BeforeEnd DEF AfterPaper, Typesetting
<1> QED BY <1>1, <1>2

\* A step of typesetting that writes the PDF, or leaves it.
LEMMA PdfPaper ==
    ASSUME PaperInv, Paper!Killed \/ Paper!Pass PROVE PaperInv'
<1> USE DEF PaperInv
<1>1. \/ UNCHANGED paperPdf
      \/ paperPdf' = [by |-> "ieee", now |-> TRUE, whole |-> FALSE]
      \/ paperPdf' = [by |-> "ieee", now |-> TRUE, whole |-> TRUE]
    BY DEF Paper!Killed, Paper!Pass, Paper!Written
<1>2. /\ paperPc \in {"pass 1", "pass 2"} /\ paperPc' \in {"pass 2", "result", "plain"}
      /\ UNCHANGED <<paperDesign, paperLayout, paperReports, paperSummary, paperNotes, paperCtx,
                     paperFigures, paperPages, paperTex, paperAnswer, paperExport, paperCrashes>>
    BY DEF Paper!Killed, Paper!Pass
<1>3. paperPdf' \in PdfType
    BY <1>1, PdfTyped, PaperTyped
<1>4. Paper!TypeOK'
    <2>1. BesideTyped'
        BY <1>2, PaperTyped DEF BesideTyped
    <2> QED BY <1>2, <1>3, <2>1, PaperTyped
<1>5. SummaryIsOfLayout'
    BY <1>2, SummaryStays, HardenStages
<1>6. EvidenceIsOfNotes'
    BY <1>2 DEF EvidenceIsOfNotes, AfterPaper, Typesetting
<1>7. paperPc' # "plain" => paperPdf' = paperPdf \/ paperPdf'.whole
    <2>1. CASE Paper!Killed
        BY <2>1 DEF Paper!Killed
    <2>2. CASE Paper!Pass
        <3>1. UNCHANGED paperPdf \/ paperPdf' = [by |-> "ieee", now |-> TRUE, whole |-> TRUE]
            BY <2>2 DEF Paper!Pass, Paper!Written
        <3> QED BY <3>1
    <2> QED BY <2>1, <2>2
<1>8. paperPdf' = paperPdf \/ paperPdf'.by = "ieee"
    BY <1>1
<1>9. PdfIsOfRun'
    BY <1>2, <1>7, <1>8 DEF PdfIsOfRun, AfterPaper, Typesetting
<1> QED BY <1>2, <1>4, <1>5, <1>6, <1>9, BeforeEnd DEF AfterPaper, Typesetting

LEMMA ResultPaper == ASSUME PaperInv, Paper!Result PROVE PaperInv'
<1> USE DEF PaperInv
<1>1. /\ paperPc = "result" /\ paperPc' \in {"done", "plain"}
      /\ paperPc' = "done" <=> paperPdf.by # Paper!None
      /\ paperAnswer' = [paperAnswer EXCEPT !.ieee = paperPdf.by # Paper!None]
      /\ UNCHANGED <<paperDesign, paperLayout, paperReports, paperSummary, paperNotes, paperCtx,
                     paperFigures, paperPages, paperTex, paperPdf, paperExport, paperCrashes>>
    BY DEF Paper!Result, Paper!files
<1>2. (paperPdf.by # Paper!None) \in BOOLEAN
    OBVIOUS
<1>3. /\ paperAnswer' \in [ieee : BOOLEAN, plain : BOOLEAN]
      /\ paperAnswer'.ieee <=> paperPdf.by # Paper!None
      /\ paperAnswer'.plain = paperAnswer.plain
    BY <1>1, <1>2 DEF Paper!TypeOK
<1>4. Paper!TypeOK'
    BY <1>1, <1>3 DEF Paper!TypeOK
<1>5. SummaryIsOfLayout'
    BY <1>1, SummaryStays, HardenStages
<1>6. EvidenceIsOfNotes'
    BY <1>1 DEF EvidenceIsOfNotes, AfterPaper, Typesetting
<1>7. /\ paperAnswer.ieee = FALSE /\ paperAnswer.plain = FALSE
      /\ paperPdf.now => paperPdf.by = "ieee" /\ paperPdf.whole
    BY <1>1 DEF PdfIsOfRun, Typesetting
<1>8. paperPc' # "done" => paperAnswer'.ieee = FALSE
    BY <1>1, <1>3 DEF Paper!TypeOK
<1>9. PdfIsOfRun'
    BY <1>1, <1>3, <1>7, <1>8 DEF PdfIsOfRun, AfterPaper, Typesetting
<1>10. Paper!PlainIsFallback' /\ Paper!DeclaredIsWhole'
    BY <1>1, <1>3, <1>7 DEF Paper!PlainIsFallback, Paper!DeclaredIsWhole
<1> QED BY <1>1, <1>4, <1>5, <1>6, <1>9, <1>10 DEF AfterPaper, Typesetting

LEMMA PlainPaper == ASSUME PaperInv, Paper!GeneratePdf PROVE PaperInv'
<1> USE DEF PaperInv
<1>1. /\ paperPc = "plain" /\ paperPc' = "done"
      /\ UNCHANGED <<paperDesign, paperLayout, paperReports, paperSummary, paperNotes, paperCtx,
                     paperFigures, paperPages, paperTex, paperExport, paperCrashes>>
      /\ \/ /\ paperPdf' = [by |-> "plain", now |-> TRUE, whole |-> TRUE]
            /\ paperAnswer' = [paperAnswer EXCEPT !.plain = TRUE]
         \/ UNCHANGED <<paperPdf, paperAnswer>>
    BY DEF Paper!GeneratePdf
<1>2. /\ paperAnswer' \in [ieee : BOOLEAN, plain : BOOLEAN]
      /\ paperAnswer'.ieee = paperAnswer.ieee
      /\ paperPdf' \in PdfType
    <2>1. /\ paperAnswer' \in [ieee : BOOLEAN, plain : BOOLEAN]
          /\ paperAnswer'.ieee = paperAnswer.ieee
        BY <1>1 DEF Paper!TypeOK
    <2>2. paperPdf' \in PdfType
        BY <1>1, PdfTyped, PaperTyped
    <2> QED BY <2>1, <2>2
<1>3. Paper!TypeOK'
    <2>1. BesideTyped'
        BY <1>1, <1>2, PaperTyped DEF BesideTyped
    <2> QED BY <1>1, <1>2, <2>1, PaperTyped
<1>4. SummaryIsOfLayout'
    BY <1>1, SummaryStays, HardenStages
<1>5. EvidenceIsOfNotes'
    BY <1>1 DEF EvidenceIsOfNotes, AfterPaper, Typesetting
<1>6. paperAnswer.ieee = FALSE /\ paperAnswer.plain = FALSE
    BY <1>1 DEF PdfIsOfRun
<1>7. PdfIsOfRun'
    BY <1>1 DEF PdfIsOfRun, AfterPaper, Typesetting
<1>8. paperAnswer'.plain => paperPdf'.whole
    BY <1>1, <1>6
<1>9. Paper!PlainIsFallback' /\ Paper!DeclaredIsWhole'
    BY <1>2, <1>6, <1>8 DEF Paper!PlainIsFallback, Paper!DeclaredIsWhole
<1> QED BY <1>1, <1>3, <1>4, <1>5, <1>7, <1>9 DEF AfterPaper, Typesetting

\* A run begins: at a stage the user names, or where the orchestrator dispatches again.
LEMMA AfreshPaper == ASSUME PaperInv, Paper!Again \/ Paper!Crash PROVE PaperInv'
<1> USE DEF PaperInv
<1>1. /\ UNCHANGED <<paperLayout, paperReports, paperSummary, paperNotes, paperFigures>>
      /\ paperCtx' = Paper!NoEvidence /\ paperPages' = FALSE
      /\ paperAnswer' = Paper!NoAnswer
      /\ paperTex' = [paperTex EXCEPT !.now = FALSE]
      /\ \/ paperPdf' = [paperPdf EXCEPT !.now = FALSE]
         \/ paperPdf' = [by |-> "ieee", now |-> FALSE, whole |-> FALSE]
      /\ paperPc' \in Paper!Harden \cup {"signoff", "math"}
      /\ paperPc \notin Paper!Harden \cup {"signoff"}
    <2>1. CASE Paper!Again
        BY <2>1, HardenStages DEF Paper!Again, Paper!Afresh
    <2>2. CASE Paper!Crash
        BY <2>2 DEF Paper!Crash, Paper!Afresh
    <2> QED BY <2>1, <2>2
<1>2. /\ paperDesign' \in 1..Reworks + 1
      /\ paperExport' \in 1..Exports /\ paperCrashes' \in 0..ExportCrashes
    <2>1. CASE Paper!Again
        BY <2>1, ExportAssumption DEF Paper!Again, Paper!TypeOK
    <2>2. CASE Paper!Crash
        BY <2>2, ExportAssumption DEF Paper!Crash, Paper!TypeOK
    <2> QED BY <2>1, <2>2
<1>3. paperTex' \in TexType /\ paperTex'.now = FALSE
    BY <1>1, PaperTyped DEF TexType
<1>4. /\ paperPdf' \in PdfType
      /\ paperPdf'.now = FALSE
    <2>1. CASE paperPdf' = [paperPdf EXCEPT !.now = FALSE]
        BY <2>1, PdfTyped, PaperTyped
    <2>2. CASE paperPdf' = [by |-> "ieee", now |-> FALSE, whole |-> FALSE]
        BY <2>2, PdfTyped
    <2> QED BY <1>1, <2>1, <2>2
<1>5. Paper!TypeOK'
    <2>1. BesideTyped'
        BY <1>1, <1>2, BlankPaper, PaperTyped DEF BesideTyped
    <2> QED BY <1>3, <1>4, <2>1, PaperTyped
<1>6. SummaryIsOfLayout'
    BY <1>1 DEF SummaryIsOfLayout
<1>7. paperPc' \notin {"done", "figures", "paper"}
    BY <1>1, HardenStages
<1>8. EvidenceIsOfNotes'
    BY <1>3, <1>7 DEF EvidenceIsOfNotes
<1>9. paperAnswer'.ieee = FALSE /\ paperAnswer'.plain = FALSE
    BY <1>1 DEF Paper!NoAnswer
<1>10. PdfIsOfRun'
    BY <1>4, <1>9 DEF PdfIsOfRun
<1> QED BY <1>1, <1>5, <1>6, <1>7, <1>8, <1>10, BeforeEnd

LEMMA NextPaper == ASSUME PaperInv, Paper!Next PROVE PaperInv'
BY HardenPaper, CollectPaper, TypesetPaper, PdfPaper, ResultPaper, PlainPaper, AfreshPaper
   DEF Paper!Next, Paper!Step, Paper!Typeset

\* While another part is looked at, no paper has been asked for.
PaperSafe == IF part = "export" THEN PaperInv ELSE PaperRests

LEMMA PaperRestsRight ==
    PaperRests => Paper!TypeOK /\ Paper!FailedAreOfLayout /\ PaperIsWhole
<1> SUFFICES ASSUME PaperRests PROVE Paper!TypeOK /\ Paper!FailedAreOfLayout /\ PaperIsWhole
    OBVIOUS
<1>1. Paper!TypeOK
    <2>1. paperReports \in [Paper!Harden -> [ready : BOOLEAN, failed : BOOLEAN]]
        BY BlankPaper DEF PaperRests
    <2>2. /\ paperLayout \in [of : 0..Reworks + 1, checks : Paper!Checks]
          /\ paperDesign \in 1..Reworks + 1 /\ paperFigures \in 0..Reworks + 1
          /\ paperExport \in 1..Exports /\ paperCrashes \in 0..ExportCrashes
        BY BlankPaper DEF PaperRests
    <2>3. /\ paperSummary \in [ready : BOOLEAN, failed : BOOLEAN] /\ paperNotes \subseteq Paper!Notes
          /\ paperCtx \in [math : BOOLEAN, related : BOOLEAN, ready : BOOLEAN, failed : BOOLEAN]
          /\ paperTex \in [math : BOOLEAN, related : BOOLEAN, ready : BOOLEAN,
                            figures : 0..Reworks + 1, now : BOOLEAN]
          /\ paperPdf \in [by : {Paper!None, "ieee", "plain"}, now : BOOLEAN, whole : BOOLEAN]
          /\ paperAnswer \in [ieee : BOOLEAN, plain : BOOLEAN] /\ paperPages \in BOOLEAN
        BY BlankPaper DEF PaperRests
    <2> QED BY <2>1, <2>2, <2>3 DEF Paper!TypeOK
<1>2. ~paperTex.now /\ ~paperPdf.now /\ ~paperAnswer.ieee /\ ~paperAnswer.plain
      /\ paperPc = "done"
    BY BlankPaper DEF PaperRests
<1> QED BY <1>1, <1>2 DEF PaperIsWhole, Paper!FailedAreOfLayout, Paper!AuthoredIsInPaper,
           Paper!PlainIsFallback, Paper!DeclaredIsWhole

LEMMA PaperStep == PaperSafe /\ [ServiceNext]_allVars => PaperSafe'
<1> SUFFICES ASSUME PaperSafe, [ServiceNext]_allVars PROVE PaperSafe'
    OBVIOUS
<1>1. UNCHANGED part
    BY DEF ServiceNext, allVars
<1>2. CASE UNCHANGED paperVars
    <2>1. UNCHANGED <<paperDesign, paperLayout, paperReports, paperSummary, paperNotes, paperCtx,
                      paperFigures, paperPages, paperTex, paperPdf, paperAnswer, paperPc,
                      paperExport, paperCrashes>>
        BY <1>2 DEF paperVars
    <2>2. PaperRests => PaperRests'
        BY <2>1 DEF PaperRests
    <2>3. PaperInv => PaperInv'
        BY <2>1 DEF PaperInv, Paper!TypeOK, SummaryIsOfLayout, EvidenceIsOfNotes, PdfIsOfRun,
           Paper!PlainIsFallback, Paper!DeclaredIsWhole, Paper!AtEnd
    <2> QED BY <1>1, <2>2, <2>3 DEF PaperSafe
<1>3. CASE part = "export" /\ Paper!Next
    BY <1>1, <1>3, NextPaper DEF PaperSafe
<1> QED BY <1>2, <1>3 DEF ServiceNext, allVars

LEMMA PaperCorrect == ServiceSpec => []PaperSafe
<1>1. ServiceInit => PaperSafe
    BY InitPaper DEF ServiceInit, PaperSafe
<1> QED BY <1>1, PaperStep, PTL DEF ServiceSpec

\* reporting/latex_report.py, stage_handlers.py run_export: the paper has what this export
\* authored, the plain layout never replaces it, and a PDF this export wrote and declares is
\* complete, for every number of exports, reworks and restarts.
THEOREM PaperWhole == ServiceSpec => []PaperIsWhole
<1>1. PaperSafe => PaperIsWhole
    BY PaperRight, PaperRestsRight DEF PaperSafe
<1> QED BY <1>1, PaperCorrect, PTL

-----------------------------------------------------------------------------
(* The parts together *)

\* The gate-level simulation that passed is of the RTL that is hardened now; the slack that was
\* measured and the failed checks SIGNOFF lists are those of the layout that is delivered, but
\* for the slack when a later attempt failed between its netlist and its GDS (sta_runner.py,
\* gl_sim.py, stage_handlers.py: run_signoff), for every number of layouts, jobs, exports and
\* restarts.
THEOREM ChecksOfLayout == ServiceSpec => []ChecksAreOfLayout
<1>1. (part = "layout" => LayoutInv) /\ PaperSafe => ChecksAreOfLayout
    BY PaperRight, PaperRestsRight DEF ChecksAreOfLayout, LayoutInv, PaperSafe
<1> QED BY <1>1, LayoutCorrect, PaperCorrect, PTL

LEMMA QueueStep == Typed /\ [ServiceNext]_allVars => Typed'
<1> SUFFICES ASSUME Typed, [ServiceNext]_allVars PROVE Typed'
    OBVIOUS
<1>1. [Next]_vars
    BY DEF ServiceNext, allVars
<1> QED BY <1>1, StepTyped

LEMMA QueueCorrect == ServiceSpec => []Typed
<1>1. ServiceInit => Typed
    BY InitTyped DEF ServiceInit, QueueRests
<1> QED BY <1>1, QueueStep, PTL DEF ServiceSpec

\* Every variable of every part keeps its type, whichever part is looked at.
THEOREM TypesCorrect == ServiceSpec => []TypesOK
<1>1. /\ Typed /\ SimSafe /\ RingSafe /\ PaperSafe
      /\ part = "layout" => LayoutInv
      => TypesOK
    <2> SUFFICES ASSUME Typed, SimSafe, RingSafe, PaperSafe, part = "layout" => LayoutInv
                 PROVE  TypesOK
        OBVIOUS
    <2>1. TypeOK
        BY DEF Typed
    <2>2. Sim!TypeOK
        BY DEF SimSafe, SimInv
    <2>3. Ring!TypeOK
        BY DEF RingSafe, RingInv
    <2>4. Paper!TypeOK
        BY PaperRestsRight DEF PaperSafe, PaperInv
    <2>5. part = "layout" => Analyses!TypeOK
        BY DEF LayoutInv
    <2> QED BY <2>1, <2>2, <2>3, <2>4, <2>5 DEF TypesOK
<1> QED BY <1>1, QueueCorrect, SimCorrect, LayoutCorrect, RingCorrect, PaperCorrect, PTL

=================================================================================
