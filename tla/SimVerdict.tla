------------------------------ MODULE SimVerdict ------------------------------
(***************************************************************************)
(* How the verdict on a simulation comes about, in three places that do    *)
(* not see each other's reasons: run_simulation writes a report            *)
(* (eda-service/toolchain/sim_runner.py), process_job turns the report     *)
(* into the status of a job (eda-service/jobs/manager.py), pollEDARun      *)
(* turns status and workspace into a decision on the stage                 *)
(* (orchestrator-service/internal/orchestrator/orchestrator.go).           *)
(*                                                                         *)
(* What a run meets is a record of facts, chosen anew for every run.  What *)
(* runs leave in the workspace for each other stays: the output of the     *)
(* chip, the golden output, the stamp of verified RTL, librelane.log.      *)
(***************************************************************************)
EXTENDS Naturals

VARIABLES
    phase,    \* "run", "process", "poll" or "decided"
    facts,    \* what this run meets
    chipOut,  \* waves/chip_output.mem: "none", of this run or of an earlier one
    golden,   \* waves/golden_output.mem exists
    slangLog, \* librelane.log says that slang could not be loaded
    input,    \* a chip input is staged in the workspace
    stamp,    \* context/verified_rtl.json: "none", written by this run or earlier
    report,   \* the errors and metrics.passed of the report
    status,   \* eda_jobs.status
    decision  \* what becomes of the stage

vars == <<phase, facts, chipOut, golden, slangLog, input, stamp, report, status, decision>>

-----------------------------------------------------------------------------
Facts ==
    [sources    : BOOLEAN,                              \* there is RTL to simulate
     compile    : {"ok", "error", "timeout", "missing"},\* iverilog
     run        : {"passes", "fails", "silent", "timeout", "missing"}, \* vvp
     testbench  : BOOLEAN,                              \* there is a testbench
     fabricates : BOOLEAN,                              \* it writes the golden output
     dumps      : BOOLEAN,                              \* it writes the chip output
     matches    : BOOLEAN]                              \* which equals the golden output

\* A testbench that does not exist writes nothing, and a design that does not
\* compile neither runs nor writes; what did not happen has one value only.
Possible ==
    {f \in Facts :
        /\ f.fabricates \/ f.dumps => f.testbench
        /\ f.compile # "ok" => f.run = "missing"
        /\ ~f.sources => f.compile = "missing" /\ ~f.testbench
        /\ f.run = "missing" => ~f.dumps
        /\ ~f.dumps => f.matches}

Errors == {"no sources", "iverilog not available", "compile timeout", "compile failed",
           "testbench fabricates golden_output.mem", "chip output != golden output",
           "testbench FAILED"}
Report == [errors : SUBSET Errors, passed : {"true", "false", "none"}]
NoReport == [errors |-> {}, passed |-> "none"]

Executed(f) == f.sources /\ f.compile = "ok" /\ f.run # "missing"

-----------------------------------------------------------------------------
(* run_simulation *)

\* Why the run ends before anything is simulated, nothing when it does not.
EarlyError(f) ==
    IF ~f.sources THEN {"no sources"}
    ELSE CASE f.compile = "missing" -> {"iverilog not available"}
           [] f.compile = "timeout" -> {"compile timeout"}
           [] f.compile = "error" -> {"compile failed"}
           [] OTHER -> {}

\* Mutant: a run without any verdict has no verdict.
PrintedLenient(f) ==
    CASE f.run \in {"timeout", "fails"} -> "false"
      [] f.run = "passes" -> "true"
      [] OTHER -> "none"
\* The verdict read from the output: silence of a testbench is a failure, and a
\* missing vvp is no verdict at all.
Printed(f) ==
    CASE f.run \in {"timeout", "fails"} -> "false"
      [] f.run = "passes" -> "true"
      [] f.run = "silent" -> IF f.testbench THEN "false" ELSE "none"
      [] OTHER -> "none"

\* Mutant: outputs of earlier runs stay.
OutputAfterKeeping(f) == IF Executed(f) /\ f.dumps THEN "this" ELSE chipOut
\* Outputs of earlier runs are removed before the compilation, which comes after
\* the check for sources.
OutputAfter(f) ==
    IF ~f.sources THEN chipOut
    ELSE IF Executed(f) /\ f.dumps THEN "this" ELSE "none"

GoldenAfter(f) == golden \/ (Executed(f) /\ f.fabricates)
Compared(f) == GoldenAfter(f) /\ OutputAfter(f) # "none"

\* The report: the printed verdict, overruled by a fabricated golden output and by
\* any difference between the two outputs.
ReportOf(f) ==
    IF EarlyError(f) # {} THEN [errors |-> EarlyError(f), passed |-> "none"]
    ELSE LET contract == IF f.fabricates
                         THEN {"testbench fabricates golden_output.mem"} ELSE {}
             compare == IF Compared(f) /\ ~f.matches
                        THEN {"chip output != golden output"} ELSE {}
             passed == IF contract \cup compare # {} THEN "false" ELSE Printed(f)
         IN  [errors |-> contract \cup compare \cup
                         IF passed = "false" THEN {"testbench FAILED"} ELSE {},
              passed |-> passed]

\* Mutant: a match is enough to stamp the RTL.
StampsAnyMatch(f) == EarlyError(f) = {} /\ Compared(f) /\ f.matches
\* _record_verified_rtl: the outputs match and nothing has failed so far.
Stamps(f) ==
    /\ EarlyError(f) = {}
    /\ Compared(f) /\ f.matches
    /\ ReportOf(f).passed # "false"

RunSimulation ==
    /\ phase = "run"
    /\ report' = ReportOf(facts)
    /\ chipOut' = OutputAfter(facts)
    /\ golden' = GoldenAfter(facts)
    /\ stamp' = IF Stamps(facts) THEN "this" ELSE stamp
    /\ phase' = "process"
    /\ UNCHANGED <<facts, slangLog, input, status, decision>>

-----------------------------------------------------------------------------
(* process_job *)

\* A report with errors is a failed job.
StatusOf(r) == IF r.errors # {} THEN "FAILED" ELSE "COMPLETED"

ProcessJob ==
    /\ phase = "process"
    /\ status' = StatusOf(report)
    /\ phase' = "poll"
    /\ UNCHANGED <<facts, chipOut, golden, slangLog, input, stamp, report, decision>>

-----------------------------------------------------------------------------
(* pollEDARun, the stage SIM *)

\* simTestbenchFailed
TestbenchFailed == report.passed = "false"

\* Mutant: every error of a SIM is taken for a defect of the design.
AnyRunFailed == report.errors # {}
\* simRunFailed: the markers of a wrong design, "timeout" among them.
RunFailed ==
    report.errors \cap {"testbench FAILED", "chip output != golden output",
                        "compile timeout"} # {}

\* hasChipOutput: any file waves/*output*, golden_output.mem included.
HasChipOutput == chipOut # "none" \/ golden

Decision ==
    IF status = "COMPLETED"
    THEN IF TestbenchFailed THEN "repair"
         ELSE IF input /\ ~HasChipOutput THEN "failed"
         ELSE IF input /\ ~golden THEN "failed"
         ELSE "review"
    ELSE IF slangLog THEN "failed"
         ELSE IF RunFailed THEN "repair"
         ELSE "failed"

Poll ==
    /\ phase = "poll"
    /\ decision' = Decision
    /\ phase' = "decided"
    /\ UNCHANGED <<facts, chipOut, golden, slangLog, input, stamp, report, status>>

-----------------------------------------------------------------------------
Init ==
    /\ phase = "run"
    /\ facts \in Possible
    /\ chipOut = "none"
    /\ golden \in BOOLEAN
    /\ slangLog = FALSE
    /\ input \in BOOLEAN
    /\ stamp = "none"
    /\ report = NoReport
    /\ status = "QUEUED"
    /\ decision = "none"

\* The stage runs again, after a repair or a retry, on whatever RTL, testbench and
\* golden model the agents have written since; a hardening in between may have
\* left its log.
Rerun ==
    /\ phase = "decided"
    /\ phase' = "run"
    /\ facts' \in Possible
    /\ chipOut' = IF chipOut = "none" THEN "none" ELSE "earlier"
    /\ golden' \in {golden, TRUE}
    /\ slangLog' \in {slangLog, TRUE}
    /\ stamp' = IF stamp = "none" THEN "none" ELSE "earlier"
    /\ report' = NoReport
    /\ status' = "QUEUED"
    /\ decision' = "none"
    /\ UNCHANGED input

Next == RunSimulation \/ ProcessJob \/ Poll \/ Rerun

Spec == Init /\ [][Next]_vars

-----------------------------------------------------------------------------
(* Properties *)

\* Every variable keeps its type.
TypeOK ==
    /\ phase \in {"run", "process", "poll", "decided"}
    /\ facts \in Possible
    /\ chipOut \in {"none", "this", "earlier"}
    /\ golden \in BOOLEAN /\ slangLog \in BOOLEAN /\ input \in BOOLEAN
    /\ stamp \in {"none", "this", "earlier"}
    /\ report \in Report
    /\ status \in {"QUEUED", "COMPLETED", "FAILED"}
    /\ decision \in {"none", "repair", "failed", "review"}

\* A run nothing judged: vvp could not be run, which is only a warning, or the design
\* ran without a testbench.
NothingJudged(f) == f.run = "missing" \/ (f.run = "silent" /\ ~f.testbench)

\* What is put up for review has passed its testbench or was judged by nothing at all;
\* no verdict against it is lost on the way, nothing of it was made up, and the chip
\* computed what the golden model computed wherever there are both outputs.  A run that
\* nothing judged is COMPLETED and put up for review as well (SimulatedBeforeReview).
GreenHasPassed ==
    decision = "review" =>
        /\ facts.run = "passes" \/ NothingJudged(facts)
        /\ ~facts.fabricates
        /\ golden /\ chipOut = "this" => facts.matches

\* The stamp hardening trusts has no such exception: it is written by a run whose
\* testbench was executed, passed, and dumped an output of the chip that is the golden
\* model's.
StampHasPassed ==
    stamp = "this" =>
        /\ Executed(facts) /\ facts.testbench /\ facts.run = "passes"
        /\ ~facts.fabricates
        /\ golden /\ chipOut = "this" /\ facts.matches

\* The stamp hardening trusts is only written by a run that is put up for review:
\* no RTL counts as verified that is sent to repair.
StampIsGreen == (phase = "decided" /\ stamp = "this") => decision = "review"

\* The output of an earlier run is never taken for the output of this one.
OutputIsFresh == decision = "review" => chipOut # "earlier"

\* A toolchain that cannot run is neither a pass nor a defect of the design:
\* without sources or compiler, or with RTL that does not compile, the stage
\* fails as it is and no repair round is spent.
ToolFailureSurfaces ==
    (phase = "decided" /\ (~facts.sources \/ facts.compile \in {"missing", "error"}))
        => decision = "failed"

-----------------------------------------------------------------------------
(* What the comments claim and the code does not keep *)

\* "with chip-input data staged, a passing testbench must also DUMP the chip's
\* computed result AND the Python golden model's desired output must exist".
OutputIsVerifiable ==
    (decision = "review" /\ input /\ facts.testbench /\ facts.run = "passes")
        => chipOut = "this" /\ golden

\* What the reviewer of the gate is told (orchestrator.go:648): "The chip has been
\* simulated against the approved golden model."
SimulatedBeforeReview == decision = "review" => Executed(facts) /\ facts.testbench
===============================================================================
