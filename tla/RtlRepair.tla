------------------------------- MODULE RtlRepair ------------------------------
(***************************************************************************)
(* The stage RTL_REPAIR (run_rtl_repair and _repair_regression_pass,       *)
(* agent-service/agents/stage_handlers.py).  The orchestrator dispatches   *)
(* it in three ways: as a stage of the flow, after SIM and LINT; from the  *)
(* repair loop of a simulation that failed (repairAndRetrySim); and from   *)
(* the one of a hardening without a layout (repairAndRetryHarden).  The    *)
(* handler is not told which: it decides from words of the prompt and from *)
(* the files an earlier stage left what it was asked to repair.            *)
(***************************************************************************)
EXTENDS RtlDirectory, StageLimits

CONSTANT
    Briefs  \* kinds of design briefs: "short", "long" (with the sentence that carries it,
            \* 180 characters or more, as of some 110 of its own; or names hardening),
            \* "simulating" (names simulation)

VARIABLES
    phase,     \* where run_rtl_repair is
    deep,      \* _deep_enabled
    contract,  \* the modules of the golden contract
    serial,    \* the brief tells of a serial interface
    text,      \* the kind of the design brief
    simLog,    \* logs/sim.log: "absent", "passed" or "failed"
    synth,     \* reports/synth_report.json: "absent", "clean", "process" or "rtl" errors
    source,    \* who dispatched: "flow", "sim" or "harden"
    before,    \* rtl/ when the run began
    status,    \* _rtl_status as last computed: the broken modules
    passes,    \* passes of the agent, or rounds of the corrector
    gated,     \* the architecture rules were checked after a pass of this run
    mode       \* what the conclusion says was done

vars == <<rtl, phase, deep, contract, serial, text, simLog, synth, source, before,
          status, passes, gated, mode>>
inputs == <<deep, contract, serial, text>>
evidence == <<simLog, synth>>

Modes == {"none", "clean", "simulation", "hardening", "broken", "one file"}
Gaps(dir) == StructureGaps(contract, serial, dir)

-----------------------------------------------------------------------------
(* What the handler reads out of the prompt *)

\* The prompts of both repair loops are longer than 180 characters and name simulation:
\* "SIMULATION FAILURE ...", "HARDENING FAILURE ... The simulation ALREADY PASSES".
NamesSimulation == source \in {"sim", "harden"} \/ text = "simulating"
NamesHardening == source = "harden"
IsLong == source # "flow" \/ text # "short"

SimFailed == NamesSimulation \/ simLog = "failed"

\* Mutant: SYNTH's report is not read, as it once was.
SynthErrorUnread == FALSE
\* Mutant: process conditions are handed to the agent as well.
AnySynthError == ~SimFailed /\ synth \in {"rtl", "process"}
\* The errors left after _NON_RTL_SYNTH_ERROR_RE, looked at unless SIM failed.
SynthError == ~SimFailed /\ synth = "rtl"

-----------------------------------------------------------------------------
Init ==
    /\ rtl \in Directories
    /\ phase = "idle"
    /\ deep \in BOOLEAN /\ serial \in BOOLEAN
    /\ contract \in SUBSET Modules
    /\ text \in Briefs
    /\ simLog = "absent" /\ synth = "absent" /\ source = "flow"
    /\ before = rtl
    /\ status = {} /\ passes = 0 /\ gated = FALSE /\ mode = "none"

\* SIM ran on rtl/ and wrote its log; then SYNTH, which looks at the stamp first.
Simulated ==
    /\ phase = "idle"
    /\ simLog' \in {"passed", "failed"}
    /\ UNCHANGED <<rtl, phase, inputs, synth, source, before, status, passes, gated, mode>>

Synthesised ==
    /\ phase = "idle" /\ simLog = "passed"
    /\ synth' \in {"clean", "process", "rtl"}
    /\ UNCHANGED <<rtl, phase, inputs, simLog, source, before, status, passes, gated, mode>>

\* Invoke RTL_REPAIR: SIM has passed when the flow or the hardening loop does.
Dispatch ==
    /\ phase = "idle"
    /\ source' \in {"flow", "sim", "harden"}
    /\ source' = "sim" => simLog = "failed"
    /\ source' \in {"flow", "harden"} => simLog = "passed"
    /\ source' = "harden" => synth \in {"process", "rtl"}
    /\ before' = rtl /\ status' = Broken(rtl)
    /\ passes' = 0 /\ gated' = FALSE /\ mode' = "none"
    /\ phase' = IF deep THEN "synthesis" ELSE "one file"
    /\ UNCHANGED <<rtl, inputs, evidence>>

-----------------------------------------------------------------------------
(* The deep agent *)

\* A pass: anything may be written; the status is computed again after it.
PassThen(next) ==
    /\ rtl' \in Directories
    /\ status' = Broken(rtl')
    /\ passes' = passes + 1
    /\ phase' = next
    /\ UNCHANGED <<inputs, evidence, source, before, gated, mode>>

Skip(from, next) ==
    /\ phase = from /\ phase' = next
    /\ UNCHANGED <<rtl, inputs, evidence, source, before, status, passes, gated, mode>>

\* A design that simulates and cannot be synthesised; a testbench that failed, by the
\* prompt or by the log; an instruction of the orchestrator or of an operator.
SynthesisDue == status = {} /\ SynthError
SimulationDue == status = {} /\ SimFailed /\ simLog # "absent"
InstructionDue == status = {} /\ (NamesHardening \/ IsLong)

ProviderRefuses ==
    /\ \/ phase = "synthesis" /\ SynthesisDue
       \/ phase = "simulation" /\ SimulationDue
       \/ phase = "instruction" /\ InstructionDue
       \/ phase \in {"simulated", "followed"} /\ Gaps(rtl) # {}
       \/ phase = "compile" /\ status # {}
    /\ phase' = "failed"
    /\ UNCHANGED <<rtl, inputs, evidence, source, before, status, passes, gated, mode>>

\* The handler goes on after a synthesis repair.
RepairSynthesis == phase = "synthesis" /\ SynthesisDue /\ PassThen("simulation")
NoSynthesisError == ~SynthesisDue /\ Skip("synthesis", "simulation")

RepairSimulation == phase = "simulation" /\ SimulationDue /\ PassThen("simulated")
NoSimulationError == ~SimulationDue /\ Skip("simulation", "instruction")

FollowInstruction == phase = "instruction" /\ InstructionDue /\ PassThen("followed")
NoInstruction == ~InstructionDue /\ Skip("instruction", "compile")

\* Mutant: the status from before the regression pass is reported.
RegressionPassBlind(from, m) ==
    /\ phase = from
    /\ gated' = TRUE /\ mode' = m /\ phase' = "done"
    /\ IF Gaps(rtl) # {} THEN rtl' \in Directories ELSE rtl' = rtl
    /\ passes' = IF Gaps(rtl) # {} THEN passes + 1 ELSE passes
    /\ UNCHANGED <<status, inputs, evidence, source, before>>
\* Mutant: the rules are checked on what the run began with.
RegressionPassStale(from, m) ==
    /\ phase = from
    /\ gated' = TRUE /\ mode' = m /\ phase' = "done"
    /\ IF Gaps(before) # {} THEN rtl' \in Directories ELSE rtl' = rtl
    /\ passes' = IF Gaps(before) # {} THEN passes + 1 ELSE passes
    /\ status' = Broken(rtl')
    /\ UNCHANGED <<inputs, evidence, source, before>>
\* _repair_regression_pass: another pass when the architecture rules are broken, whose
\* result is compiled and not held against the rules.
RegressionPass(from, m) ==
    /\ phase = from
    /\ gated' = TRUE /\ mode' = m /\ phase' = "done"
    /\ IF Gaps(rtl) # {} THEN rtl' \in Directories ELSE rtl' = rtl
    /\ passes' = IF Gaps(rtl) # {} THEN passes + 1 ELSE passes
    /\ status' = Broken(rtl')
    /\ UNCHANGED <<inputs, evidence, source, before>>

Regression ==
    \/ RegressionPass("simulated", "simulation") \/ RegressionPass("followed", "hardening")

AlreadyClean ==
    /\ phase = "compile" /\ status = {}
    /\ mode' = "clean" /\ phase' = "done"
    /\ UNCHANGED <<rtl, inputs, evidence, source, before, status, passes, gated>>

\* Files that do not compile: one pass with the lesson remembered for the first error.
RepairCompile ==
    /\ phase = "compile" /\ status # {}
    /\ rtl' \in Directories /\ status' = Broken(rtl')
    /\ mode' = "broken" /\ passes' = passes + 1 /\ phase' = "done"
    /\ UNCHANGED <<inputs, evidence, source, before, gated>>

-----------------------------------------------------------------------------
(* Without a deep agent: one file, rtl/<top>.sv or the first, compiled by itself *)

OneFile(m) == rtl[m] # "absent" /\ (rtl[Top] # "absent" => m = Top)

\* The file is compiled without the others, so that a module that instantiates another
\* one may fail where the directory is clean.
Alone(m) ==
    IF rtl[m] = "broken" THEN {FALSE}
    ELSE IF Files(rtl) = {m} THEN {TRUE} ELSE BOOLEAN

\* While it fails the language model, if there is one, is asked again; the file is
\* written back once.
CorrectOneFile ==
    /\ phase = "one file"
    /\ \E m \in Modules : \E ok \in Alone(m) :
        /\ OneFile(m)
        /\ IF ok THEN passes' = 0 /\ rtl' = rtl /\ status' = {}
           ELSE \/ /\ passes' \in {0, MaxRepairs} /\ rtl' = rtl /\ status' = {m}
                \/ /\ passes' \in 1 .. MaxRepairs /\ status' = {}
                   /\ \E c \in Contents \ {"broken"} : rtl' = [rtl EXCEPT ![m] = c]
    /\ mode' = "one file" /\ phase' = "done"
    /\ UNCHANGED <<inputs, evidence, source, before, gated>>

NoFile ==
    /\ phase = "one file" /\ Files(rtl) = {}
    /\ status' = {} /\ passes' = 0
    /\ mode' = "one file" /\ phase' = "done"
    /\ UNCHANGED <<rtl, inputs, evidence, source, before, gated>>

\* The repair loop, the flow or a retry goes on.
GoOn ==
    /\ phase \in {"done", "failed"}
    /\ phase' = "idle" /\ passes' = 0 /\ gated' = FALSE /\ mode' = "none"
    /\ before' = rtl /\ status' = {}
    /\ UNCHANGED <<rtl, inputs, evidence, source>>

Steps ==
    \/ ProviderRefuses \/ RepairSynthesis \/ NoSynthesisError \/ RepairSimulation
    \/ NoSimulationError \/ FollowInstruction \/ NoInstruction \/ Regression
    \/ AlreadyClean \/ RepairCompile \/ CorrectOneFile \/ NoFile

Next == Simulated \/ Synthesised \/ Dispatch \/ Steps \/ GoOn

Spec == Init /\ [][Next]_vars

\* Agent passes, compilations and model calls end in time.
Fairness == WF_vars(Steps)

-----------------------------------------------------------------------------
(* Properties *)

\* Every variable keeps its type; a run makes at most three passes.
TypeOK ==
    /\ rtl \in Directories /\ before \in Directories
    /\ deep \in BOOLEAN /\ serial \in BOOLEAN
    /\ contract \subseteq Modules /\ text \in Briefs
    /\ simLog \in {"absent", "passed", "failed"}
    /\ synth \in {"absent", "clean", "process", "rtl"}
    /\ source \in {"flow", "sim", "harden"}
    /\ status \subseteq Modules
    /\ passes \in 0 .. IF deep THEN 3 ELSE MaxRepairs
    /\ gated \in BOOLEAN /\ mode \in Modes
    /\ phase \in {"idle", "synthesis", "simulation", "instruction", "compile", "one file",
                  "simulated", "followed", "done", "failed"}

Ended == phase = "done" /\ deep

\* A failure somebody has evidence of is never answered with "already clean" and no pass.
EvidenceIsAnswered ==
    (Ended /\ \/ Broken(before) # {} \/ simLog = "failed" \/ source # "flow"
              \/ synth = "rtl")
        => passes > 0

\* A process condition (the stamp, a timeout, a missing tool) never makes the stage edit
\* RTL that compiles and passed its simulation: the edit would bring the condition back.
\* What may make it edit such RTL is the brief, when it is long or names simulation; the
\* conclusion then tells of a repair (BriefIsNoInstruction).
Untouchable ==
    source = "flow" /\ Broken(before) = {} /\ simLog = "passed" /\ synth # "rtl"
RepairedForBrief ==
    \/ text = "simulating" /\ mode = "simulation"
    \/ text = "long" /\ mode = "hardening"
VerifiedIsLeftAlone == Ended /\ Untouchable => rtl = before \/ RepairedForBrief

\* The compile verdict of the conclusion is about the files it leaves.
ConclusionIsCurrent == Ended => status = Broken(rtl)

\* After a simulation or hardening repair the architecture rules were looked at, and what
\* they found got a pass of its own.
RepairIsGated ==
    (Ended /\ mode \in {"simulation", "hardening"}) =>
        gated /\ (passes = 1 => Gaps(rtl) = {})

\* Why they hold: what a run that has made no pass so far has ruled out.
UnderWay == {"synthesis", "simulation", "simulated", "instruction", "followed", "compile"}
\* Who dispatches knows the log of SIM, and nobody writes it during a run.
DispatchedWithReason ==
    /\ source \in {"flow", "sim", "harden"}
    /\ source = "sim" => simLog = "failed"
    /\ source \in {"flow", "harden"} => simLog = "passed"
RuledOut ==
    /\ phase \in {"simulation", "instruction", "compile"} => ~SynthesisDue
    /\ phase \in {"instruction", "compile"} => ~SimulationDue
    /\ phase = "compile" => ~InstructionDue
    /\ phase \notin {"simulated", "followed"}
    /\ rtl = before
RepairInv ==
    /\ passes \in Nat
    /\ phase \in UnderWay =>
          /\ DispatchedWithReason /\ status = Broken(rtl)
          /\ passes = 0 => RuledOut
    /\ phase = "one file" => ~deep
    /\ EvidenceIsAnswered /\ ConclusionIsCurrent /\ RepairIsGated
\* Only the branches a brief can reach have written to such RTL.
LeaveAloneInv ==
    /\ text \in {"short", "long", "simulating"}
    /\ phase \in UnderWay /\ Untouchable =>
          \/ /\ rtl = before /\ phase \notin {"simulated", "followed"}
             /\ phase \in {"instruction", "compile"} => text # "simulating"
          \/ text = "simulating" /\ phase = "simulated"
          \/ text = "long" /\ phase = "followed"
    /\ VerifiedIsLeftAlone

-----------------------------------------------------------------------------
(* What the comments claim and the code does not keep *)

\* "A stage that may rewrite any file has to re-run the gates that constrain those
\* files."
RewriteIsGated == (Ended /\ passes > 0) => gated

\* The hardening branch exists because without it the stage "silently did NOTHING" for
\* "LibreLane produced no GDS": the loop of a failed hardening reaches it.
HardeningIsFollowed ==
    (Ended /\ source = "harden" /\ Broken(before) = {}) => mode = "hardening"

\* The branch for instructions is for "a substantive repair instruction": a long design
\* brief in the sentence of the flow is none, and RTL that SIM verified passes untouched.
BriefIsNoInstruction ==
    (Ended /\ source = "flow" /\ Broken(before) = {} /\ synth \in {"absent", "clean"})
        => mode = "clean"
===============================================================================
