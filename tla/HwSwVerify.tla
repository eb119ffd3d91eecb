------------------------------ MODULE HwSwVerify ------------------------------
(***************************************************************************)
(* The stage HW_SW_VERIFY (run_hw_sw_verify in agents/stage_handlers.py    *)
(* and agents/hwsw.py) with the reviewer who uploads inputs                *)
(* (uploadHwSwInput, api/handlers.go).  A host driver encodes the active   *)
(* input, an interface bench replays it against the chip, the driver       *)
(* decodes the answer; all of them talk through files of the workspace     *)
(* that outlive the run.  A run whose caller has given up (the client      *)
(* waits 1800 s, the co-simulation alone may take 2400 s) goes on.         *)
(*                                                                         *)
(* A file is represented by the input its content stems from.              *)
(*                                                                         *)
(* The driver is the one the flow generates until an agent's pass writes   *)
(* one of its own, of which the flow checks no more than that it exits     *)
(* with 0 and that there is a stimulus.  Benches that work replay the      *)
(* stimulus that lies there.                                               *)
(***************************************************************************)
EXTENDS Naturals

CONSTANTS
    Inputs,      \* files the reviewer may upload
    Canonical,   \* the input of the task itself, attached or in rtl/*input*.mem
    Runs,        \* runs of the handler that may be going on at a time
    Rounds,      \* HWSW_REPAIR_ROUNDS
    MaxUploads,  \* bound on uploads
    MaxRefs      \* bound on versions of the top-level testbench

None == "none"

VARIABLES
    status,   \* the stage's row: "QUEUED", "RUNNING", "AWAITING_APPROVAL" or "FAILED"
    waiting,  \* the run whose answer the orchestrator is waiting for
    feedback, \* the reviewer rejected the last result
    active,   \* hwsw/active_input.txt
    uploads,  \* uploads made
    ref,      \* version of tb/<top>_tb.v
    driver,   \* sw/host_driver.py: who wrote it, "generated" or "agent"
    bench,    \* tb/hwsw/<top>_hwsw_tb.v: the version it stems from (0: none), and if it works
    files,    \* the files under hwsw/
    report,   \* reports/hw_sw_verify_report.json
    run       \* the handler's local state, run by run

vars == <<status, waiting, feedback, active, uploads, ref, driver, bench, files, report, run>>
outside == <<status, waiting, feedback, active, uploads, ref>>

Tags == Inputs \cup {None}

\* stim, exp: stimulus.mem, expected_output.mem; chip: chip_output.mem with whether the
\* chip computed the right answer; vcd and wave: the dump and the picture drawn from it.
Files == [stim : Tags, exp : Tags, chip : Tags, right : BOOLEAN, vcd : Tags, wave : Tags]
NoFiles ==
    [stim |-> None, exp |-> None, chip |-> None, right |-> FALSE, vcd |-> None,
     wave |-> None]

\* What a comparison says: not made ("checked" is false), not the same values, or "match".
Verdicts == {"unchecked", "differs", "match"}
Reports == [ok : BOOLEAN, input : Tags, verdict : Verdicts]
NoReport == [ok |-> FALSE, input |-> None, verdict |-> "unchecked"]

Steps == {"idle", "feedback", "encode", "compile", "simulate", "decode", "failed",
          "conclude"}
Locals == [pc : Steps, input : Tags, stim : Tags, attempt : 0 .. Rounds,
           ok : BOOLEAN, verdict : Verdicts]
Idle == [pc |-> "idle", input |-> None, stim |-> None, attempt |-> 0, ok |-> FALSE,
         verdict |-> "unchecked"]

-----------------------------------------------------------------------------
\* resolve_input: what the reviewer uploaded last, else the task's own input.
Resolved == IF active # None THEN active ELSE Canonical

\* Mutant: a bench that is there is kept, whatever its origin.
BridgeKept == IF bench.ref = 0 THEN [ref |-> ref, works |-> TRUE] ELSE bench
\* _hwsw_ensure_bridge: the bench is derived from the testbench SIM has validated when
\* there is none yet or when that testbench is newer; otherwise it is left alone.
Bridge == IF bench.ref < ref THEN [ref |-> ref, works |-> TRUE] ELSE bench

Set(r, step) == run' = [run EXCEPT ![r].pc = step]

Init ==
    /\ status = "QUEUED" /\ waiting = None /\ feedback = FALSE
    /\ active = None /\ uploads = 0
    /\ ref = 1 /\ driver = "generated" /\ bench = [ref |-> 0, works |-> FALSE]
    /\ files = NoFiles /\ report = NoReport
    /\ run = [r \in Runs |-> Idle]

-----------------------------------------------------------------------------
(* The orchestrator and the reviewer *)

\* The stage is dispatched; one goroutine per stage waits for one run.
Dispatch(r) ==
    /\ status = "QUEUED" /\ waiting = None /\ run[r].pc = "idle"
    /\ status' = "RUNNING" /\ waiting' = r /\ feedback' = FALSE
    /\ bench' = Bridge
    /\ run' = [run EXCEPT ![r] = [Idle EXCEPT
                  !.pc = IF feedback THEN "feedback" ELSE "encode", !.input = Resolved]]
    /\ UNCHANGED <<active, uploads, ref, driver, files, report>>

\* uploadHwSwInput: the marker is written and the stage retried, whatever it is doing.
Upload(i) ==
    /\ uploads < MaxUploads
    /\ active' = i /\ uploads' = uploads + 1
    /\ status' = "QUEUED"
    /\ UNCHANGED <<waiting, feedback, ref, driver, bench, files, report, run>>

Reject ==
    /\ status = "AWAITING_APPROVAL"
    /\ status' = "QUEUED" /\ feedback' = TRUE
    /\ UNCHANGED <<waiting, active, uploads, ref, driver, bench, files, report, run>>

RetryStage ==
    /\ status = "FAILED"
    /\ status' = "QUEUED"
    /\ UNCHANGED <<waiting, feedback, active, uploads, ref, driver, bench, files, report, run>>

\* An earlier stage is retried and rewrites the top-level testbench.
RewriteReference ==
    /\ waiting = None /\ status \in {"AWAITING_APPROVAL", "FAILED"} /\ ref < MaxRefs
    /\ ref' = ref + 1 /\ status' = "QUEUED"
    /\ UNCHANGED <<waiting, feedback, active, uploads, driver, bench, files, report, run>>

\* The client's time is over; the handler is not told.
GiveUp ==
    /\ waiting # None
    /\ run[waiting].pc \in {"feedback", "simulate", "failed"}
    /\ status' = "FAILED" /\ waiting' = None
    /\ UNCHANGED <<feedback, active, uploads, ref, driver, bench, files, report, run>>

-----------------------------------------------------------------------------
(* The handler *)

\* The agent leaves the driver and the bench alone or writes its own.
AgentPass ==
    /\ driver' \in {driver, "agent"}
    /\ \E works \in BOOLEAN : bench' = [bench EXCEPT !.works = works]

\* A pass of the agent for the reviewer's correction; an exception is logged only.
FeedbackPass(r) ==
    /\ run[r].pc = "feedback"
    /\ AgentPass
    /\ Set(r, "encode")
    /\ UNCHANGED <<outside, files, report>>

\* driver encode.  The generated driver writes the stimulus first, then the expected answer
\* when the golden model has an entry point for this input, and may fail in between; one of
\* an agent may end well and leave what an earlier input has put there.  Without an input
\* the run fails.
Encode(r) ==
    /\ run[r].pc = "encode"
    /\ \E stim \in {files.stim, run[r].input}, exp \in {files.exp, run[r].input} :
          /\ files' = [files EXCEPT !.stim = stim, !.exp = exp]
          /\ \/ Set(r, "failed") /\ exp = files.exp
             \/ /\ Set(r, "compile")
                /\ stim = run[r].input \/ driver = "agent"
                /\ None \notin {stim, run[r].input}
    /\ UNCHANGED <<outside, driver, bench, report>>

\* Mutant: the previous answer is left for the simulation to overwrite.
CompileOver(r) ==
    /\ run[r].pc = "compile"
    /\ run' = [run EXCEPT ![r].pc = IF bench.works THEN "simulate" ELSE "failed",
                          ![r].stim = files.stim]
    /\ UNCHANGED <<outside, driver, bench, files, report>>
\* run_cosim begins: the previous answer is removed, the bench is compiled, and the
\* simulation reads the stimulus.
Compile(r) ==
    /\ run[r].pc = "compile"
    /\ files' = [files EXCEPT !.chip = None, !.right = FALSE, !.vcd = None]
    /\ run' = [run EXCEPT ![r].pc = IF bench.works THEN "simulate" ELSE "failed",
                          ![r].stim = files.stim]
    /\ UNCHANGED <<outside, driver, bench, report>>

\* The simulation ends: it failed or took too long; or it wrote nothing; or it wrote what
\* the chip answered, with a dump of the wires or without.
Simulate(r) ==
    /\ run[r].pc = "simulate"
    /\ \/ /\ Set(r, "failed") /\ UNCHANGED files
       \/ /\ Set(r, IF files.chip = None THEN "failed" ELSE "decode") /\ UNCHANGED files
       \/ /\ Set(r, "decode")
          /\ \E right \in BOOLEAN, dumped \in BOOLEAN :
                files' = [files EXCEPT !.chip = run[r].stim, !.right = right,
                                       !.vcd = IF dumped THEN run[r].stim ELSE @]
    /\ UNCHANGED <<outside, driver, bench, report>>

\* What cmd_decode of the generated driver may say: it compares values with whatever
\* expected_output.mem holds.  The golden answer to the chip's own input tells a right
\* answer from a wrong one; the answer to an earlier input may differ or happen to agree.
Compared(f) ==
    {v \in Verdicts :
        /\ v # "unchecked" => f.exp # None
        /\ f.exp = f.chip => ((v = "match") <=> f.right)}

Verdict(r, verdict) ==
    run' = [run EXCEPT ![r] = [@ EXCEPT !.pc = "conclude", !.ok = TRUE, !.verdict = verdict]]

\* Mutant: the number of values is compared.
DecodeByCount(r) ==
    /\ run[r].pc = "decode"
    /\ Verdict(r, IF files.exp = None THEN "unchecked" ELSE "match")
    /\ UNCHANGED <<outside, driver, bench, files, report>>
\* driver decode; what an agent's driver leaves in verify.json is its own matter, the verdict
\* of an earlier run included.
Decode(r) ==
    /\ run[r].pc = "decode"
    /\ \/ Set(r, "failed")
       \/ \E v \in IF driver = "agent" THEN Verdicts ELSE Compared(files) : Verdict(r, v)
    /\ UNCHANGED <<outside, driver, bench, files, report>>

\* A repair round: the agent writes driver and bench, and everything is run again.
Repair(r) ==
    /\ run[r].pc = "failed" /\ run[r].attempt < Rounds
    /\ AgentPass
    /\ run' = [run EXCEPT ![r].pc = "encode", ![r].attempt = @ + 1]
    /\ UNCHANGED <<outside, files, report>>

\* The rounds are used up, or a repair pass raised, or there is no agent.
Abandon(r) ==
    /\ run[r].pc = "failed"
    /\ Set(r, "conclude")
    /\ UNCHANGED <<outside, driver, bench, files, report>>

\* What the orchestrator saves in the row it read before the run.
StatusOf(ok) == IF ok THEN "AWAITING_APPROVAL" ELSE "FAILED"

\* The waveform is drawn if there is a dump, the report written, the answer returned to
\* whoever is still waiting.
Conclude(r) ==
    /\ run[r].pc = "conclude"
    /\ files' = [files EXCEPT !.wave = IF files.vcd = None THEN @ ELSE files.vcd]
    /\ report' = [ok |-> run[r].ok, input |-> run[r].input,
                  verdict |-> run[r].verdict]
    /\ IF waiting = r THEN waiting' = None /\ status' = StatusOf(run[r].ok)
                      ELSE UNCHANGED <<waiting, status>>
    /\ run' = [run EXCEPT ![r] = Idle]
    /\ UNCHANGED <<feedback, active, uploads, ref, driver, bench>>

Handler(r) ==
    \/ FeedbackPass(r) \/ Encode(r) \/ Compile(r) \/ Simulate(r) \/ Decode(r)
    \/ Repair(r) \/ Abandon(r) \/ Conclude(r)

Next ==
    \/ \E r \in Runs : Dispatch(r) \/ Handler(r)
    \/ \E i \in Inputs : Upload(i)
    \/ Reject \/ RetryStage \/ RewriteReference \/ GiveUp

Spec == Init /\ [][Next]_vars

\* The scheduler dispatches what is queued; drivers, simulations and agent passes are
\* limited in time.
Fairness == \A r \in Runs : WF_vars(Dispatch(r)) /\ WF_vars(Handler(r))

-----------------------------------------------------------------------------
(* Properties *)

\* Every variable keeps its type.
TypeOK ==
    /\ status \in {"QUEUED", "RUNNING", "AWAITING_APPROVAL", "FAILED"}
    /\ waiting \in Runs \cup {None} /\ feedback \in BOOLEAN
    /\ active \in Tags /\ uploads \in 0 .. MaxUploads
    /\ ref \in 1 .. MaxRefs
    /\ driver \in {"generated", "agent"}
    /\ bench.ref \in 0 .. MaxRefs /\ bench.works \in BOOLEAN
    /\ files \in Files /\ report \in Reports
    /\ run \in [Runs -> Locals]

AtGate == status = "AWAITING_APPROVAL"

\* "which input produced which picture": the reviewer sees an answer of the chip in this run,
\* to the stimulus that lies beside it; the generated driver makes that the stimulus of the
\* input the report names, in spite of the files of earlier inputs.
AnswerIsForInput ==
    AtGate =>
        /\ report.ok /\ files.chip # None /\ files.chip = files.stim
        /\ driver = "generated" => files.chip = report.input

\* With the generated driver and the golden answer to this input at hand, what the reviewer
\* is told of the comparison is true of the chip.
MatchIsHonest ==
    (AtGate /\ driver = "generated" /\ files.exp = report.input) =>
        ((report.verdict = "match") <=> files.right)

\* The bench drives the pins of the testbench SIM validated last, so that a chip is not
\* blamed for a pinout it no longer has.
BenchIsCurrent == AtGate => bench.ref = ref

\* Why they hold where runs do not overlap: what the one run has in hand is of its input,
\* and nothing of it changes while the reviewer looks.
InHand(r) ==
    /\ run[r].pc = "compile" =>
          /\ files.stim # None
          /\ driver = "generated" => files.stim = run[r].input
    /\ run[r].pc = "simulate" =>
          /\ files.chip = None /\ run[r].stim = files.stim /\ files.stim # None
          /\ driver = "generated" => files.stim = run[r].input
    /\ run[r].pc = "decode" \/ run[r].ok =>
          /\ files.chip = files.stim /\ files.stim # None
          /\ driver = "generated" => files.stim = run[r].input
    /\ run[r].ok => run[r].pc = "conclude"
    /\ run[r].ok /\ driver = "generated" /\ files.exp = run[r].input =>
          ((run[r].verdict = "match") <=> files.right)
BridgeInv ==
    /\ bench.ref <= ref
    /\ waiting # None => run[waiting].pc # "idle" /\ bench.ref = ref
    /\ AtGate => waiting = None /\ \A r \in Runs : run[r].pc = "idle"
    /\ \A r \in Runs : InHand(r)
    /\ AnswerIsForInput /\ MatchIsHonest /\ BenchIsCurrent

-----------------------------------------------------------------------------
(* What the comments claim and the code does not keep *)

\* "an empty list simply means the run is unchecked and the reviewer's eyes are the
\* verdict": a result is compared with the answer to its own input only.
CheckedAgainstInput ==
    (AtGate /\ report.verdict # "unchecked") => files.exp = report.input

\* "returned exactly what the golden model computes for that input": a match is a right
\* answer, whatever expected answer lay there and whoever wrote the driver.
MatchIsRight == (AtGate /\ report.verdict = "match") => files.right

\* "A stale response from the previous input must never be mistaken for this run's
\* answer": what the chip was given is of the input the report names.
AnswerIsOfInput == AtGate => files.chip = report.input

\* "an upload that did not actually drive the hardware would leave the dialog showing the
\* previous run's answer next to the new file's name".
UploadIsAnswered == AtGate => report.input = Resolved

\* "the whole gate turns on which input produced which picture": the pictures of a run are
\* of its input, the waveform included.
WaveIsOfRun == (AtGate /\ files.wave # None) => files.wave = report.input
===============================================================================
