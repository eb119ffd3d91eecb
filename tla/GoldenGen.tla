------------------------------ MODULE GoldenGen -------------------------------
(***************************************************************************)
(* The stage GOLDEN_GEN (agent-service/agents/stage_handlers.py): a deep   *)
(* agent writes the Python reference model, the stage itself runs the      *)
(* tests, renders the output and lists what is missing, sends the agent    *)
(* back a bounded number of times, and hands the result to the human gate  *)
(* or fails.                                                               *)
(*                                                                         *)
(* A pass of the agent may leave any workspace behind.  What matters of a  *)
(* workspace is what the stage reads of it: whether there are models, what *)
(* the test suite does, how old the dump of the desired output is, what    *)
(* the picture shows, which documents exist.                               *)
(***************************************************************************)
EXTENDS Naturals

CONSTANT
    RepairRounds   \* GOLDEN_REPAIR_ROUNDS

ASSUME RoundsAssumption == RepairRounds \in Nat \ {0}

VARIABLES
    phase,   \* "start", "agent", "test", "check", "template", "gate" or "failed"
    deep,    \* a language model and the deepagents library are at hand
    pytest,  \* pytest runs and ends in time
    output,  \* needs_output: the chip is to produce an output for a staged input
    ws,      \* the golden part of the workspace
    tests,   \* the verdict of _run_golden_tests
    current, \* the verdict is about the models and the tests on disk
    gaps,    \* what _golden_gaps listed last
    rounds   \* repair passes made

vars == <<phase, deep, pytest, output, ws, tests, current, gaps, rounds>>

-----------------------------------------------------------------------------
Suites == {"absent", "passing", "failing", "skipping", "empty"}

\* models: golden/model/*.py; suite: what golden/tests does; scripts: the files of a
\* failing suite also fail when executed as scripts; dump: waves/golden_output.mem, older
\* or newer than the models; drawable: the imaging library is installed and the dump
\* holds a picture's worth of values; picture: what golden_output.png shows; manifest:
\* golden_summary.json, without or with the tiers of the modules; docs: the report, the
\* build contract, the mathematics and the vectors are all there.
AllWorkspaces ==
    [models   : BOOLEAN,
     suite    : Suites,
     scripts  : BOOLEAN,
     dump     : {"absent", "older", "newer"},
     drawable : BOOLEAN,
     picture  : {"absent", "other", "dump"},
     manifest : {"absent", "flat", "tiered"},
     docs     : BOOLEAN]

Workspaces ==
    {w \in AllWorkspaces : /\ w.scripts => w.suite = "failing"
                           /\ w.dump = "absent" => ~w.drawable}

Empty ==
    [models |-> FALSE, suite |-> "absent", scripts |-> FALSE, dump |-> "absent",
     drawable |-> FALSE, picture |-> "absent", manifest |-> "absent", docs |-> FALSE]

Verdicts == [ran : BOOLEAN, passed : BOOLEAN, failed : BOOLEAN]
NoVerdict == [ran |-> FALSE, passed |-> FALSE, failed |-> FALSE]

-----------------------------------------------------------------------------
(* _run_golden_tests *)

\* pytest: an exit without counters counts as passed, which a suite of skipped tests
\* leaves too; a suite in which nothing is collected neither passes nor fails.
PytestVerdict(suite) ==
    [ran |-> TRUE, passed |-> suite \in {"passing", "skipping"},
     failed |-> suite = "failing"]

\* Without pytest every file is executed as a script, and a file that only defines
\* tests ends well.
ScriptVerdict(w) ==
    [ran |-> TRUE, passed |-> ~w.scripts, failed |-> w.scripts]

VerdictOn(w) ==
    IF w.suite = "absent" THEN NoVerdict
    ELSE IF pytest THEN PytestVerdict(w.suite) ELSE ScriptVerdict(w)

\* _render_golden_previews: golden_output.png is drawn from the dump whatever the agent
\* has drawn; where nothing can be drawn the agent's picture stays.
Rendered(w) == IF w.drawable THEN [w EXCEPT !.picture = "dump"] ELSE w

\* _golden_gaps: what the stage tells the agent to repair.
GapsOf(w, t) ==
    {g \in {"models", "tests", "stale dump", "manifest", "preview", "dump", "docs"} :
        \/ g = "models" /\ ~w.models
        \/ g = "tests" /\ (~t.passed \/ t.failed)
        \/ g = "stale dump" /\ w.models /\ w.dump = "older"
        \/ g = "manifest" /\ w.manifest # "tiered"
        \/ g = "preview" /\ w.picture = "absent"
        \/ g = "dump" /\ output /\ w.dump = "absent"
        \/ g = "docs" /\ ~w.docs}

\* _write_golden_summary: the manifest of the agent, or one made from the model files.
Summarized(w) == IF w.manifest = "absent" THEN [w EXCEPT !.manifest = "flat"] ELSE w

-----------------------------------------------------------------------------
Init ==
    /\ phase = "start"
    /\ deep \in BOOLEAN /\ pytest \in BOOLEAN /\ output \in BOOLEAN
    /\ ws = Empty
    /\ tests = NoVerdict /\ current = FALSE
    /\ gaps = {} /\ rounds = 0

\* run_golden_gen begins, with or without the deep agent.
Start ==
    /\ phase = "start"
    /\ phase' = IF deep THEN "agent" ELSE "template"
    /\ UNCHANGED <<deep, pytest, output, ws, tests, current, gaps, rounds>>

\* A pass of the agent, the first or a repair, changes anything.
AgentPass ==
    /\ phase = "agent"
    /\ ws' \in Workspaces
    /\ tests' = NoVerdict /\ current' = FALSE /\ gaps' = {}
    /\ phase' = "test"
    /\ UNCHANGED <<deep, pytest, output, rounds>>

\* The provider refuses to serve a pass: the stage fails with its message.
ProviderRefuses ==
    /\ phase = "agent"
    /\ phase' = "failed"
    /\ UNCHANGED <<deep, pytest, output, ws, tests, current, gaps, rounds>>

\* Mutant: the tests run once, after the first pass.
CheckWorkspaceOnce ==
    /\ phase = "test"
    /\ IF rounds = 0 THEN tests' = VerdictOn(ws) /\ current' = TRUE
                     ELSE UNCHANGED <<tests, current>>
    /\ ws' = Rendered(ws)
    /\ gaps' = GapsOf(Rendered(ws), tests')
    /\ phase' = "check"
    /\ UNCHANGED <<deep, pytest, output, rounds>>
\* After every pass: run the tests, render the pictures, list the gaps.
CheckWorkspace ==
    /\ phase = "test"
    /\ tests' = VerdictOn(ws) /\ current' = TRUE
    /\ ws' = Rendered(ws)
    /\ gaps' = GapsOf(Rendered(ws), tests')
    /\ phase' = "check"
    /\ UNCHANGED <<deep, pytest, output, rounds>>

\* Gaps send the agent back, RepairRounds times at most.
Repair ==
    /\ phase = "check" /\ gaps # {} /\ rounds < RepairRounds
    /\ rounds' = rounds + 1
    /\ phase' = "agent"
    /\ UNCHANGED <<deep, pytest, output, ws, tests, current, gaps>>

\* Mutant: only a model without tests is refused.
RefusedIfEmpty(w, t) == ~w.models /\ ~t.ran
\* What the stage raises on: nothing was written and nothing ran, or tests fail.
Refused(w, t) == (~w.models /\ ~t.ran) \/ (t.ran /\ t.failed)

\* The passes are over: the stage fails, or writes the manifest and asks the human,
\* whatever gaps are left.
Conclude ==
    /\ phase = "check" /\ (gaps = {} \/ rounds = RepairRounds)
    /\ phase' = IF Refused(ws, tests) THEN "failed" ELSE "gate"
    /\ ws' = IF Refused(ws, tests) THEN ws ELSE Summarized(ws)
    /\ UNCHANGED <<deep, pytest, output, tests, current, gaps, rounds>>

\* Without a deep agent: a model, a test, vectors and documents from templates, added
\* to what is there.  The tests run and no verdict is refused.
Template ==
    /\ phase = "template"
    /\ ws' = Summarized([ws EXCEPT
                 !.models = TRUE,
                 !.suite = IF @ \in {"failing", "passing"} THEN @ ELSE "passing",
                 !.dump = IF @ = "absent" THEN @ ELSE "older"])
    /\ tests' = VerdictOn(ws') /\ current' = TRUE
    /\ phase' = "gate"
    /\ UNCHANGED <<deep, pytest, output, gaps, rounds>>

\* The stage runs again, rejected at the gate or retried after a failure, on the
\* workspace as it is; the provider may have come or gone, the model may have staged
\* an input in rtl/*.mem.
Rerun ==
    /\ phase \in {"gate", "failed"}
    /\ phase' = "start"
    /\ deep' \in BOOLEAN /\ pytest' \in BOOLEAN /\ output' \in {output, TRUE}
    /\ tests' = NoVerdict /\ current' = FALSE /\ gaps' = {} /\ rounds' = 0
    /\ UNCHANGED ws

Next ==
    \/ Start \/ AgentPass \/ ProviderRefuses \/ CheckWorkspace \/ Repair
    \/ Conclude \/ Template \/ Rerun

Spec == Init /\ [][Next]_vars

-----------------------------------------------------------------------------
(* Properties *)

\* Every variable keeps its type.
TypeOK ==
    /\ phase \in {"start", "agent", "test", "check", "template", "gate", "failed"}
    /\ deep \in BOOLEAN /\ pytest \in BOOLEAN /\ output \in BOOLEAN
    /\ ws \in Workspaces
    /\ tests \in Verdicts /\ current \in BOOLEAN
    /\ gaps \subseteq {"models", "tests", "stale dump", "manifest", "preview", "dump",
                        "docs"}
    /\ rounds \in 0 .. RepairRounds

\* What the gate reports about the tests is the verdict on the models and the tests on
\* disk, not on those an earlier pass has left.
VerdictIsCurrent == phase = "gate" => current /\ tests = VerdictOn(ws)

\* "a failing model cannot be handed to a human gate": after a run of the deep agent,
\* models whose suite fails never wait at the gate while pytest can tell.
FailingModelIsRefused ==
    (phase = "gate" /\ deep /\ pytest) => ws.suite # "failing"

\* The picture the reviewer judges is drawn from the dump the simulation is compared
\* with, never a figure the agent drew in its place, wherever the stage can draw the
\* dump.
PictureIsOfDump == (phase = "gate" /\ deep /\ ws.drawable) => ws.picture = "dump"

\* A run that did not use up its repairs has left nothing out: the reviewer is asked
\* early only when every deliverable exists and the dump is not older than the models.
EarlyGateIsComplete ==
    (phase = "gate" /\ deep /\ rounds < RepairRounds) =>
        /\ ws.models /\ ws.docs /\ ws.manifest = "tiered"
        /\ ws.dump # "older" /\ (output => ws.dump = "newer")

-----------------------------------------------------------------------------
(* What the comments claim and the code does not keep *)

\* _golden_gaps lists a dump older than the models, so that the gate does not "show the
\* reviewer a picture the current model does not produce".
GateShowsCurrentOutput == (phase = "gate" /\ deep /\ ws.models) => ws.dump # "older"

\* "golden_output.png is FRAMEWORK-owned": no figure of the agent is shown in its place.
\* One is where there is no dump, no imaging library, or no picture in the dump.
PictureIsFrameworks == (phase = "gate" /\ deep) => ws.picture # "other"

\* "the test suite ran but asserted nothing" is told apart from a suite that passes.
PassedHasAsserted ==
    (phase = "gate" /\ tests.passed /\ ~tests.failed) => ws.suite = "passing"
===============================================================================
