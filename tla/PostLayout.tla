------------------------------- MODULE PostLayout -------------------------------
(***************************************************************************)
(* The analyses after place and route (eda-service/toolchain): run_sta,       *)
(* run_gl_sim and run_render.  Each looks for what it needs in the directory  *)
(* of the hardening run, in which every attempt has left its own, and writes  *)
(* files that are still there when the stage runs again on another layout.    *)
(* One worker runs the jobs, in the order their pollers enqueued them.        *)
(***************************************************************************)
EXTENDS Naturals, Sequences

CONSTANTS
    Versions, \* bound: the RTL is 1..Versions
    Attempts, \* hardening makes at most this many attempts in a job
    Jobs      \* bound: jobs of the three stages

VARIABLES
    rtl,      \* the version of the RTL
    runs,     \* exports/harden/chip/runs: the attempts of the last hardening, oldest first
    sta, gl,  \* the reports of the two stages
    image,    \* waves/gl_<top>: the netlist it was compiled from
    wave,     \* waves/gl_<top>.vcd: "none", "old", or of this job
    output,   \* waves/chip_output.mem: which simulation dumped it
    dot,      \* reports/schematic.dot: the RTL it shows
    layoutPng,\* gds/<top>.png: the layout it shows
    images,   \* what RENDER lists: the versions of the schematic and of the layout
    row,      \* stages.status of the three stages
    todo, pc, jobs

files == <<runs, image, wave, output, dot, layoutPng>>
reports == <<sta, gl, images, row>>
vars == <<rtl, files, reports, todo, pc, jobs>>

Stages == {"STA", "GL_SIM", "RENDER"}
Missing == 0
Version == 1..Versions
NoImages == [schematic |-> Missing, layout |-> Missing]
NoSta == [engine |-> "none", found |-> FALSE, met |-> FALSE]
NoGl == [compiled |-> FALSE, passed |-> FALSE, waveform |-> FALSE, of |-> Missing, cells |-> TRUE]
\* How far an attempt got: it may end before its netlist, before its GDS, with a GDS of a step
\* and no final one, or with the final ones.
Reach == {"start", "netlist", "gds", "final"}
Attempt ==
    {a \in [reached : Reach, slack : {"met", "violated"}] :
        a.reached = "start" => a.slack = "violated"}

Init ==
    /\ rtl = 1 /\ runs = <<>>
    /\ sta = NoSta /\ gl = NoGl /\ images = NoImages /\ row = [s \in Stages |-> "NOT_STARTED"]
    /\ image = Missing /\ wave = "none" /\ output = "sim" /\ dot = Missing /\ layoutPng = Missing
    /\ todo = {} /\ pc = "harden" /\ jobs = 0

Newest(i, reach) ==
    /\ i \in DOMAIN runs /\ runs[i].reached \in reach
    /\ \A j \in DOMAIN runs : runs[j].reached \in reach => j <= i
\* _completed_gds: the last of the final ones, else the last of any.
Delivered(i) ==
    \/ Newest(i, {"final"})
    \/ Newest(i, {"gds"}) /\ \A j \in DOMAIN runs : runs[j].reached # "final"
Layout == runs[CHOOSE i \in DOMAIN runs : Delivered(i)]

\* run_harden, until it completes, for which a GDS has to be there: the directory is made anew,
\* an attempt that is not good enough is followed by another one beside it, which may get less
\* far; a picture is copied when there is one.
Harden ==
    /\ pc = "harden"
    /\ \E n \in 1..Attempts : runs' \in [1..n -> Attempt]
    /\ \E i \in DOMAIN runs' : Delivered(i)'
    /\ layoutPng' \in {layoutPng, rtl}
    /\ todo' = Stages /\ pc' = "idle"
    /\ row' = [s \in Stages |-> "RUNNING"]
    /\ UNCHANGED <<rtl, sta, gl, images, image, wave, output, dot, jobs>>

Take(s) ==
    /\ pc = "idle" /\ s \in todo /\ jobs < Jobs
    /\ todo' = todo \ {s} /\ jobs' = jobs + 1
    /\ pc' = CASE s = "STA" -> "sta" [] s = "GL_SIM" -> "compile" [] s = "RENDER" -> "schematic"
    /\ wave' = IF wave = "none" THEN "none" ELSE "old"
    /\ UNCHANGED <<rtl, runs, reports, image, output, dot, layoutPng>>
Finish(s, status) == row' = [row EXCEPT ![s] = status] /\ pc' = "idle"

-----------------------------------------------------------------------------
(* run_sta *)

\* Mutant: the first netlist that is found.
NetlistFirst == runs[1]
\* _find: the last of the sorted paths, which is that of the newest run that wrote a netlist.
HasNetlist == Reach \ {"start"}
Netlist == runs[CHOOSE i \in DOMAIN runs : Newest(i, HasNetlist)]
\* _load_metrics: whichever file comes first, in no order; that of an attempt that failed is
\* empty or holds no slack.
Metrics == {i \in DOMAIN runs : runs[i].reached = "final"}

Report(engine, found, met) == sta' = [engine |-> engine, found |-> found, met |-> met]

\* sta is run and prints the slack of the netlist, or nothing that can be read: the slack is
\* then zero as in a fresh report.  Its return code is not looked at.
OpenSta ==
    /\ pc = "sta"
    /\ Report("opensta", TRUE, Netlist.slack = "met") \/ Report("opensta", FALSE, TRUE)
    /\ Finish("STA", "COMPLETED")
    /\ UNCHANGED <<rtl, files, gl, images, todo, jobs>>
\* sta, the netlist or the liberty file is missing, or sta is killed: the metrics will do.
FromMetrics ==
    /\ pc = "sta"
    /\ \/ \E i \in DOMAIN runs \ Metrics : Report("metrics", FALSE, TRUE)
       \/ \E i \in Metrics : Report("metrics", TRUE, runs[i].slack = "met")
    /\ Finish("STA", "COMPLETED")
    /\ UNCHANGED <<rtl, files, gl, images, todo, jobs>>

-----------------------------------------------------------------------------
(* run_gl_sim *)

\* There is nothing to simulate or iverilog is not there: no error.
GlSkipped ==
    /\ pc = "compile"
    /\ gl' = NoGl /\ Finish("GL_SIM", "COMPLETED")
    /\ UNCHANGED <<rtl, files, sta, images, todo, jobs>>
\* Mutant: a netlist that does not compile is simulated all the same.
GlCompileAnyway ==
    /\ pc = "compile"
    /\ image' \in {image, rtl}
    /\ gl' = [NoGl EXCEPT !.compiled = TRUE]
    /\ pc' = "simulate"
    /\ UNCHANGED <<rtl, runs, wave, output, dot, layoutPng, sta, images, row, todo, jobs>>
\* Without the models of its cells no netlist compiles.
GlCompile ==
    /\ pc = "compile"
    /\ \/ /\ \E cells \in BOOLEAN : gl' = [NoGl EXCEPT !.cells = cells]
          /\ Finish("GL_SIM", "FAILED") /\ UNCHANGED image
       \/ /\ image' = rtl /\ gl' = [NoGl EXCEPT !.compiled = TRUE]
          /\ pc' = "simulate" /\ UNCHANGED row
    /\ UNCHANGED <<rtl, runs, wave, output, dot, layoutPng, sta, images, todo, jobs>>
\* vvp runs the image and may print a pass, write a trace, and dump the chip's output where
\* SIM's went: the testbench is the same.  The stage completes whatever came of it.
GlSimulate ==
    /\ pc = "simulate"
    /\ wave' \in {wave, "now"}
    /\ output' \in {output, "gl"}
    /\ \E passed \in BOOLEAN :
          gl' = [gl EXCEPT !.passed = passed, !.waveform = wave' # "none", !.of = image]
    /\ Finish("GL_SIM", "COMPLETED")
    /\ UNCHANGED <<rtl, runs, image, dot, layoutPng, sta, images, todo, jobs>>

-----------------------------------------------------------------------------
(* run_render *)

\* yosys draws the RTL, or fails and the drawing that is there is used; dot makes a picture
\* of it or is missing.
RenderSchematic ==
    /\ pc = "schematic"
    /\ dot' \in {dot, rtl}
    /\ images' \in {NoImages, [NoImages EXCEPT !.schematic = dot']}
    /\ pc' = "layout"
    /\ UNCHANGED <<rtl, runs, image, wave, output, layoutPng, sta, gl, row, todo, jobs>>
\* A picture that is there is copied, or the layout is drawn, or neither tool is there.
RenderGds ==
    /\ pc = "layout"
    /\ images' \in IF layoutPng # Missing THEN {[images EXCEPT !.layout = layoutPng]}
                   ELSE {images, [images EXCEPT !.layout = rtl]}
    /\ Finish("RENDER", "COMPLETED")
    /\ UNCHANGED <<rtl, files, sta, gl, todo, jobs>>

-----------------------------------------------------------------------------
\* A user retries stages, or has the RTL reworked, simulated and hardened again.
Retry ==
    /\ pc = "idle" /\ todo = {} /\ jobs < Jobs
    /\ todo' \in (SUBSET Stages) \ {{}}
    /\ row' = [s \in Stages |-> IF s \in todo' THEN "RUNNING" ELSE row[s]]
    /\ UNCHANGED <<rtl, files, sta, gl, images, pc, jobs>>
Rework ==
    /\ pc = "idle" /\ todo = {} /\ rtl < Versions
    /\ rtl' = rtl + 1 /\ output' = "sim" /\ pc' = "harden"
    /\ row' = [s \in Stages |-> "NOT_STARTED"]
    /\ UNCHANGED <<runs, image, wave, dot, layoutPng, sta, gl, images, todo, jobs>>

Sta == OpenSta \/ FromMetrics
GlSim == GlSkipped \/ GlCompile \/ GlSimulate
Render == RenderSchematic \/ RenderGds
Next == Harden \/ (\E s \in Stages : Take(s)) \/ Sta \/ GlSim \/ Render \/ Retry \/ Rework

Spec == Init /\ [][Next]_vars

-----------------------------------------------------------------------------
\* The variables keep their types.
TypeOK ==
    /\ rtl \in Version /\ runs \in Seq(Attempt) /\ Len(runs) <= Attempts
    /\ sta \in [engine : {"none", "opensta", "metrics"}, found : BOOLEAN, met : BOOLEAN]
    /\ gl \in [compiled : BOOLEAN, passed : BOOLEAN, waveform : BOOLEAN, of : {Missing} \cup Version,
               cells : BOOLEAN]
    /\ images \in [schematic : {Missing} \cup Version, layout : {Missing} \cup Version]
    /\ row \in [Stages -> {"NOT_STARTED", "RUNNING", "COMPLETED", "FAILED"}]
    /\ {image, dot, layoutPng} \subseteq {Missing} \cup Version
    /\ wave \in {"none", "old", "now"} /\ output \in {"sim", "gl"}
    /\ todo \subseteq Stages /\ jobs \in 0..Jobs
    /\ pc \in {"harden", "idle", "sta", "compile", "simulate", "schematic", "layout"}

Done(s) == row[s] = "COMPLETED"

\* A gate-level simulation that passed simulated a netlist of the RTL that is hardened now,
\* though the image of an earlier one is in waves/.
PassedIsOfLayout == Done("GL_SIM") /\ gl.passed => gl.of = rtl

\* An attempt after the one delivered wrote its netlist and failed before its GDS.
Overtaken ==
    \E i, j \in DOMAIN runs : Delivered(i) /\ i < j /\ runs[j].reached \in HasNetlist
\* A slack OpenSTA printed is that of the layout delivered, and not of an attempt that was
\* superseded, unless the last attempts failed half way (SlackIsOfLayout).
MeasuredIsOfLayout ==
    Done("STA") /\ sta.engine = "opensta" /\ sta.found /\ ~Overtaken
        => (sta.met <=> Layout.slack = "met")

-----------------------------------------------------------------------------
(* What the comments claim and the code does not keep *)

\* handlers.go:969: static timing and gate-level simulation must pass before the guardrail
\* is shown as done.
GuardrailPassed == Done("STA") /\ Done("GL_SIM") => sta.met /\ gl.passed

\* sta_runner.py:3-4: the slack is extracted from the netlist (or the metrics): timing is not
\* called met when there is none.
MetIsMeasured == Done("STA") /\ sta.met => sta.found

\* sta_runner.py:3-6: the netlist that is timed is the one after place and route, of the layout
\* delivered.
SlackIsOfLayout ==
    Done("STA") /\ sta.engine = "opensta" /\ sta.found => (sta.met <=> Layout.slack = "met")

\* sta_runner.py:7-8: the headline numbers of the metrics stand in for those of the layout.
FallbackIsOfLayout ==
    Done("STA") /\ sta.engine = "metrics" /\ sta.found => (sta.met <=> Layout.slack = "met")

\* gl_sim.py:6-8: missing cell models skip the stage and do not fail it.
CellModelsSkip == row["GL_SIM"] = "FAILED" => gl.cells

\* gl_sim.py:4-5: the waveform that is reported was captured by this simulation.
WaveformIsOfRun == pc = "idle" /\ Done("GL_SIM") /\ gl.waveform => wave # "old"

\* render.py:5, 10-11: the schematic is yosys's of this design, and is skipped without it.
SchematicIsOfRtl == Done("RENDER") => images.schematic \in {Missing, rtl}

\* sim_runner.py:349-352: the dump of the chip's output belongs to SIM's run.
OutputIsOfSim == output = "sim"
=============================================================================
