--------------------------------- MODULE PadRing --------------------------------
(***************************************************************************)
(* The stage PADRING (run_stage and _run_chip_pnr in jobs/manager.py,      *)
(* toolchain/padring_runner.py, toolchain/librelane.py of the EDA          *)
(* service).  A workspace that ships librelane/config.yaml is taken        *)
(* through the LibreLane Chip flow; any other has the pad frame wrapped    *)
(* around its hardened core with gdspy, when the task asked for a ring.    *)
(*                                                                         *)
(* Both paths find what they work on by looking at the workspace, which    *)
(* keeps what every earlier hardening and every earlier run of the stage   *)
(* left in it.  Layouts are numbered in the order they are hardened.       *)
(***************************************************************************)
EXTENDS Naturals, FiniteSets

CONSTANTS
    Names,      \* names of hardened tops, in the order of their files
    Top,        \* the top module the job names, from spec/spec.json
    ChipNamed,  \* the names with "chip" or "padring" in them
    Nets,       \* the signal pads: clk, rst_n, uart_rx, uart_tx
    MaxCores,   \* bound on hardenings
    MaxRuns     \* bound on runs of the stage

VARIABLES
    phase,    \* where the job is
    asked,    \* padring = gf180-v1
    config,   \* librelane/config.yaml is there
    ports,    \* the signal pads the core has a port for
    gds,      \* gds/<name>.gds: the number of the layout in it
    cores,    \* layouts hardened
    ring,     \* padring/: the DEF, the chip layout, its preview, the copy in gds/
    finals,   \* the runs of the Chip flow that left final views in librelane/runs/
    pinout,   \* padring/pinout.json: what DEF it was read from
    runs,     \* runs of the stage
    real,     \* the padring binary did its work in this run
    report    \* the verdict of the job and what it delivers

vars == <<phase, asked, config, ports, gds, cores, ring, finals, pinout, runs, real,
          report>>
inputs == <<asked, config, ports>>

Layouts == 0 .. MaxCores
Rings == [def : {"absent", "binary", "partial", "stub"},
          core : Layouts,     \* the layout in padring/<top>_chip.gds
          by : 0 .. MaxRuns,  \* the run that assembled it
          preview : 0 .. MaxRuns, copy : 0 .. MaxRuns]
NoRing == [def |-> "absent", core |-> 0, by |-> 0, preview |-> 0, copy |-> 0]

\* Where a DEF or a GDS comes from: nowhere, a run of the Chip flow, the hardened core.
Nowhere == 0
Core == MaxRuns + 1
Sources == 0 .. MaxRuns + 1
Reports == [verdict : {"none", "COMPLETED", "FAILED"}, path : {"none", "skipped", "ring", "chip"},
            source : Sources, flow : BOOLEAN, preview : BOOLEAN, routes : SUBSET Nets]
NoReport == [verdict |-> "none", path |-> "none", source |-> Nowhere, flow |-> FALSE,
             preview |-> FALSE, routes |-> {}]

Least(S) == CHOOSE n \in S : \A m \in S : n <= m

Init ==
    /\ phase = "idle"
    /\ asked \in BOOLEAN /\ config \in BOOLEAN /\ ports \in SUBSET Nets
    /\ gds = [n \in Names |-> 0] /\ cores = 0
    /\ ring = NoRing /\ finals = {} /\ pinout = Nowhere
    /\ runs = 0 /\ real = FALSE /\ report = NoReport

-----------------------------------------------------------------------------
\* run_harden leaves a new layout, under the name of the top it found in the RTL.
Harden(n) ==
    /\ phase = "idle" /\ cores < MaxCores
    /\ cores' = cores + 1 /\ gds' = [gds EXCEPT ![n] = cores']
    /\ UNCHANGED <<phase, inputs, ring, finals, pinout, runs, real, report>>

\* run_stage: the files of the workspace choose the path, then the option of the task.
Start ==
    /\ phase = "idle" /\ cores > 0 /\ runs < MaxRuns
    /\ runs' = runs + 1 /\ real' = FALSE /\ report' = NoReport
    /\ phase' = IF config THEN "flow" ELSE IF asked THEN "place" ELSE "skip"
    /\ UNCHANGED <<inputs, gds, cores, ring, finals, pinout>>

End(verdict, path) ==
    /\ phase' = "idle"
    /\ report' = [report EXCEPT !.verdict = verdict, !.path = path]

\* No pad ring was asked for: a success that does nothing.
Skip ==
    /\ phase = "skip"
    /\ End("COMPLETED", "skipped")
    /\ UNCHANGED <<inputs, gds, cores, ring, finals, pinout, runs, real>>

-----------------------------------------------------------------------------
(* run_padring *)

\* A placement that is missing is rendered from the configuration.
Rendered(d) == IF d = "absent" THEN "stub" ELSE d

\* The padring binary: not there or failed, at once or halfway; or it did its work.
Place ==
    /\ phase = "place"
    /\ \/ real' = FALSE /\ \E d \in {ring.def, "partial"} :
              ring' = [ring EXCEPT !.def = Rendered(d)]
       \/ real' = TRUE /\ \E d \in {"binary", ring.def} \ {"absent"} :
              ring' = [ring EXCEPT !.def = d]
    /\ phase' = "merge"
    /\ UNCHANGED <<inputs, gds, cores, finals, pinout, runs, report>>

\* Mutant: every file is a candidate, the copy of an earlier assembly included.
FindCoreAny ==
    LET found == {n \in Names \ ChipNamed : gds[n] > 0}
    IN  IF gds[Top] > 0 THEN {gds[Top]} ELSE IF ring.copy > 0 THEN {0}
        ELSE IF found = {} THEN {} ELSE {gds[Least(found)]}
\* _find_core_gds: the file named after the top, or the first one whose name does not
\* look like an assembly.  The copy an earlier run left is one that does.
FindCore ==
    LET found == {n \in Names \ ChipNamed : gds[n] > 0}
    IN  IF gds[Top] > 0 THEN {gds[Top]}
        ELSE IF found = {} THEN {} ELSE {gds[Least(found)]}

\* Nothing in the flow writes pnr/<top>.def, where _find_core_def looks, so that every
\* signal pad is a candidate that is routed.
Routed == Nets

\* _merge_gds.
Merge ==
    /\ phase = "merge"
    /\ \E c \in FindCore : ring' = [ring EXCEPT !.core = c, !.by = runs]
    /\ report' = [report EXCEPT !.routes = Routed]
    /\ phase' = "preview"
    /\ UNCHANGED <<inputs, gds, cores, finals, pinout, runs, real>>

\* Mutant: KLayout is asked whether the binary worked or not.
MergeFailsAnyway ==
    /\ phase = "merge"
    /\ phase' = "klayout"
    /\ UNCHANGED <<inputs, gds, cores, ring, finals, pinout, runs, real, report>>
\* No core, a library that is missing, a layout that cannot be read: KLayout is asked if
\* the binary worked; else the job fails.
MergeFails ==
    /\ phase = "merge"
    /\ IF real THEN phase' = "klayout" /\ report' = report ELSE End("FAILED", "ring")
    /\ UNCHANGED <<inputs, gds, cores, ring, finals, pinout, runs, real>>

\* KLayout is given no script.  It may end well, and a chip layout that is there then
\* passes for its output.
KLayout ==
    /\ phase = "klayout"
    /\ \/ phase' = "preview" /\ ring.core > 0 /\ report' = report
       \/ End("FAILED", "ring")
    /\ UNCHANGED <<inputs, gds, cores, ring, finals, pinout, runs, real>>

\* Mutant: a preview that is there is delivered.
PreviewIfThere ==
    /\ phase = "preview"
    /\ \/ /\ ring' = [ring EXCEPT !.preview = ring.by]
          /\ report' = [report EXCEPT !.preview = TRUE] /\ phase' = "copy"
       \/ /\ report' = [report EXCEPT !.preview = ring.preview > 0] /\ phase' = "copy"
          /\ UNCHANGED ring
       \/ End("FAILED", "ring") /\ UNCHANGED ring
    /\ UNCHANGED <<inputs, gds, cores, finals, pinout, runs, real>>
\* _render_gds_preview: drawn; without the libraries not drawn and not delivered; any
\* other trouble fails the job, whose layout is on disk.
Preview ==
    /\ phase = "preview"
    /\ \/ /\ ring' = [ring EXCEPT !.preview = ring.by]
          /\ report' = [report EXCEPT !.preview = TRUE] /\ phase' = "copy"
       \/ report' = report /\ phase' = "copy" /\ UNCHANGED ring
       \/ End("FAILED", "ring") /\ UNCHANGED ring
    /\ UNCHANGED <<inputs, gds, cores, finals, pinout, runs, real>>

\* The copy in gds/, or the old one when it cannot be written.
Copy ==
    /\ phase = "copy"
    /\ ring' \in {ring, [ring EXCEPT !.copy = ring.by]}
    /\ End("COMPLETED", "ring")
    /\ UNCHANGED <<inputs, gds, cores, finals, pinout, runs, real>>

-----------------------------------------------------------------------------
(* _run_chip_pnr *)

\* collect_chip_artifacts: the files under a directory final/ first, in the order of
\* their paths; those of the hardened core are in exports/harden/chip/runs/, those of
\* the Chip flow in librelane/runs/<date>.
Collected(done) ==
    IF cores > 0 THEN Core ELSE IF done = {} THEN Nowhere ELSE Least(done)

\* run_chip_flow, in Docker or with a local binary, ends well; or with an error, a timeout
\* or without having started, with final views or without them.
FlowEnds(ok, final) ==
    /\ ok => final
    /\ finals' = IF final THEN finals \cup {runs} ELSE finals

\* extract_pinout of the DEF that was collected; a pinout that is empty is not written.
Extracted(source) == pinout' \in {pinout, source}

\* Mutant: errors the flow deferred are not recorded.
ChipFlowDeferring ==
    /\ phase = "flow"
    /\ \E ok, final \in BOOLEAN :
        /\ FlowEnds(ok, final)
        /\ report' = [report EXCEPT
               !.flow = ok, !.source = Collected(finals'), !.path = "chip",
               !.verdict = IF final THEN "COMPLETED" ELSE "FAILED"]
        /\ Extracted(Collected(finals'))
    /\ phase' = "idle"
    /\ UNCHANGED <<inputs, gds, cores, ring, runs, real>>
\* What the workspace holds is collected however the flow ended.
ChipFlow ==
    /\ phase = "flow"
    /\ \E ok, final \in BOOLEAN :
        /\ FlowEnds(ok, final)
        /\ report' = [report EXCEPT
               !.flow = ok, !.source = Collected(finals'), !.path = "chip",
               !.verdict = IF ok THEN "COMPLETED" ELSE "FAILED"]
        /\ Extracted(Collected(finals'))
    /\ phase' = "idle"
    /\ UNCHANGED <<inputs, gds, cores, ring, runs, real>>

Job ==
    \/ Skip \/ Place \/ Merge \/ MergeFails \/ KLayout \/ Preview \/ Copy \/ ChipFlow

Next == Start \/ Job \/ \E n \in Names : Harden(n)

Spec == Init /\ [][Next]_vars

-----------------------------------------------------------------------------
(* Properties *)

\* Every variable keeps its type.
TypeOK ==
    /\ phase \in {"idle", "skip", "place", "merge", "klayout", "preview", "copy", "flow"}
    /\ asked \in BOOLEAN /\ config \in BOOLEAN /\ ports \subseteq Nets
    /\ gds \in [Names -> Layouts] /\ cores \in Layouts
    /\ ring \in Rings /\ finals \subseteq 1 .. MaxRuns /\ pinout \in Sources
    /\ runs \in 0 .. MaxRuns /\ real \in BOOLEAN /\ report \in Reports

Completed(path) == report.verdict = "COMPLETED" /\ report.path = path

\* No ring is put around a ring: what is wrapped is a hardened core, though the copy of
\* the last assembly lies in the same directory.
RingIsNotNested == ring.by > 0 => ring.core > 0

\* A chip layout that is delivered was assembled by this run.  One left over from an earlier
\* run is delivered only when the padring binary worked and the assembly failed, and its report
\* then states no routes (NoLeftoverRing).
AssembledByThisRun ==
    Completed("ring") => \/ ring.by = runs
                         \/ real /\ report.routes = {}

\* A preview that is delivered shows the chip layout that is delivered.
PreviewIsOfLayout == (Completed("ring") /\ report.preview) => ring.preview = ring.by

\* A run of the Chip flow that ended with an error, deferred or not, is never COMPLETED,
\* whatever layouts the workspace offers.
ChipVerdictIsHonest == Completed("chip") => report.flow

-----------------------------------------------------------------------------
(* What the documentation says and the code does not keep *)

\* "A no-op (skipped) success when padring != gf180-v1."
SkippedUnlessAsked == report.path \in {"ring", "chip"} => asked

\* The pinout is the map "a person needs to probe/bond the die, produced by the PADRING
\* (LibreLane Chip flow) stage".
PinoutIsOfDie == pinout # Core

\* Final views come first so that they are "the ones downstream consumers
\* (e.g. pad-placement extraction) want": those of the Chip flow.
CollectsChip == (Completed("chip")) => report.source # Core

\* "Assembles ... a chip-level I/O pad ring around the hardened core": the one hardened
\* last.
WrapsHardenedCore == (Completed("ring") /\ ring.by = runs) => ring.core = cores

\* "we want to avoid routing phantom nets (e.g. UART pins on designs that don't have
\* UART)".
NoPhantomRoutes == Completed("ring") => report.routes \subseteq ports

\* padring_runner.py:16-18: the chip layout "no longer depends on external padring/KLayout
\* binaries": it is the one gdspy assembled in this run.
NoLeftoverRing == Completed("ring") => ring.by = runs

\* "binary unavailable/failed - using deterministic pad-ring assembly": the placement is
\* then the one rendered from the configuration.
PlacedDeterministically == (Completed("ring") /\ ~real) => ring.def = "stub"

===============================================================================
