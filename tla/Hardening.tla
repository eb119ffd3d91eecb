------------------------------- MODULE Hardening -------------------------------
(***************************************************************************)
(* run_harden (eda-service/toolchain/harden_runner.py): the jobs of SYNTH, *)
(* PNR and DRC_LVS that turn the RTL of a workspace into a layout, what    *)
(* they leave in the workspace for each other, and the two events that     *)
(* happen around them: a simulation verifies the RTL (sim_runner.py), an   *)
(* agent rewrites it.                                                      *)
(*                                                                         *)
(* The worker of eda-service runs one job at a time.  A step is one run of *)
(* LibreLane, or the code before the first or after the last one.          *)
(*                                                                         *)
(* The content of rtl/ is a version.  LibreLane is free: a run ends with   *)
(* any layout or none.  Clocks are small numbers, a relaxation picks any   *)
(* larger one; the tuned constraints (utilization, density, diodes, repair *)
(* margins) are the rungs of one ladder, recipe.                           *)
(***************************************************************************)
EXTENDS Naturals, FiniteSets

CONSTANTS
    Versions,    \* contents of rtl/
    Code,        \* the *.v and *.vh part of a version, all rtl_fingerprint reads
    Declared,    \* clock period a version declares, 0 when it declares none
    Default,     \* the naive period, 10 ns
    Nothing,     \* an absent file
    MaxClock,    \* bound: the slowest clock
    MaxRecipe,   \* rungs of the constraint ladder
    MaxAttempts, \* LibreLane runs of one job
    MaxEdits     \* bound: rewrites of the RTL

ASSUME HardeningAssumption ==
    /\ Code \in [Versions -> Versions]
    /\ Declared \in [Versions -> 0..MaxClock]
    /\ {Default, MaxClock, MaxRecipe, MaxAttempts, MaxEdits} \subseteq Nat
    /\ Default \in 1..MaxClock
    /\ MaxAttempts > 0

VARIABLES
    rtl,      \* rtl/
    stamp,    \* context/verified_rtl.json: the RTL the last passing SIM ran
    tune,     \* exports/harden/.tune_state.json
    chip,     \* exports/harden/chip: .run_fingerprint, and the layout below runs/
    gds,      \* gds/<top>.gds, the layout that is delivered
    achieved, \* context/achieved_clock.json
    job,      \* the job that runs
    verdict,  \* how the last job ended, for which RTL and which stamp, until the next starts
    edits,    \* rewrites of the RTL left
    quiet,    \* no rewrite has ever hit a running job
    slow      \* versions that have missed setup timing in some run

vars == <<rtl, stamp, tune, chip, gds, achieved, job, verdict, edits, quiet, slow>>

-----------------------------------------------------------------------------
\* What a layout misses: setup timing, another sign-off check, or its metrics.
Faults == (SUBSET {"late", "dirty"}) \cup {{"unknown"}}
Layout == [built : Versions, clock : 1..MaxClock, faults : Faults]

\* What .tune_state.json remembers: the RTL it was tuned for, the clock and the constraints.
Tunes == [rtl : Versions, clock : 1..MaxClock, recipe : 0..MaxRecipe]

ASSUME NothingAssumption == Nothing \notin Versions \cup Layout \cup Tunes

EmptyChip == [fp |-> Nothing, layout |-> Nothing]
NoVerdict == [result |-> "none", rtl |-> Nothing, stamp |-> Nothing]
Idle == [at |-> "idle", fp |-> Nothing, src |-> Nothing, clock |-> Default,
         recipe |-> 0, attempt |-> 0, reuse |-> FALSE, timeout |-> FALSE]

\* design_clock_period_ns or the default: what run_stage asks for.
Base(v) == IF Declared[v] = 0 THEN Default ELSE Declared[v]

\* Mutant: the tune state is not tied to the RTL.
AnyTuneFits(v) == tune # Nothing
\* The tune state belongs to the RTL that needed it, or it is discarded.
TuneFits(v) == tune # Nothing /\ tune.rtl = v

\* Mutant: the constraints of the tune state are forgotten as well.
LoadClockOnly(v) ==
    IF TuneFits(v) /\ ~(Declared[v] > 0 /\ tune.clock > Declared[v])
    THEN [clock |-> IF tune.clock > Base(v) THEN tune.clock ELSE Base(v), recipe |-> 0]
    ELSE [clock |-> Base(v), recipe |-> 0]
\* A saved clock slower than the declared one is not taken over, and the message
\* about it uses `lines` before it exists: the error is swallowed together with
\* the rest of the tune state.
LoadTune(v) ==
    IF TuneFits(v) /\ ~(Declared[v] > 0 /\ tune.clock > Declared[v])
    THEN [clock |-> IF tune.clock > Base(v) THEN tune.clock ELSE Base(v),
          recipe |-> tune.recipe]
    ELSE [clock |-> Base(v), recipe |-> 0]

\* Mutant: any clean layout is reused.
ReusableForAny(v) == chip.layout # Nothing /\ chip.layout.faults = {}
\* RUN REUSE: the same RTL, a layout, and clean sign-off at all corners.
Reusable(v) ==
    /\ chip.fp = v
    /\ chip.layout # Nothing
    /\ chip.layout.faults = {}

\* Mutant: the verified-artifact gate is gone.
Anything(v) == TRUE
\* The gate compares what SIM hashed, and lets a design pass that SIM never stamped.
Verified(v) == stamp = Nothing \/ Code[stamp] = Code[v]

-----------------------------------------------------------------------------
Init ==
    /\ rtl \in Versions
    /\ stamp = Nothing
    /\ tune = Nothing
    /\ chip = EmptyChip
    /\ gds = Nothing
    /\ achieved = 0
    /\ job = Idle
    /\ verdict = NoVerdict
    /\ edits = MaxEdits
    /\ quiet = TRUE
    /\ slow = {}

End(result) ==
    /\ job' = Idle
    /\ verdict' = [result |-> result, rtl |-> rtl, stamp |-> stamp]

\* An agent rewrites rtl/, while a job runs or not.
Edit(v) ==
    /\ edits > 0
    /\ v # rtl
    /\ edits' = edits - 1
    /\ rtl' = v
    /\ quiet' = (quiet /\ job.at = "idle")
    /\ UNCHANGED <<stamp, tune, chip, gds, achieved, job, verdict, slow>>

\* A simulation whose output matched the golden model stamps the RTL.
Simulate ==
    /\ job.at = "idle"
    /\ stamp # rtl
    /\ stamp' = rtl
    /\ UNCHANGED <<rtl, tune, chip, gds, achieved, job, verdict, edits, quiet, slow>>

\* The tune state is loaded or discarded, then a finished run of exactly this RTL
\* is taken over or the chip directory starts from nothing.
Prepare ==
    /\ job.at = "idle"
    /\ tune' = IF TuneFits(rtl) THEN tune ELSE Nothing
    /\ chip' = IF Reusable(rtl) THEN chip ELSE EmptyChip

Start ==
    /\ Prepare
    /\ LET loaded == LoadTune(rtl)
       IN  job' = [at |-> IF Reusable(rtl) THEN "finish" ELSE "attempt",
                   fp |-> rtl, src |-> rtl, clock |-> loaded.clock, recipe |-> loaded.recipe,
                   attempt |-> 1, reuse |-> Reusable(rtl), timeout |-> FALSE]
    /\ verdict' = NoVerdict
    /\ UNCHANGED <<rtl, stamp, gds, achieved, edits, quiet, slow>>

\* The PDK is missing: the job fails after the chip directory was cleared.
StartFails ==
    /\ Prepare
    /\ End("fail")
    /\ UNCHANGED <<rtl, stamp, gds, achieved, edits, quiet, slow>>

-----------------------------------------------------------------------------
(* The attempts *)

\* The layouts below runs/ after one more run: as before, or a finished one, or
\* a stream without metrics, which only counts when there is no finished one.
After(src, clock) ==
    {chip.layout}
        \cup {[built |-> src, clock |-> clock, faults |-> f] : f \in SUBSET {"late", "dirty"}}
        \cup IF chip.layout = Nothing
             THEN {[built |-> src, clock |-> clock, faults |-> {"unknown"}]} ELSE {}

\* What the tuner sees: the newest metrics, be they of this run or an earlier one,
\* and the log's "GPL-0302".
Seen(layout) ==
    LET metrics == IF layout = Nothing THEN {} ELSE layout.faults \ {"unknown"}
    IN  IF layout = chip.layout THEN {metrics, metrics \cup {"dirty"}} ELSE {metrics}

\* The clocks and recipes the tuner may go to: a miss relaxes the clock, another
\* violation climbs the ladder when there is a rung for it.
Relaxed(seen) == IF "late" \in seen THEN job.clock + 1 .. MaxClock ELSE {job.clock}
Climbed(seen) ==
    {job.recipe} \cup IF "dirty" \in seen /\ job.recipe < MaxRecipe THEN {job.recipe + 1} ELSE {}

OutOfAttempts == job.attempt = MaxAttempts

\* The metrics seen of the new layout call for this clock and recipe: the RTL is
\* staged again, the new constraints are saved and the next attempt starts, if any
\* is left.
Retune(layout, seen, clock, recipe) ==
    /\ <<clock, recipe>> # <<job.clock, job.recipe>>
    /\ chip' = [chip EXCEPT !.layout = layout]
    /\ slow' = IF "late" \in seen THEN slow \cup {job.src} ELSE slow
    /\ tune' = [rtl |-> job.fp, clock |-> clock, recipe |-> recipe]
    /\ job' = [job EXCEPT !.clock = clock, !.recipe = recipe, !.src = rtl,
                          !.attempt = IF OutOfAttempts THEN @ ELSE @ + 1,
                          !.at = IF OutOfAttempts THEN "finish" ELSE @]

\* LibreLane runs, and the tuner finds something to change.
Attempt ==
    /\ job.at = "attempt"
    /\ \E layout \in After(job.src, job.clock) : \E seen \in Seen(layout) :
        \E clock \in Relaxed(seen), recipe \in Climbed(seen) :
            Retune(layout, seen, clock, recipe)
    /\ UNCHANGED <<rtl, stamp, gds, achieved, verdict, edits, quiet>>

\* LibreLane runs and nothing is left to change.
LastAttempt ==
    /\ job.at = "attempt"
    /\ \E layout \in After(job.src, job.clock) : \E seen \in Seen(layout) :
        /\ "late" \notin seen
        /\ chip' = [chip EXCEPT !.layout = layout]
    /\ job' = [job EXCEPT !.at = "finish"]
    /\ UNCHANGED <<rtl, stamp, tune, gds, achieved, verdict, edits, quiet, slow>>

AttemptTimesOut ==
    /\ job.at = "attempt"
    /\ chip' \in {chip, [chip EXCEPT !.layout =
                          IF @ = Nothing THEN [built |-> job.src, clock |-> job.clock,
                                               faults |-> {"unknown"}] ELSE @]}
    /\ job' = [job EXCEPT !.at = "finish", !.timeout = TRUE]
    /\ UNCHANGED <<rtl, stamp, tune, gds, achieved, verdict, edits, quiet, slow>>

\* librelane is not on PATH.
AttemptNotFound ==
    /\ job.at = "attempt"
    /\ chip' = IF chip.layout = Nothing THEN chip ELSE [chip EXCEPT !.fp = job.fp]
    /\ End("fail")
    /\ UNCHANGED <<rtl, stamp, tune, gds, achieved, edits, quiet, slow>>

-----------------------------------------------------------------------------
\* The run is fingerprinted, the gates add their errors, the clock is published
\* and the layout, if there is one, delivered.  A netlist with conflicting drivers
\* or without the declared storage is an error too.
Finish ==
    /\ job.at = "finish"
    /\ chip' = IF job.reuse \/ chip.layout = Nothing THEN chip ELSE [chip EXCEPT !.fp = job.fp]
    /\ achieved' = job.clock
    /\ gds' = IF chip.layout = Nothing THEN gds ELSE chip.layout
    /\ \E sound \in BOOLEAN :
        End(IF sound /\ ~job.timeout /\ Verified(rtl) /\ chip.layout # Nothing
            THEN "pass" ELSE "fail")
    /\ UNCHANGED <<rtl, stamp, tune, edits, quiet, slow>>

\* The service restarts: the job is gone, the workspace stays as it is.
Crash ==
    /\ job.at # "idle"
    /\ job' = Idle
    /\ UNCHANGED <<rtl, stamp, tune, chip, gds, achieved, verdict, edits, quiet, slow>>

-----------------------------------------------------------------------------
RunHarden ==
    \/ Start
    \/ StartFails
    \/ Attempt
    \/ LastAttempt
    \/ AttemptTimesOut
    \/ AttemptNotFound
    \/ Finish

Next ==
    \/ \E v \in Versions : Edit(v)
    \/ Simulate
    \/ RunHarden
    \/ Crash

Spec == Init /\ [][Next]_vars

-----------------------------------------------------------------------------
(* Properties *)

\* Every variable keeps its type.
TypeOK ==
    /\ rtl \in Versions
    /\ stamp \in Versions \cup {Nothing}
    /\ tune \in Tunes \cup {Nothing}
    /\ chip \in [fp : Versions \cup {Nothing}, layout : Layout \cup {Nothing}]
    /\ gds \in Layout \cup {Nothing}
    /\ achieved \in 0..MaxClock
    /\ job \in [at : {"idle", "attempt", "finish"}, fp : Versions \cup {Nothing},
                src : Versions \cup {Nothing}, clock : 1..MaxClock, recipe : 0..MaxRecipe,
                attempt : 0..MaxAttempts, reuse : BOOLEAN, timeout : BOOLEAN]
    /\ verdict \in [result : {"none", "pass", "fail"}, rtl : Versions \cup {Nothing},
                    stamp : Versions \cup {Nothing}]
    /\ edits \in 0..MaxEdits
    /\ quiet \in BOOLEAN
    /\ slow \subseteq Versions

\* A passing job delivers the layout of the RTL it was asked for: neither a reused
\* run nor a stale file of an earlier design is passed off as this one's.
LayoutIsFresh ==
    (quiet /\ verdict.result = "pass") => gds # Nothing /\ gds.built = verdict.rtl

\* Hardening only passes Verilog that SIM verified, reused layouts included.
VerifiedCode ==
    (quiet /\ verdict.result = "pass" /\ verdict.stamp # Nothing)
        => Code[gds.built] = Code[verdict.stamp]

\* No design inherits the clock of another: a job that runs slower than its design
\* asks for runs an RTL that has itself missed timing.
SlowOnlyWhenLate ==
    (quiet /\ job.at # "idle" /\ job.clock > Base(job.fp)) => job.fp \in slow

\* A job goes on where the last one for the same RTL stopped, through crashes and
\* timeouts, unless the saved clock is slower than the declared one.
TuneIsResumed ==
    (/\ job.at = "attempt" /\ tune # Nothing /\ tune.rtl = job.fp
     /\ Declared[job.fp] = 0 \/ tune.clock <= Declared[job.fp])
        => job.clock >= tune.clock /\ job.recipe >= tune.recipe

-----------------------------------------------------------------------------
(* What the comments claim and the code does not keep *)

\* "Record what the SILICON actually closes at, always": after a job whose layout
\* is clean the published clock is the one that layout was built for.
AchievedIsClosed ==
    (quiet /\ verdict.result = "pass" /\ gds.faults = {}) => achieved = gds.clock

\* "harden ONLY what SIM actually verified": the layout of a passing job was built
\* from exactly the files SIM ran.
OnlyVerified ==
    (quiet /\ verdict.result = "pass" /\ verdict.stamp # Nothing)
        => gds.built = verdict.stamp
===============================================================================
