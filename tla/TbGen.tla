--------------------------------- MODULE TbGen --------------------------------
(***************************************************************************)
(* The stage TB_GEN (run_tb_gen, agent-service/agents/stage_handlers.py):  *)
(* a deep agent writes one testbench per module, the stage lists what is   *)
(* missing and sends the agent back a bounded number of times, and it      *)
(* fails when its list is not empty.  The list is made before a repair     *)
(* pass and not after the last one.                                        *)
(***************************************************************************)
EXTENDS Naturals, FiniteSets

CONSTANTS
    Units,    \* modules below the top: contract, vectors and hierarchy
    Top,
    UnitCap,  \* unit modules asked for, 16 in the code
    ElabCap,  \* unit testbenches elaborated, 12 in the code
    Rounds    \* TB_REPAIR_ROUNDS

VARIABLES
    phase,   \* where run_tb_gen is
    deep,    \* _deep_enabled
    images,  \* the user attached pictures that are chip input
    mem,     \* rtl/ holds a .mem stimulus
    units,   \* the unit modules of this run, cut off at UnitCap
    elab,    \* those of them whose testbench is elaborated
    bench,   \* tb/: what there is for every module
    golden,  \* waves/golden_output.mem is there
    missing, \* the list as last made
    rounds   \* repair passes made

vars == <<phase, deep, images, mem, units, elab, bench, golden, missing, rounds>>
inputs == <<deep, images, mem, units, elab>>

\* A testbench is good; or never fails on a wrong value (weak); does not elaborate with
\* the RTL (foreign); is SystemVerilog (legacy); does not dump the chip's output (mute);
\* names another wave file or reaches inside the DUT (unfit); writes golden_output.mem
\* itself (golden).
Kinds == {"absent", "good", "weak", "foreign", "legacy", "mute", "unfit", "golden"}
Benches == [Units \cup {Top} -> Kinds]
Items == {"main", "uncovered", "elaboration", "stray", "wave or ports", "dump",
          "own golden", "weak", "golden output"}

-----------------------------------------------------------------------------
\* A prefix of the list of unit modules, no longer than n.
Prefixes(s, n) ==
    {p \in SUBSET s : Cardinality(p) = IF Cardinality(s) < n THEN Cardinality(s) ELSE n}

\* "bool(data_images) or any .mem in status files": the files of _rtl_status are Verilog
\* files, so that only the pictures count.
NeedsOutput == images

IsFile(m) == bench[m] \notin {"absent", "legacy"}
Covered == {m \in units : IsFile(m)}

\* Mutant: the main testbench only.
MissingAtTop ==
    {i \in Items :
        \/ i = "main" /\ ~IsFile(Top)
        \/ i = "dump" /\ NeedsOutput /\ bench[Top] = "mute"
        \/ i = "own golden" /\ bench[Top] = "golden"
        \/ i = "golden output" /\ NeedsOutput /\ ~golden}
\* The deliverables that are missing.
Missing ==
    {i \in Items :
        \/ i = "main" /\ ~IsFile(Top)
        \/ i = "uncovered" /\ units # Covered
        \/ i = "elaboration" /\ \E m \in elab \cup {Top} : bench[m] = "foreign"
        \/ i = "stray" /\ \E m \in Units \cup {Top} : bench[m] = "legacy"
        \/ i = "wave or ports" /\ bench[Top] = "unfit"
        \/ i = "dump" /\ NeedsOutput /\ bench[Top] = "mute"
        \/ i = "own golden" /\ bench[Top] = "golden"
        \/ i = "weak" /\ \E m \in Units \cup {Top} : bench[m] = "weak"
        \/ i = "golden output" /\ NeedsOutput /\ ~golden}

-----------------------------------------------------------------------------
Init ==
    /\ phase = "start"
    /\ deep \in BOOLEAN /\ images \in BOOLEAN /\ mem \in BOOLEAN
    /\ units \in Prefixes(Units, UnitCap) /\ elab \in Prefixes(units, ElabCap)
    /\ bench = [m \in Units \cup {Top} |-> "absent"]
    /\ golden \in BOOLEAN
    /\ missing = {} /\ rounds = 0

Start ==
    /\ phase = "start"
    /\ phase' = IF deep THEN "agent" ELSE "template"
    /\ UNCHANGED <<inputs, bench, golden, missing, rounds>>

\* A pass of the agent leaves any testbenches; it may also write or delete the dump.
AgentPass ==
    /\ phase = "agent"
    /\ bench' \in Benches /\ golden' \in BOOLEAN
    /\ phase' = IF rounds < Rounds THEN "check" ELSE "judge"
    /\ UNCHANGED <<inputs, missing, rounds>>

ProviderRefuses ==
    /\ phase = "agent"
    /\ phase' = "failed"
    /\ UNCHANGED <<inputs, bench, golden, missing, rounds>>

\* One turn of the loop: list what is missing, and send the agent back if anything is.
Check ==
    /\ phase = "check"
    /\ missing' = Missing
    /\ rounds' = IF missing' = {} THEN rounds ELSE rounds + 1
    /\ phase' = IF missing' = {} THEN "judge" ELSE "agent"
    /\ UNCHANGED <<inputs, bench, golden>>

\* Mutant: coverage decides.
JudgeByCoverage ==
    /\ phase = "judge"
    /\ phase' = IF "main" \notin missing /\ units = Covered THEN "done" ELSE "failed"
    /\ UNCHANGED <<inputs, bench, golden, missing, rounds>>
\* The stage fails when the list, as it was before the last pass, names anything.
Judge ==
    /\ phase = "judge"
    /\ phase' = IF missing = {} THEN "done" ELSE "failed"
    /\ UNCHANGED <<inputs, bench, golden, missing, rounds>>

\* generate_tb: one testbench from the model or from a template, for the top.
Template ==
    /\ phase = "template"
    /\ \E k \in {"good", "mute", "weak", "foreign", "unfit"} :
          bench' = [bench EXCEPT ![Top] = k]
    /\ phase' = "done"
    /\ UNCHANGED <<inputs, golden, missing, rounds>>

\* The stage runs again, on the files it left.
Rerun ==
    /\ phase \in {"done", "failed"}
    /\ phase' = "start"
    /\ units' \in Prefixes(Units, UnitCap) /\ elab' \in Prefixes(units', ElabCap)
    /\ missing' = {} /\ rounds' = 0
    /\ UNCHANGED <<deep, images, mem, bench, golden>>

Steps == Start \/ AgentPass \/ ProviderRefuses \/ Check \/ Judge \/ Template

Next == Steps \/ Rerun

Spec == Init /\ [][Next]_vars

\* Agent passes and elaborations end in time.
Fairness == WF_vars(Steps)

-----------------------------------------------------------------------------
(* Properties *)

\* Every variable keeps its type.
TypeOK ==
    /\ phase \in {"start", "agent", "check", "judge", "template", "done", "failed"}
    /\ deep \in BOOLEAN /\ images \in BOOLEAN /\ mem \in BOOLEAN
    /\ units \subseteq Units /\ elab \subseteq units
    /\ bench \in Benches /\ golden \in BOOLEAN
    /\ missing \subseteq Items /\ rounds \in 0 .. Rounds

Delivered == phase = "done" /\ deep

\* What is delivered is usable as it lies on disk: every unit that was asked for has a
\* testbench, all of them can fail, those that were looked at elaborate, the chip's own
\* uses the pins.
DeliveredIsUsable ==
    Delivered =>
        /\ IsFile(Top) /\ bench[Top] \in {"good", "mute"}
        /\ \A m \in units : IsFile(m) /\ bench[m] # "weak"
        /\ \A m \in elab : bench[m] # "foreign"

\* With a picture as input the output can be compared: the dump of the chip and the
\* desired output are both there.
ImageOutputIsDumped == (Delivered /\ images) => bench[Top] # "mute" /\ golden

\* Why they hold: an empty list that is judged is the list of what lies on disk, since the
\* pass after the last list is only made when that one was not empty.
ListInv ==
    /\ bench \in Benches /\ units \subseteq Units /\ elab \subseteq units
    /\ rounds \in Nat
    /\ phase = "template" => ~deep
    /\ phase = "start" => rounds = 0
    /\ phase = "agent" /\ rounds > 0 => missing # {}
    /\ phase = "judge" /\ missing = {} => Missing = {}
    /\ DeliveredIsUsable /\ ImageOutputIsDumped

-----------------------------------------------------------------------------
(* What the comments claim and the code does not keep *)

\* "Still outstanding": what the failure lists is missing.
FailureIsOutstanding == (phase = "failed" /\ rounds = Rounds /\ missing # {}) => Missing # {}

\* "every leaf IP, every sub-toplevel and the toplevel gets its own" testbench.
EveryModuleHasBench == Delivered => \A m \in Units \cup {Top} : IsFile(m)

\* The stimulus in rtl/*.mem asks for a dump of the output: SIM fails without it.
StimulusIsDumped == (Delivered /\ mem) => bench[Top] # "mute"

\* A testbench that writes its own golden output is rejected.
NoOwnGolden == Delivered => \A m \in units \cup {Top} : bench[m] # "golden"
===============================================================================
