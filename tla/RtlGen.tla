-------------------------------- MODULE RtlGen --------------------------------
(***************************************************************************)
(* The stage RTL_GEN (run_rtl_gen, agent-service/agents/stage_handlers.py, *)
(* with agents/rtl_author.py as its one-shot author).  A deep agent writes *)
(* rtl/; passes that repair, that write single modules and that write      *)
(* again what was deleted follow; then the directory is held against the   *)
(* contract the user approved at the golden gate.                          *)
(*                                                                         *)
(* The stage keeps what it last saw of the directory in local variables    *)
(* (report) and looks again after some of the steps that change it.        *)
(***************************************************************************)
EXTENDS RtlDirectory, StageLimits

VARIABLES
    phase,     \* where run_rtl_gen is
    deep,      \* _deep_enabled
    contract,  \* the modules of the golden contract, headers excluded
    planned,   \* the files the build contract names
    brief,     \* the brief tells of a serial interface
    report,    \* files, broken, missing and gaps as last computed
    passes,    \* passes, sweeps or repairs made in this phase
    deleted,   \* modules deleted for their frame buffers
    oneShot    \* the compile verdict of the one-shot author, or "none"

vars == <<rtl, phase, deep, contract, planned, brief, report, passes, deleted, oneShot>>
inputs == <<deep, contract, planned, brief>>

Reports ==
    [files : SUBSET Modules, broken : SUBSET Modules, missing : SUBSET Modules,
     gaps : SUBSET {"frame buffers", "rules", "contract", "one file"}]

\* _rtl_status, _missing and _rtl_structure_gaps, computed together.
ReportOn(dir) ==
    [files |-> Files(dir), broken |-> Broken(dir), missing |-> Missing(planned, dir),
     gaps |-> StructureGaps(contract, brief, dir)]

NoReport == [files |-> {}, broken |-> {}, missing |-> {}, gaps |-> {}]

Init ==
    /\ rtl = [m \in Modules |-> "absent"]
    /\ phase = "start"
    /\ deep \in BOOLEAN /\ brief \in BOOLEAN
    /\ contract \in SUBSET Modules
    /\ planned \in {contract, Modules}
    /\ report = NoReport /\ passes = 0 /\ deleted = {} /\ oneShot = "none"

-----------------------------------------------------------------------------
\* What a pass of a deep agent does to rtl/: anything.
AgentWrites == rtl' \in Directories

\* The provider refuses a pass: what earlier passes wrote stays, the stage fails.
ProviderRefuses ==
    /\ phase \in {"generate", "complete", "modules", "regenerate"}
    /\ phase' = "failed"
    /\ UNCHANGED <<rtl, inputs, report, passes, deleted, oneShot>>

Start ==
    /\ phase = "start"
    /\ phase' = IF deep THEN "generate" ELSE "author"
    /\ UNCHANGED <<rtl, inputs, report, passes, deleted, oneShot>>

Generate ==
    /\ phase = "generate"
    /\ AgentWrites
    /\ report' = ReportOn(rtl')
    /\ phase' = "complete" /\ passes' = 0
    /\ UNCHANGED <<inputs, deleted, oneShot>>

Complete(r) == r.files # {} /\ r.broken = {} /\ r.missing = {} /\ r.gaps = {}

\* A pass of the completeness gate, with what is missing, broken or misplaced.
CompletePass ==
    /\ phase = "complete" /\ passes < RepairPasses /\ ~Complete(report)
    /\ AgentWrites
    /\ report' = ReportOn(rtl')
    /\ passes' = passes + 1
    /\ UNCHANGED <<phase, inputs, deleted, oneShot>>

CompletePassesEnd ==
    /\ phase = "complete" /\ (passes = RepairPasses \/ Complete(report))
    /\ phase' = "modules" /\ passes' = 0
    /\ UNCHANGED <<rtl, inputs, report, deleted, oneShot>>

\* Mutant: a sweep is repeated while modules are missing.
ModuleSweepUncounted ==
    /\ phase = "modules" /\ Unimplemented(contract, rtl) # {}
    /\ AgentWrites
    /\ report' = ReportOn(rtl')
    /\ UNCHANGED <<passes, phase, inputs, deleted, oneShot>>

\* A sweep with one focused pass for every module of the contract without RTL.
ModuleSweep ==
    /\ phase = "modules" /\ passes < Sweeps /\ Unimplemented(contract, rtl) # {}
    /\ AgentWrites
    /\ report' = ReportOn(rtl')
    /\ passes' = passes + 1
    /\ UNCHANGED <<phase, inputs, deleted, oneShot>>

\* Every module with a frame buffer is deleted, in a streaming design or not.
Deframe ==
    /\ phase = "modules" /\ (passes = Sweeps \/ Unimplemented(contract, rtl) = {})
    /\ deleted' = With("framed", rtl)
    /\ rtl' = [m \in Modules |-> IF m \in deleted' THEN "absent" ELSE rtl[m]]
    /\ phase' = IF deleted' = {} THEN "judge" ELSE "regenerate"
    /\ passes' = 0
    /\ UNCHANGED <<inputs, report, oneShot>>

\* The modules of the contract that are gone are written again.
Regenerate ==
    /\ phase = "regenerate" /\ passes < Sweeps /\ Unimplemented(contract, rtl) # {}
    /\ AgentWrites
    /\ report' = ReportOn(rtl')
    /\ passes' = passes + 1
    /\ UNCHANGED <<phase, inputs, deleted, oneShot>>

RegenerateEnds ==
    /\ phase = "regenerate" /\ (passes = Sweeps \/ Unimplemented(contract, rtl) = {})
    /\ phase' = "judge"
    /\ UNCHANGED <<rtl, inputs, report, passes, deleted, oneShot>>

\* _assert_contract_satisfied: with a contract every gap is fatal.
Unmet(r) == contract # {} /\ (r.gaps # {} \/ r.missing # {})

\* Mutant: a module of the contract counts as written when its file is there.
JudgeByPlan ==
    /\ phase = "judge"
    /\ phase' = IF contract # {} /\ report.missing # {} THEN "failed"
                ELSE IF report.files # {} THEN "done" ELSE "author"
    /\ passes' = 0
    /\ UNCHANGED <<rtl, inputs, report, deleted, oneShot>>
\* The judgement: the contract, the modules found now, then what the report says of
\* files; without files the one-shot author may take over.
Judge ==
    /\ phase = "judge"
    /\ phase' = IF Unmet(report) \/ Unimplemented(contract, rtl) # {} THEN "failed"
                ELSE IF report.files # {} THEN "done" ELSE "author"
    /\ passes' = 0
    /\ UNCHANGED <<rtl, inputs, report, deleted, oneShot>>

\* _single_module_contract_top: the contract is one module, the top, or there is none.
OneShotAllowed == contract \subseteq {Top}

AuthorRefused ==
    /\ phase = "author" /\ ~OneShotAllowed
    /\ phase' = "failed"
    /\ UNCHANGED <<rtl, inputs, report, passes, deleted, oneShot>>

\* generate_rtl: one file, compiled, repaired a bounded number of times; the module is
\* called as the model calls it.
Author ==
    /\ phase = "author" /\ OneShotAllowed /\ oneShot = "none"
    /\ oneShot' \in {"compiles", "fails"}
    /\ passes' = 0
    /\ UNCHANGED <<rtl, phase, inputs, report, deleted>>

AuthorRepairs ==
    /\ phase = "author" /\ oneShot = "fails" /\ passes < MaxRepairs
    /\ oneShot' \in {"compiles", "fails"}
    /\ passes' = passes + 1
    /\ UNCHANGED <<rtl, phase, inputs, report, deleted>>

AuthorDone ==
    /\ phase = "author"
    /\ oneShot = "compiles" \/ (oneShot = "fails" /\ passes = MaxRepairs)
    /\ \E m \in Modules :
          rtl' = [rtl EXCEPT ![m] = IF oneShot = "compiles" THEN "clean" ELSE "broken"]
    /\ report' = [NoReport EXCEPT
                     !.files = {m \in Modules : rtl'[m] # rtl[m]},
                     !.broken = {m \in Modules : rtl'[m] # rtl[m] /\ rtl'[m] = "broken"}]
    /\ phase' = "done"
    /\ UNCHANGED <<inputs, passes, deleted, oneShot>>

\* The stage is retried on the directory it left.
Retry ==
    /\ phase \in {"failed", "done"}
    /\ phase' = "start"
    /\ report' = NoReport /\ passes' = 0 /\ deleted' = {} /\ oneShot' = "none"
    /\ UNCHANGED <<rtl, inputs>>

Steps ==
    \/ Start \/ Generate \/ CompletePass \/ CompletePassesEnd \/ ModuleSweep
    \/ Deframe \/ Regenerate \/ RegenerateEnds \/ Judge \/ ProviderRefuses
    \/ AuthorRefused \/ Author \/ AuthorRepairs \/ AuthorDone

Next == Steps \/ Retry

Spec == Init /\ [][Next]_vars

\* The passes of an agent and the compilations are bounded in time, so that a run of the
\* stage goes on.
Fairness == WF_vars(Steps)

-----------------------------------------------------------------------------
(* Properties *)

Delivered == phase = "done"
ByAgent == Delivered /\ oneShot = "none"

\* Every variable keeps its type.
TypeOK ==
    /\ rtl \in Directories
    /\ phase \in {"start", "generate", "complete", "modules", "regenerate", "judge",
                  "author", "failed", "done"}
    /\ deep \in BOOLEAN /\ brief \in BOOLEAN
    /\ contract \subseteq Modules /\ planned \subseteq Modules
    /\ report \in Reports
    /\ passes \in 0 .. RepairPasses + Sweeps + MaxRepairs
    /\ deleted \subseteq Modules
    /\ oneShot \in {"none", "compiles", "fails"}

\* What the agent delivers under an approved contract implements every module of it.
ContractIsImplemented == ByAgent => Unimplemented(contract, rtl) = {}

\* No frame store is delivered in a streaming design under a contract, whichever of the
\* passes put it there.
NoFrameStore ==
    (ByAgent /\ contract # {} /\ Streaming(contract, brief, rtl)) =>
        With("framed", rtl) = {}

\* Where nothing was deleted, what the stage reports is what is on disk.
ReportIsCurrent == (ByAgent /\ deleted = {}) => report = ReportOn(rtl)

\* A stub never stands in for a decomposition the user approved.
StubOnlyForOneModule == (Delivered /\ oneShot # "none") => contract \subseteq {Top}

-----------------------------------------------------------------------------
(* What the comments claim and the code does not keep *)

\* "COMPLETENESS GATE: never report success with broken RTL or with planned modules
\* unwritten."
NeverBroken == ByAgent => Broken(rtl) = {} /\ Missing(planned, rtl) = {}

\* A frame-buffered module is made missing so that the generator can "produce it fresh":
\* what is delivered is on disk.
DeletedIsRegenerated == ByAgent => report.files \subseteq Files(rtl)
===============================================================================
