------------------------------ MODULE StagesProofs -----------------------------
(***************************************************************************)
(* Theorems about RTL_GEN (RtlGen), and about RTL_REPAIR, TB_GEN and       *)
(* HW_SW_VERIFY as the orchestrator sees them (MCStages): for every set of *)
(* modules, every contract and every number of passes, rounds and uploads, *)
(* and whatever agents and simulations leave in the workspace.             *)
(*                                                                         *)
(* Each stage has an inductive invariant, those of the last three stated   *)
(* in their modules; a step of another stage leaves it alone, because the  *)
(* stage rests meanwhile.                                                  *)
(*                                                                         *)
(* RTL_GEN judges a report that is older than the directory once it has    *)
(* deleted files.  Its invariant says what is known of the directory in    *)
(* spite of that: the report is current, or no frame buffer is left.       *)
(***************************************************************************)
EXTENDS MCStages, TLAPS

allVars == <<stage, vars, repairVars, benchVars, bridgeVars, queueVars>>

LEMMA SafetySpec == StagesSpec => StagesInit /\ [][StagesNext]_allVars
BY PTL DEF StagesSpec, allVars

-----------------------------------------------------------------------------
(* RTL_GEN *)

\* A report of any directory has its type.
LEMMA ReportType ==
    ASSUME NEW dir \in Directories, planned \subseteq Modules
    PROVE  ReportOn(dir) \in Reports
<1> DEFINE r == ReportOn(dir)
<1>1. Files(dir) \subseteq Modules /\ Broken(dir) \subseteq Modules
    BY DEF Files, Broken, With
<1>2. Missing(planned, dir) \subseteq Modules
    BY DEF Missing
<1>3. StructureGaps(contract, brief, dir)
          \subseteq {"frame buffers", "rules", "contract", "one file"}
    BY DEF StructureGaps
<1> QED BY <1>1, <1>2, <1>3 DEF ReportOn, Reports

LEMMA NoReportType == NoReport \in Reports
BY DEF NoReport, Reports

\* A report without gaps of structure is made of a directory without frame buffers, in a
\* design that streams.
LEMMA NoGapNoFrame ==
    ASSUME NEW dir, ReportOn(dir).gaps = {}, Streaming(contract, brief, dir)
    PROVE  With("framed", dir) = {}
<1>1. "frame buffers" \notin StructureGaps(contract, brief, dir)
    BY DEF ReportOn
<1> QED BY <1>1 DEF StructureGaps

\* A step that keeps the directory and the inputs keeps what would be reported of it.
LEMMA ReportKept ==
    ASSUME UNCHANGED <<rtl, inputs>>
    PROVE  /\ ReportOn(rtl)' = ReportOn(rtl)
           /\ Unimplemented(contract, rtl)' = Unimplemented(contract, rtl)
           /\ Streaming(contract, brief, rtl)' = Streaming(contract, brief, rtl)
           /\ With("framed", rtl)' = With("framed", rtl)
<1>1. rtl' = rtl /\ contract' = contract /\ planned' = planned /\ brief' = brief
    BY DEF inputs
<1>2. ReportOn(rtl)' = ReportOn(rtl)
    BY <1>1, Zenon DEF ReportOn
<1>3. Unimplemented(contract, rtl)' = Unimplemented(contract, rtl)
    BY <1>1, Zenon
<1>4. Streaming(contract, brief, rtl)' = Streaming(contract, brief, rtl)
    BY <1>1, Zenon
<1> QED BY <1>1, <1>2, <1>3, <1>4, Zenon

\* The deletion leaves a directory, and no frame buffer in it.
LEMMA DeframedType ==
    ASSUME NEW dir \in Directories, NEW next,
           next = [m \in Modules |-> IF m \in With("framed", dir) THEN "absent" ELSE dir[m]]
    PROVE  next \in Directories /\ With("framed", next) = {}
BY DEF Directories, With, Contents

-----------------------------------------------------------------------------
(* Types *)

LEMMA InitTyped == Init => TypeOK
<1> SUFFICES ASSUME Init PROVE TypeOK
    OBVIOUS
<1>1. rtl \in Directories /\ planned \subseteq Modules /\ contract \subseteq Modules
    BY DEF Init, Directories
<1>2. passes \in 0 .. RepairPasses + Sweeps + MaxRepairs
    BY PassesAssumption DEF Init
<1>3. deep \in BOOLEAN /\ brief \in BOOLEAN
    BY DEF Init
<1> QED BY <1>1, <1>2, <1>3, NoReportType DEF Init, TypeOK

\* A pass of the agent that is looked at again, within its bound.
LEMMA PassTyped ==
    ASSUME TypeOK, AgentWrites, report' = ReportOn(rtl'), UNCHANGED <<phase, inputs, deleted, oneShot>>,
           passes' = passes + 1, passes < RepairPasses \/ passes < Sweeps
    PROVE  TypeOK'
<1>1. rtl' \in Directories /\ planned \subseteq Modules
    BY DEF AgentWrites, TypeOK
<1>2. report' \in Reports
    BY <1>1, ReportType
<1>3. passes' \in 0 .. RepairPasses + Sweeps + MaxRepairs
    <2>1. passes \in 0 .. RepairPasses + Sweeps + MaxRepairs
        BY DEF TypeOK
    <2> QED BY <2>1, PassesAssumption
<1> QED BY <1>1, <1>2, <1>3 DEF TypeOK, inputs

LEMMA NextTyped == TypeOK /\ [Next]_vars => TypeOK'
<1> SUFFICES ASSUME TypeOK, [Next]_vars PROVE TypeOK'
    OBVIOUS
<1>0. 0 \in 0 .. RepairPasses + Sweeps + MaxRepairs
    BY PassesAssumption
<1>1. CASE Start
    BY <1>1 DEF Start, inputs, TypeOK
<1>2. CASE Generate
    <2>1. rtl' \in Directories /\ planned \subseteq Modules
        BY <1>2 DEF Generate, AgentWrites, TypeOK
    <2>2. report' \in Reports
        BY <1>2, <2>1, ReportType DEF Generate
    <2> QED BY <1>0, <1>2, <2>1, <2>2 DEF Generate, inputs, TypeOK
<1>3. CASE CompletePass
    BY <1>3, PassTyped DEF CompletePass
<1>4. CASE CompletePassesEnd
    BY <1>0, <1>4 DEF CompletePassesEnd, inputs, TypeOK
<1>5. CASE ModuleSweep
    BY <1>5, PassTyped DEF ModuleSweep
<1>6. CASE Deframe
    <2>1. rtl' \in Directories
        BY <1>6, DeframedType DEF Deframe, TypeOK
    <2>2. deleted' \subseteq Modules
        BY <1>6 DEF Deframe, With
    <2> QED BY <1>0, <1>6, <2>1, <2>2 DEF Deframe, inputs, TypeOK
<1>7. CASE Regenerate
    BY <1>7, PassTyped DEF Regenerate
<1>8. CASE RegenerateEnds
    BY <1>8 DEF RegenerateEnds, inputs, TypeOK
<1>9. CASE Judge
    BY <1>0, <1>9 DEF Judge, inputs, TypeOK
<1>10. CASE ProviderRefuses
    BY <1>10 DEF ProviderRefuses, inputs, TypeOK
<1>11. CASE AuthorRefused
    BY <1>11 DEF AuthorRefused, inputs, TypeOK
<1>12. CASE Author
    BY <1>0, <1>12 DEF Author, inputs, TypeOK
<1>13. CASE AuthorRepairs
    <2>1. passes' \in 0 .. RepairPasses + Sweeps + MaxRepairs
        <3>1. /\ passes \in 0 .. RepairPasses + Sweeps + MaxRepairs
              /\ passes < MaxRepairs /\ passes' = passes + 1
            BY <1>13 DEF AuthorRepairs, TypeOK
        <3> QED BY <3>1, PassesAssumption
    <2> QED BY <1>13, <2>1 DEF AuthorRepairs, inputs, TypeOK
<1>14. CASE AuthorDone
    <2>1. rtl' \in Directories
        BY <1>14 DEF AuthorDone, TypeOK, Directories, Contents
    <2>2. report' \in Reports
        BY <1>14 DEF AuthorDone, NoReport, Reports
    <2> QED BY <1>14, <2>1, <2>2 DEF AuthorDone, inputs, TypeOK
<1>15. CASE Retry
    BY <1>0, <1>15, NoReportType DEF Retry, inputs, TypeOK
<1>16. CASE UNCHANGED vars
    BY <1>16 DEF vars, inputs, TypeOK
<1> QED BY <1>1, <1>2, <1>3, <1>4, <1>5, <1>6, <1>7, <1>8, <1>9, <1>10, <1>11, <1>12, <1>13,
           <1>14, <1>15, <1>16 DEF Next, Steps

\* TypeOK holds for every set of modules and every number of passes.
THEOREM TypeCorrect == Spec => []TypeOK
BY InitTyped, NextTyped, PTL DEF Spec

-----------------------------------------------------------------------------
(* What the report still says of the directory *)

\* Up to the deletion the report is of the directory that is there.
ReportFollows ==
    phase \in {"complete", "modules"} => report = ReportOn(rtl)

\* Afterwards it is of the directory, or files were deleted, and then no frame buffer is
\* left.
ReportOrDeleted ==
    phase \in {"regenerate", "judge"} =>
        \/ report = ReportOn(rtl)
        \/ deleted # {} /\ With("framed", rtl) = {}

\* What one run deleted, and whether it went to the one-shot author, is not carried on to
\* the next one.
Fresh ==
    /\ phase \in {"start", "generate", "complete", "modules"} => deleted = {}
    /\ phase \in {"generate", "complete", "modules", "regenerate", "judge", "start"}
           => oneShot = "none"
    /\ oneShot # "none" => phase \in {"author", "done"} /\ OneShotAllowed

DeliveryInv ==
    /\ TypeOK /\ ReportFollows /\ ReportOrDeleted /\ Fresh
    /\ ContractIsImplemented /\ NoFrameStore /\ ReportIsCurrent /\ StubOnlyForOneModule

LEMMA InitDelivery == Init => DeliveryInv
BY InitTyped DEF Init, DeliveryInv, ReportFollows, ReportOrDeleted, Fresh, ByAgent, Delivered,
                 ContractIsImplemented, NoFrameStore, ReportIsCurrent, StubOnlyForOneModule

\* The judgement, the one step that delivers what the agent wrote.
LEMMA JudgeDelivers ==
    ASSUME DeliveryInv, Judge PROVE DeliveryInv'
<1>0. TypeOK'
    BY NextTyped DEF DeliveryInv, Next, Steps
<1>1. /\ phase = "judge" /\ oneShot = "none"
      /\ rtl' = rtl /\ report' = report /\ deleted' = deleted /\ oneShot' = oneShot
      /\ contract' = contract /\ brief' = brief /\ planned' = planned
      /\ phase' \in {"failed", "done", "author"}
    BY DEF Judge, inputs, DeliveryInv, Fresh
<1>2. phase' = "done" => ~Unmet(report) /\ Unimplemented(contract, rtl) = {}
    BY DEF Judge
<1>3. report = ReportOn(rtl) \/ (deleted # {} /\ With("framed", rtl) = {})
    BY <1>1 DEF DeliveryInv, ReportOrDeleted
<1>4. ContractIsImplemented'
    BY <1>1, <1>2 DEF ContractIsImplemented, ByAgent, Delivered, Unimplemented, Declared, Files,
                      With
<1>5. NoFrameStore'
    <2> SUFFICES ASSUME phase' = "done", contract # {}, Streaming(contract, brief, rtl)
                 PROVE  With("framed", rtl) = {}
        BY <1>1 DEF NoFrameStore, ByAgent, Delivered, Streaming, Files, With
    <2>1. report.gaps = {}
        BY <1>2 DEF Unmet
    <2> QED BY <1>3, <2>1, NoGapNoFrame
<1>6. ReportIsCurrent'
    <2>1. ReportOn(rtl)' = ReportOn(rtl)
        BY ReportKept DEF Judge
    <2> QED BY <1>1, <1>3, <2>1 DEF ReportIsCurrent
<1> QED BY <1>0, <1>1, <1>4, <1>5, <1>6 DEF DeliveryInv, ReportFollows, ReportOrDeleted, Fresh,
               StubOnlyForOneModule, Delivered

LEMMA NextDelivery == DeliveryInv /\ [Next]_vars => DeliveryInv'
<1> SUFFICES ASSUME DeliveryInv, [Next]_vars PROVE DeliveryInv'
    OBVIOUS
<1>0. TypeOK'
    BY NextTyped DEF DeliveryInv
<1> USE DEF DeliveryInv, ReportFollows, ReportOrDeleted, Fresh, ContractIsImplemented,
            NoFrameStore, ReportIsCurrent, StubOnlyForOneModule, ByAgent, Delivered, inputs
<1> DEFINE Looked == report' = ReportOn(rtl)'
<1>a. ASSUME report' = ReportOn(rtl'), UNCHANGED inputs PROVE Looked
    BY <1>a DEF ReportOn, StructureGaps, Streaming, Missing
<1>1. CASE Start
    BY <1>0, <1>1 DEF Start
<1>2. CASE Generate
    <2>1. Looked
        BY <1>2, <1>a DEF Generate
    <2> QED BY <1>0, <1>2, <2>1 DEF Generate
<1>3. CASE CompletePass
    <2>1. Looked
        BY <1>3, <1>a DEF CompletePass
    <2> QED BY <1>0, <1>3, <2>1 DEF CompletePass
<1>4. CASE CompletePassesEnd
    <2>1. ReportOn(rtl)' = ReportOn(rtl)
        BY <1>4, ReportKept DEF CompletePassesEnd
    <2> QED BY <1>0, <1>4, <2>1 DEF CompletePassesEnd
<1>5. CASE ModuleSweep
    <2>1. Looked
        BY <1>5, <1>a DEF ModuleSweep
    <2> QED BY <1>0, <1>5, <2>1 DEF ModuleSweep
<1>6. CASE Deframe
    <2>1. CASE With("framed", rtl) = {}
        <3>1. rtl' = rtl
            BY <1>6, <2>1 DEF Deframe, TypeOK, Directories
        <3>2. ReportOn(rtl)' = ReportOn(rtl)
            BY <1>6, <3>1, ReportKept DEF Deframe
        <3> QED BY <1>0, <1>6, <2>1, <3>2 DEF Deframe
    <2>2. CASE With("framed", rtl) # {}
        <3>1. With("framed", rtl') = {}
            BY <1>6, DeframedType DEF Deframe, TypeOK
        <3>2. With("framed", rtl)' = {}
            BY <3>1 DEF With
        <3> QED BY <1>0, <1>6, <2>2, <3>2 DEF Deframe
    <2> QED BY <2>1, <2>2
<1>7. CASE Regenerate
    <2>1. Looked
        BY <1>7, <1>a DEF Regenerate
    <2> QED BY <1>0, <1>7, <2>1 DEF Regenerate
<1>8. CASE RegenerateEnds
    <2>1. ReportOn(rtl)' = ReportOn(rtl) /\ With("framed", rtl)' = With("framed", rtl)
        BY <1>8, ReportKept DEF RegenerateEnds
    <2> QED BY <1>0, <1>8, <2>1 DEF RegenerateEnds
<1>9. CASE Judge
    BY <1>9, JudgeDelivers
<1>10. CASE ProviderRefuses
    BY <1>0, <1>10 DEF ProviderRefuses
<1>11. CASE AuthorRefused
    BY <1>0, <1>11 DEF AuthorRefused, OneShotAllowed
<1>12. CASE Author
    BY <1>0, <1>12 DEF Author, OneShotAllowed
<1>13. CASE AuthorRepairs
    BY <1>0, <1>13 DEF AuthorRepairs, OneShotAllowed
<1>14. CASE AuthorDone
    BY <1>0, <1>14 DEF AuthorDone, OneShotAllowed
<1>15. CASE Retry
    BY <1>0, <1>15 DEF Retry
<1>16. CASE UNCHANGED vars
    <2>1. UNCHANGED <<rtl, inputs>>
        BY <1>16 DEF vars
    <2> QED BY <1>0, <1>16, <2>1, ReportKept DEF vars, OneShotAllowed
<1> QED BY <1>1, <1>2, <1>3, <1>4, <1>5, <1>6, <1>7, <1>8, <1>9, <1>10, <1>11, <1>12, <1>13,
           <1>14, <1>15, <1>16 DEF Next, Steps

\* The types, what the report says of the directory at each place, and what is delivered
\* (run_rtl_gen).
THEOREM DeliveryCorrect == Spec => []DeliveryInv
BY InitDelivery, NextDelivery, PTL DEF Spec

\* What the agent delivers implements every module of the approved contract.
THEOREM ContractImplemented == Spec => []ContractIsImplemented
BY DeliveryCorrect, PTL DEF DeliveryInv

\* Under a contract no frame store is delivered in a streaming design, although the stage
\* judges a report made before its deletions.
THEOREM FrameStoreRefused == Spec => []NoFrameStore
BY DeliveryCorrect, PTL DEF DeliveryInv

\* Where nothing was deleted the report is of what is on disk.
THEOREM ReportCurrent == Spec => []ReportIsCurrent
BY DeliveryCorrect, PTL DEF DeliveryInv

\* The one-shot author never replaces a contract of several modules.
THEOREM StubRefused == Spec => []StubOnlyForOneModule
BY DeliveryCorrect, PTL DEF DeliveryInv
\* The same of RTL_GEN among the other stages, of which RTL_REPAIR writes in its directory.
THEOREM ContractOfStages == StagesSpec => []ContractIsImplemented
<1> DEFINE Generating == IF stage = "RTL_GEN" THEN DeliveryInv ELSE phase = "failed"
<1>1. StagesInit => Generating
    BY InitDelivery DEF StagesInit, GenRests
<1>2. Generating /\ [StagesNext]_allVars => Generating'
    <2> SUFFICES ASSUME Generating, [StagesNext]_allVars PROVE Generating'
        OBVIOUS
    <2>0. stage' = stage
        BY DEF StagesNext, allVars
    <2>1. CASE stage = "RTL_GEN"
        <3>1. [Next]_vars
            BY <2>1 DEF StagesNext, allVars
        <3> QED BY <2>0, <2>1, <3>1, NextDelivery
    <2>2. CASE stage # "RTL_GEN"
        BY <2>0, <2>2 DEF StagesNext, allVars, genVars, vars, inputs
    <2> QED BY <2>1, <2>2
<1>3. Generating => ContractIsImplemented
    BY DEF DeliveryInv, ContractIsImplemented, ByAgent, Delivered
<1> QED BY <1>1, <1>2, <1>3, SafetySpec, PTL

-----------------------------------------------------------------------------
(* RTL_REPAIR *)

LEMMA InitRepair == Repair!Init => Repair!RepairInv
BY DEF Repair!Init, Repair!RepairInv, Repair!UnderWay, Repair!EvidenceIsAnswered,
   Repair!ConclusionIsCurrent, Repair!RepairIsGated, Repair!Ended

\* Of a run that goes on the passes are counted, and status is of the files.
LEMMA PassKeepsRepair ==
    ASSUME Repair!RepairInv, repairPhase \in Repair!UnderWay, NEW next \in Repair!UnderWay,
           Repair!PassThen(next)
    PROVE  Repair!RepairInv'
<1>1. repairPasses' \in Nat /\ repairPasses' # 0
    <2>1. repairPasses \in Nat
        BY DEF Repair!RepairInv
    <2>2. repairPasses' = repairPasses + 1
        BY DEF Repair!PassThen
    <2> QED BY <2>1, <2>2
<1>2. repairStatus' = Repair!Broken(rtl)'
    BY DEF Repair!PassThen, Repair!Broken, Repair!With
<1>3. Repair!DispatchedWithReason'
    BY DEF Repair!RepairInv, Repair!DispatchedWithReason, Repair!PassThen, Repair!evidence,
           Repair!inputs
<1>4. repairPhase' \notin {"one file", "done"}
    BY DEF Repair!PassThen, Repair!UnderWay
<1> QED BY <1>1, <1>2, <1>3, <1>4 DEF Repair!RepairInv, Repair!EvidenceIsAnswered,
           Repair!ConclusionIsCurrent, Repair!RepairIsGated, Repair!Ended

\* Nothing was due: what was ruled out before stays so, and one thing more is.
LEMMA SkipKeepsRepair ==
    ASSUME Repair!RepairInv, repairPhase \in Repair!UnderWay, NEW from, NEW next,
           Repair!Skip(from, next),
           \/ from = "synthesis" /\ next = "simulation" /\ ~Repair!SynthesisDue
           \/ from = "simulation" /\ next = "instruction" /\ ~Repair!SimulationDue
           \/ from = "instruction" /\ next = "compile" /\ ~Repair!InstructionDue
    PROVE  Repair!RepairInv'
<1>1. UNCHANGED <<rtl, Repair!inputs, Repair!evidence, repairSource, repairBefore, repairStatus,
                  repairPasses, repairGated, repairMode>>
      /\ repairPhase = from /\ repairPhase' = next
    BY DEF Repair!Skip
<1>2. UNCHANGED <<Repair!SynthesisDue, Repair!SimulationDue, Repair!InstructionDue,
                  Repair!DispatchedWithReason, Repair!Broken(rtl)>>
    BY <1>1 DEF Repair!SynthesisDue, Repair!SimulationDue, Repair!InstructionDue,
       Repair!SynthError, Repair!SimFailed, Repair!NamesSimulation, Repair!NamesHardening,
       Repair!IsLong, Repair!inputs, Repair!evidence, Repair!DispatchedWithReason, Repair!Broken,
       Repair!With
<1>3. repairPasses = 0 => Repair!RuledOut'
    BY <1>1, <1>2 DEF Repair!RepairInv, Repair!RuledOut
<1>4. repairPhase' \notin {"one file", "done"}
    BY <1>1
<1> QED BY <1>1, <1>2, <1>3, <1>4 DEF Repair!RepairInv, Repair!EvidenceIsAnswered,
           Repair!ConclusionIsCurrent, Repair!RepairIsGated, Repair!Ended

\* A run that has made a pass ends with the status of what it leaves.
LEMMA PassedKeepsRepair ==
    ASSUME repairPhase' = "done", repairPasses' \in Nat, repairPasses' # 0,
           repairStatus' = Repair!Broken(rtl)', Repair!RepairIsGated'
    PROVE  Repair!RepairInv'
<1>1. repairPasses' > 0
    OBVIOUS
<1>2. Repair!EvidenceIsAnswered' /\ Repair!ConclusionIsCurrent'
    BY <1>1 DEF Repair!EvidenceIsAnswered, Repair!ConclusionIsCurrent
<1> QED BY <1>2 DEF Repair!RepairInv, Repair!UnderWay

\* The run ends with at least two passes, or none of the rules was broken.
LEMMA RegressionKeepsRepair ==
    ASSUME Repair!RepairInv, NEW from \in {"simulated", "followed"}, NEW m,
           Repair!RegressionPass(from, m)
    PROVE  Repair!RepairInv'
<1> DEFINE gaps == Repair!Gaps(rtl)
<1>1. repairPhase = from /\ repairPhase' = "done" /\ repairGated' = TRUE
    BY DEF Repair!RegressionPass
<1>2. repairPasses \in Nat /\ repairPasses # 0
    BY <1>1 DEF Repair!RepairInv, Repair!RuledOut, Repair!UnderWay
<1>3. repairPasses' \in Nat /\ repairPasses' # 0
    BY <1>2 DEF Repair!RegressionPass
<1>4. repairStatus' = Repair!Broken(rtl)'
    BY DEF Repair!RegressionPass, Repair!Broken, Repair!With
<1>5. repairPasses' = 1 => Repair!Gaps(rtl)' = {}
    <2>1. CASE gaps # {}
        BY <1>2, <2>1 DEF Repair!RegressionPass
    <2>2. CASE gaps = {}
        <3>1. UNCHANGED <<rtl, repairContract, repairSerial>>
            BY <2>2 DEF Repair!RegressionPass, Repair!inputs
        <3>2. Repair!Gaps(rtl)' = gaps
            BY <3>1 DEF Repair!Gaps, Repair!StructureGaps, Repair!Streaming, Repair!With,
               Repair!Unimplemented, Repair!Declared, Repair!Files
        <3> QED BY <2>2, <3>2
    <2> QED BY <2>1, <2>2
<1>6. Repair!RepairIsGated'
    BY <1>1, <1>5 DEF Repair!RepairIsGated
<1> QED BY <1>1, <1>3, <1>4, <1>6, PassedKeepsRepair

\* "Already clean" is only said of RTL nobody has evidence against.
LEMMA CleanKeepsRepair ==
    ASSUME Repair!RepairInv, Repair!AlreadyClean
    PROVE  Repair!RepairInv'
<1>1. /\ repairPhase = "compile" /\ repairPhase' = "done" /\ repairMode' = "clean"
      /\ UNCHANGED <<rtl, repairStatus, repairPasses, repairBefore, repairSource, repairSimLog,
                     repairSynth, repairDeep>>
      /\ repairStatus = {}
    BY DEF Repair!AlreadyClean, Repair!inputs, Repair!evidence
<1>2. /\ Repair!DispatchedWithReason /\ repairStatus = Repair!Broken(rtl)
      /\ repairPasses = 0 =>
            /\ ~Repair!SynthesisDue /\ ~Repair!SimulationDue /\ ~Repair!InstructionDue
            /\ rtl = repairBefore
    BY <1>1 DEF Repair!RepairInv, Repair!UnderWay, Repair!RuledOut
<1>3. Repair!Broken(rtl)' = Repair!Broken(rtl) /\ Repair!Broken(repairBefore)' = Repair!Broken(repairBefore)
    BY <1>1 DEF Repair!Broken, Repair!With
<1>4. repairPasses = 0 =>
        /\ Repair!Broken(repairBefore) = {} /\ repairSimLog # "failed"
        /\ repairSource = "flow" /\ repairSynth # "rtl"
    BY <1>1, <1>2 DEF Repair!SynthesisDue, Repair!SimulationDue, Repair!InstructionDue,
       Repair!SynthError, Repair!SimFailed, Repair!NamesSimulation, Repair!NamesHardening,
       Repair!DispatchedWithReason
<1>5. Repair!EvidenceIsAnswered'
    BY <1>1, <1>3, <1>4 DEF Repair!EvidenceIsAnswered, Repair!RepairInv
<1> QED BY <1>1, <1>2, <1>3, <1>5 DEF Repair!RepairInv, Repair!ConclusionIsCurrent,
           Repair!RepairIsGated, Repair!Ended, Repair!UnderWay

LEMMA StutterKeepsRepair ==
    ASSUME UNCHANGED Repair!vars
    PROVE  UNCHANGED <<Repair!RepairInv, Repair!LeaveAloneInv>>
<1> USE DEF Repair!vars
<1>1. UNCHANGED <<Repair!Broken(rtl), Repair!Broken(repairBefore), Repair!Gaps(rtl)>>
    BY DEF Repair!Broken, Repair!With, Repair!Gaps, Repair!StructureGaps, Repair!Streaming,
       Repair!Unimplemented, Repair!Declared, Repair!Files
<1>2. UNCHANGED <<Repair!SynthesisDue, Repair!SimulationDue, Repair!InstructionDue>>
    BY DEF Repair!SynthesisDue, Repair!SimulationDue, Repair!InstructionDue, Repair!SynthError,
       Repair!SimFailed, Repair!NamesSimulation, Repair!NamesHardening, Repair!IsLong
<1>3. UNCHANGED <<Repair!RuledOut, Repair!DispatchedWithReason, Repair!Untouchable>>
    BY <1>1, <1>2 DEF Repair!RuledOut, Repair!DispatchedWithReason, Repair!Untouchable
<1>4. UNCHANGED <<Repair!EvidenceIsAnswered, Repair!ConclusionIsCurrent, Repair!RepairIsGated,
                  Repair!VerifiedIsLeftAlone>>
    BY <1>1, <1>3 DEF Repair!EvidenceIsAnswered, Repair!ConclusionIsCurrent,
       Repair!RepairIsGated, Repair!VerifiedIsLeftAlone, Repair!RepairedForBrief, Repair!Ended
<1> QED BY <1>1, <1>3, <1>4 DEF Repair!RepairInv, Repair!LeaveAloneInv

LEMMA StepsKeepRepair ==
    ASSUME Repair!RepairInv, Repair!Steps PROVE Repair!RepairInv'
<1> USE DEF Repair!UnderWay
<1>1. CASE Repair!ProviderRefuses
    BY <1>1 DEF Repair!ProviderRefuses, Repair!RepairInv, Repair!EvidenceIsAnswered,
       Repair!ConclusionIsCurrent, Repair!RepairIsGated, Repair!Ended
<1>2. CASE Repair!RepairSynthesis \/ Repair!RepairSimulation \/ Repair!FollowInstruction
    BY <1>2, PassKeepsRepair
    DEF Repair!RepairSynthesis, Repair!RepairSimulation, Repair!FollowInstruction
<1>3. CASE Repair!NoSynthesisError \/ Repair!NoSimulationError \/ Repair!NoInstruction
    <2>1. repairPhase \in Repair!UnderWay
        BY <1>3 DEF Repair!NoSynthesisError, Repair!NoSimulationError, Repair!NoInstruction,
           Repair!Skip
    <2> QED BY <1>3, <2>1, SkipKeepsRepair
            DEF Repair!NoSynthesisError, Repair!NoSimulationError, Repair!NoInstruction
<1>4. CASE Repair!Regression
    BY <1>4, RegressionKeepsRepair DEF Repair!Regression
<1>5. CASE Repair!AlreadyClean
    BY <1>5, CleanKeepsRepair
<1>6. CASE Repair!RepairCompile
    <2>0. repairPasses \in Nat
        BY DEF Repair!RepairInv
    <2>1. repairPhase' = "done" /\ repairMode' = "broken" /\ repairPasses' = repairPasses + 1
        BY <1>6 DEF Repair!RepairCompile
    <2>2. repairStatus' = Repair!Broken(rtl)'
        BY <1>6 DEF Repair!RepairCompile, Repair!Broken, Repair!With
    <2>3. repairPasses' \in Nat /\ repairPasses' # 0
        BY <2>0, <2>1
    <2>4. Repair!RepairIsGated'
        BY <2>1 DEF Repair!RepairIsGated
    <2> QED BY <2>1, <2>2, <2>3, <2>4, PassedKeepsRepair
<1>7. CASE Repair!CorrectOneFile \/ Repair!NoFile
    <2>1. repairPhase = "one file" /\ repairPhase' = "done" /\ repairDeep' = repairDeep
        BY <1>7 DEF Repair!CorrectOneFile, Repair!NoFile, Repair!inputs
    <2>2. repairPasses' \in Nat
        <3>1. CASE Repair!CorrectOneFile
            <4>1. PICK m \in Modules, ok \in BOOLEAN :
                    IF ok THEN repairPasses' = 0
                    ELSE \/ repairPasses' \in {0, MaxRepairs}
                         \/ repairPasses' \in 1 .. MaxRepairs
                BY <3>1 DEF Repair!CorrectOneFile, Repair!Alone
            <4> QED BY <4>1, PassesAssumption
        <3>2. CASE Repair!NoFile
            BY <3>2 DEF Repair!NoFile
        <3> QED BY <1>7, <3>1, <3>2
    <2>3. ~repairDeep'
        BY <2>1 DEF Repair!RepairInv
    <2> QED BY <2>1, <2>2, <2>3 DEF Repair!RepairInv, Repair!EvidenceIsAnswered,
               Repair!ConclusionIsCurrent, Repair!RepairIsGated, Repair!Ended
<1> QED BY <1>1, <1>2, <1>3, <1>4, <1>5, <1>6, <1>7 DEF Repair!Steps

LEMMA NextRepair ==
    ASSUME Repair!RepairInv, Repair!Next PROVE Repair!RepairInv'
<1> USE DEF Repair!UnderWay
<1>1. CASE Repair!Simulated \/ Repair!Synthesised \/ Repair!GoOn
    <2>1. repairPhase' = "idle" /\ repairPasses' \in {repairPasses, 0}
        BY <1>1 DEF Repair!Simulated, Repair!Synthesised, Repair!GoOn
    <2>2. repairPasses' \in Nat
        <3>1. repairPasses \in Nat
            BY DEF Repair!RepairInv
        <3> QED BY <2>1, <3>1
    <2>3. repairPhase' \notin Repair!UnderWay \cup {"one file", "done"}
        BY <2>1
    <2> QED BY <2>2, <2>3 DEF Repair!RepairInv, Repair!EvidenceIsAnswered,
               Repair!ConclusionIsCurrent, Repair!RepairIsGated, Repair!Ended
<1>2. CASE Repair!Dispatch
    <2>1. /\ repairPhase' = IF repairDeep THEN "synthesis" ELSE "one file"
          /\ repairPasses' = 0 /\ rtl' = rtl /\ repairBefore' = rtl /\ repairDeep' = repairDeep
          /\ repairText' = repairText /\ repairSimLog' = repairSimLog
        BY <1>2 DEF Repair!Dispatch, Repair!inputs, Repair!evidence
    <2>2. Repair!RuledOut' /\ repairPhase' \notin {"done"} /\ repairPasses' \in Nat
        BY <2>1 DEF Repair!RuledOut
    <2>3. repairStatus' = Repair!Broken(rtl)'
        BY <1>2, <2>1 DEF Repair!Dispatch, Repair!Broken, Repair!With
    <2>4. Repair!DispatchedWithReason'
        BY <1>2, <2>1 DEF Repair!Dispatch, Repair!DispatchedWithReason
    <2> QED BY <2>1, <2>2, <2>3, <2>4 DEF Repair!RepairInv, Repair!EvidenceIsAnswered,
               Repair!ConclusionIsCurrent, Repair!RepairIsGated, Repair!Ended
<1> QED BY <1>1, <1>2, StepsKeepRepair DEF Repair!Next

\* RTL that passed its simulation and has no error of its own is touched for a brief alone.
LEMMA StepsLeaveAlone ==
    ASSUME Repair!RepairInv, Repair!LeaveAloneInv, Repair!Steps PROVE Repair!LeaveAloneInv'
<1>0. UNCHANGED <<repairText, repairSource, repairBefore, repairSimLog, repairSynth, repairDeep>>
    BY DEF Repair!Steps, Repair!ProviderRefuses, Repair!RepairSynthesis, Repair!NoSynthesisError,
       Repair!RepairSimulation, Repair!NoSimulationError, Repair!FollowInstruction,
       Repair!NoInstruction, Repair!Regression, Repair!RegressionPass, Repair!AlreadyClean,
       Repair!RepairCompile, Repair!CorrectOneFile, Repair!NoFile, Repair!PassThen, Repair!Skip,
       Repair!inputs, Repair!evidence
<1>1. Repair!Untouchable' = Repair!Untouchable
    BY <1>0 DEF Repair!Untouchable, Repair!Broken, Repair!With
<1> DEFINE Branch(p) ==
               \/ repairText = "simulating" /\ p = "simulated"
               \/ repairText = "long" /\ p = "followed"
<1>2. SUFFICES ASSUME Repair!Untouchable
               PROVE  /\ repairPhase' \in Repair!UnderWay =>
                            \/ /\ rtl' = repairBefore
                               /\ repairPhase' \notin {"simulated", "followed"}
                               /\ repairPhase' \in {"instruction", "compile"}
                                    => repairText # "simulating"
                            \/ Branch(repairPhase')
                      /\ repairPhase' = "done" /\ repairDeep =>
                            \/ rtl' = repairBefore
                            \/ repairText = "simulating" /\ repairMode' = "simulation"
                            \/ repairText = "long" /\ repairMode' = "hardening"
    BY <1>0, <1>1 DEF Repair!LeaveAloneInv, Repair!VerifiedIsLeftAlone, Repair!RepairedForBrief,
       Repair!Ended
<1>3. repairPhase \in Repair!UnderWay =>
        \/ /\ rtl = repairBefore /\ repairStatus = {}
           /\ repairPhase \notin {"simulated", "followed"}
           /\ repairPhase \in {"instruction", "compile"} => repairText # "simulating"
        \/ Branch(repairPhase)
    <2> SUFFICES ASSUME repairPhase \in Repair!UnderWay, ~Branch(repairPhase)
                 PROVE  /\ rtl = repairBefore /\ repairStatus = {}
                        /\ repairPhase \notin {"simulated", "followed"}
                        /\ repairPhase \in {"instruction", "compile"} => repairText # "simulating"
        OBVIOUS
    <2>1. /\ rtl = repairBefore /\ repairPhase \notin {"simulated", "followed"}
          /\ repairPhase \in {"instruction", "compile"} => repairText # "simulating"
        BY <1>2 DEF Repair!LeaveAloneInv
    <2>2. repairStatus = Repair!Broken(rtl)
        BY DEF Repair!RepairInv
    <2> QED BY <1>2, <2>1, <2>2 DEF Repair!Untouchable
<1>4. /\ ~Repair!SynthesisDue
      /\ Repair!SimulationDue => repairText = "simulating"
      /\ Repair!InstructionDue => repairText \in {"long", "simulating"}
    BY <1>2 DEF Repair!SynthesisDue, Repair!SimulationDue, Repair!InstructionDue,
       Repair!SynthError, Repair!SimFailed, Repair!NamesSimulation, Repair!NamesHardening,
       Repair!IsLong, Repair!Untouchable, Repair!LeaveAloneInv
<1>5. ~Repair!SimulationDue /\ repairStatus = {} => repairText # "simulating"
    BY <1>2 DEF Repair!SimulationDue, Repair!SimFailed, Repair!NamesSimulation, Repair!Untouchable
<1> USE DEF Repair!UnderWay
<1>6. CASE Repair!ProviderRefuses
    BY <1>6 DEF Repair!ProviderRefuses
<1>7. CASE Repair!RepairSynthesis
    BY <1>4, <1>7 DEF Repair!RepairSynthesis
<1>8. CASE Repair!RepairSimulation
    <2>1. repairText = "simulating"
        BY <1>4, <1>8 DEF Repair!RepairSimulation
    <2>2. repairPhase' = "simulated"
        BY <1>8 DEF Repair!RepairSimulation, Repair!PassThen
    <2> QED BY <2>1, <2>2
<1>9. CASE Repair!FollowInstruction
    <2>1. repairText = "long"
        BY <1>3, <1>4, <1>9 DEF Repair!FollowInstruction
    <2>2. repairPhase' = "followed"
        BY <1>9 DEF Repair!FollowInstruction, Repair!PassThen
    <2> QED BY <2>1, <2>2
<1>10. CASE Repair!NoSynthesisError \/ Repair!NoSimulationError \/ Repair!NoInstruction
    BY <1>3, <1>5, <1>10 DEF Repair!NoSynthesisError, Repair!NoSimulationError, Repair!NoInstruction,
       Repair!Skip
<1>11. CASE Repair!Regression
    BY <1>3, <1>11 DEF Repair!Regression, Repair!RegressionPass
<1>12. CASE Repair!AlreadyClean \/ Repair!RepairCompile
    BY <1>3, <1>12 DEF Repair!AlreadyClean, Repair!RepairCompile
<1>13. CASE Repair!CorrectOneFile \/ Repair!NoFile
    BY <1>13 DEF Repair!CorrectOneFile, Repair!NoFile, Repair!RepairInv
<1> QED BY <1>6, <1>7, <1>8, <1>9, <1>10, <1>11, <1>12, <1>13 DEF Repair!Steps

LEMMA NextLeavesAlone ==
    ASSUME Repair!RepairInv, Repair!LeaveAloneInv, Repair!Next PROVE Repair!LeaveAloneInv'
<1>1. CASE Repair!Simulated \/ Repair!Synthesised \/ Repair!GoOn
    BY <1>1 DEF Repair!Simulated, Repair!Synthesised, Repair!GoOn, Repair!inputs,
       Repair!LeaveAloneInv, Repair!VerifiedIsLeftAlone, Repair!RepairedForBrief, Repair!Ended, Repair!UnderWay
<1>2. CASE Repair!Dispatch
    BY <1>2 DEF Repair!Dispatch, Repair!inputs, Repair!LeaveAloneInv, Repair!VerifiedIsLeftAlone,
       Repair!RepairedForBrief, Repair!Ended, Repair!UnderWay
<1> QED BY <1>1, <1>2, StepsLeaveAlone DEF Repair!Next

-----------------------------------------------------------------------------
(* A stage that rests *)

\* While another stage works, RTL_REPAIR is idle, even where rtl/ changes.
RepairSafe ==
    /\ stage # "RTL_REPAIR" => repairPhase = "idle" /\ repairPasses \in Nat
    /\ Repair!RepairInv

LEMMA InitRepairSafe == StagesInit => RepairSafe
<1> SUFFICES ASSUME StagesInit PROVE RepairSafe
    OBVIOUS
<1>1. CASE stage = "RTL_REPAIR"
    BY <1>1, InitRepair DEF StagesInit, RepairSafe
<1>2. CASE stage # "RTL_REPAIR"
    <2>1. repairPhase = "idle" /\ repairPasses = 0
        BY <1>2 DEF StagesInit, RepairRests
    <2> QED BY <1>2, <2>1 DEF RepairSafe, Repair!RepairInv, Repair!UnderWay,
               Repair!EvidenceIsAnswered, Repair!ConclusionIsCurrent, Repair!RepairIsGated,
               Repair!Ended
<1> QED BY <1>1, <1>2

LEMMA NextRepairSafe == RepairSafe /\ [StagesNext]_allVars => RepairSafe'
<1> SUFFICES ASSUME RepairSafe, [StagesNext]_allVars PROVE RepairSafe'
    OBVIOUS
<1>0. stage' = stage
    BY DEF StagesNext, allVars
<1>1. CASE stage = "RTL_REPAIR" /\ Repair!Next
    BY <1>0, <1>1, NextRepair DEF RepairSafe
<1>2. CASE stage # "RTL_REPAIR" /\ UNCHANGED repairVars
    <2>1. repairPhase' = "idle" /\ repairPasses' \in Nat
        BY <1>2 DEF RepairSafe, repairVars
    <2> QED BY <2>1 DEF RepairSafe, Repair!RepairInv, Repair!UnderWay,
               Repair!EvidenceIsAnswered, Repair!ConclusionIsCurrent, Repair!RepairIsGated,
               Repair!Ended
<1>3. CASE UNCHANGED allVars
    <2>1. UNCHANGED Repair!vars /\ UNCHANGED <<repairPhase, repairPasses>>
        BY <1>3 DEF allVars, vars, repairVars, Repair!vars
    <2> QED BY <1>0, <2>1, StutterKeepsRepair DEF RepairSafe
<1> QED BY <1>1, <1>2, <1>3 DEF StagesNext

\* RTL_REPAIR answers every failure somebody has evidence of with a pass, concludes with the
\* compile verdict of the files it leaves, and looks at the architecture rules after a
\* simulation or hardening repair (stage_handlers.py: run_rtl_repair, _repair_regression_pass),
\* for every brief, every set of modules and whatever its agent writes.
THEOREM RepairCorrect ==
    StagesSpec => [](Repair!EvidenceIsAnswered /\ Repair!ConclusionIsCurrent /\ Repair!RepairIsGated)
<1>1. RepairSafe =>
        Repair!EvidenceIsAnswered /\ Repair!ConclusionIsCurrent /\ Repair!RepairIsGated
    BY DEF RepairSafe, Repair!RepairInv
<1> QED BY <1>1, InitRepairSafe, NextRepairSafe, SafetySpec, PTL

\* It also edits RTL that SIM has verified for no process condition, and for the words of a brief
\* only where its conclusion tells of a repair, whatever kinds of briefs there are.
THEOREM RepairHonest == StagesSpec => []RepairIsHonest
<1> DEFINE Quiet == /\ stage # "RTL_REPAIR" => repairPhase = "idle"
                    /\ stage = "RTL_REPAIR" => Repair!LeaveAloneInv
<1>1. StagesInit => Quiet
    BY BriefsAssumption DEF StagesInit, RepairRests, Repair!Init, Repair!LeaveAloneInv, Repair!UnderWay,
       Repair!VerifiedIsLeftAlone, Repair!RepairedForBrief, Repair!Ended
<1>2. RepairSafe /\ Quiet /\ [StagesNext]_allVars => Quiet'
    <2> SUFFICES ASSUME RepairSafe, Quiet, [StagesNext]_allVars PROVE Quiet'
        OBVIOUS
    <2>0. stage' = stage
        BY DEF StagesNext, allVars
    <2>1. CASE stage = "RTL_REPAIR" /\ Repair!Next
        BY <2>0, <2>1, NextLeavesAlone DEF RepairSafe, Repair!LeaveAloneInv
    <2>2. CASE stage # "RTL_REPAIR" /\ UNCHANGED repairVars
        BY <2>0, <2>2 DEF repairVars
    <2>3. CASE UNCHANGED allVars
        <3>1. UNCHANGED Repair!vars /\ UNCHANGED <<repairPhase>>
            BY <2>3 DEF allVars, vars, repairVars, Repair!vars
        <3> QED BY <2>0, <3>1, StutterKeepsRepair
    <2> QED BY <2>1, <2>2, <2>3 DEF StagesNext
<1>3. Quiet => Repair!VerifiedIsLeftAlone
    BY DEF Repair!LeaveAloneInv, Repair!VerifiedIsLeftAlone, Repair!RepairedForBrief, Repair!Ended
<1>4. RepairSafe /\ Quiet => RepairIsHonest
    BY <1>3 DEF RepairSafe, Repair!RepairInv, RepairIsHonest
<1> QED BY <1>1, <1>2, <1>4, InitRepairSafe, NextRepairSafe, SafetySpec, PTL

-----------------------------------------------------------------------------
(* TB_GEN *)

\* The list is a matter of what lies on disk and of this run.
LEMMA MissingKept ==
    ASSUME UNCHANGED <<benchBench, benchUnits, benchElab, benchImages, benchGolden>>
    PROVE  UNCHANGED Bench!Missing
BY DEF Bench!Missing, Bench!IsFile, Bench!Covered, Bench!NeedsOutput

\* An empty list means that everything is there and can be used.
LEMMA NothingMissing ==
    ASSUME benchBench \in Bench!Benches, benchUnits \subseteq Units, benchElab \subseteq benchUnits,
           Bench!Missing = {}
    PROVE  /\ Bench!IsFile(Top) /\ benchBench[Top] \in {"good", "mute"}
           /\ \A m \in benchUnits : Bench!IsFile(m) /\ benchBench[m] # "weak"
           /\ \A m \in benchElab : benchBench[m] # "foreign"
           /\ benchImages => benchBench[Top] # "mute" /\ benchGolden
<1>1. \A i \in Bench!Items : i \notin Bench!Missing
    OBVIOUS
<1>2. Bench!IsFile(Top) /\ benchBench[Top] \notin {"unfit", "golden"}
    BY <1>1 DEF Bench!Missing, Bench!Items
<1>3. benchUnits = Bench!Covered
    BY <1>1 DEF Bench!Missing, Bench!Items
<1>4. \A m \in benchElab \cup {Top} : benchBench[m] # "foreign"
    BY <1>1 DEF Bench!Missing, Bench!Items
<1>5. \A m \in Units \cup {Top} : benchBench[m] # "weak"
    BY <1>1 DEF Bench!Missing, Bench!Items
<1>6. benchImages => benchBench[Top] # "mute" /\ benchGolden
    BY <1>1 DEF Bench!Missing, Bench!Items, Bench!NeedsOutput
<1>7. benchBench[Top] \in {"good", "mute"}
    BY <1>2, <1>4, <1>5 DEF Bench!Benches, Bench!Kinds, Bench!IsFile
<1>8. \A m \in benchUnits : Bench!IsFile(m)
    BY <1>3 DEF Bench!Covered
<1> QED BY <1>2, <1>4, <1>5, <1>6, <1>7, <1>8

LEMMA InitBench == Bench!Init => Bench!ListInv
<1> SUFFICES ASSUME Bench!Init PROVE Bench!ListInv
    OBVIOUS
<1>1. benchBench \in Bench!Benches
    BY DEF Bench!Init, Bench!Benches, Bench!Kinds
<1>2. benchUnits \subseteq Units /\ benchElab \subseteq benchUnits
    BY DEF Bench!Init, Bench!Prefixes
<1> QED BY <1>1, <1>2 DEF Bench!Init, Bench!ListInv, Bench!DeliveredIsUsable,
           Bench!ImageOutputIsDumped, Bench!Delivered

LEMMA NextBench ==
    ASSUME Bench!ListInv, Bench!Next PROVE Bench!ListInv'
<1> USE DEF Bench!ListInv, Bench!DeliveredIsUsable, Bench!ImageOutputIsDumped, Bench!Delivered
<1>1. CASE Bench!Start
    <2>1. /\ benchRounds' = 0 /\ benchPhase' \in {"agent", "template"}
          /\ benchPhase' = "template" => ~benchDeep
          /\ UNCHANGED <<benchDeep, benchUnits, benchElab, benchBench>>
        BY <1>1 DEF Bench!Start, Bench!inputs
    <2> QED BY <2>1
<1>2. CASE Bench!AgentPass
    <2>1. /\ benchPhase = "agent" /\ benchPhase' \in {"check", "judge"}
          /\ benchPhase' = "judge" => ~(benchRounds < BenchRounds)
          /\ UNCHANGED <<benchDeep, benchUnits, benchElab, benchRounds, benchMissing>>
          /\ benchBench' \in Bench!Benches
        BY <1>2 DEF Bench!AgentPass, Bench!inputs
    <2>2. benchRounds \in Nat /\ ~(benchRounds < BenchRounds) => benchRounds > 0
        BY BenchAssumption
    <2>3. benchPhase' = "judge" => benchMissing' # {}
        BY <2>1, <2>2
    <2> QED BY <2>1, <2>3
<1>3. CASE Bench!ProviderRefuses
    BY <1>3 DEF Bench!ProviderRefuses, Bench!inputs
<1>4. CASE Bench!Check
    <2>1. Bench!Missing' = Bench!Missing
        BY <1>4, MissingKept DEF Bench!Check, Bench!inputs
    <2> QED BY <1>4, <2>1 DEF Bench!Check, Bench!inputs
<1>5. CASE Bench!Judge
    <2>1. CASE benchMissing = {}
        <3>1. Bench!Missing = {}
            BY <1>5, <2>1 DEF Bench!Judge
        <3>2. UNCHANGED <<benchBench, benchUnits, benchElab, benchImages, benchGolden, benchRounds,
                          benchMissing>> /\ benchPhase' = "done"
            BY <1>5, <2>1 DEF Bench!Judge, Bench!inputs
        <3> QED BY <3>1, <3>2, NothingMissing DEF Bench!IsFile
    <2>2. CASE benchMissing # {}
        BY <1>5, <2>2 DEF Bench!Judge, Bench!inputs
    <2> QED BY <2>1, <2>2
<1>6. CASE Bench!Template
    <2>1. benchBench' \in Bench!Benches
        BY <1>6 DEF Bench!Template, Bench!Benches, Bench!Kinds
    <2> QED BY <1>6, <2>1 DEF Bench!Template, Bench!inputs
<1>7. CASE Bench!Rerun
    <2>1. benchUnits' \subseteq Units /\ benchElab' \subseteq benchUnits'
        BY <1>7 DEF Bench!Rerun, Bench!Prefixes
    <2> QED BY <1>7, <2>1 DEF Bench!Rerun
<1> QED BY <1>1, <1>2, <1>3, <1>4, <1>5, <1>6, <1>7 DEF Bench!Next, Bench!Steps

LEMMA StutterKeepsBench == ASSUME UNCHANGED Bench!vars PROVE UNCHANGED Bench!ListInv
<1> USE DEF Bench!vars
<1>1. UNCHANGED Bench!Missing
    BY MissingKept
<1>2. UNCHANGED <<Bench!DeliveredIsUsable, Bench!ImageOutputIsDumped>>
    BY DEF Bench!DeliveredIsUsable, Bench!ImageOutputIsDumped, Bench!Delivered, Bench!IsFile
<1> QED BY <1>1, <1>2 DEF Bench!ListInv

BenchSafe == IF stage = "TB_GEN" THEN Bench!ListInv ELSE benchPhase = "failed"

\* The testbenches TB_GEN delivers can be elaborated, drive pins and can fail, and with a
\* picture as input they dump what SIM compares (stage_handlers.py: run_tb_gen), for every
\* number of units and rounds, although the list of what is missing is older than the last
\* pass of the agent.
THEOREM BenchUsable == StagesSpec => []DeliveredIsUsable
<1>1. StagesInit => BenchSafe
    BY InitBench DEF StagesInit, BenchRests, BenchSafe
<1>2. BenchSafe /\ [StagesNext]_allVars => BenchSafe'
    <2> SUFFICES ASSUME BenchSafe, [StagesNext]_allVars PROVE BenchSafe'
        OBVIOUS
    <2>0. stage' = stage
        BY DEF StagesNext, allVars
    <2>1. CASE stage = "TB_GEN" /\ Bench!Next
        BY <2>0, <2>1, NextBench DEF BenchSafe
    <2>2. CASE UNCHANGED benchVars
        <3>1. UNCHANGED Bench!vars /\ UNCHANGED benchPhase
            BY <2>2 DEF benchVars, Bench!vars
        <3> QED BY <2>0, <3>1, StutterKeepsBench DEF BenchSafe
    <2> QED BY <2>1, <2>2 DEF StagesNext, allVars
<1>3. BenchSafe => DeliveredIsUsable
    BY DEF BenchSafe, DeliveredIsUsable, Bench!ListInv, Bench!DeliveredIsUsable,
       Bench!ImageOutputIsDumped, Bench!Delivered
<1> QED BY <1>1, <1>2, <1>3, SafetySpec, PTL

-----------------------------------------------------------------------------
(* HW_SW_VERIFY *)

\* The bench is a record of two fields, which TypeOK says field by field.
BenchRecord == bridgeBench \in [ref : 0 .. MaxRefs, works : BOOLEAN]
BridgeType == Bridge!TypeOK /\ BenchRecord

\* The one run goes on to another step.
LEMMA SetStep ==
    ASSUME bridgeRun \in [{"r1"} -> Bridge!Locals], NEW step \in Bridge!Steps, Bridge!Set("r1", step)
    PROVE  /\ bridgeRun' \in [{"r1"} -> Bridge!Locals]
           /\ bridgeRun'["r1"] = [bridgeRun["r1"] EXCEPT !.pc = step]
BY DEF Bridge!Set, Bridge!Locals

LEMMA ResolvedType == ASSUME bridgeActive \in Bridge!Tags PROVE Bridge!Resolved \in Bridge!Tags
BY BridgeAssumption DEF Bridge!Resolved, Bridge!Tags, Bridge!None

LEMMA IdleType == Bridge!Idle \in Bridge!Locals /\ Bridge!None \in Bridge!Tags
BY BridgeAssumption DEF Bridge!Idle, Bridge!Locals, Bridge!Steps, Bridge!Verdicts, Bridge!Tags,
   Bridge!None

LEMMA InitBridge == Bridge!Init => BridgeType /\ Bridge!BridgeInv
<1> SUFFICES ASSUME Bridge!Init PROVE BridgeType /\ Bridge!BridgeInv
    OBVIOUS
<1>1. bridgeFiles \in Bridge!Files /\ bridgeReport \in Bridge!Reports
    BY IdleType DEF Bridge!Init, Bridge!NoFiles, Bridge!Files, Bridge!NoReport, Bridge!Reports,
       Bridge!Verdicts
<1>2. BenchRecord /\ bridgeBench.ref = 0 /\ bridgeRef = 1
    BY BridgeAssumption DEF Bridge!Init, BenchRecord
<1>3. BridgeType
    <2>1. bridgeUploads \in 0 .. MaxUploads /\ bridgeRef \in 1 .. MaxRefs
        BY BridgeAssumption DEF Bridge!Init
    <2>2. bridgeBench.ref \in 0 .. MaxRefs /\ bridgeBench.works \in BOOLEAN
        BY <1>2 DEF BenchRecord
    <2>3. bridgeRun \in [{"r1"} -> Bridge!Locals]
        BY IdleType DEF Bridge!Init
    <2>4. /\ bridgeStatus = "QUEUED" /\ bridgeWaiting = Bridge!None
          /\ bridgeFeedback \in BOOLEAN /\ bridgeActive \in Bridge!Tags
          /\ bridgeDriver = "generated"
        BY IdleType DEF Bridge!Init
    <2> QED BY <1>1, <1>2, <2>1, <2>2, <2>3, <2>4 DEF BridgeType, Bridge!TypeOK
<1>4. bridgeRun["r1"] = Bridge!Idle
    BY DEF Bridge!Init
<1>5. Bridge!InHand("r1") /\ bridgeRun["r1"].pc = "idle"
    BY <1>4 DEF Bridge!InHand, Bridge!Idle
<1> QED BY <1>2, <1>3, <1>5
        DEF Bridge!Init, Bridge!BridgeInv, Bridge!AtGate, Bridge!AnswerIsForInput,
            Bridge!MatchIsHonest, Bridge!BenchIsCurrent

-----------------------------------------------------------------------------
\* Reviewer, scheduler and client do not touch what the run has in hand.
LEMMA OutsideKeepsBridge ==
    ASSUME BridgeType, Bridge!BridgeInv,
           \/ \E i \in Inputs : Bridge!Upload(i)
           \/ Bridge!Reject \/ Bridge!RetryStage \/ Bridge!RewriteReference \/ Bridge!GiveUp
    PROVE  BridgeType' /\ Bridge!BridgeInv'
<1>1. /\ bridgeStatus' \in {"QUEUED", "FAILED"} /\ bridgeWaiting' \in {bridgeWaiting, Bridge!None}
      /\ bridgeFeedback' \in BOOLEAN /\ bridgeActive' \in Bridge!Tags
      /\ UNCHANGED <<bridgeDriver, bridgeBench, bridgeFiles, bridgeReport, bridgeRun>>
    BY DEF BridgeType, Bridge!TypeOK, Bridge!Upload, Bridge!Reject, Bridge!RetryStage,
       Bridge!RewriteReference, Bridge!GiveUp, Bridge!Tags
<1>2. bridgeUploads' \in 0 .. MaxUploads
    <2>1. MaxUploads \in Nat /\ bridgeUploads \in 0 .. MaxUploads
        BY BridgeAssumption DEF BridgeType, Bridge!TypeOK
    <2>2. \/ bridgeUploads' = bridgeUploads
          \/ bridgeUploads < MaxUploads /\ bridgeUploads' = bridgeUploads + 1
        BY DEF Bridge!Upload, Bridge!Reject, Bridge!RetryStage, Bridge!RewriteReference, Bridge!GiveUp
    <2> QED BY <2>1, <2>2
<1>3. /\ bridgeRef' \in 1 .. MaxRefs /\ bridgeRef <= bridgeRef'
      /\ bridgeWaiting' # Bridge!None => bridgeRef' = bridgeRef
    <2>1. MaxRefs \in Nat /\ bridgeRef \in 1 .. MaxRefs
        BY BridgeAssumption DEF BridgeType, Bridge!TypeOK
    <2>2. \/ bridgeRef' = bridgeRef
          \/ /\ bridgeRef < MaxRefs /\ bridgeRef' = bridgeRef + 1
             /\ bridgeWaiting' = Bridge!None
        BY DEF Bridge!Upload, Bridge!Reject, Bridge!RetryStage, Bridge!RewriteReference, Bridge!GiveUp
    <2> QED BY <2>1, <2>2
<1>4. BridgeType'
    BY <1>1, <1>2, <1>3 DEF BridgeType, Bridge!TypeOK, BenchRecord
<1>5. bridgeBench.ref <= bridgeRef'
    <2>1. bridgeBench.ref \in Nat /\ bridgeRef \in Nat /\ bridgeRef' \in Nat
        BY <1>3, BridgeAssumption DEF BridgeType, BenchRecord, Bridge!TypeOK
    <2>2. bridgeBench.ref <= bridgeRef
        BY DEF Bridge!BridgeInv
    <2> QED BY <1>3, <2>1, <2>2
<1>6. Bridge!InHand("r1")' = Bridge!InHand("r1")
    BY <1>1 DEF Bridge!InHand
<1> QED BY <1>1, <1>3, <1>4, <1>5, <1>6
        DEF Bridge!BridgeInv, Bridge!AtGate, Bridge!AnswerIsForInput, Bridge!MatchIsHonest,
            Bridge!BenchIsCurrent

\* A step of the run that leaves the stage's row alone, and the bench on its reference.
LEMMA RunKeepsBridge ==
    ASSUME BridgeType, Bridge!BridgeInv, UNCHANGED Bridge!outside, UNCHANGED bridgeReport,
           bridgeRun["r1"].pc # "idle", bridgeRun'["r1"].pc # "idle",
           bridgeFiles' \in Bridge!Files, bridgeRun' \in [{"r1"} -> Bridge!Locals],
           bridgeDriver' \in {"generated", "agent"}, BenchRecord',
           bridgeBench'.ref = bridgeBench.ref, Bridge!InHand("r1")'
    PROVE  BridgeType' /\ Bridge!BridgeInv'
<1>1. bridgeStatus # "AWAITING_APPROVAL"
    BY DEF Bridge!BridgeInv, Bridge!AtGate
<1>2. UNCHANGED <<bridgeStatus, bridgeWaiting, bridgeFeedback, bridgeActive, bridgeUploads, bridgeRef>>
    BY DEF Bridge!outside
<1>3. BridgeType'
    BY <1>2 DEF BridgeType, Bridge!TypeOK, BenchRecord
<1>4. bridgeWaiting \in {"r1", Bridge!None}
    BY DEF BridgeType, Bridge!TypeOK
<1> QED BY <1>1, <1>2, <1>3, <1>4
        DEF Bridge!BridgeInv, Bridge!AtGate, Bridge!AnswerIsForInput, Bridge!MatchIsHonest,
            Bridge!BenchIsCurrent

LEMMA DispatchKeepsBridge ==
    ASSUME BridgeType, Bridge!BridgeInv, Bridge!Dispatch("r1")
    PROVE  BridgeType' /\ Bridge!BridgeInv'
<1> DEFINE step == IF bridgeFeedback THEN "feedback" ELSE "encode"
           begun == [Bridge!Idle EXCEPT !.pc = step, !.input = Bridge!Resolved]
<1>1. /\ bridgeStatus' = "RUNNING" /\ bridgeWaiting' = "r1" /\ bridgeFeedback' = FALSE
      /\ bridgeBench' = Bridge!Bridge
      /\ UNCHANGED <<bridgeActive, bridgeUploads, bridgeRef, bridgeDriver, bridgeFiles, bridgeReport>>
    BY DEF Bridge!Dispatch
<1>2. bridgeRun' = [bridgeRun EXCEPT !["r1"] = begun]
    BY DEF Bridge!Dispatch
<1>3. begun \in Bridge!Locals
    BY IdleType, ResolvedType DEF BridgeType, Bridge!TypeOK, Bridge!Locals, Bridge!Steps
<1>4. bridgeRun' \in [{"r1"} -> Bridge!Locals] /\ bridgeRun'["r1"] = begun
    BY <1>2, <1>3 DEF BridgeType, Bridge!TypeOK
<1>5. begun.pc \in {"feedback", "encode"} /\ ~begun.ok
    BY DEF Bridge!Idle
<1>6. Bridge!InHand("r1")'
    BY <1>4, <1>5 DEF Bridge!InHand
<1>7. bridgeBench' \in [ref : 0 .. MaxRefs, works : BOOLEAN] /\ bridgeBench'.ref = bridgeRef
    <2>1. bridgeBench.ref \in Nat /\ bridgeRef \in 0 .. MaxRefs /\ bridgeRef \in Nat
        BY BridgeAssumption DEF BridgeType, BenchRecord, Bridge!TypeOK
    <2>2. bridgeBench.ref < bridgeRef \/ bridgeBench.ref = bridgeRef
        BY <2>1 DEF Bridge!BridgeInv
    <2> QED BY <1>1, <2>1, <2>2 DEF Bridge!Bridge, BridgeType, BenchRecord
<1>8. bridgeRef \in Nat
    BY BridgeAssumption DEF BridgeType, Bridge!TypeOK
<1>9. BridgeType'
    BY <1>1, <1>4, <1>7 DEF BridgeType, Bridge!TypeOK, BenchRecord
<1>10. bridgeBench'.ref <= bridgeRef'
    BY <1>1, <1>7, <1>8
<1> QED BY <1>1, <1>4, <1>5, <1>6, <1>7, <1>9, <1>10
        DEF Bridge!BridgeInv, Bridge!AtGate, Bridge!AnswerIsForInput, Bridge!MatchIsHonest,
            Bridge!BenchIsCurrent

\* One step of the run that does not end it.
LEMMA WorkKeepsBridge ==
    ASSUME BridgeType, Bridge!BridgeInv,
           \/ Bridge!FeedbackPass("r1") \/ Bridge!Encode("r1") \/ Bridge!Compile("r1")
           \/ Bridge!Simulate("r1") \/ Bridge!Decode("r1") \/ Bridge!Repair("r1")
           \/ Bridge!Abandon("r1")
    PROVE  BridgeType' /\ Bridge!BridgeInv'
<1>0. /\ bridgeRun \in [{"r1"} -> Bridge!Locals] /\ bridgeRun["r1"] \in Bridge!Locals
      /\ bridgeFiles \in Bridge!Files /\ BenchRecord /\ Bridge!InHand("r1")
      /\ bridgeDriver \in {"generated", "agent"}
    BY DEF BridgeType, Bridge!TypeOK, Bridge!BridgeInv
<1>1. CASE Bridge!FeedbackPass("r1")
    <2>1. /\ bridgeRun["r1"].pc = "feedback" /\ Bridge!Set("r1", "encode")
          /\ UNCHANGED Bridge!outside /\ UNCHANGED <<bridgeFiles, bridgeReport>>
          /\ bridgeDriver' \in {"generated", "agent"}
          /\ \E works \in BOOLEAN : bridgeBench' = [bridgeBench EXCEPT !.works = works]
        BY <1>0, <1>1 DEF Bridge!FeedbackPass, Bridge!AgentPass
    <2>2. /\ bridgeRun' \in [{"r1"} -> Bridge!Locals]
          /\ bridgeRun'["r1"] = [bridgeRun["r1"] EXCEPT !.pc = "encode"]
        BY <1>0, <2>1, SetStep DEF Bridge!Steps
    <2>3. bridgeRun'["r1"].pc = "encode" /\ bridgeRun'["r1"].ok = bridgeRun["r1"].ok
        BY <1>0, <2>2 DEF Bridge!Locals
    <2>4. Bridge!InHand("r1")'
        BY <1>0, <2>1, <2>3 DEF Bridge!InHand
    <2>5. BenchRecord' /\ bridgeBench'.ref = bridgeBench.ref
        BY <1>0, <2>1 DEF BenchRecord
    <2> QED BY <1>0, <2>1, <2>2, <2>3, <2>4, <2>5, RunKeepsBridge
<1>2. CASE Bridge!Encode("r1")
    <2>1. bridgeRun["r1"].pc = "encode" /\ UNCHANGED Bridge!outside /\ UNCHANGED <<bridgeDriver, bridgeBench, bridgeReport>>
        BY <1>2 DEF Bridge!Encode
    <2>2. PICK stim \in {bridgeFiles.stim, bridgeRun["r1"].input},
               exp \in {bridgeFiles.exp, bridgeRun["r1"].input}, step \in {"failed", "compile"} :
              /\ Bridge!Set("r1", step)
              /\ bridgeFiles' = [bridgeFiles EXCEPT !.stim = stim, !.exp = exp]
              /\ step = "compile" =>
                    /\ stim # Bridge!None
                    /\ stim = bridgeRun["r1"].input \/ bridgeDriver = "agent"
        BY <1>2 DEF Bridge!Encode
    <2>6. bridgeFiles' \in Bridge!Files /\ bridgeFiles'.stim = stim
        BY <1>0, <2>2 DEF Bridge!Files, Bridge!Locals
    <2>3. /\ bridgeRun' \in [{"r1"} -> Bridge!Locals]
          /\ bridgeRun'["r1"] = [bridgeRun["r1"] EXCEPT !.pc = step]
        BY <1>0, <2>2, SetStep DEF Bridge!Steps
    <2>4. bridgeRun'["r1"].pc = step /\ bridgeRun'["r1"].ok = bridgeRun["r1"].ok
          /\ bridgeRun'["r1"].input = bridgeRun["r1"].input
        BY <1>0, <2>3 DEF Bridge!Locals
    <2>5. Bridge!InHand("r1")'
        BY <1>0, <2>1, <2>2, <2>4, <2>6 DEF Bridge!InHand
    <2> QED BY <1>0, <2>1, <2>2, <2>3, <2>4, <2>5, <2>6, RunKeepsBridge DEF BenchRecord
<1>3. CASE Bridge!Compile("r1")
    <2> DEFINE step == IF bridgeBench.works THEN "simulate" ELSE "failed"
    <2>1. /\ bridgeRun["r1"].pc = "compile" /\ UNCHANGED Bridge!outside /\ UNCHANGED <<bridgeDriver, bridgeBench, bridgeReport>>
          /\ bridgeFiles' = [bridgeFiles EXCEPT !.chip = Bridge!None, !.right = FALSE, !.vcd = Bridge!None]
          /\ bridgeRun' = [bridgeRun EXCEPT !["r1"].pc = step, !["r1"].stim = bridgeFiles.stim]
        BY <1>3 DEF Bridge!Compile
    <2>2. /\ bridgeFiles' \in Bridge!Files /\ bridgeFiles'.chip = Bridge!None
          /\ bridgeFiles'.stim = bridgeFiles.stim
        BY <1>0, <2>1, IdleType DEF Bridge!Files
    <2>3. bridgeRun'["r1"] = [bridgeRun["r1"] EXCEPT !.pc = step, !.stim = bridgeFiles.stim]
        BY <1>0, <2>1
    <2>4. bridgeFiles.stim \in Bridge!Tags /\ step \in {"simulate", "failed"} /\ step \in Bridge!Steps
        BY <1>0 DEF Bridge!Files, Bridge!Steps
    <2>5. bridgeRun' \in [{"r1"} -> Bridge!Locals]
        BY <1>0, <2>1, <2>4 DEF Bridge!Locals
    <2>6. /\ bridgeRun'["r1"].pc = step /\ bridgeRun'["r1"].ok = bridgeRun["r1"].ok
          /\ bridgeRun'["r1"].input = bridgeRun["r1"].input
          /\ bridgeRun'["r1"].stim = bridgeFiles.stim
        BY <1>0, <2>3 DEF Bridge!Locals
    <2>7. Bridge!InHand("r1")'
        BY <1>0, <2>1, <2>2, <2>4, <2>6 DEF Bridge!InHand
    <2> QED BY <1>0, <2>1, <2>2, <2>4, <2>5, <2>6, <2>7, RunKeepsBridge DEF BenchRecord
<1>4. CASE Bridge!Simulate("r1")
    <2>1. /\ bridgeRun["r1"].pc = "simulate" /\ UNCHANGED Bridge!outside /\ UNCHANGED <<bridgeDriver, bridgeBench, bridgeReport>>
          /\ bridgeFiles.chip = Bridge!None /\ bridgeRun["r1"].stim = bridgeFiles.stim
          /\ bridgeFiles.stim # Bridge!None
          /\ bridgeDriver = "generated" => bridgeFiles.stim = bridgeRun["r1"].input
        BY <1>0, <1>4 DEF Bridge!Simulate, Bridge!InHand
    <2>2. PICK step \in {"failed", "decode"} :
              /\ Bridge!Set("r1", step)
              /\ bridgeFiles' \in Bridge!Files /\ bridgeFiles'.stim = bridgeFiles.stim
              /\ step = "decode" => bridgeFiles'.chip = bridgeFiles.stim
        <3>1. CASE Bridge!Set("r1", "failed") /\ UNCHANGED bridgeFiles
            BY <1>0, <3>1
        <3>2. ASSUME NEW right \in BOOLEAN, NEW dumped \in BOOLEAN, Bridge!Set("r1", "decode"),
                     bridgeFiles' = [bridgeFiles EXCEPT !.chip = bridgeRun["r1"].stim, !.right = right,
                                        !.vcd = IF dumped THEN bridgeRun["r1"].stim ELSE @]
              PROVE  /\ bridgeFiles' \in Bridge!Files /\ bridgeFiles'.stim = bridgeFiles.stim
                     /\ bridgeFiles'.chip = bridgeFiles.stim
            BY <1>0, <2>1, <3>2 DEF Bridge!Files, Bridge!Locals
        <3> QED BY <1>4, <2>1, <3>1, <3>2 DEF Bridge!Simulate
    <2>3. /\ bridgeRun' \in [{"r1"} -> Bridge!Locals]
          /\ bridgeRun'["r1"] = [bridgeRun["r1"] EXCEPT !.pc = step]
        BY <1>0, <2>2, SetStep DEF Bridge!Steps
    <2>4. bridgeRun'["r1"].pc = step /\ bridgeRun'["r1"].ok = bridgeRun["r1"].ok
          /\ bridgeRun'["r1"].input = bridgeRun["r1"].input
        BY <1>0, <2>3 DEF Bridge!Locals
    <2>5. Bridge!InHand("r1")'
        BY <1>0, <2>1, <2>2, <2>4 DEF Bridge!InHand
    <2> QED BY <1>0, <2>1, <2>2, <2>3, <2>4, <2>5, RunKeepsBridge DEF BenchRecord
<1>5. CASE Bridge!Decode("r1")
    <2>1. /\ bridgeRun["r1"].pc = "decode" /\ UNCHANGED Bridge!outside
          /\ UNCHANGED <<bridgeDriver, bridgeBench, bridgeFiles, bridgeReport>>
          /\ bridgeFiles.chip = bridgeFiles.stim /\ bridgeFiles.stim # Bridge!None
          /\ bridgeDriver = "generated" => bridgeFiles.stim = bridgeRun["r1"].input
          /\ ~bridgeRun["r1"].ok
        BY <1>0, <1>5 DEF Bridge!Decode, Bridge!InHand
    <2>2. CASE Bridge!Set("r1", "failed")
        <3>1. /\ bridgeRun' \in [{"r1"} -> Bridge!Locals]
              /\ bridgeRun'["r1"] = [bridgeRun["r1"] EXCEPT !.pc = "failed"]
            BY <1>0, <2>2, SetStep DEF Bridge!Steps
        <3>2. bridgeRun'["r1"].pc = "failed" /\ bridgeRun'["r1"].ok = bridgeRun["r1"].ok
            BY <1>0, <3>1 DEF Bridge!Locals
        <3>3. Bridge!InHand("r1")'
            BY <2>1, <3>2 DEF Bridge!InHand
        <3> QED BY <1>0, <2>1, <3>1, <3>2, <3>3, RunKeepsBridge DEF BenchRecord
    <2>3. ASSUME NEW v \in Bridge!Verdicts, Bridge!Verdict("r1", v),
                 bridgeDriver = "generated" => v \in Bridge!Compared(bridgeFiles)
          PROVE  BridgeType' /\ Bridge!BridgeInv'
        <3>1. bridgeRun'["r1"] = [bridgeRun["r1"] EXCEPT !.pc = "conclude", !.ok = TRUE, !.verdict = v]
            BY <1>0, <2>3 DEF Bridge!Verdict
        <3>2. bridgeRun' \in [{"r1"} -> Bridge!Locals]
            BY <1>0, <2>3 DEF Bridge!Verdict, Bridge!Locals, Bridge!Steps
        <3>3. /\ bridgeRun'["r1"].pc = "conclude" /\ bridgeRun'["r1"].verdict = v
              /\ bridgeRun'["r1"].input = bridgeRun["r1"].input
            BY <1>0, <3>1 DEF Bridge!Locals
        <3>4. bridgeDriver = "generated" /\ bridgeFiles.exp = bridgeRun["r1"].input
                  => ((v = "match") <=> bridgeFiles.right)
            BY <2>1, <2>3 DEF Bridge!Compared
        <3>5. Bridge!InHand("r1")'
            BY <2>1, <3>3, <3>4 DEF Bridge!InHand
        <3> QED BY <1>0, <2>1, <3>2, <3>3, <3>5, RunKeepsBridge DEF BenchRecord
    <2> QED BY <1>5, <2>2, <2>3 DEF Bridge!Decode, Bridge!Compared
<1>6. CASE Bridge!Repair("r1")
    <2>1. /\ bridgeRun["r1"].pc = "failed" /\ UNCHANGED Bridge!outside /\ UNCHANGED <<bridgeFiles, bridgeReport>>
          /\ bridgeDriver' \in {"generated", "agent"}
          /\ \E works \in BOOLEAN : bridgeBench' = [bridgeBench EXCEPT !.works = works]
          /\ bridgeRun' = [bridgeRun EXCEPT !["r1"].pc = "encode",
                                           !["r1"].attempt = bridgeRun["r1"].attempt + 1]
        BY <1>0, <1>6 DEF Bridge!Repair, Bridge!AgentPass
    <2>2. bridgeRun["r1"].attempt + 1 \in 0 .. BridgeRounds
        <3>1. bridgeRun["r1"].attempt \in 0 .. BridgeRounds /\ BridgeRounds \in Nat
            BY <1>0, BridgeAssumption DEF Bridge!Locals
        <3>2. bridgeRun["r1"].attempt < BridgeRounds
            BY <1>6 DEF Bridge!Repair
        <3> QED BY <3>1, <3>2
    <2>3. bridgeRun'["r1"] = [bridgeRun["r1"] EXCEPT !.pc = "encode", !.attempt = bridgeRun["r1"].attempt + 1]
        BY <1>0, <2>1
    <2>4. bridgeRun' \in [{"r1"} -> Bridge!Locals]
        BY <1>0, <2>1, <2>2 DEF Bridge!Locals, Bridge!Steps
    <2>5. bridgeRun'["r1"].pc = "encode" /\ bridgeRun'["r1"].ok = bridgeRun["r1"].ok
        BY <1>0, <2>3 DEF Bridge!Locals
    <2>6. Bridge!InHand("r1")'
        BY <1>0, <2>1, <2>5 DEF Bridge!InHand
    <2>7. BenchRecord' /\ bridgeBench'.ref = bridgeBench.ref
        BY <1>0, <2>1 DEF BenchRecord
    <2> QED BY <1>0, <2>1, <2>4, <2>5, <2>6, <2>7, RunKeepsBridge
<1>7. CASE Bridge!Abandon("r1")
    <2>1. /\ bridgeRun["r1"].pc = "failed" /\ Bridge!Set("r1", "conclude")
          /\ UNCHANGED Bridge!outside /\ UNCHANGED <<bridgeDriver, bridgeBench, bridgeFiles, bridgeReport>>
        BY <1>7 DEF Bridge!Abandon
    <2>2. /\ bridgeRun' \in [{"r1"} -> Bridge!Locals]
          /\ bridgeRun'["r1"] = [bridgeRun["r1"] EXCEPT !.pc = "conclude"]
        BY <1>0, <2>1, SetStep DEF Bridge!Steps
    <2>3. bridgeRun'["r1"].pc = "conclude" /\ bridgeRun'["r1"].ok = bridgeRun["r1"].ok
        BY <1>0, <2>2 DEF Bridge!Locals
    <2>4. Bridge!InHand("r1")'
        BY <1>0, <2>1, <2>3 DEF Bridge!InHand
    <2> QED BY <1>0, <2>1, <2>2, <2>3, <2>4, RunKeepsBridge DEF BenchRecord
<1> QED BY <1>1, <1>2, <1>3, <1>4, <1>5, <1>6, <1>7

\* What the reviewer sees is what the run had in hand.
LEMMA ConcludeKeepsBridge ==
    ASSUME BridgeType, Bridge!BridgeInv, Bridge!Conclude("r1")
    PROVE  BridgeType' /\ Bridge!BridgeInv'
<1>0. /\ bridgeRun \in [{"r1"} -> Bridge!Locals] /\ bridgeRun["r1"] \in Bridge!Locals
      /\ bridgeFiles \in Bridge!Files /\ BenchRecord /\ Bridge!InHand("r1")
      /\ bridgeWaiting \in {"r1", Bridge!None} /\ bridgeDriver \in {"generated", "agent"}
    BY DEF BridgeType, Bridge!TypeOK, Bridge!BridgeInv
<1>1. /\ bridgeRun["r1"].pc = "conclude"
      /\ bridgeRun' = [bridgeRun EXCEPT !["r1"] = Bridge!Idle]
      /\ bridgeReport' = [ok |-> bridgeRun["r1"].ok, input |-> bridgeRun["r1"].input,
                         verdict |-> bridgeRun["r1"].verdict]
      /\ UNCHANGED <<bridgeFeedback, bridgeActive, bridgeUploads, bridgeRef, bridgeDriver, bridgeBench>>
    BY DEF Bridge!Conclude
<1>2. bridgeFiles' = [bridgeFiles EXCEPT !.wave = IF bridgeFiles.vcd = Bridge!None THEN @ ELSE bridgeFiles.vcd]
    BY DEF Bridge!Conclude
<1>3. /\ bridgeFiles' \in Bridge!Files
      /\ bridgeFiles'.chip = bridgeFiles.chip /\ bridgeFiles'.right = bridgeFiles.right
      /\ bridgeFiles'.stim = bridgeFiles.stim /\ bridgeFiles'.exp = bridgeFiles.exp
    BY <1>0, <1>2 DEF Bridge!Files
<1>4. /\ bridgeRun' \in [{"r1"} -> Bridge!Locals] /\ bridgeRun'["r1"].pc = "idle"
      /\ ~bridgeRun'["r1"].ok
    BY <1>0, <1>1, IdleType DEF Bridge!Idle
<1>5. bridgeReport' \in Bridge!Reports
    BY <1>0, <1>1 DEF Bridge!Locals, Bridge!Reports
<1>6. Bridge!InHand("r1")'
    BY <1>4 DEF Bridge!InHand
<1>7. bridgeStatus # "AWAITING_APPROVAL"
    BY <1>1 DEF Bridge!BridgeInv, Bridge!AtGate
<1>8. /\ bridgeWaiting' = Bridge!None
      /\ bridgeStatus' \in {bridgeStatus, "AWAITING_APPROVAL", "FAILED"}
      /\ bridgeStatus' = "AWAITING_APPROVAL" => bridgeWaiting = "r1" /\ bridgeRun["r1"].ok
    BY <1>0, <1>7 DEF Bridge!Conclude, Bridge!StatusOf
<1>9. BridgeType'
    BY <1>0, <1>1, <1>3, <1>4, <1>5, <1>8 DEF BridgeType, Bridge!TypeOK, BenchRecord
<1>10. bridgeStatus' = "AWAITING_APPROVAL" =>
          Bridge!AnswerIsForInput' /\ Bridge!MatchIsHonest' /\ bridgeBench'.ref = bridgeRef'
    <2> SUFFICES ASSUME bridgeStatus' = "AWAITING_APPROVAL"
                 PROVE  Bridge!AnswerIsForInput' /\ Bridge!MatchIsHonest' /\ bridgeBench'.ref = bridgeRef'
        OBVIOUS
    <2>1. bridgeWaiting = "r1" /\ bridgeRun["r1"].ok
        BY <1>8
    <2>2. /\ bridgeFiles.chip = bridgeFiles.stim /\ bridgeFiles.stim # Bridge!None
          /\ bridgeDriver = "generated" => bridgeFiles.stim = bridgeRun["r1"].input
          /\ bridgeDriver = "generated" /\ bridgeFiles.exp = bridgeRun["r1"].input
                => ((bridgeRun["r1"].verdict = "match") <=> bridgeFiles.right)
        BY <1>0, <2>1 DEF Bridge!InHand
    <2>3. bridgeBench.ref = bridgeRef
        BY <2>1 DEF Bridge!BridgeInv, Bridge!None
    <2>4. /\ bridgeReport'.ok = bridgeRun["r1"].ok /\ bridgeReport'.input = bridgeRun["r1"].input
          /\ bridgeReport'.verdict = bridgeRun["r1"].verdict
        BY <1>1
    <2>5. Bridge!AnswerIsForInput'
        BY <1>1, <1>3, <2>1, <2>2, <2>4 DEF Bridge!AnswerIsForInput
    <2>6. Bridge!MatchIsHonest'
        BY <1>1, <1>3, <2>2, <2>4 DEF Bridge!MatchIsHonest
    <2> QED BY <1>1, <2>3, <2>5, <2>6
<1>11. bridgeBench'.ref <= bridgeRef'
    BY <1>1 DEF Bridge!BridgeInv
<1> QED BY <1>4, <1>6, <1>8, <1>9, <1>10, <1>11
        DEF Bridge!BridgeInv, Bridge!AtGate, Bridge!AnswerIsForInput, Bridge!MatchIsHonest,
            Bridge!BenchIsCurrent

LEMMA NextBridge ==
    ASSUME BridgeType, Bridge!BridgeInv, Bridge!Next PROVE BridgeType' /\ Bridge!BridgeInv'
BY OutsideKeepsBridge, DispatchKeepsBridge, WorkKeepsBridge, ConcludeKeepsBridge
DEF Bridge!Next, Bridge!Handler

LEMMA StutterKeepsBridge ==
    ASSUME UNCHANGED bridgeVars PROVE UNCHANGED <<BridgeType, Bridge!BridgeInv>>
<1> USE DEF bridgeVars
<1>1. UNCHANGED BridgeType
    BY DEF BridgeType, BenchRecord, Bridge!TypeOK
<1>2. UNCHANGED Bridge!InHand("r1")
    BY DEF Bridge!InHand
<1>3. UNCHANGED Bridge!BridgeInv
    BY <1>2 DEF Bridge!BridgeInv, Bridge!AtGate, Bridge!AnswerIsForInput, Bridge!MatchIsHonest,
          Bridge!BenchIsCurrent
<1> QED BY <1>1, <1>3

BridgeSafe ==
    IF stage = "HW_SW_VERIFY" THEN BridgeType /\ Bridge!BridgeInv ELSE bridgeStatus = "FAILED"

LEMMA BridgeStaysSafe == StagesSpec => []BridgeSafe
<1>1. StagesInit => BridgeSafe
    BY InitBridge DEF StagesInit, BridgeRests, BridgeSafe
<1>2. BridgeSafe /\ [StagesNext]_allVars => BridgeSafe'
    <2> SUFFICES ASSUME BridgeSafe, [StagesNext]_allVars PROVE BridgeSafe'
        OBVIOUS
    <2>0. stage' = stage
        BY DEF StagesNext, allVars
    <2>1. CASE stage = "HW_SW_VERIFY" /\ Bridge!Next
        BY <2>0, <2>1, NextBridge DEF BridgeSafe
    <2>2. CASE UNCHANGED bridgeVars
        <3>1. UNCHANGED bridgeStatus
            BY <2>2 DEF bridgeVars
        <3> QED BY <2>0, <2>2, <3>1, StutterKeepsBridge DEF BridgeSafe
    <2> QED BY <2>1, <2>2 DEF StagesNext, allVars
<1> QED BY <1>1, <1>2, SafetySpec, PTL

\* The reviewer of HW_SW_VERIFY sees an answer of the chip in this run to the stimulus beside
\* it, on the pins of the testbench SIM validated last (stage_handlers.py: run_hw_sw_verify,
\* _hwsw_ensure_bridge; hwsw.py: run_cosim).  As long as the driver is the generated one, the
\* stimulus is that of the input the report names, and with the golden answer to that input
\* at hand the report says "match" exactly when the chip is right.  For every number of
\* inputs, uploads, versions of the testbench and repair rounds, while one run of the handler
\* goes on at a time: a client may give up before its run has ended, and inputs are uploaded
\* while it works.
THEOREM AnswerHonest == StagesSpec => []AnswerIsHonest
<1>1. BridgeSafe => AnswerIsHonest
    BY DEF BridgeSafe, AnswerIsHonest, Bridge!BridgeInv, Bridge!AnswerIsForInput,
       Bridge!MatchIsHonest, Bridge!BenchIsCurrent, Bridge!AtGate
<1> QED BY <1>1, BridgeStaysSafe, PTL

-----------------------------------------------------------------------------
(* The end of a run of RTL_GEN *)

GenEnded == phase \in {"done", "failed"}

\* The counter is reset between the loops and never beyond the limit of the present one.
WithinLimit ==
    /\ phase = "complete" => passes <= RepairPasses
    /\ phase \in {"modules", "regenerate"} => passes <= Sweeps
    /\ phase = "author" /\ oneShot # "none" => passes <= MaxRepairs

\* What a run still has before it: the passes left in the present loop, those of the loops
\* after it, and a step between any two of them.
GenLeft ==
    CASE GenEnded -> 0
      [] phase = "author" /\ oneShot # "none" -> MaxRepairs - passes + 1
      [] phase = "author" /\ oneShot = "none" -> MaxRepairs + 2
      [] phase = "judge" -> MaxRepairs + 3
      [] phase = "regenerate" -> MaxRepairs + Sweeps - passes + 4
      [] phase = "modules" -> MaxRepairs + Sweeps + Sweeps - passes + 5
      [] phase = "complete" -> MaxRepairs + Sweeps + Sweeps + RepairPasses - passes + 6
      [] phase = "generate" -> MaxRepairs + Sweeps + Sweeps + RepairPasses + 7
      [] phase = "start" -> MaxRepairs + Sweeps + Sweeps + RepairPasses + 8

GenInv == DeliveryInv /\ WithinLimit

LEMMA GenNumbers ==
    GenInv => /\ {RepairPasses, Sweeps, MaxRepairs, passes} \subseteq Nat
              /\ phase \in {"start", "generate", "complete", "modules", "regenerate", "judge",
                            "author", "done", "failed"}
              /\ phase \in {"start", "judge"} => oneShot = "none"
<1> SUFFICES ASSUME GenInv
             PROVE  /\ {RepairPasses, Sweeps, MaxRepairs, passes} \subseteq Nat
                    /\ phase \in {"start", "generate", "complete", "modules", "regenerate",
                                  "judge", "author", "done", "failed"}
                    /\ phase \in {"start", "judge"} => oneShot = "none"
    OBVIOUS
<1>1. passes \in 0 .. RepairPasses + Sweeps + MaxRepairs
    BY DEF GenInv, DeliveryInv, TypeOK
<1>2. passes \in Nat
    BY <1>1, PassesAssumption
<1> QED BY <1>2, PassesAssumption DEF GenInv, DeliveryInv, TypeOK, Fresh

LEMMA GenLeftCounts == GenInv => GenLeft \in Nat
BY GenNumbers DEF GenLeft, GenEnded, GenInv, WithinLimit

LEMMA GenStepSpends == GenInv /\ Steps => WithinLimit' /\ GenLeft' < GenLeft
<1> SUFFICES ASSUME GenInv, Steps PROVE WithinLimit' /\ GenLeft' < GenLeft
    OBVIOUS
<1>0. /\ RepairPasses \in Nat /\ Sweeps \in Nat /\ MaxRepairs \in Nat /\ passes \in Nat
      /\ phase \in {"start", "judge"} => oneShot = "none"
      /\ WithinLimit
    BY GenNumbers DEF GenInv
<1> USE DEF GenLeft, GenEnded, WithinLimit
<1>1. CASE Start
    <2>1. phase = "start" /\ phase' \in {"generate", "author"} /\ UNCHANGED oneShot
        BY <1>1 DEF Start
    <2> QED BY <1>0, <2>1
<1>2. CASE Generate
    <2>1. phase = "generate" /\ phase' = "complete" /\ passes' = 0
        BY <1>2 DEF Generate
    <2> QED BY <1>0, <2>1
<1>3. CASE CompletePass
    <2>1. phase = "complete" /\ phase' = phase /\ passes' = passes + 1 /\ passes < RepairPasses
        BY <1>3 DEF CompletePass
    <2> QED BY <1>0, <2>1
<1>4. CASE CompletePassesEnd
    <2>1. phase = "complete" /\ phase' = "modules" /\ passes' = 0
        BY <1>4 DEF CompletePassesEnd
    <2> QED BY <1>0, <2>1
<1>5. CASE ModuleSweep
    <2>1. phase = "modules" /\ phase' = phase /\ passes' = passes + 1 /\ passes < Sweeps
        BY <1>5 DEF ModuleSweep
    <2> QED BY <1>0, <2>1
<1>6. CASE Deframe
    <2>1. phase = "modules" /\ phase' \in {"judge", "regenerate"} /\ passes' = 0
        BY <1>6 DEF Deframe
    <2> QED BY <1>0, <2>1
<1>7. CASE Regenerate
    <2>1. phase = "regenerate" /\ phase' = phase /\ passes' = passes + 1 /\ passes < Sweeps
        BY <1>7 DEF Regenerate
    <2> QED BY <1>0, <2>1
<1>8. CASE RegenerateEnds
    <2>1. phase = "regenerate" /\ phase' = "judge"
        BY <1>8 DEF RegenerateEnds
    <2> QED BY <1>0, <2>1
<1>9. CASE Judge
    <2>1. phase = "judge" /\ phase' \in {"failed", "done", "author"} /\ UNCHANGED oneShot
        BY <1>9 DEF Judge
    <2> QED BY <1>0, <2>1
<1>10. CASE ProviderRefuses
    <2>1. phase \in {"generate", "complete", "modules", "regenerate"} /\ phase' = "failed"
        BY <1>10 DEF ProviderRefuses
    <2> QED BY <1>0, <2>1
<1>11. CASE AuthorRefused \/ AuthorDone
    <2>1. phase = "author" /\ phase' \in {"failed", "done"}
        BY <1>11 DEF AuthorRefused, AuthorDone
    <2> QED BY <1>0, <2>1
<1>12. CASE Author
    <2>1. phase = "author" /\ phase' = phase /\ oneShot = "none" /\ oneShot' # "none" /\ passes' = 0
        BY <1>12 DEF Author
    <2> QED BY <1>0, <2>1
<1>13. CASE AuthorRepairs
    <2>1. /\ phase = "author" /\ phase' = phase /\ oneShot = "fails" /\ oneShot' # "none"
          /\ passes < MaxRepairs /\ passes' = passes + 1
        BY <1>13 DEF AuthorRepairs
    <2> QED BY <1>0, <2>1
<1> QED BY <1>1, <1>2, <1>3, <1>4, <1>5, <1>6, <1>7, <1>8, <1>9, <1>10, <1>11, <1>12, <1>13
        DEF Steps

\* A run of RTL_GEN is bounded, whatever its agents write: each step before it has delivered
\* or failed spends what is left of it (run_rtl_gen: no pass, sweep or repair goes uncounted,
\* and the counter is reset only on the way to the next loop).
THEOREM GenerationSpends == Spec => [](GenLeft \in Nat) /\ [][~GenEnded => GenLeft' < GenLeft]_vars
<1>1. Init => WithinLimit
    BY PassesAssumption DEF Init, WithinLimit
<1>2. GenInv /\ [Next]_vars => WithinLimit'
    <2>1. CASE UNCHANGED vars
        BY <2>1 DEF vars, GenInv, WithinLimit
    <2>2. CASE Retry
        BY <2>2 DEF Retry, WithinLimit
    <2> QED BY <2>1, <2>2, GenStepSpends DEF Next
<1>3. GenInv /\ [Next]_vars => [~GenEnded => GenLeft' < GenLeft]_vars
    <2>1. CASE Retry
        BY <2>1 DEF Retry, GenEnded
    <2> QED BY <2>1, GenStepSpends DEF Next
<1>4. Spec => []GenInv
    BY <1>1, <1>2, InitDelivery, NextDelivery, PTL DEF Spec, GenInv
<1> QED BY <1>3, <1>4, GenLeftCounts, PTL DEF Spec

-----------------------------------------------------------------------------
(* The end of a run of RTL_REPAIR *)

\* The branches before the present one are over; a dispatched run has at most four.
RepairLeft ==
    IF repairPhase = "synthesis" THEN 4
    ELSE IF repairPhase = "simulation" THEN 3
    ELSE IF repairPhase = "instruction" THEN 2
    ELSE IF repairPhase \in {"simulated", "followed", "compile", "one file"} THEN 1 ELSE 0

\* Each step of a run of RTL_REPAIR leads to a later branch (stage_handlers.py:
\* run_rtl_repair), so that a run has four steps at most and the orchestrator, which waits
\* for it inside its own loop, is answered.
THEOREM RepairSpends ==
    StagesSpec => [][stage = "RTL_REPAIR" /\ RepairLeft > 0 => RepairLeft' < RepairLeft]_allVars
<1>1. [StagesNext]_allVars =>
          [stage = "RTL_REPAIR" /\ RepairLeft > 0 => RepairLeft' < RepairLeft]_allVars
    <2> SUFFICES ASSUME Repair!Next, RepairLeft > 0 PROVE RepairLeft' < RepairLeft
        BY DEF StagesNext
    <2>0. repairPhase \in {"synthesis", "simulation", "instruction", "simulated", "followed",
                           "compile", "one file"}
        <3>1. ~(0 > 0)
            OBVIOUS
        <3>2. RepairLeft # 0
            BY <3>1
        <3> QED BY <3>2 DEF RepairLeft
    <2>1. ~(Repair!Simulated \/ Repair!Synthesised \/ Repair!Dispatch \/ Repair!GoOn)
        <3>1. repairPhase \notin {"idle", "done", "failed"}
            BY <2>0
        <3> QED BY <3>1 DEF Repair!Simulated, Repair!Synthesised, Repair!Dispatch, Repair!GoOn
    <2>2. CASE Repair!ProviderRefuses
        <3>1. repairPhase' = "failed"
            BY <2>2 DEF Repair!ProviderRefuses
        <3> QED BY <2>0, <3>1 DEF RepairLeft
    <2>3. CASE Repair!RepairSynthesis \/ Repair!NoSynthesisError
        <3>1. repairPhase = "synthesis" /\ repairPhase' = "simulation"
            BY <2>3, Zenon DEF Repair!RepairSynthesis, Repair!NoSynthesisError, Repair!PassThen,
               Repair!Skip
        <3> QED BY <3>1 DEF RepairLeft
    <2>4. CASE Repair!RepairSimulation \/ Repair!NoSimulationError
        <3>1. repairPhase = "simulation" /\ repairPhase' \in {"simulated", "instruction"}
            BY <2>4, Zenon DEF Repair!RepairSimulation, Repair!NoSimulationError,
               Repair!PassThen, Repair!Skip
        <3> QED BY <3>1 DEF RepairLeft
    <2>5. CASE Repair!FollowInstruction \/ Repair!NoInstruction
        <3>1. repairPhase = "instruction" /\ repairPhase' \in {"followed", "compile"}
            BY <2>5, Zenon DEF Repair!FollowInstruction, Repair!NoInstruction, Repair!PassThen,
               Repair!Skip
        <3> QED BY <3>1 DEF RepairLeft
    <2>6. CASE \/ Repair!Regression \/ Repair!AlreadyClean \/ Repair!RepairCompile
               \/ Repair!CorrectOneFile \/ Repair!NoFile
        <3>1. repairPhase' = "done"
            BY <2>6 DEF Repair!Regression, Repair!RegressionPass, Repair!AlreadyClean,
               Repair!RepairCompile, Repair!CorrectOneFile, Repair!NoFile
        <3> QED BY <2>0, <3>1 DEF RepairLeft
    <2> QED BY <2>1, <2>2, <2>3, <2>4, <2>5, <2>6 DEF Repair!Next, Repair!Steps
<1> QED BY <1>1, SafetySpec, PTL

-----------------------------------------------------------------------------
(* The end of a run of TB_GEN *)

\* The rounds that are left, a pass and a check each, and the steps of the present one.
BenchPlace ==
    IF benchPhase = "start" THEN 3
    ELSE IF benchPhase = "agent" THEN 2
    ELSE 1
BenchLeft ==
    IF benchPhase \in {"done", "failed"} THEN 0
    ELSE IF benchPhase \in {"judge", "template"} THEN 1
    ELSE 2 * (BenchRounds - benchRounds) + BenchPlace

\* A round is counted when something is missing, and only while there is one.
BenchCounts ==
    /\ benchRounds \in 0 .. BenchRounds
    /\ benchPhase = "check" => benchRounds < BenchRounds

LEMMA BenchNumbers ==
    BenchCounts => /\ BenchRounds \in Nat /\ benchRounds \in Nat /\ benchRounds <= BenchRounds
                   /\ 2 * (BenchRounds - benchRounds) \in Nat
BY BenchAssumption DEF BenchCounts

LEMMA BenchLeftCounts == BenchCounts => BenchLeft \in Nat
<1> SUFFICES ASSUME BenchCounts PROVE BenchLeft \in Nat
    OBVIOUS
<1>1. BenchPlace \in Nat
    BY DEF BenchPlace
<1> QED BY <1>1, BenchNumbers DEF BenchLeft

LEMMA BenchStepSpends ==
    ASSUME BenchCounts, Bench!Steps PROVE BenchCounts' /\ BenchLeft' < BenchLeft
<1>0. /\ BenchRounds \in Nat /\ benchRounds \in Nat /\ benchRounds <= BenchRounds
      /\ 2 * (BenchRounds - benchRounds) \in Nat
    BY BenchNumbers
<1> USE DEF BenchLeft, BenchPlace
<1>1. CASE Bench!Check /\ benchMissing' # {}
    <2>1. /\ benchPhase = "check" /\ benchPhase' = "agent" /\ benchRounds' = benchRounds + 1
          /\ benchRounds < BenchRounds
        BY <1>1 DEF Bench!Check, BenchCounts
    <2>2. BenchCounts'
        BY <1>0, <2>1 DEF BenchCounts
    <2>3. 2 * (BenchRounds - (benchRounds + 1)) = 2 * (BenchRounds - benchRounds) - 2
        BY <1>0, <2>1
    <2>4. BenchLeft = 2 * (BenchRounds - benchRounds) + 1
        BY <2>1
    <2>5. BenchLeft' = 2 * (BenchRounds - (benchRounds + 1)) + 2
        BY <2>1
    <2> QED BY <1>0, <2>2, <2>3, <2>4, <2>5
<1>2. CASE Bench!Check /\ benchMissing' = {}
    <2>1. /\ benchPhase = "check" /\ benchPhase' = "judge" /\ benchRounds' = benchRounds
          /\ benchRounds < BenchRounds
        BY <1>2 DEF Bench!Check, BenchCounts
    <2>2. BenchCounts'
        BY <1>0, <2>1 DEF BenchCounts
    <2>3. BenchLeft = 2 * (BenchRounds - benchRounds) + 1 /\ BenchLeft' = 1
        BY <2>1
    <2>4. 2 * (BenchRounds - benchRounds) > 0
        BY <1>0, <2>1
    <2> QED BY <1>0, <2>2, <2>3, <2>4
<1>3. CASE Bench!AgentPass
    <2>1. /\ benchPhase = "agent" /\ benchRounds' = benchRounds
          /\ benchPhase' \in {"check", "judge"}
          /\ benchPhase' = "check" => benchRounds < BenchRounds
        BY <1>3 DEF Bench!AgentPass
    <2>2. BenchCounts'
        BY <1>0, <2>1 DEF BenchCounts
    <2>3. BenchLeft = 2 * (BenchRounds - benchRounds) + 2
        BY <2>1
    <2>4. BenchLeft' \in {1, 2 * (BenchRounds - benchRounds) + 1}
        BY <2>1
    <2> QED BY <1>0, <2>2, <2>3, <2>4
<1>4. CASE Bench!Start
    <2>1. /\ benchPhase = "start" /\ benchRounds' = benchRounds
          /\ benchPhase' \in {"agent", "template"}
        BY <1>4, Zenon DEF Bench!Start
    <2>2. BenchCounts'
        BY <1>0, <2>1 DEF BenchCounts
    <2>3. BenchLeft = 2 * (BenchRounds - benchRounds) + 3
        BY <2>1
    <2>4. BenchLeft' \in {1, 2 * (BenchRounds - benchRounds) + 2}
        BY <2>1
    <2> QED BY <1>0, <2>2, <2>3, <2>4
<1>5. CASE Bench!Judge \/ Bench!Template \/ Bench!ProviderRefuses
    <2>1. /\ benchPhase \in {"judge", "template", "agent"} /\ benchRounds' = benchRounds
          /\ benchPhase' \in {"done", "failed"}
        BY <1>5, Zenon DEF Bench!Judge, Bench!Template, Bench!ProviderRefuses
    <2>2. BenchCounts'
        BY <1>0, <2>1 DEF BenchCounts
    <2>3. BenchLeft \in {1, 2 * (BenchRounds - benchRounds) + 2} /\ BenchLeft' = 0
        BY <2>1
    <2> QED BY <1>0, <2>2, <2>3
<1> QED BY <1>1, <1>2, <1>3, <1>4, <1>5 DEF Bench!Steps

\* A run of TB_GEN is bounded, whatever its agent writes and the checks find: each step
\* before it has delivered or failed spends what is left of its rounds (run_tb_gen).
THEOREM BenchSpends ==
    StagesSpec => /\ [](BenchLeft \in Nat)
                  /\ [][stage = "TB_GEN" /\ BenchLeft > 0 => BenchLeft' < BenchLeft]_allVars
<1>1. StagesInit => BenchCounts
    <2> SUFFICES ASSUME StagesInit PROVE BenchCounts
        OBVIOUS
    <2>1. benchRounds = 0 /\ benchPhase \in {"start", "failed"}
        BY DEF StagesInit, BenchRests, Bench!Init
    <2> QED BY <2>1, BenchAssumption DEF BenchCounts
<1>2. Bench!Rerun => benchPhase \in {"done", "failed"} /\ BenchCounts'
    <2> SUFFICES ASSUME Bench!Rerun PROVE benchPhase \in {"done", "failed"} /\ BenchCounts'
        OBVIOUS
    <2>1. benchPhase \in {"done", "failed"} /\ benchPhase' = "start" /\ benchRounds' = 0
        BY DEF Bench!Rerun
    <2> QED BY <2>1, BenchAssumption DEF BenchCounts
<1>3. BenchCounts /\ [StagesNext]_allVars => BenchCounts'
    <2> SUFFICES ASSUME BenchCounts, [StagesNext]_allVars PROVE BenchCounts'
        OBVIOUS
    <2>1. CASE Bench!Next
        BY <1>2, <2>1, BenchStepSpends DEF Bench!Next
    <2>2. CASE UNCHANGED benchVars
        BY <2>2 DEF benchVars, BenchCounts
    <2> QED BY <2>1, <2>2 DEF StagesNext, allVars
<1>4. BenchCounts /\ [StagesNext]_allVars =>
          [stage = "TB_GEN" /\ BenchLeft > 0 => BenchLeft' < BenchLeft]_allVars
    <2> SUFFICES ASSUME BenchCounts, Bench!Next, BenchLeft > 0 PROVE BenchLeft' < BenchLeft
        BY DEF StagesNext
    <2>1. ~Bench!Rerun
        <3>1. benchPhase \in {"done", "failed"} => BenchLeft = 0
            BY DEF BenchLeft
        <3>2. BenchLeft # 0
            OBVIOUS
        <3> QED BY <1>2, <3>1, <3>2
    <2> QED BY <2>1, BenchStepSpends DEF Bench!Next
<1> QED BY <1>1, <1>3, <1>4, BenchLeftCounts, SafetySpec, PTL

-----------------------------------------------------------------------------
(* The end of a run of HW_SW_VERIFY *)

\* Five steps for every repair round that is left, and those of the present attempt.
BridgePlace(pc) ==
    IF pc = "feedback" THEN 7
    ELSE IF pc = "encode" THEN 6
    ELSE IF pc = "compile" THEN 5
    ELSE IF pc = "simulate" THEN 4
    ELSE IF pc = "decode" THEN 3
    ELSE 2
AttemptsLeft == BridgeRounds - bridgeRun["r1"].attempt
BridgeLeft ==
    IF bridgeRun["r1"].pc = "idle" THEN 0
    ELSE IF bridgeRun["r1"].pc = "conclude" THEN 1
    ELSE 5 * AttemptsLeft + BridgePlace(bridgeRun["r1"].pc)

LEMMA BridgeNumbers ==
    ASSUME BridgeType
    PROVE  /\ bridgeRun \in [{"r1"} -> Bridge!Locals] /\ bridgeRun["r1"].pc \in Bridge!Steps
           /\ bridgeRun["r1"].attempt \in Nat /\ BridgeRounds \in Nat
           /\ AttemptsLeft \in Nat /\ 5 * AttemptsLeft \in Nat
<1>1. bridgeRun \in [{"r1"} -> Bridge!Locals] /\ BridgeRounds \in Nat
    BY BridgeAssumption DEF BridgeType, Bridge!TypeOK
<1>2. bridgeRun["r1"].pc \in Bridge!Steps /\ bridgeRun["r1"].attempt \in 0 .. BridgeRounds
    BY <1>1 DEF Bridge!Locals
<1> QED BY <1>1, <1>2 DEF AttemptsLeft

LEMMA BridgeLeftCounts == BridgeType => BridgeLeft \in Nat
<1> SUFFICES ASSUME BridgeType PROVE BridgeLeft \in Nat
    OBVIOUS
<1>1. BridgePlace(bridgeRun["r1"].pc) \in Nat
    BY DEF BridgePlace
<1> QED BY <1>1, BridgeNumbers DEF BridgeLeft

\* The places a run of the handler goes to from each place, and its rounds.
LEMMA HandlerGoes ==
    ASSUME BridgeType, Bridge!Handler("r1")
    PROVE  LET pc == bridgeRun["r1"].pc  next == bridgeRun'["r1"].pc
               a == bridgeRun["r1"].attempt  b == bridgeRun'["r1"].attempt
           IN  \/ pc = "feedback" /\ next = "encode" /\ b = a
               \/ pc = "encode" /\ next \in {"compile", "failed"} /\ b = a
               \/ pc = "compile" /\ next \in {"simulate", "failed"} /\ b = a
               \/ pc = "simulate" /\ next \in {"decode", "failed"} /\ b = a
               \/ pc = "decode" /\ next = "failed" /\ b = a
               \/ pc = "decode" /\ next = "conclude"
               \/ pc = "failed" /\ next = "encode" /\ b = a + 1 /\ a < BridgeRounds
               \/ pc = "failed" /\ next = "conclude"
               \/ pc = "conclude" /\ next = "idle"
<1> USE BridgeNumbers DEF Bridge!Set, Bridge!Locals
<1>1. CASE Bridge!FeedbackPass("r1")
    BY <1>1 DEF Bridge!FeedbackPass
<1>2. CASE Bridge!Encode("r1")
    BY <1>2 DEF Bridge!Encode
<1>3. CASE Bridge!Compile("r1")
    BY <1>3 DEF Bridge!Compile
<1>4. CASE Bridge!Simulate("r1")
    BY <1>4 DEF Bridge!Simulate
<1>5. CASE Bridge!Decode("r1")
    <2>1. CASE Bridge!Set("r1", "failed")
        BY <1>5, <2>1 DEF Bridge!Decode
    <2>2. ASSUME NEW v, Bridge!Verdict("r1", v)
          PROVE  bridgeRun["r1"].pc = "decode" /\ bridgeRun'["r1"].pc = "conclude"
        BY <1>5, <2>2 DEF Bridge!Decode, Bridge!Verdict
    <2> QED BY <1>5, <2>1, <2>2 DEF Bridge!Decode
<1>6. CASE Bridge!Repair("r1")
    BY <1>6 DEF Bridge!Repair
<1>7. CASE Bridge!Abandon("r1")
    BY <1>7 DEF Bridge!Abandon
<1>8. CASE Bridge!Conclude("r1")
    BY <1>8 DEF Bridge!Conclude, Bridge!Idle
<1> QED BY <1>1, <1>2, <1>3, <1>4, <1>5, <1>6, <1>7, <1>8 DEF Bridge!Handler

LEMMA HandlerSpends ==
    ASSUME BridgeType, Bridge!Handler("r1") PROVE BridgeLeft' < BridgeLeft
<1> DEFINE pc == bridgeRun["r1"].pc  next == bridgeRun'["r1"].pc
           a == bridgeRun["r1"].attempt  b == bridgeRun'["r1"].attempt
<1>0. a \in Nat /\ BridgeRounds \in Nat /\ 5 * (BridgeRounds - a) \in Nat
    BY BridgeNumbers DEF AttemptsLeft
<1> USE DEF BridgeLeft, BridgePlace, AttemptsLeft
<1>1. CASE pc = "failed" /\ next = "encode" /\ b = a + 1 /\ a < BridgeRounds
    <2>1. BridgeLeft = 5 * (BridgeRounds - a) + 2 /\ BridgeLeft' = 5 * (BridgeRounds - (a + 1)) + 6
        BY <1>1
    <2>2. 5 * (BridgeRounds - (a + 1)) = 5 * (BridgeRounds - a) - 5
        BY <1>0
    <2> QED BY <1>0, <2>1, <2>2
<1>2. CASE /\ b = a
           /\ \/ pc = "feedback" /\ next = "encode"
              \/ pc = "encode" /\ next \in {"compile", "failed"}
              \/ pc = "compile" /\ next \in {"simulate", "failed"}
              \/ pc = "simulate" /\ next \in {"decode", "failed"}
              \/ pc = "decode" /\ next = "failed"
    <2>1. /\ BridgeLeft = 5 * (BridgeRounds - a) + BridgePlace(pc)
          /\ BridgeLeft' = 5 * (BridgeRounds - a) + BridgePlace(next)
          /\ BridgePlace(pc) \in 0 .. 7 /\ BridgePlace(next) \in 0 .. 7
          /\ BridgePlace(next) < BridgePlace(pc)
        BY <1>2
    <2> HIDE DEF BridgeLeft, BridgePlace, AttemptsLeft
    <2> QED BY <1>0, <2>1
<1>3. CASE \/ pc = "decode" /\ next = "conclude"
           \/ pc = "failed" /\ next = "conclude"
           \/ pc = "conclude" /\ next = "idle"
    BY <1>0, <1>3
<1> QED BY <1>1, <1>2, <1>3, HandlerGoes

\* A run of HW_SW_VERIFY is bounded, whatever its agent and the simulation do: each step of
\* the handler before its end spends what is left of its rounds, and nobody else, neither the
\* reviewer nor an upload nor a client that gives up, gives it more (run_hw_sw_verify).
THEOREM BridgeSpends ==
    StagesSpec =>
        /\ [](stage = "HW_SW_VERIFY" => BridgeLeft \in Nat)
        /\ [][stage = "HW_SW_VERIFY" /\ BridgeLeft > 0 =>
                BridgeLeft' < BridgeLeft \/ UNCHANGED bridgeRun]_allVars
<1>1. BridgeSafe => (stage = "HW_SW_VERIFY" => BridgeLeft \in Nat)
    BY BridgeLeftCounts DEF BridgeSafe
<1>2. BridgeSafe /\ [StagesNext]_allVars =>
          [stage = "HW_SW_VERIFY" /\ BridgeLeft > 0 =>
              BridgeLeft' < BridgeLeft \/ UNCHANGED bridgeRun]_allVars
    <2> SUFFICES ASSUME BridgeType, Bridge!Next, BridgeLeft > 0
                 PROVE  BridgeLeft' < BridgeLeft \/ UNCHANGED bridgeRun
        BY DEF BridgeSafe, StagesNext
    <2>1. ~Bridge!Dispatch("r1")
        <3>1. bridgeRun["r1"].pc = "idle" => BridgeLeft = 0
            BY DEF BridgeLeft
        <3>2. BridgeLeft # 0
            OBVIOUS
        <3> QED BY <3>1, <3>2 DEF Bridge!Dispatch
    <2>2. CASE Bridge!Handler("r1")
        BY <2>2, HandlerSpends
    <2>3. CASE \/ \E i \in Inputs : Bridge!Upload(i)
               \/ Bridge!Reject \/ Bridge!RetryStage \/ Bridge!RewriteReference \/ Bridge!GiveUp
        BY <2>3 DEF Bridge!Upload, Bridge!Reject, Bridge!RetryStage, Bridge!RewriteReference,
           Bridge!GiveUp
    <2> QED BY <2>1, <2>2, <2>3 DEF Bridge!Next
<1> QED BY <1>1, <1>2, BridgeStaysSafe, SafetySpec, PTL
====
