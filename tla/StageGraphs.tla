------------------------------ MODULE StageGraphs ------------------------------
(***************************************************************************)
(* Slices of the real stage graph (stageDefs in orchestrator.go) that keep *)
(* its kinds, its gates and its two self-repair loops, for TLC.            *)
(***************************************************************************)
EXTENDS Naturals

\* GOLDEN_GEN (agent, gate) -> RTL_GEN (agent) -> SIM (eda, gate)
ChainStages == {"GOLDEN_GEN", "RTL_GEN", "SIM"}
ChainDependsOn ==
    [s \in ChainStages |-> CASE s = "GOLDEN_GEN" -> {}
                             [] s = "RTL_GEN" -> {"GOLDEN_GEN"}
                             [] s = "SIM" -> {"RTL_GEN"}]
ChainRank ==
    [s \in ChainStages |-> CASE s = "GOLDEN_GEN" -> 1
                             [] s = "RTL_GEN" -> 2
                             [] s = "SIM" -> 3]

\* GOLDEN_GEN (agent, gate) -> SIM (eda, gate): one stage of each kind
PairStages == {"GOLDEN_GEN", "SIM"}
PairDependsOn == [s \in PairStages |-> IF s = "SIM" THEN {"GOLDEN_GEN"} ELSE {}]
PairRank == [s \in PairStages |-> IF s = "SIM" THEN 2 ELSE 1]

\* SIM (eda, gate, self-repair loop) alone
LoopStages == {"SIM"}
LoopDependsOn == [s \in LoopStages |-> {}]
LoopRank == [s \in LoopStages |-> 1]

\* PNR (eda, hardening loop) -> STA and DRC_LVS (eda) -> SIGNOFF (agent)
ForkStages == {"PNR", "STA", "DRC_LVS", "SIGNOFF"}
ForkDependsOn ==
    [s \in ForkStages |-> CASE s = "PNR" -> {}
                            [] s \in {"STA", "DRC_LVS"} -> {"PNR"}
                            [] s = "SIGNOFF" -> {"STA", "DRC_LVS"}]
ForkRank ==
    [s \in ForkStages |-> CASE s = "PNR" -> 1
                            [] s = "STA" -> 2
                            [] s = "DRC_LVS" -> 3
                            [] s = "SIGNOFF" -> 4]

OneRound == [k \in {"sim", "harden"} |-> 1]
===============================================================================
