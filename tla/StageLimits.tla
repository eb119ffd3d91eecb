------------------------------ MODULE StageLimits ------------------------------
(***************************************************************************)
(* How often RTL_GEN and RTL_REPAIR send an agent back                      *)
(* (agent-service/agents/stage_handlers.py).                                *)
(***************************************************************************)
EXTENDS Naturals

CONSTANTS
    RepairPasses,  \* passes of RTL_GEN's completeness gate, 3 in the code
    Sweeps,        \* its sweeps over missing modules, 2 in the code
    MaxRepairs     \* MAX_REPAIR_ITERS of the one-shot author and corrector

ASSUME PassesAssumption == {RepairPasses, Sweeps, MaxRepairs} \subseteq Nat
===============================================================================
