---------------------------- MODULE MCOrchestrator ----------------------------
(***************************************************************************)
(* Small instances of Orchestrator for TLC.                                *)
(***************************************************************************)
EXTENDS Orchestrator, StageGraphs, TLC

CONSTANTS w1, w2, c1

Interchangeable == Permutations({w1, w2})
===============================================================================
