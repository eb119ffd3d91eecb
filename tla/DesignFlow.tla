------------------------------ MODULE DesignFlow ------------------------------
(***************************************************************************)
(* What the orchestrator promises of a design flow, whatever services,     *)
(* goroutines and rows it takes: the stages of a task are finished along   *)
(* the dependency graph, and what depends on a gate waits for a reviewer   *)
(* who releases it (orchestrator.go, StageDefinition).  A release is the    *)
(* user's word and is taken for any stage, whatever it depends on          *)
(* (ApproveStage).                                                         *)
(*                                                                         *)
(* Only the first time a stage is finished counts: a retry or a repair     *)
(* runs it again and finishes it again, which is a stuttering step here.   *)
(***************************************************************************)
CONSTANTS
    Stages,     \* names of the stage definitions
    DependsOn,  \* StageDefinition.DependsOn
    Gates       \* RequiresApproval

VARIABLES
    done,       \* stages that have ever been SUCCEEDED or RELEASED
    released    \* stages a user has ever released

vars == <<done, released>>

Init ==
    /\ done = {}
    /\ released = {}

\* Everything s depends on was finished or released, and its gates were released.
Open(s) == \A d \in DependsOn[s] : d \in done /\ (d \in Gates => d \in released)

Finish(s) ==
    /\ s \notin Gates
    /\ Open(s)
    /\ done' = done \cup {s}
    /\ UNCHANGED released

Release(s) ==
    /\ done' = done \cup {s}
    /\ released' = released \cup {s}

Next == \E s \in Stages : Finish(s) \/ Release(s)

Spec == Init /\ [][Next]_vars
===============================================================================
