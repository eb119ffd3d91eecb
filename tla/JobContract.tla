------------------------------ MODULE JobContract ------------------------------
(***************************************************************************)
(* What eda-service promises its one caller, the orchestrator: a job that  *)
(* was accepted exists, and every job that exists ends.  This is what the  *)
(* module Orchestrator takes for granted of the jobs it dispatches.        *)
(***************************************************************************)
CONSTANT Jobs

VARIABLES
    state,    \* what GET /eda/jobs/{job_id}/status would answer
    accepted  \* jobs whose id the caller was given

vars == <<state, accepted>>

Init ==
    /\ state = [j \in Jobs |-> "absent"]
    /\ accepted = {}

\* The job is created whether or not its caller will ever know of it.
Create(j) ==
    /\ state[j] = "absent"
    /\ state' = [state EXCEPT ![j] = "live"]
    /\ UNCHANGED accepted

Accept(j) ==
    /\ state[j] # "absent"
    /\ accepted' = accepted \cup {j}
    /\ UNCHANGED state

End(j) ==
    /\ state[j] = "live"
    /\ state' = [state EXCEPT ![j] = "ended"]
    /\ UNCHANGED accepted

Next == \E j \in Jobs : Create(j) \/ Accept(j) \/ End(j)

Fairness == \A j \in Jobs : WF_vars(End(j))

Spec == Init /\ [][Next]_vars

FairSpec == Spec /\ Fairness
===============================================================================
