------------------------------- MODULE AgentCalls -------------------------------
(***************************************************************************)
(* What the deep agents of agent-service do at the same time in one process *)
(* and one workspace: the calls of one message run on threads of the graph, *)
(* and every stage of every task shares the store of lessons.               *)
(***************************************************************************)
EXTENDS Naturals, FiniteSets

CONSTANTS
    Scripts,     \* calls of run_python, each with a snippet of its own
    Installs,    \* calls of pip_install, each with a package of its own
    PipAttempts, \* commands pip_install tries, 2 or 3 in the code
    MaxDeletes,  \* bound: kept snippets the agent deletes
    Threads,     \* calls of remember_fix
    Readers,     \* calls of recall_fix
    Signatures,  \* signatures of errors
    MaxCrashes   \* bound: deaths of the service and errors of its file

ASSUME CallsAssumption ==
    /\ IsFiniteSet(Scripts) /\ IsFiniteSet(Installs) /\ Scripts \cap Installs = {}
    /\ "none" \notin Scripts
    /\ PipAttempts \in Nat \ {0} /\ MaxDeletes \in Nat

ASSUME StoreAssumption ==
    /\ Threads \cap Readers = {} /\ MaxCrashes \in Nat
    /\ {"free", "none"} \cap (Threads \cup Readers) = {}
===============================================================================
