------------------------------- MODULE JobLimits -------------------------------
(***************************************************************************)
(* The jobs of eda-service, and what may happen to them.                   *)
(***************************************************************************)
EXTENDS Naturals

CONSTANTS
    Jobs,           \* job ids, one per POST /eda/jobs
    NoJob,
    MaxFaults,      \* bound: commands to Redis or the database that fail
    MaxCrashes,     \* bound: restarts of the service
    MaxDeletes      \* bound: DELETE requests

ASSUME JobsAssumption ==
    /\ NoJob \notin Jobs
    /\ {MaxFaults, MaxCrashes, MaxDeletes} \subseteq Nat
===============================================================================
