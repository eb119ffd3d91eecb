------------------------------ MODULE LessonStore ------------------------------
(***************************************************************************)
(* The lessons of the agents (agent-service/lessons.py): one JSON file on    *)
(* the shared workspace volume that every stage and every task of the        *)
(* service reads and rewrites as a whole, under a lock of the process.  A    *)
(* lesson is stored under the signature of its error.                        *)
(***************************************************************************)
EXTENDS AgentCalls

VARIABLES
    pc,      \* where every call is
    lock,    \* the call that holds _LOCK, or "free"
    file,    \* fix_lessons.json: the lessons by signature
    torn,    \* the file is truncated and not yet written
    mine,    \* the lesson a call of remember_fix brings: its signature
    data,    \* the file as a call has read it
    crashes, \* deaths of the service, and errors of the file, so far
    learned  \* history: per signature, the call whose lesson was stored last

vars == <<pc, lock, file, torn, mine, data, crashes, learned>>

Calls == Threads \cup Readers
Lessons == [Signatures -> Threads \cup {"none"}]
Empty == [s \in Signatures |-> "none"]

-----------------------------------------------------------------------------
\* What _load returns: nothing when the file does not parse.
Load == IF torn THEN Empty ELSE file

Init ==
    /\ pc = [c \in Calls |-> "idle"]
    /\ lock = "free" /\ file = Empty /\ torn = FALSE
    /\ mine \in [Threads -> Signatures]
    /\ data = [c \in Calls |-> Empty]
    /\ crashes = 0 /\ learned = Empty

Acquire(c) ==
    /\ pc[c] = "idle" /\ lock = "free"
    /\ pc' = [pc EXCEPT ![c] = "load"]
    /\ lock' = c
    /\ UNCHANGED <<file, torn, mine, data, crashes, learned>>

Fault == crashes < MaxCrashes /\ crashes' = crashes + 1

\* A reader gives the lock back when it has read the file, and matches without it.
Loaded(c, lessons) ==
    /\ pc[c] = "load"
    /\ data' = [data EXCEPT ![c] = lessons]
    /\ IF c \in Readers THEN pc' = [pc EXCEPT ![c] = "done"] /\ lock' = "free"
       ELSE pc' = [pc EXCEPT ![c] = "truncate"] /\ UNCHANGED lock
    /\ UNCHANGED <<file, torn, mine, learned>>

Read(c) == Loaded(c, Load) /\ UNCHANGED crashes

\* A file that cannot be read is taken for an empty one.
ReadFails(c) == Fault /\ Loaded(c, Empty)

\* write_text truncates the file.
Truncate(c) ==
    /\ pc[c] = "truncate"
    /\ pc' = [pc EXCEPT ![c] = "write"]
    /\ torn' = TRUE
    /\ UNCHANGED <<lock, file, mine, data, crashes, learned>>

\* Mutant: the file holds the new lesson alone.
WriteAlone(c) ==
    /\ pc[c] = "write"
    /\ pc' = [pc EXCEPT ![c] = "done"]
    /\ file' = [Empty EXCEPT ![mine[c]] = c]
    /\ torn' = FALSE /\ lock' = "free"
    /\ learned' = [learned EXCEPT ![mine[c]] = c]
    /\ UNCHANGED <<mine, data, crashes>>
\* Then it writes what was read, with the lesson under its signature.
Write(c) ==
    /\ pc[c] = "write"
    /\ pc' = [pc EXCEPT ![c] = "done"]
    /\ file' = [data[c] EXCEPT ![mine[c]] = c]
    /\ torn' = FALSE /\ lock' = "free"
    /\ learned' = [learned EXCEPT ![mine[c]] = c]
    /\ UNCHANGED <<mine, data, crashes>>

\* An error before the truncation or after it is swallowed.
SaveFails(c) ==
    /\ pc[c] \in {"truncate", "write"}
    /\ Fault
    /\ pc' = [pc EXCEPT ![c] = "done"] /\ lock' = "free"
    /\ UNCHANGED <<file, torn, mine, data, learned>>

\* The service dies and starts again: its calls are gone, a file being written is torn.
Crash ==
    /\ Fault
    /\ pc' = [c \in Calls |-> IF pc[c] = "idle" THEN "idle" ELSE "done"]
    /\ lock' = "free"
    /\ UNCHANGED <<file, torn, mine, data, learned>>

Next ==
    \/ \E c \in Calls : Acquire(c) \/ Read(c) \/ ReadFails(c)
    \/ \E c \in Threads : Truncate(c) \/ Write(c) \/ SaveFails(c)
    \/ Crash

Spec == Init /\ [][Next]_vars

-----------------------------------------------------------------------------
\* The variables keep their types; one call holds the lock, and only it is inside.
TypeOK ==
    /\ pc \in [Calls -> {"idle", "load", "truncate", "write", "done"}]
    /\ lock \in Calls \cup {"free"}
    /\ file \in Lessons /\ learned \in Lessons
    /\ torn \in BOOLEAN
    /\ mine \in [Threads -> Signatures]
    /\ data \in [Calls -> Lessons]
    /\ crashes \in 0..MaxCrashes
    /\ \A c \in Calls : pc[c] \in {"load", "truncate", "write"} => lock = c

\* As long as the service lives and can use its volume, the file holds the last lesson of every signature: two
\* stages that learn at the same time lose nothing.
NothingIsLost == crashes = 0 /\ ~torn => file = learned

\* No reader finds a file that another call is writing: what it does not find was not
\* there, unless the service died or the file failed.
ReadersSeeWhole ==
    [][\A c \in Readers : crashes' = 0 /\ data'[c] # data[c] => data'[c] = learned]_vars

-----------------------------------------------------------------------------
(* What the comments claim and the code does not keep *)

\* lessons.py:5-6: lessons survive across tasks and container restarts.
LessonsSurvive == lock = "free" => Load = learned
=============================================================================
