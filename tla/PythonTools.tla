------------------------------ MODULE PythonTools ------------------------------
(***************************************************************************)
(* The tools run_python and pip_install of a deep agent                     *)
(* (agent-service/agents/deep_agent.py, make_python_tools).  The calls of    *)
(* one message run at the same time, on threads of the agent's graph, in one *)
(* workspace: they share the script's file, the directory of the kept        *)
(* snippets and, with the other tasks, the directory of the packages.        *)
(***************************************************************************)
EXTENDS AgentCalls

VARIABLES
    pc,        \* where every call is
    number,    \* the number a call gives its kept snippet
    kept,      \* sw/scripts/: the snippets kept, by number
    script,    \* work/_snippet.py
    ran,       \* the snippet whose output a call returned
    tries,     \* commands a call of pip_install has tried
    installed, \* the packages in .pydeps
    have,      \* agent_requirements.txt as a call has read it
    recorded,  \* agent_requirements.txt
    deletes,   \* kept snippets deleted
    together   \* history: the calls of run_python during which another was made

vars == <<pc, number, kept, script, ran, tries, installed, have, recorded, deletes, together>>
snippets == <<number, kept, script, ran, deletes, together>>
packages == <<tries, installed, have, recorded>>

Calls == Scripts \cup Installs
Numbers == 1..(Cardinality(Scripts) + 1)
Kept == {n \in Numbers : kept[n] # "none"}
Running == {c \in Scripts : pc[c] \notin {"idle", "done"}}

-----------------------------------------------------------------------------
Init ==
    /\ pc = [c \in Calls |-> "idle"]
    /\ number = [c \in Scripts |-> 0]
    /\ kept = [n \in Numbers |-> "none"]
    /\ script = "none"
    /\ ran = [c \in Scripts |-> "none"]
    /\ tries = [c \in Installs |-> 0]
    /\ installed = {} /\ recorded = {}
    /\ have = [c \in Installs |-> {}]
    /\ deletes = 0 /\ together = {}

\* run_python counts the snippets that are kept, to number its own.
CountKept(c) ==
    /\ pc[c] = "idle"
    /\ pc' = [pc EXCEPT ![c] = "keep"]
    /\ number' = [number EXCEPT ![c] = Cardinality(Kept) + 1]
    /\ together' = together \cup (IF Running = {} THEN {} ELSE Running \cup {c})
    /\ UNCHANGED <<kept, script, ran, deletes, packages>>

\* Mutant: the snippet is kept under the number of those kept.
KeepLast(c) ==
    /\ pc[c] = "keep"
    /\ pc' = [pc EXCEPT ![c] = "script"]
    /\ kept' = [kept EXCEPT ![IF number[c] = 1 THEN 1 ELSE number[c] - 1] = c]
    /\ UNCHANGED <<number, script, ran, deletes, together, packages>>
Keep(c) ==
    /\ pc[c] = "keep"
    /\ pc' = [pc EXCEPT ![c] = "script"]
    /\ kept' = [kept EXCEPT ![number[c]] = c]
    /\ UNCHANGED <<number, script, ran, deletes, together, packages>>

\* Mutant: the script is written once.
WriteScriptOnce(c) ==
    /\ pc[c] = "script"
    /\ pc' = [pc EXCEPT ![c] = "run"]
    /\ script' = IF script = "none" THEN c ELSE script
    /\ UNCHANGED <<number, kept, ran, deletes, together, packages>>
WriteScript(c) ==
    /\ pc[c] = "script"
    /\ pc' = [pc EXCEPT ![c] = "run"]
    /\ script' = c
    /\ UNCHANGED <<number, kept, ran, deletes, together, packages>>

\* The interpreter reads the script and runs it; it may take too long.
Run(c) ==
    /\ pc[c] = "run"
    /\ pc' = [pc EXCEPT ![c] = "done"]
    /\ ran' = [ran EXCEPT ![c] = script]
    /\ UNCHANGED <<number, kept, script, deletes, together, packages>>

\* The agent deletes a snippet that is kept.
Delete ==
    /\ deletes < MaxDeletes
    /\ deletes' = deletes + 1
    /\ \E n \in Kept : kept' = [kept EXCEPT ![n] = "none"]
    /\ UNCHANGED <<pc, number, script, ran, together, packages>>

\* Mutant: whatever pip says.
TryPipBlind(c) ==
    /\ pc[c] = "idle" /\ tries[c] < PipAttempts
    /\ tries' = [tries EXCEPT ![c] = @ + 1]
    /\ installed' \in {installed, installed \cup {c}} /\ pc' = [pc EXCEPT ![c] = "read"]
    /\ UNCHANGED <<snippets, have, recorded>>
\* One command of pip_install: it installs, or the next one is tried.
TryPip(c) ==
    /\ pc[c] = "idle" /\ tries[c] < PipAttempts
    /\ tries' = [tries EXCEPT ![c] = @ + 1]
    /\ \/ installed' = installed \cup {c} /\ pc' = [pc EXCEPT ![c] = "read"]
       \/ /\ pc' = [pc EXCEPT ![c] = IF tries'[c] = PipAttempts THEN "done" ELSE "idle"]
          /\ UNCHANGED installed
    /\ UNCHANGED <<snippets, have, recorded>>

ReadRequirements(c) ==
    /\ pc[c] = "read"
    /\ pc' = [pc EXCEPT ![c] = "record"]
    /\ have' = [have EXCEPT ![c] = recorded]
    /\ UNCHANGED <<snippets, tries, installed, recorded>>

Record(c) ==
    /\ pc[c] = "record"
    /\ pc' = [pc EXCEPT ![c] = "done"]
    /\ recorded' = have[c] \cup {c}
    /\ UNCHANGED <<snippets, tries, installed, have>>

Next ==
    \/ \E c \in Scripts : CountKept(c) \/ Keep(c) \/ WriteScript(c) \/ Run(c)
    \/ \E c \in Installs : TryPip(c) \/ ReadRequirements(c) \/ Record(c)
    \/ Delete

Spec == Init /\ [][Next]_vars

-----------------------------------------------------------------------------
\* The variables keep their types: numbers stay in the directory, commands in the list.
TypeOK ==
    /\ pc \in [Calls -> {"idle", "keep", "script", "run", "read", "record", "done"}]
    /\ number \in [Scripts -> 0..(Cardinality(Scripts) + 1)]
    /\ kept \in [Numbers -> Scripts \cup {"none"}]
    /\ script \in Scripts \cup {"none"}
    /\ ran \in [Scripts -> Scripts \cup {"none"}]
    /\ tries \in [Installs -> 0..PipAttempts]
    /\ installed \subseteq Installs /\ recorded \subseteq Installs
    /\ have \in [Installs -> SUBSET Installs]
    /\ deletes \in 0..MaxDeletes /\ together \subseteq Scripts

\* A call during which no other was made returns the output of its own snippet.
AloneIsExact == \A c \in Scripts : pc[c] = "done" /\ c \notin together => ran[c] = c

\* When no two calls overlapped and nothing was deleted, every snippet that ran is kept.
AloneIsKept ==
    together = {} /\ deletes = 0 =>
        \A c \in Scripts : ran[c] # "none" => \E n \in Numbers : kept[n] = ran[c]

\* A package is recorded only after a command has installed it.
RecordedIsInstalled == recorded \subseteq installed /\ \A c \in Installs : have[c] \subseteq installed

-----------------------------------------------------------------------------
(* What the comments claim and the code does not keep *)

\* deep_agent.py, run_python: run a snippet and return its stdout and stderr.
ResultIsOfCode == \A c \in Scripts : pc[c] = "done" => ran[c] = c
\* deep_agent.py:411-413: every executed snippet is persisted, a kept deliverable.
EverySnippetIsKept ==
    deletes = 0 => \A c \in Scripts : pc[c] = "done" => \E n \in Numbers : kept[n] = c
\* deep_agent.py:475: what was installed is recorded for container rebuilds.
EveryPackageIsRecorded == \A c \in Installs : pc[c] = "done" => c \in recorded \/ c \notin installed
=============================================================================
