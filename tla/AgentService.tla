------------------------------ MODULE AgentService ------------------------------
(***************************************************************************)
(* The agent service while several stages run in it (agent-service/main.py,  *)
(* agents/graph.py, memory/store.py, tools/registry.py, llm.py): every       *)
(* /agent/invoke runs load_memory, select_agent, execute_agent and           *)
(* persist_feedback on a thread of its own, and all of them share the model  *)
(* override of the process.  The calls here are of one stage, so that the    *)
(* search for its memories finds those of every task.                        *)
(***************************************************************************)
EXTENDS Naturals, FiniteSets

CONSTANTS
    Calls,    \* requests
    Tasks,
    TaskOf,   \* the task of every request
    Models,   \* models a user may pick
    Default,  \* the model of the environment
    MaxTime   \* seconds

None == "none"

VARIABLES
    provider, \* LLM_PROVIDER
    pick,     \* the model picked for every task, or None
    way,      \* how a stage reaches the model: a deep agent, or a completion
    pc,       \* where every request is
    override, \* _MODEL_OVERRIDE
    used,     \* the models that answered for a request
    named,    \* the model the error of a refused request names
    hint,     \* the task whose memory a request has loaded
    memories, \* agent_memories
    status,   \* agent:diagnosis:<task>: the request that wrote it last
    clock,
    mixed     \* history: requests with another one's model pick since their own

vars == <<provider, pick, way, pc, override, used, named, hint, memories, status, clock, mixed>>
inputs == <<provider, pick, way>>
answers == <<used, named>>

AllModels == Models \cup {Default}
Own(c) == IF pick[TaskOf[c]] = None THEN Default ELSE pick[TaskOf[c]]
Rows == [call : Calls, task : Tasks, second : 0..MaxTime]

-----------------------------------------------------------------------------
\* current_model.
Current == IF override = None THEN Default ELSE override
\* get_chat_model without a model of its own: the override counts for ollama only.
ChatModel == IF provider = "ollama" THEN Current ELSE Default

\* Mutant: the override in place of the task's model.
RuntimeModelCurrent(c) == Current
\* build_llm_runtime with the model of the task; without one it asks as get_chat_model does,
\* so that with ollama the override of whoever applied one last counts.
RuntimeModel(c) == IF pick[TaskOf[c]] = None THEN ChatModel ELSE pick[TaskOf[c]]

\* Mutant: of the same second, whatever the task.
SameIdOfSecond(r, c) == r.second = clock
\* The primary key of a memory: task, stage and second.
SameId(r, c) == r.task = TaskOf[c] /\ r.second = clock

Init ==
    /\ provider \in {"ollama", "openai"}
    /\ pick \in [Tasks -> Models \cup {None}]
    /\ way \in [Calls -> {"deep", "text"}]
    /\ pc = [c \in Calls |-> "idle"]
    /\ override = None
    /\ used = [c \in Calls |-> {}] /\ named = [c \in Calls |-> None]
    /\ hint = [c \in Calls |-> None]
    /\ memories = {}
    /\ status = [t \in Tasks |-> None]
    /\ clock = 0 /\ mixed = {}

Tick ==
    /\ clock < MaxTime
    /\ clock' = clock + 1
    /\ UNCHANGED <<inputs, pc, override, answers, hint, memories, status, mixed>>

\* load_memory: the latest memory of the stage, of any task.
LoadMemory(c) ==
    /\ pc[c] = "idle"
    /\ pc' = [pc EXCEPT ![c] = IF way[c] = "deep" THEN "apply" ELSE "complete"]
    /\ IF memories = {} THEN UNCHANGED hint
       ELSE \E r \in memories :
              /\ \A o \in memories : o.second <= r.second
              /\ hint' = [hint EXCEPT ![c] = r.task]
    /\ UNCHANGED <<inputs, override, answers, memories, status, clock, mixed>>

\* Mutant: no pick leaves the override as it is.
ApplyPick(c) ==
    /\ pc[c] = "apply"
    /\ pc' = [pc EXCEPT ![c] = "talk"]
    /\ override' = IF pick[TaskOf[c]] = None THEN override ELSE pick[TaskOf[c]]
    /\ mixed' = (mixed \ {c}) \cup {o \in Calls : pc[o] \in {"talk", "delegate"}}
    /\ UNCHANGED <<inputs, answers, hint, memories, status, clock>>
\* _apply_model: the pick of the task becomes the override, no pick clears it.
ApplyModel(c) ==
    /\ pc[c] = "apply"
    /\ pc' = [pc EXCEPT ![c] = "talk"]
    /\ override' = pick[TaskOf[c]]
    /\ mixed' = (mixed \ {c}) \cup {o \in Calls : pc[o] \in {"talk", "delegate"}}
    /\ UNCHANGED <<inputs, answers, hint, memories, status, clock>>

\* The deep agent is built with the chat model of that moment.
Talk(c) ==
    /\ pc[c] = "talk"
    /\ pc' = [pc EXCEPT ![c] = "delegate"]
    /\ used' = [used EXCEPT ![c] = @ \cup {ChatModel}]
    /\ UNCHANGED <<inputs, override, named, hint, memories, status, clock, mixed>>

\* It asks a fresh chat model (llm_query), or a snippet asks current_model, or nothing.
Delegate(c) ==
    /\ pc[c] = "delegate"
    /\ pc' = [pc EXCEPT ![c] = "save"]
    /\ \E asked \in {{}, {ChatModel}, {Current}} : used' = [used EXCEPT ![c] = @ \cup asked]
    /\ UNCHANGED <<inputs, override, named, hint, memories, status, clock, mixed>>

\* The provider refuses: the request fails, and its error names current_model.
Refuse(c) ==
    /\ pc[c] = "delegate"
    /\ pc' = [pc EXCEPT ![c] = "failed"]
    /\ named' = [named EXCEPT ![c] = Current]
    /\ UNCHANGED <<inputs, override, used, hint, memories, status, clock, mixed>>

\* A completion takes the model of the task along; it may be empty or fail.
Complete(c) ==
    /\ pc[c] = "complete"
    /\ pc' = [pc EXCEPT ![c] = "save"]
    /\ used' = [used EXCEPT ![c] = @ \cup {RuntimeModel(c)}]
    /\ UNCHANGED <<inputs, override, named, hint, memories, status, clock, mixed>>

\* Mutant: a row with the same key is replaced.
SaveOver(c) ==
    /\ pc[c] = "save"
    /\ memories' = {r \in memories : ~SameId(r, c)}
                   \cup {[call |-> c, task |-> TaskOf[c], second |-> clock]}
    /\ pc' = [pc EXCEPT ![c] = "report"]
    /\ UNCHANGED <<inputs, override, answers, hint, status, clock, mixed>>
\* persist_feedback: a key that is taken is an error, and the request fails with it.
SaveMemory(c) ==
    /\ pc[c] = "save"
    /\ IF \E r \in memories : SameId(r, c)
       THEN pc' = [pc EXCEPT ![c] = "failed"] /\ UNCHANGED memories
       ELSE /\ memories' = memories \cup {[call |-> c, task |-> TaskOf[c], second |-> clock]}
            /\ pc' = [pc EXCEPT ![c] = "report"]
    /\ UNCHANGED <<inputs, override, answers, hint, status, clock, mixed>>

\* write_diagnosis_to_redis, and the answer.
Report(c) ==
    /\ pc[c] = "report"
    /\ pc' = [pc EXCEPT ![c] = "done"]
    /\ status' = [status EXCEPT ![TaskOf[c]] = c]
    /\ UNCHANGED <<inputs, override, answers, hint, memories, clock, mixed>>

Step(c) ==
    \/ LoadMemory(c) \/ ApplyModel(c) \/ Talk(c) \/ Delegate(c) \/ Refuse(c)
    \/ Complete(c) \/ SaveMemory(c) \/ Report(c)

Next == Tick \/ \E c \in Calls : Step(c)

Spec == Init /\ [][Next]_vars

-----------------------------------------------------------------------------
\* The variables keep their types; a diagnosis is about its own task.
TypeOK ==
    /\ provider \in {"ollama", "openai"}
    /\ pick \in [Tasks -> Models \cup {None}] /\ way \in [Calls -> {"deep", "text"}]
    /\ pc \in [Calls -> {"idle", "apply", "talk", "delegate", "complete", "save", "report",
                         "done", "failed"}]
    /\ override \in Models \cup {None}
    /\ used \in [Calls -> SUBSET AllModels] /\ named \in [Calls -> AllModels \cup {None}]
    /\ hint \in [Calls -> Tasks \cup {None}]
    /\ memories \subseteq Rows
    /\ status \in [Tasks -> Calls \cup {None}]
    /\ \A t \in Tasks : status[t] # None => TaskOf[status[t]] = t
    /\ clock \in 0..MaxTime /\ mixed \subseteq Calls

\* A completion of a task with a pick is answered by that model, whatever the others apply to
\* the process meanwhile; one without a pick by the default, except with ollama.
TextUsesOwnModel ==
    \A c \in Calls :
        way[c] = "text" /\ (pick[TaskOf[c]] # None \/ provider # "ollama")
            => used[c] \subseteq {Own(c)}

\* With ollama, a deep agent during which no other one was started uses the model picked
\* for its task alone: the pick of an earlier run of another task does not linger.
AloneUsesOwnModel ==
    provider = "ollama" =>
        \A c \in Calls : way[c] = "deep" /\ c \notin mixed => used[c] \subseteq {Own(c)}

\* A request that is answered has left its memory, whoever else has saved one.
AnsweredIsRemembered ==
    \A c \in Calls : pc[c] \in {"report", "done"} => \E r \in memories : r.call = c

\* A request that did its work is refused by the memories only when another request of
\* the same task was saved.
OnlyTwinsCollide ==
    \A c \in Calls : pc[c] = "failed" /\ named[c] = None =>
        \E r \in memories : r.task = TaskOf[c] /\ r.call # c

-----------------------------------------------------------------------------
(* What the comments claim and the code does not keep *)

\* llm.py:65-67, "Per-run chat-model override": the model one run picks is not used by
\* another, whose completion has none and falls back to the environment.
OverrideIsPerRun == \A c \in Calls : way[c] = "text" => used[c] \subseteq {Own(c)}

\* llm.py:66-67: the override is the model picked for the run, get_chat_model falls back
\* to the environment only when there is none.
PickIsUsed ==
    \A c \in Calls : way[c] = "deep" /\ c \notin mixed => used[c] \subseteq {Own(c)}
\* stage_handlers.py, _run_deep: the error names the model that refused.
ErrorNamesModel == \A c \in Calls : named[c] # None /\ c \notin mixed => named[c] \in used[c]
=============================================================================
