-------------------------------- MODULE Uploads --------------------------------
(***************************************************************************)
(* The pictures attached to a task (agent-service/uploads.py and its         *)
(* callers): they are stored with the task or with a later request, triaged  *)
(* and described once by a vision model into a digest and a manifest of      *)
(* their roles, which every stage reads from then on; the chip's input is    *)
(* looked for in the manifest and then among the files.  PDF and text files  *)
(* have no role and are left out.                                            *)
(***************************************************************************)
EXTENDS Naturals, FiniteSets

CONSTANTS
    Images,      \* names of pictures
    VisionTries, \* tries to describe a picture, 3 in the code
    MaxStages,   \* requests to the agent service
    MaxCrashes

VARIABLES
    phase,
    current,  \* the model the override of the process names can see
    envSees,  \* the model of the environment can see
    ollama,   \* the provider is ollama, which has a model that can see and is asked for it
    brief,    \* the role the words of the design brief give any picture
    present,  \* context/uploads/
    newest,   \* the picture written last
    todo,     \* pictures the digest being made has still to describe
    left,     \* tries left for the picture in hand, none when no model was found that can see
    draft,    \* the digest being made
    digest,   \* context/uploads_digest.md, by picture
    manifest, \* context/uploads_manifest.json, by picture
    chip,     \* the picture taken as the chip's input
    stages, crashes,
    brought,  \* history: the pictures users attached
    blind     \* history: a model that cannot see was asked to read a picture

vars == <<phase, current, envSees, ollama, brief, present, newest, todo, left, draft, digest,
          manifest, chip, stages, crashes, brought, blind>>
inputs == <<current, envSees, ollama, brief>>

Roles == {"architecture", "data", "reference"}
None == "none"
\* What the digest says of a picture: its role, and whether it was read.
Entry == [role : Roles, read : BOOLEAN]
NoEntry == [role |-> None, read |-> FALSE]
NoDigest == [i \in Images |-> NoEntry]
NoRoles == [i \in Images |-> None]

-----------------------------------------------------------------------------
\* What model_supports_vision may answer each time: ollama is asked over HTTP, and a request
\* that fails is taken for a model that cannot see; elsewhere the name of the current one counts.
Probes == IF ollama THEN BOOLEAN ELSE {current}
\* describe_image asks vision_model with ollama, and else the model of the environment.
ReaderSees == ollama \/ envSees

Init ==
    /\ phase = "create"
    /\ current \in BOOLEAN /\ envSees \in BOOLEAN /\ ollama \in BOOLEAN /\ brief \in Roles
    /\ present = {} /\ newest = None /\ todo = {} /\ left = VisionTries
    /\ draft = NoDigest /\ digest = NoDigest /\ manifest = NoRoles /\ chip = None
    /\ stages = 0 /\ crashes = 0 /\ brought = {} /\ blind = FALSE

\* Attached pictures are stored under their names, the last one is the newest.
Store(s) ==
    /\ present' = present \cup s /\ brought' = brought \cup s
    /\ IF s = {} THEN UNCHANGED newest ELSE newest' \in s

\* createTask stores what comes with the task before a stage is queued.
Create ==
    /\ phase = "create"
    /\ \E s \in SUBSET Images : Store(s)
    /\ phase' = "idle"
    /\ UNCHANGED <<inputs, todo, left, draft, digest, manifest, chip, stages, crashes, blind>>

\* /agent/invoke stores the pictures of the request, and the stage starts.
Invoke ==
    /\ phase = "idle" /\ stages < MaxStages
    /\ stages' = stages + 1
    /\ \E s \in SUBSET Images : Store(s)
    /\ phase' = "ask"
    /\ UNCHANGED <<inputs, todo, left, draft, digest, manifest, chip, crashes, blind>>

\* Mutant: the digest is made anew.
IngestAgain ==
    /\ phase = "ask"
    /\ todo' = present /\ left' = VisionTries /\ draft' = NoDigest
    /\ phase' = IF present = {} THEN "work" ELSE "read"
    /\ UNCHANGED <<inputs, present, newest, digest, manifest, chip, stages, crashes, brought, blind>>
\* ingest_uploads: a digest that is on disk is the answer.
Ingest ==
    /\ phase = "ask"
    /\ IF present = {} \/ digest # NoDigest
       THEN phase' = "work" /\ UNCHANGED <<todo, left, draft>>
       ELSE phase' = "read" /\ todo' = present /\ left' = VisionTries /\ draft' = NoDigest
    /\ UNCHANGED <<inputs, present, newest, digest, manifest, chip, stages, crashes, brought, blind>>

\* The vision model gives a picture its role, or the brief's words do where it gives no answer
\* or none is found; then a model is looked for again, to describe the picture.
Classify(i) ==
    /\ phase = "read" /\ i \in todo
    /\ \A o \in todo : draft[o] = NoEntry
    /\ \E sees \in Probes, again \in Probes :
         /\ \E r \in IF sees /\ ReaderSees THEN Roles ELSE {brief} :
              draft' = [draft EXCEPT ![i] = [role |-> r, read |-> FALSE]]
         /\ left' = IF again THEN VisionTries ELSE 0
         /\ blind' = (blind \/ (sees /\ ~ReaderSees))
    /\ UNCHANGED <<phase, inputs, present, newest, todo, digest, manifest, chip, stages,
                   crashes, brought>>

\* The picture in hand is done with.
Done(i) == todo' = todo \ {i} /\ left' = VisionTries

\* Mutant: the first failure is taken for an answer.
DescribeOnce(i) ==
    /\ phase = "read" /\ i \in todo /\ draft[i] # NoEntry
    /\ \E read \in IF left > 0 /\ ReaderSees THEN BOOLEAN ELSE {FALSE} :
         draft' = [draft EXCEPT ![i].read = read]
    /\ Done(i)
    /\ UNCHANGED <<phase, inputs, present, newest, digest, manifest, chip, stages, crashes,
                   brought, blind>>
\* It describes the picture; an empty answer is tried again a few times.
Describe(i) ==
    /\ phase = "read" /\ i \in todo /\ draft[i] # NoEntry
    /\ \/ /\ left > 0 /\ ReaderSees
          /\ draft' = [draft EXCEPT ![i].read = TRUE]
          /\ Done(i)
       \/ /\ left > 1
          /\ left' = left - 1
          /\ UNCHANGED <<draft, todo>>
       \/ /\ left <= 1
          /\ Done(i)
          /\ UNCHANGED draft
    /\ UNCHANGED <<phase, inputs, present, newest, digest, manifest, chip, stages, crashes,
                   brought, blind>>

WriteDigest ==
    /\ phase = "read" /\ todo = {}
    /\ digest' = draft
    /\ phase' = "manifest"
    /\ UNCHANGED <<inputs, present, newest, todo, left, draft, manifest, chip, stages, crashes,
                   brought, blind>>

\* Mutant: the roles the brief gives.
WriteManifestByBrief ==
    /\ phase = "manifest"
    /\ manifest' = [i \in Images |-> IF draft[i] = NoEntry THEN None ELSE brief]
    /\ phase' = "work"
    /\ UNCHANGED <<inputs, present, newest, todo, left, draft, digest, chip, stages, crashes,
                   brought, blind>>
WriteManifest ==
    /\ phase = "manifest"
    /\ manifest' = [i \in Images |-> draft[i].role]
    /\ phase' = "work"
    /\ UNCHANGED <<inputs, present, newest, todo, left, draft, digest, chip, stages, crashes,
                   brought, blind>>

\* The stage's agent leaves a picture of its own among the uploads.
AgentWrites ==
    /\ phase = "work"
    /\ \E i \in Images \ brought : present' = present \cup {i} /\ newest' = i
    /\ UNCHANGED <<phase, inputs, todo, left, draft, digest, manifest, chip, stages, crashes,
                   brought, blind>>

DataImages == {i \in present : manifest[i] = "data"}
\* Mutant: whichever picture was written last.
FindInputNewest ==
    /\ phase = "work" /\ present # {}
    /\ chip' = newest
    /\ phase' = "idle"
    /\ UNCHANGED <<inputs, present, newest, todo, left, draft, digest, manifest, stages, crashes,
                   brought, blind>>
\* resolve_input (hwsw.py): a picture that is data, or else the newest one.
FindInput ==
    /\ phase = "work" /\ present # {}
    /\ IF DataImages = {} THEN chip' = newest ELSE chip' \in DataImages
    /\ phase' = "idle"
    /\ UNCHANGED <<inputs, present, newest, todo, left, draft, digest, manifest, stages, crashes,
                   brought, blind>>

EndStage ==
    /\ phase = "work"
    /\ phase' = "idle"
    /\ UNCHANGED <<inputs, present, newest, todo, left, draft, digest, manifest, chip, stages,
                   crashes, brought, blind>>

\* The service dies; the orchestrator sends the stage again.
Crash ==
    /\ phase \in {"ask", "read", "manifest", "work"} /\ crashes < MaxCrashes
    /\ crashes' = crashes + 1
    /\ phase' = "idle" /\ todo' = {} /\ left' = VisionTries /\ draft' = NoDigest
    /\ UNCHANGED <<inputs, present, newest, digest, manifest, chip, stages, brought, blind>>

Next ==
    \/ Create \/ Invoke \/ Ingest \/ WriteDigest \/ WriteManifest \/ AgentWrites \/ FindInput
    \/ EndStage \/ Crash
    \/ \E i \in Images : Classify(i) \/ Describe(i)

Spec == Init /\ [][Next]_vars

-----------------------------------------------------------------------------
\* The variables keep their types.
TypeOK ==
    /\ phase \in {"create", "idle", "ask", "read", "manifest", "work"}
    /\ current \in BOOLEAN /\ envSees \in BOOLEAN /\ ollama \in BOOLEAN /\ brief \in Roles
    /\ present \subseteq Images /\ newest \in present \cup {None}
    /\ todo \subseteq present /\ left \in 0..VisionTries
    /\ draft \in [Images -> Entry \cup {NoEntry}] /\ digest \in [Images -> Entry \cup {NoEntry}]
    /\ manifest \in [Images -> Roles \cup {None}]
    /\ chip \in Images \cup {None}
    /\ stages \in 0..MaxStages /\ crashes \in 0..MaxCrashes
    /\ brought \subseteq Images /\ blind \in BOOLEAN

\* uploads.py:16-18: every later stage sees the same reading, it is never made again.
ReadingIsKept == [][digest # NoDigest => digest' = digest]_vars

\* The roles the stages act on are those the digest tells the agents, and there are none
\* without a digest.
RolesAreDigested ==
    manifest # NoRoles => \A i \in Images : manifest[i] = digest[i].role

\* A picture is said to be unreadable only after every try has failed, or when no model that
\* can see was found when it was its turn, which ollama may say by mistake: one failed
\* description is not kept for the life of the task.
UnreadIsTried ==
    [][\A i \in todo \ todo' :
        (phase' = "read" /\ ~draft'[i].read) => left = 1 \/ (left = 0 /\ FALSE \in Probes)]_vars

\* The chip is not fed a block diagram while a picture that is data is attached.
InputIsData == [][chip' # chip /\ DataImages # {} => manifest[chip'] = "data"]_vars

-----------------------------------------------------------------------------
(* What the comments claim and the code does not keep *)

\* uploads.py:10, "A transient vision failure is retried": where some model can see, a
\* picture is said to be unreadable only after it was tried.
TransientIsRetried ==
    [][\A i \in todo \ todo' :
        (phase' = "read" /\ ~draft'[i].read /\ (ollama \/ current)) => left = 1]_vars
\* main.py:34-36: attachments of a request are digested before the stage runs.
AttachmentsAreDigested == phase = "work" => \A i \in brought : digest[i] # NoEntry
\* uploads.py, ingest_uploads: the roles are persisted with the digest, so a later stage that
\* is answered with the digest also finds them.
RolesArePersisted == phase = "work" /\ digest # NoDigest => manifest # NoRoles
\* llm.py, describe_image: the picture is read by a model that can see it.
ReadBySeeing == ~blind
=============================================================================
