------------------------------ MODULE MCAgentTools ------------------------------
(***************************************************************************)
(* What serves the stages in agent-service, each part on its small instance *)
(* for TLC: the session of a deep agent, its Python tools, the store of    *)
(* lessons, the requests side by side with the model pick they share, the  *)
(* uploads, and the stage that starts from all of them, GOLDEN_GEN (the    *)
(* variables of GoldenGen).  They meet in no state that is modelled here,  *)
(* so part names the one that acts for a whole behaviour, and the others   *)
(* rest in a state in which they have ended.                               *)
(***************************************************************************)
EXTENDS GoldenGen, AgentCalls, TLC

CONSTANTS
    MaxWrites, MaxSame, MaxTurns, Attempts,            \* of DeepAgent
    Requests, Tasks, TaskOf, Models, Default, MaxTime, \* of AgentService
    Images, VisionTries, MaxStages                     \* of Uploads

\* stage_handlers.py:177: a session is tried once at least.
ASSUME SessionAssumption == {MaxWrites, MaxSame, Attempts} \subseteq Nat \ {0} /\ MaxTurns \in Nat
ASSUME ServiceAssumption ==
    /\ TaskOf \in [Requests -> Tasks] /\ MaxTime \in Nat
    /\ "none" \notin Models \cup {Default} \cup Requests
ASSUME UploadAssumption == VisionTries \in Nat \ {0} /\ MaxStages \in Nat /\ "none" \notin Images

\* Two requests of one task, the second sent again while the first one still runs, and one
\* of another task.
TwoAndOne == [c \in Requests |-> IF c = "c3" THEN "u" ELSE "t"]

VARIABLES
    part,
    sessionPhase, sessionCompiler, sessionCall, sessionDisk, sessionLastErr,
    sessionLesson, sessionWrites, sessionCalls, sessionTurns, sessionSaid,
    sessionAttempt, sessionRefused, sessionUnread,
    toolPc, toolNumber, toolKept, toolScript, toolRan, toolTries, toolInstalled,
    toolHave, toolRecorded, toolDeletes, toolTogether,
    storePc, storeLock, storeFile, storeTorn, storeMine, storeData, storeLearned,
    storeCrashes,
    serviceProvider, servicePick, serviceWay, servicePc, serviceOverride, serviceUsed,
    serviceNamed, serviceHint, serviceMemories, serviceStatus, serviceClock,
    serviceMixed,
    uploadPhase, uploadCurrent, uploadEnvSees, uploadOllama, uploadBrief,
    uploadPresent, uploadNewest, uploadTodo, uploadLeft, uploadDraft, uploadDigest,
    uploadManifest, uploadChip, uploadStages, uploadCrashes, uploadBrought,
    uploadBlind

Session == INSTANCE DeepAgent WITH
    phase <- sessionPhase, compiler <- sessionCompiler, call <- sessionCall,
    disk <- sessionDisk, lastErr <- sessionLastErr, lesson <- sessionLesson,
    writes <- sessionWrites, calls <- sessionCalls, turns <- sessionTurns,
    said <- sessionSaid, attempt <- sessionAttempt, refused <- sessionRefused,
    unread <- sessionUnread

Python == INSTANCE PythonTools WITH
    pc <- toolPc, number <- toolNumber, kept <- toolKept, script <- toolScript,
    ran <- toolRan, tries <- toolTries, installed <- toolInstalled, have <- toolHave,
    recorded <- toolRecorded, deletes <- toolDeletes, together <- toolTogether

Store == INSTANCE LessonStore WITH
    pc <- storePc, lock <- storeLock, file <- storeFile, torn <- storeTorn,
    mine <- storeMine, data <- storeData, learned <- storeLearned, crashes <- storeCrashes

Service == INSTANCE AgentService WITH
    provider <- serviceProvider, pick <- servicePick, way <- serviceWay,
    pc <- servicePc, override <- serviceOverride, used <- serviceUsed,
    named <- serviceNamed, hint <- serviceHint, memories <- serviceMemories,
    status <- serviceStatus, clock <- serviceClock, mixed <- serviceMixed,
    Calls <- Requests

Upload == INSTANCE Uploads WITH
    phase <- uploadPhase, current <- uploadCurrent, envSees <- uploadEnvSees,
    ollama <- uploadOllama, brief <- uploadBrief, present <- uploadPresent,
    newest <- uploadNewest, todo <- uploadTodo, left <- uploadLeft,
    draft <- uploadDraft, digest <- uploadDigest, manifest <- uploadManifest,
    chip <- uploadChip, stages <- uploadStages, crashes <- uploadCrashes,
    brought <- uploadBrought, blind <- uploadBlind

sessionVars == <<sessionPhase, sessionCompiler, sessionCall, sessionDisk, sessionLastErr,
                 sessionLesson, sessionWrites, sessionCalls, sessionTurns, sessionSaid,
                 sessionAttempt, sessionRefused, sessionUnread>>
toolVars == <<toolPc, toolNumber, toolKept, toolScript, toolRan, toolTries, toolInstalled,
              toolHave, toolRecorded, toolDeletes, toolTogether>>
storeVars == <<storePc, storeLock, storeFile, storeTorn, storeMine, storeData, storeLearned,
               storeCrashes>>
serviceVars == <<serviceProvider, servicePick, serviceWay, servicePc, serviceOverride,
                 serviceUsed, serviceNamed, serviceHint, serviceMemories, serviceStatus,
                 serviceClock, serviceMixed>>
uploadVars == <<uploadPhase, uploadCurrent, uploadEnvSees, uploadOllama, uploadBrief,
                uploadPresent, uploadNewest, uploadTodo, uploadLeft, uploadDraft, uploadDigest,
                uploadManifest, uploadChip, uploadStages, uploadCrashes, uploadBrought,
                uploadBlind>>

-----------------------------------------------------------------------------
(* At rest: no step is forced *)

SessionRests ==
    /\ sessionPhase = "failed"
    /\ sessionCompiler = FALSE /\ sessionSaid = FALSE /\ sessionRefused = FALSE
    /\ sessionCall = Session!NoCall /\ sessionLesson = Session!NoLesson
    /\ sessionDisk = [f \in Session!Files |-> "absent"]
    /\ sessionLastErr = [f \in Session!Files |-> "none"]
    /\ sessionWrites = [f \in Session!Files |-> 0]
    /\ sessionCalls = [k \in Session!Counted |-> 0]
    /\ sessionUnread = [k \in Session!Counted |-> 0]
    /\ sessionTurns = 0 /\ sessionAttempt = 1

ToolsRest ==
    /\ toolPc = [c \in Python!Calls |-> "done"]
    /\ toolNumber = [c \in Scripts |-> 0] /\ toolRan = [c \in Scripts |-> c]
    /\ toolKept = [n \in Python!Numbers |-> "none"] /\ toolScript = "none"
    /\ toolTries = [c \in Installs |-> 0] /\ toolHave = [c \in Installs |-> {}]
    /\ toolInstalled = {} /\ toolRecorded = {}
    /\ toolDeletes = 0 /\ toolTogether = Scripts

GoldenRests ==
    /\ phase = "failed" /\ deep = FALSE /\ pytest = FALSE /\ output = FALSE
    /\ ws = Empty /\ tests = NoVerdict /\ current = FALSE /\ gaps = {} /\ rounds = 0

LessonsRest ==
    /\ storePc = [c \in Store!Calls |-> "done"] /\ storeLock = "free"
    /\ storeFile = Store!Empty /\ storeTorn = FALSE /\ storeCrashes = 0
    /\ storeMine = [c \in Threads |-> CHOOSE s \in Signatures : TRUE]
    /\ storeData = [c \in Store!Calls |-> Store!Empty] /\ storeLearned = Store!Empty

ServiceRests ==
    /\ serviceProvider = "ollama"
    /\ servicePick = [t \in Tasks |-> Service!None]
    /\ serviceWay = [c \in Requests |-> "text"]
    /\ servicePc = [c \in Requests |-> "failed"] /\ serviceOverride = Service!None
    /\ serviceUsed = [c \in Requests |-> {}] /\ serviceNamed = [c \in Requests |-> Default]
    /\ serviceHint = [c \in Requests |-> Service!None] /\ serviceMemories = {}
    /\ serviceStatus = [t \in Tasks |-> Service!None]
    /\ serviceClock = 0 /\ serviceMixed = {}

UploadsRest ==
    /\ uploadPhase = "create"
    /\ uploadCurrent = FALSE /\ uploadEnvSees = FALSE /\ uploadOllama = FALSE
    /\ uploadBrief = "data"
    /\ uploadPresent = {} /\ uploadNewest = Upload!None /\ uploadTodo = {}
    /\ uploadLeft = VisionTries
    /\ uploadDraft = Upload!NoDigest /\ uploadDigest = Upload!NoDigest
    /\ uploadManifest = Upload!NoRoles /\ uploadChip = Upload!None
    /\ uploadStages = 0 /\ uploadCrashes = 0 /\ uploadBrought = {} /\ uploadBlind = FALSE

ToolsInit ==
    \/ /\ part = "golden" /\ Init
       /\ SessionRests /\ ToolsRest /\ LessonsRest /\ ServiceRests /\ UploadsRest
    \/ /\ part = "session" /\ Session!Init
       /\ GoldenRests /\ ToolsRest /\ LessonsRest /\ ServiceRests /\ UploadsRest
    \/ /\ part = "tools" /\ Python!Init
       /\ GoldenRests /\ SessionRests /\ LessonsRest /\ ServiceRests /\ UploadsRest
    \/ /\ part = "lessons" /\ Store!Init
       /\ GoldenRests /\ SessionRests /\ ToolsRest /\ ServiceRests /\ UploadsRest
    \/ /\ part = "requests" /\ Service!Init
       /\ GoldenRests /\ SessionRests /\ ToolsRest /\ LessonsRest /\ UploadsRest
    \/ /\ part = "uploads" /\ Upload!Init
       /\ GoldenRests /\ SessionRests /\ ToolsRest /\ LessonsRest /\ ServiceRests

ToolsNext ==
    /\ UNCHANGED part
    /\ \/ /\ part = "golden" /\ Next
          /\ UNCHANGED <<sessionVars, toolVars, storeVars, serviceVars, uploadVars>>
       \/ /\ part = "session" /\ Session!Next
          /\ UNCHANGED <<vars, toolVars, storeVars, serviceVars, uploadVars>>
       \/ /\ part = "tools" /\ Python!Next
          /\ UNCHANGED <<vars, sessionVars, storeVars, serviceVars, uploadVars>>
       \/ /\ part = "lessons" /\ Store!Next
          /\ UNCHANGED <<vars, sessionVars, toolVars, serviceVars, uploadVars>>
       \/ /\ part = "requests" /\ Service!Next
          /\ UNCHANGED <<vars, sessionVars, toolVars, storeVars, uploadVars>>
       \/ /\ part = "uploads" /\ Upload!Next
          /\ UNCHANGED <<vars, sessionVars, toolVars, storeVars, serviceVars>>

ToolsSpec ==
    /\ ToolsInit
    /\ [][ToolsNext]_<<part, vars, sessionVars, toolVars, storeVars, serviceVars, uploadVars>>

-----------------------------------------------------------------------------
(* Properties, beside those of GoldenGen; their parts are stated in the modules *)

\* Of the lessons that concurrent stages learn the file keeps every last one.
NothingIsLost == Store!NothingIsLost
\* A session that repeats itself is over before the call that would be one too many, an empty
\* one is the result only after every attempt, and one the provider refused fails its stage.
SessionIsGuarded == Session!SpinIsCut /\ Session!EmptyIsRetried /\ Session!RefusalFails
\* A lesson is made by a clean write of a file whose last write was in error, and the error of
\* a testbench is not forgotten while the design it binds to is broken.
LessonsAreEarned == Session!LessonsAreEarned /\ Session!BenchIsBound
\* A call of run_python that overlaps no other returns the output of its own snippet and keeps
\* it, and a package is recorded only after a command has installed it.
CallsAreExact == Python!AloneIsExact /\ Python!AloneIsKept /\ Python!RecordedIsInstalled
\* Requests side by side do not mix: a completion of a task with a pick, or a deep agent that
\* runs alone, uses the model of its own task; whoever is answered has left a memory, and one
\* is refused only when its own task saved one in the same second.
RequestsAreApart ==
    /\ Service!TextUsesOwnModel /\ Service!AloneUsesOwnModel
    /\ Service!AnsweredIsRemembered /\ Service!OnlyTwinsCollide
\* Every stage sees the same reading and the same roles of the pictures; one is called
\* unreadable only after every try or when no model that can see was found for it, and the
\* chip is not fed a diagram beside a picture that is data.
PicturesAreRead ==
    /\ []Upload!RolesAreDigested /\ Upload!ReadingIsKept
    /\ Upload!UnreadIsTried /\ Upload!InputIsData
=================================================================================
