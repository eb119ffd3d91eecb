---------------------------- MODULE AgentToolsProofs ----------------------------
(***************************************************************************)
(* Theorems about what serves the stages in agent-service, for every       *)
(* number of calls, sessions, requests, pictures and deaths: the store of  *)
(* lessons, the Python tools and the session of a deep agent, the requests *)
(* side by side, and the uploads.                                          *)
(***************************************************************************)
EXTENDS MCAgentTools, FiniteSetTheorems, TLAPS

allVars == <<part, vars, sessionVars, toolVars, storeVars, serviceVars, uploadVars>>

-----------------------------------------------------------------------------
(* The store of lessons.  The argument is that of a critical section: only the holder of *)
(* the lock is between its load and its write, so what it has loaded is still what was   *)
(* learned when it writes, and nobody but it sees a truncated file.                      *)

LEMMA EmptyStoreType == Store!Empty \in Store!Lessons
BY DEF Store!Empty, Store!Lessons

\* A stored lesson keeps the type of the file.
LEMMA StoreType ==
    ASSUME NEW f \in Store!Lessons, NEW s \in Signatures, NEW c \in Threads
    PROVE  [f EXCEPT ![s] = c] \in Store!Lessons
BY DEF Store!Lessons

-----------------------------------------------------------------------------
(* Types and exclusion *)

Inside == {"load", "truncate", "write"}

LEMMA InitStoreTyped == Store!Init => Store!TypeOK
<1> SUFFICES ASSUME Store!Init PROVE Store!TypeOK
    OBVIOUS
<1>1. storeCrashes \in 0..MaxCrashes
    BY StoreAssumption DEF Store!Init
<1>2. storePc \in [Store!Calls -> {"idle", "load", "truncate", "write", "done"}]
      /\ \A c \in Store!Calls : storePc[c] = "idle"
    BY DEF Store!Init
<1>3. storeData \in [Store!Calls -> Store!Lessons]
    BY EmptyStoreType DEF Store!Init
<1> QED BY <1>1, <1>2, <1>3, EmptyStoreType DEF Store!Init, Store!TypeOK

LEMMA AcquireTyped ==
    ASSUME Store!TypeOK, NEW c \in Store!Calls, Store!Acquire(c) PROVE Store!TypeOK'
<1>1. \A d \in Store!Calls : storePc[d] \notin Inside
    BY StoreAssumption DEF Store!Acquire, Store!TypeOK, Store!Calls, Inside
<1>2. \A d \in Store!Calls : storePc'[d] \in Inside => storeLock' = d
    BY <1>1 DEF Store!Acquire, Store!TypeOK, Inside
<1> QED BY <1>2 DEF Store!Acquire, Store!TypeOK, Inside

LEMMA LoadedTyped ==
    ASSUME Store!TypeOK, NEW c \in Store!Calls, NEW lessons \in Store!Lessons,
           Store!Loaded(c, lessons), storeCrashes' \in 0..MaxCrashes
    PROVE  Store!TypeOK'
<1>1. storeData' \in [Store!Calls -> Store!Lessons]
    BY DEF Store!Loaded, Store!TypeOK
<1>2. \A d \in Store!Calls : storePc[d] \in Inside => d = c
    BY DEF Store!Loaded, Store!TypeOK, Inside
<1>3. CASE c \in Readers
    <2>1. /\ storePc' \in [Store!Calls -> {"idle", "load", "truncate", "write", "done"}]
          /\ storeLock' \in Store!Calls \cup {"free"}
          /\ \A d \in Store!Calls : storePc'[d] \in Inside => storeLock' = d
        BY <1>2, <1>3 DEF Store!Loaded, Store!TypeOK, Inside
    <2> QED BY <1>1, <2>1 DEF Store!Loaded, Store!TypeOK, Inside
<1>4. CASE c \notin Readers
    <2>1. /\ storePc' \in [Store!Calls -> {"idle", "load", "truncate", "write", "done"}]
          /\ storeLock' = storeLock /\ storeLock = c
          /\ \A d \in Store!Calls : storePc'[d] \in Inside => storeLock' = d
        BY <1>2, <1>4 DEF Store!Loaded, Store!TypeOK, Inside
    <2> QED BY <1>1, <2>1 DEF Store!Loaded, Store!TypeOK, Inside
<1> QED BY <1>3, <1>4

LEMMA WriteTyped ==
    ASSUME Store!TypeOK, NEW c \in Threads, Store!Write(c) PROVE Store!TypeOK'
<1>1. storeData[c] \in Store!Lessons /\ storeMine[c] \in Signatures
    BY DEF Store!TypeOK, Store!Calls
<1>2. storeFile' \in Store!Lessons /\ storeLearned' \in Store!Lessons
    BY <1>1, StoreType DEF Store!Write, Store!TypeOK
<1>3. \A d \in Store!Calls : storePc'[d] \notin Inside
    BY DEF Store!Write, Store!TypeOK, Store!Calls, Inside
<1>4. storePc' \in [Store!Calls -> {"idle", "load", "truncate", "write", "done"}]
    BY DEF Store!Write, Store!TypeOK
<1> QED BY <1>2, <1>3, <1>4 DEF Store!Write, Store!TypeOK, Inside

\* A fault is paid for.
LEMMA FaultCounts ==
    ASSUME Store!TypeOK, Store!Fault
    PROVE  storeCrashes' \in 0..MaxCrashes /\ storeCrashes' # 0
BY StoreAssumption DEF Store!Fault, Store!TypeOK

LEMMA SaveFailsTyped ==
    ASSUME Store!TypeOK, NEW c \in Threads, Store!SaveFails(c) PROVE Store!TypeOK'
<1>1. storeCrashes' \in 0..MaxCrashes
    BY FaultCounts DEF Store!SaveFails
<1>2. \A d \in Store!Calls : storePc'[d] \notin Inside
    BY DEF Store!SaveFails, Store!TypeOK, Store!Calls, Inside
<1>3. storePc' \in [Store!Calls -> {"idle", "load", "truncate", "write", "done"}]
    BY DEF Store!SaveFails, Store!TypeOK
<1> QED BY <1>1, <1>2, <1>3 DEF Store!SaveFails, Store!TypeOK, Inside

LEMMA CrashTyped ==
    ASSUME Store!TypeOK, Store!Crash PROVE Store!TypeOK'
<1>1. storeCrashes' \in 0..MaxCrashes
    BY FaultCounts DEF Store!Crash
<1>2. \A d \in Store!Calls : storePc'[d] \in {"idle", "done"}
    BY DEF Store!Crash
<1>3. storePc' \in [Store!Calls -> {"idle", "load", "truncate", "write", "done"}]
    BY DEF Store!Crash
<1> QED BY <1>1, <1>2, <1>3 DEF Store!Crash, Store!TypeOK

LEMMA NextStoreTyped == Store!TypeOK /\ [Store!Next]_storeVars => Store!TypeOK'
<1> SUFFICES ASSUME Store!TypeOK, [Store!Next]_storeVars PROVE Store!TypeOK'
    OBVIOUS
<1>1. ASSUME NEW c \in Store!Calls, Store!Acquire(c) PROVE Store!TypeOK'
    BY <1>1, AcquireTyped
<1>2. ASSUME NEW c \in Store!Calls, Store!Read(c) \/ Store!ReadFails(c) PROVE Store!TypeOK'
    <2>1. Store!Load \in Store!Lessons
        BY EmptyStoreType DEF Store!Load, Store!TypeOK
    <2>2. CASE Store!Read(c)
        BY <2>1, <2>2, LoadedTyped DEF Store!Read, Store!TypeOK
    <2>3. CASE Store!ReadFails(c)
        BY <2>3, EmptyStoreType, FaultCounts, LoadedTyped DEF Store!ReadFails
    <2> QED BY <1>2, <2>2, <2>3
<1>3. ASSUME NEW c \in Threads, Store!Truncate(c) PROVE Store!TypeOK'
    <2>1. /\ storePc' \in [Store!Calls -> {"idle", "load", "truncate", "write", "done"}]
          /\ \A d \in Store!Calls : storePc'[d] \in Inside => storeLock = d
        BY <1>3 DEF Store!Truncate, Store!TypeOK, Store!Calls, Inside
    <2> QED BY <1>3, <2>1 DEF Store!Truncate, Store!TypeOK, Inside
<1>4. ASSUME NEW c \in Threads, Store!Write(c) \/ Store!SaveFails(c) PROVE Store!TypeOK'
    BY <1>4, WriteTyped, SaveFailsTyped
<1>5. CASE Store!Crash
    BY <1>5, CrashTyped
<1>6. CASE UNCHANGED storeVars
    BY <1>6 DEF storeVars, Store!TypeOK
<1> QED BY <1>1, <1>2, <1>3, <1>4, <1>5, <1>6 DEF Store!Next

-----------------------------------------------------------------------------
(* Nothing is lost while the service lives and can use its volume *)

\* The file is truncated only in the hands of the call that is about to write it.
TornByWriter == storeTorn => \E c \in Threads : storePc[c] = "write"

\* Only calls of remember_fix write, and what they have loaded is what was learned.
LoadedIsLearned ==
    \A c \in Store!Calls : storePc[c] \in {"truncate", "write"} => c \in Threads /\ storeData[c] = storeLearned

StoreInv ==
    /\ Store!TypeOK
    /\ storeCrashes = 0 => TornByWriter /\ LoadedIsLearned /\ Store!NothingIsLost

\* While the service has not died, the holder of the lock that has not truncated the file
\* finds in it all that was learned.
LEMMA LoadIsLearned ==
    ASSUME StoreInv, storeCrashes = 0, NEW c \in Store!Calls, storePc[c] = "load"
    PROVE  Store!Load = storeLearned
<1>1. \A d \in Store!Calls : storePc[d] \in Inside => d = c
    BY DEF StoreInv, Store!TypeOK, Inside
<1>2. ~storeTorn
    BY <1>1 DEF StoreInv, TornByWriter, Inside, Store!Calls
<1> QED BY <1>2 DEF StoreInv, Store!NothingIsLost, Store!Load

LEMMA InitStore == Store!Init => StoreInv
BY InitStoreTyped DEF Store!Init, StoreInv, TornByWriter, LoadedIsLearned, Store!NothingIsLost

LEMMA NextStore == StoreInv /\ [Store!Next]_storeVars => StoreInv'
<1> SUFFICES ASSUME StoreInv, [Store!Next]_storeVars PROVE StoreInv'
    OBVIOUS
<1>0. Store!TypeOK /\ Store!TypeOK'
    BY NextStoreTyped DEF StoreInv
<1> USE DEF TornByWriter, LoadedIsLearned, Store!NothingIsLost
<1>1. ASSUME NEW c \in Store!Calls, Store!Acquire(c) PROVE StoreInv'
    <2>1. storePc' = [storePc EXCEPT ![c] = "load"] /\ storePc[c] = "idle"
        BY <1>1 DEF Store!Acquire
    <2>2. \A d \in Store!Calls : /\ storePc'[d] \in {"truncate", "write"} => storePc'[d] = storePc[d]
                           /\ storePc[d] = "write" => storePc'[d] = "write"
        BY <1>0, <2>1 DEF Store!TypeOK
    <2> QED BY <1>0, <1>1, <2>2 DEF Store!Acquire, StoreInv, Store!Calls
<1>2. ASSUME NEW c \in Store!Calls, Store!Read(c) PROVE StoreInv'
    <2> SUFFICES ASSUME storeCrashes' = 0 PROVE (TornByWriter /\ LoadedIsLearned /\ Store!NothingIsLost)'
        BY <1>0 DEF StoreInv
    <2>1. storeCrashes = 0 /\ storePc[c] = "load" /\ storeLearned' = storeLearned /\ storeFile' = storeFile /\ storeTorn' = storeTorn
        BY <1>2 DEF Store!Read, Store!Loaded
    <2>2. Store!Load = storeLearned
        BY <2>1, LoadIsLearned
    <2>3. \A d \in Store!Calls : d # c => storePc[d] \notin Inside /\ storePc'[d] = storePc[d]
        BY <1>0, <1>2 DEF Store!TypeOK, Store!Read, Store!Loaded, Inside
    <2>4. storeData'[c] = storeLearned'
        BY <1>0, <1>2, <2>1, <2>2 DEF Store!Read, Store!Loaded, Store!TypeOK
    <2>5. storePc'[c] = "truncate" => c \in Threads
        BY <1>0, <1>2 DEF Store!Read, Store!Loaded, Store!TypeOK, Store!Calls
    <2>6. storePc'[c] \in {"truncate", "done"}
        BY <1>0, <1>2 DEF Store!Read, Store!Loaded, Store!TypeOK
    <2>7. LoadedIsLearned'
        BY <2>3, <2>4, <2>5, <2>6 DEF Inside
    <2>8. ~storeTorn
        BY <2>1, <2>3 DEF StoreInv, Inside, Store!Calls
    <2> QED BY <2>1, <2>7, <2>8 DEF StoreInv
<1>3. ASSUME NEW c \in Threads, Store!Truncate(c) PROVE StoreInv'
    <2>1. storePc'[c] = "write" /\ \A d \in Store!Calls : d # c => storePc'[d] = storePc[d]
        BY <1>0, <1>3 DEF Store!Truncate, Store!TypeOK, Store!Calls
    <2>2. storePc[c] = "truncate" /\ storeTorn' /\ UNCHANGED <<storeData, storeLearned, storeCrashes>>
        BY <1>3 DEF Store!Truncate
    <2> QED BY <1>0, <2>1, <2>2 DEF StoreInv, Store!Calls
<1>4. ASSUME NEW c \in Threads, Store!Write(c) PROVE StoreInv'
    <2> SUFFICES ASSUME storeCrashes' = 0 PROVE (TornByWriter /\ LoadedIsLearned /\ Store!NothingIsLost)'
        BY <1>0 DEF StoreInv
    <2>1. storeCrashes = 0 /\ storePc[c] = "write" /\ c \in Store!Calls
        BY <1>4 DEF Store!Write, Store!Calls
    <2>2. storeData[c] = storeLearned
        BY <2>1 DEF StoreInv
    <2>3. storeFile' = storeLearned' /\ ~storeTorn'
        BY <1>4, <2>2 DEF Store!Write
    <2>4. \A d \in Store!Calls : storePc'[d] \notin {"truncate", "write"}
        BY <1>0, <1>4, <2>1 DEF Store!Write, Store!TypeOK
    <2> QED BY <2>3, <2>4
<1>5. ASSUME \/ Store!Crash
             \/ \E c \in Store!Calls : Store!ReadFails(c)
             \/ \E c \in Threads : Store!SaveFails(c)
      PROVE  StoreInv'
    <2>1. storeCrashes' # 0
        BY <1>0, <1>5, FaultCounts DEF Store!Crash, Store!ReadFails, Store!SaveFails
    <2> QED BY <1>0, <2>1 DEF StoreInv
<1>6. CASE UNCHANGED storeVars
    BY <1>0, <1>6 DEF storeVars, StoreInv
<1> QED BY <1>1, <1>2, <1>3, <1>4, <1>5, <1>6 DEF Store!Next


\* Whatever a call of recall_fix loads is all that was learned.
LEMMA ReadIsWhole ==
    ASSUME StoreInv, [Store!Next]_storeVars, NEW r \in Readers, storeCrashes' = 0,
           storeData'[r] # storeData[r]
    PROVE  storeData'[r] = storeLearned
<1>0. r \in Store!Calls /\ Store!TypeOK
    BY DEF Store!Calls, StoreInv
<1>1. ASSUME NEW c \in Store!Calls, Store!Read(c) PROVE storeData'[r] = storeLearned
    <2>1. storeData' = [storeData EXCEPT ![c] = Store!Load] /\ storePc[c] = "load"
        BY <1>1 DEF Store!Read, Store!Loaded
    <2>2. r = c
        BY <1>0, <2>1 DEF Store!TypeOK
    <2>3. storeCrashes = 0
        BY <1>1 DEF Store!Read
    <2>4. Store!Load = storeLearned
        BY <2>1, <2>3, LoadIsLearned
    <2> QED BY <1>0, <2>1, <2>2, <2>4 DEF Store!TypeOK
<1>2. ~Store!Fault
    BY <1>0, FaultCounts
<1> QED BY <1>1, <1>2 DEF Store!Next, Store!Acquire, Store!ReadFails, Store!Truncate,
                      Store!Write, Store!SaveFails, Store!Crash, storeVars

StoreSafe == IF part = "lessons" THEN StoreInv ELSE Store!NothingIsLost

LEMMA StoreStep ==
    ASSUME StoreSafe, [ToolsNext]_allVars
    PROVE  /\ StoreSafe' /\ part' = part
           /\ part = "lessons" => [Store!Next]_storeVars
           /\ part # "lessons" => UNCHANGED storeVars
<1>0. part' = part
    BY DEF ToolsNext, allVars
<1>1. CASE part = "lessons" /\ Store!Next
    BY <1>0, <1>1, NextStore DEF StoreSafe
<1>2. CASE UNCHANGED storeVars
    <2>1. CASE part = "lessons"
        BY <1>0, <1>2, <2>1, NextStore DEF StoreSafe
    <2>2. CASE part # "lessons"
        BY <1>0, <1>2, <2>2 DEF StoreSafe, Store!NothingIsLost, storeVars
    <2> QED BY <1>0, <1>2, <2>1, <2>2
<1> QED BY <1>1, <1>2 DEF ToolsNext, allVars

\* The store of lessons keeps its types, one call holds the lock and only it is inside; while
\* the service lives what the writer has loaded is what was learned.
THEOREM StoreCorrect == ToolsSpec => []StoreSafe
<1>1. ToolsInit => StoreSafe
    BY InitStore DEF ToolsInit, LessonsRest, StoreSafe, Store!NothingIsLost
<1> QED BY <1>1, StoreStep, PTL DEF ToolsSpec, allVars

\* As long as the service lives and can use its volume, the file holds the last lesson of
\* every signature, however many stages and tasks learn at the same time (remember_fix).
THEOREM NoneLost == ToolsSpec => []NothingIsLost
<1>1. StoreSafe => NothingIsLost
    BY DEF StoreSafe, StoreInv, NothingIsLost, Store!NothingIsLost
<1> QED BY <1>1, StoreCorrect, PTL

\* Whatever a call of recall_fix loads is all that was learned: it never meets the file
\* between its truncation and its write.
THEOREM WholeRead == ToolsSpec => Store!ReadersSeeWhole
<1>1. StoreSafe /\ [ToolsNext]_allVars
          => [\A c \in Readers : storeCrashes' = 0 /\ storeData'[c] # storeData[c]
                => storeData'[c] = storeLearned]_(Store!vars)
    BY StoreStep, ReadIsWhole DEF StoreSafe, storeVars, Store!vars
<1> QED BY <1>1, StoreCorrect, PTL DEF ToolsSpec, allVars, Store!ReadersSeeWhole

-----------------------------------------------------------------------------
(* The Python tools: what holds of calls that share their files without a lock *)

Labels == {"idle", "keep", "script", "run", "read", "record", "done"}

(* What is known of every call *)

\* A call that is past its own writing of the script and alone so far finds its own snippet
\* there; one that is done returned it.
Exact ==
    \A c \in Scripts :
        /\ c \notin toolTogether /\ toolPc[c] = "run" => toolScript = c
        /\ c \notin toolTogether /\ toolPc[c] = "done" => toolRan[c] = c

\* Of two calls that are under way, neither counts as alone.
Seen ==
    \A c \in Scripts : \A d \in Scripts :
        c # d /\ c \in Python!Running /\ d \in Python!Running => c \in toolTogether

\* A package that is being recorded has been installed.
Installed ==
    /\ Python!RecordedIsInstalled
    /\ \A c \in Installs : toolPc[c] \in {"read", "record"} => c \in toolInstalled

PythonInv ==
    /\ toolPc \in [Python!Calls -> Labels]
    /\ toolScript \in Scripts \cup {"none"}
    /\ toolRan \in [Scripts -> Scripts \cup {"none"}]
    /\ toolHave \in [Installs -> SUBSET Installs] /\ toolRecorded \subseteq Installs
    /\ Exact /\ Seen /\ Installed

LEMMA InitTools == Python!Init => PythonInv
BY DEF Python!Init, PythonInv, Exact, Seen, Installed, Python!RecordedIsInstalled, Python!Calls, Python!Running, Labels

\* A step of a call of run_python changes nothing of the packages, and of the other calls
\* only the script and the history.
LEMMA CountKeptTools ==
    ASSUME PythonInv, NEW c \in Scripts, Python!CountKept(c) PROVE PythonInv'
<1> USE DEF PythonInv, Python!CountKept, Python!packages
<1>1. c \in Python!Calls /\ \A d \in Installs : d \in Python!Calls /\ d # c
    BY CallsAssumption DEF Python!Calls
<1>2. toolPc' \in [Python!Calls -> Labels] /\ toolPc'[c] = "keep" /\ toolPc[c] = "idle"
      /\ \A d \in Python!Calls : d # c => toolPc'[d] = toolPc[d]
    BY <1>1 DEF Labels
<1>3. toolTogether \subseteq toolTogether'
    OBVIOUS
<1>4. Exact'
    BY <1>1, <1>2, <1>3 DEF Exact, Python!Calls
<1>5. Seen'
    <2> SUFFICES ASSUME NEW d \in Scripts, NEW e \in Scripts, d # e, d \in Python!Running', e \in Python!Running'
                 PROVE  d \in toolTogether'
        BY DEF Seen
    <2>1. CASE d # c /\ e # c
        <3>1. d \in Python!Running /\ e \in Python!Running
            BY <1>2, <2>1 DEF Python!Running, Python!Calls
        <3> QED BY <1>3, <3>1 DEF Seen
    <2>2. CASE d = c \/ e = c
        <3> DEFINE other == IF d = c THEN e ELSE d
        <3>1. other \in Python!Running
            BY <1>2, <2>2 DEF Python!Running, Python!Calls
        <3>2. toolTogether' = toolTogether \cup (Python!Running \cup {c})
            BY <3>1
        <3> QED BY <2>2, <3>1, <3>2
    <2> QED BY <2>1, <2>2
<1>6. Installed'
    BY <1>1, <1>2 DEF Installed, Python!RecordedIsInstalled
<1> QED BY <1>2, <1>4, <1>5, <1>6

\* Of a call under way that is alone, no other call is under way.
LEMMA AloneUnderWay ==
    ASSUME PythonInv, NEW c \in Scripts, NEW d \in Scripts, c \in Python!Running, d \in Python!Running,
           c \notin toolTogether
    PROVE  d = c
BY DEF PythonInv, Seen

\* The other steps of a call of run_python.
LEMMA ScriptStepTools ==
    ASSUME PythonInv, NEW c \in Scripts, Python!Keep(c) \/ Python!WriteScript(c) \/ Python!Run(c) PROVE PythonInv'
<1>1. c \in Python!Calls /\ \A d \in Installs : d \in Python!Calls /\ d # c
    BY CallsAssumption DEF Python!Calls
<1>2. /\ toolPc \in [Python!Calls -> Labels] /\ toolPc' \in [Python!Calls -> Labels]
      /\ \A d \in Python!Calls : d # c => toolPc'[d] = toolPc[d]
      /\ toolTogether' = toolTogether /\ toolInstalled' = toolInstalled /\ toolHave' = toolHave /\ toolRecorded' = toolRecorded
      /\ c \in Python!Running
    BY <1>1 DEF Python!Keep, Python!WriteScript, Python!Run, Python!packages, PythonInv, Labels, Python!Running
<1>3. Python!Running' \subseteq Python!Running
    BY <1>2 DEF Python!Running, Python!Calls
<1>4. Seen'
    BY <1>2, <1>3 DEF Seen, PythonInv
<1>5. Installed'
    BY <1>1, <1>2 DEF Installed, Python!RecordedIsInstalled, PythonInv
<1>6. /\ Exact'
      /\ toolScript' \in Scripts \cup {"none"} /\ toolRan' \in [Scripts -> Scripts \cup {"none"}]
    <2>1. CASE Python!Keep(c)
        BY <1>1, <1>2, <2>1 DEF Python!Keep, Exact, PythonInv, Python!Calls
    <2>2. CASE Python!WriteScript(c)
        <3>1. toolScript' = c /\ toolRan' = toolRan /\ toolPc'[c] = "run" /\ \A d \in Scripts : d # c => toolPc'[d] = toolPc[d]
            BY <1>1, <1>2, <2>2 DEF Python!WriteScript, Python!Calls
        <3>2. \A d \in Scripts : d \notin toolTogether /\ toolPc[d] = "run" => d = c
            BY <1>2, AloneUnderWay DEF Python!Running
        <3> QED BY <1>2, <3>1, <3>2 DEF Exact, PythonInv
    <2>3. CASE Python!Run(c)
        <3>1. /\ toolScript' = toolScript /\ toolPc[c] = "run" /\ toolPc'[c] = "done"
              /\ toolRan' = [toolRan EXCEPT ![c] = toolScript]
              /\ \A d \in Scripts : d # c => toolPc'[d] = toolPc[d]
            BY <1>1, <1>2, <2>3 DEF Python!Run, Python!Calls
        <3>2. toolRan' \in [Scripts -> Scripts \cup {"none"}]
            BY <3>1 DEF PythonInv
        <3>3. \A d \in Scripts : d # c => toolRan'[d] = toolRan[d]
            BY <3>1 DEF PythonInv
        <3>4. toolRan'[c] = toolScript
            BY <3>1 DEF PythonInv
        <3> QED BY <1>2, <3>1, <3>2, <3>3, <3>4 DEF Exact, PythonInv
    <2> QED BY <2>1, <2>2, <2>3
<1> QED BY <1>2, <1>4, <1>5, <1>6 DEF PythonInv

\* The commands of pip_install leave the snippets alone and touch its own package only.
LEMMA InstallStepTools ==
    ASSUME PythonInv, NEW c \in Installs, Python!TryPip(c) \/ Python!ReadRequirements(c) \/ Python!Record(c)
    PROVE  PythonInv'
<1>1. c \in Python!Calls /\ \A d \in Scripts : d \in Python!Calls /\ d # c
    BY CallsAssumption DEF Python!Calls
<1>2. /\ toolPc' \in [Python!Calls -> Labels] /\ \A d \in Python!Calls : d # c => toolPc'[d] = toolPc[d]
      /\ toolScript' = toolScript /\ toolRan' = toolRan /\ toolTogether' = toolTogether
      /\ toolInstalled \subseteq toolInstalled'
    BY <1>1 DEF Python!TryPip, Python!ReadRequirements, Python!Record, Python!snippets, PythonInv, Labels
<1>3. Exact'
    BY <1>1, <1>2 DEF Exact, PythonInv
<1>4. Seen'
    <2>1. Python!Running' = Python!Running
        BY <1>1, <1>2 DEF Python!Running
    <2> QED BY <1>2, <2>1 DEF Seen, PythonInv
<1>5. Installed' /\ toolHave' \in [Installs -> SUBSET Installs]
    <2>1. CASE Python!TryPip(c)
        <3>1. /\ toolHave' = toolHave /\ toolRecorded' = toolRecorded
              /\ toolPc'[c] = "read" => c \in toolInstalled'
              /\ toolPc'[c] # "record"
            BY <1>1, <2>1 DEF Python!TryPip, PythonInv, Labels, Python!snippets
        <3>2. \A d \in Installs : d # c => toolPc'[d] = toolPc[d]
            BY <1>2 DEF Python!Calls
        <3> QED BY <1>2, <3>1, <3>2 DEF Installed, Python!RecordedIsInstalled, PythonInv
    <2>2. CASE Python!ReadRequirements(c)
        <3>1. /\ toolHave' = [toolHave EXCEPT ![c] = toolRecorded] /\ toolRecorded' = toolRecorded
              /\ toolInstalled' = toolInstalled /\ toolPc[c] = "read"
            BY <2>2 DEF Python!ReadRequirements, Python!snippets
        <3>2. toolRecorded \subseteq toolInstalled /\ c \in toolInstalled
            BY <3>1 DEF PythonInv, Installed, Python!RecordedIsInstalled
        <3>3. toolRecorded \subseteq Installs
            BY DEF PythonInv
        <3>4. \A d \in Installs : d # c => toolPc'[d] = toolPc[d]
            BY <1>2 DEF Python!Calls
        <3> QED BY <3>1, <3>2, <3>3, <3>4 DEF Installed, Python!RecordedIsInstalled, PythonInv
    <2>3. CASE Python!Record(c)
        <3>1. /\ toolRecorded' = toolHave[c] \cup {c} /\ toolHave' = toolHave /\ toolInstalled' = toolInstalled
              /\ toolPc[c] = "record" /\ toolPc'[c] = "done"
            BY <1>1, <2>3 DEF Python!Record, Python!snippets, PythonInv
        <3>2. \A d \in Installs : d # c => toolPc'[d] = toolPc[d]
            BY <1>2 DEF Python!Calls
        <3> QED BY <3>1, <3>2 DEF Installed, Python!RecordedIsInstalled, PythonInv
    <2> QED BY <2>1, <2>2, <2>3
<1>6. toolRecorded' \subseteq Installs
    BY DEF Python!TryPip, Python!ReadRequirements, Python!Record, Python!snippets, PythonInv
<1> QED BY <1>2, <1>3, <1>4, <1>5, <1>6 DEF PythonInv

LEMMA NextTools == PythonInv /\ [Python!Next]_toolVars => PythonInv'
<1> SUFFICES ASSUME PythonInv, [Python!Next]_toolVars PROVE PythonInv'
    OBVIOUS
<1>1. ASSUME NEW c \in Scripts, Python!CountKept(c) PROVE PythonInv'
    BY <1>1, CountKeptTools
<1>2. ASSUME NEW c \in Scripts, Python!Keep(c) \/ Python!WriteScript(c) \/ Python!Run(c) PROVE PythonInv'
    BY <1>2, ScriptStepTools
<1>3. ASSUME NEW c \in Installs, Python!TryPip(c) \/ Python!ReadRequirements(c) \/ Python!Record(c) PROVE PythonInv'
    BY <1>3, InstallStepTools
<1>4. CASE Python!Delete
    BY <1>4 DEF Python!Delete, Python!packages, PythonInv, Exact, Seen, Installed, Python!RecordedIsInstalled, Python!Running
<1>5. CASE UNCHANGED toolVars
    BY <1>5 DEF toolVars, PythonInv, Exact, Seen, Installed, Python!RecordedIsInstalled, Python!Running
<1> QED BY <1>1, <1>2, <1>3, <1>4, <1>5 DEF Python!Next


\* Where calls do not overlap and nothing is deleted, the kept snippets are numbered without a
\* gap, one number each, and the call that is about to keep its own has the next one.
InOrder ==
    /\ Python!Kept = 1 .. Cardinality(Python!Kept)
    /\ \A m \in Python!Kept : \A n \in Python!Kept : toolKept[m] = toolKept[n] => m = n
    /\ \A n \in Python!Kept : toolPc[toolKept[n]] \in {"script", "run", "done"}
    /\ \A c \in Scripts : toolPc[c] = "keep" => toolNumber[c] = Cardinality(Python!Kept) + 1
    /\ \A c \in Scripts :
          toolPc[c] \in {"script", "run", "done"} => \E n \in Python!Kept : toolKept[n] = c

KeptInv ==
    /\ toolKept \in [Python!Numbers -> Scripts \cup {"none"}]
    /\ toolNumber \in [Scripts -> Nat] /\ toolDeletes \in Nat
    /\ \A c \in Scripts : toolRan[c] # "none" => toolPc[c] = "done"
    /\ toolTogether = {} /\ toolDeletes = 0 => InOrder

\* The module is instantiated with the standard modules it extends.
LEMMA SameCardinality == ASSUME NEW S PROVE Python!Cardinality(S) = Cardinality(S)
BY DEF Python!Cardinality, Cardinality

LEMMA NumbersOf == Python!Numbers = 1 .. (Cardinality(Scripts) + 1)
BY SameCardinality DEF Python!Numbers

LEMMA KeptFinite ==
    /\ IsFiniteSet(Python!Kept) /\ Cardinality(Python!Kept) \in Nat
    /\ Cardinality(Scripts) \in Nat
    /\ Python!Kept \subseteq Python!Numbers /\ Python!Numbers \subseteq Nat \ {0}
<1>1. IsFiniteSet(Scripts) /\ Cardinality(Scripts) \in Nat
    BY CallsAssumption, FS_CardinalityType
<1>2. IsFiniteSet(Python!Numbers)
    BY <1>1, NumbersOf, FS_Interval
<1>3. Python!Kept \in SUBSET Python!Numbers
    BY DEF Python!Kept
<1>4. IsFiniteSet(Python!Kept)
    BY <1>2, <1>3, FS_Subset
<1> QED BY <1>1, <1>3, <1>4, NumbersOf, FS_CardinalityType

\* A kept snippet is one of the scripts.
LEMMA KeptIsScript ==
    ASSUME KeptInv, NEW n \in Python!Kept PROVE toolKept[n] \in Scripts
BY DEF KeptInv, Python!Kept

\* There is a number left for the call that is about to keep its snippet.
LEMMA NumberFits ==
    ASSUME KeptInv, InOrder, NEW c \in Scripts, toolPc[c] = "keep"
    PROVE  toolNumber[c] \in Python!Numbers /\ toolNumber[c] \notin Python!Kept
<1> DEFINE f == [n \in Python!Kept |-> toolKept[n]]
           others == Scripts \ {c}
<1>1. f \in Injection(Python!Kept, others)
    <2>1. \A n \in Python!Kept : f[n] \in others
        BY KeptIsScript DEF InOrder
    <2>2. \A m \in Python!Kept : \A n \in Python!Kept : f[m] = f[n] => m = n
        BY DEF InOrder
    <2> QED BY <2>1, <2>2 DEF Injection, IsInjective
<1>2. IsFiniteSet(others) /\ Cardinality(others) = Cardinality(Scripts) - 1
    BY CallsAssumption, FS_RemoveElement
<1>3. Cardinality(Python!Kept) <= Cardinality(Scripts) - 1
    BY <1>1, <1>2, FS_Injection
<1>4. toolNumber[c] = Cardinality(Python!Kept) + 1
    BY DEF InOrder
<1>5. Python!Kept = 1 .. Cardinality(Python!Kept)
    BY DEF InOrder
<1> QED BY <1>3, <1>4, <1>5, NumbersOf, KeptFinite

LEMMA InitKept == Python!Init => KeptInv
<1> SUFFICES ASSUME Python!Init PROVE KeptInv
    OBVIOUS
<1>1. Python!Kept = {}
    BY DEF Python!Init, Python!Kept
<1>2. Cardinality(Python!Kept) = 0
    BY <1>1, FS_EmptySet
<1>3. \A c \in Scripts : toolPc[c] = "idle" /\ toolRan[c] = "none"
    BY DEF Python!Init, Python!Calls
<1>4. InOrder
    BY <1>1, <1>2, <1>3 DEF InOrder
<1> QED BY <1>3, <1>4 DEF Python!Init, KeptInv

\* A step that keeps and deletes nothing, and moves one call on, leaves the order as it is.
LEMMA OrderKept ==
    ASSUME InOrder, KeptInv, toolKept' = toolKept,
           \A c \in Scripts :
              \/ toolPc'[c] = toolPc[c] /\ toolNumber'[c] = toolNumber[c]
              \/ {toolPc[c], toolPc'[c]} \subseteq {"script", "run", "done"}
              \/ /\ toolPc[c] = "idle" /\ toolPc'[c] = "keep"
                 /\ toolNumber'[c] = Cardinality(Python!Kept) + 1
    PROVE  InOrder'
<1>1. Python!Kept' = Python!Kept /\ Cardinality(Python!Kept)' = Cardinality(Python!Kept)
    BY DEF Python!Kept
<1>2. \A n \in Python!Kept : toolPc'[toolKept[n]] \in {"script", "run", "done"}
    BY KeptIsScript DEF InOrder
<1>3. \A c \in Scripts : toolPc'[c] = "keep" => toolNumber'[c] = Cardinality(Python!Kept) + 1
    BY DEF InOrder
<1>4. \A c \in Scripts :
          toolPc'[c] \in {"script", "run", "done"} => \E n \in Python!Kept : toolKept[n] = c
    BY DEF InOrder
<1> QED BY <1>1, <1>2, <1>3, <1>4 DEF InOrder

LEMMA CountKeptKept ==
    ASSUME PythonInv, KeptInv, NEW c \in Scripts, Python!CountKept(c) PROVE KeptInv'
<1>1. /\ toolPc \in [Python!Calls -> Labels] /\ c \in Python!Calls
      /\ Scripts \subseteq Python!Calls
    BY DEF PythonInv, Python!Calls
<1>2. /\ toolPc[c] = "idle" /\ toolPc' = [toolPc EXCEPT ![c] = "keep"]
      /\ toolNumber' = [toolNumber EXCEPT ![c] = Cardinality(Python!Kept) + 1]
      /\ UNCHANGED <<toolKept, toolRan, toolDeletes>> /\ toolTogether \subseteq toolTogether'
    BY SameCardinality DEF Python!CountKept
<1>3. toolNumber' \in [Scripts -> Nat]
    <2>1. Cardinality(Python!Kept) + 1 \in Nat
        BY KeptFinite
    <2> QED BY <1>2, <2>1 DEF KeptInv
<1>4. \A d \in Scripts : IF d = c THEN toolPc'[d] = "keep" /\ toolNumber'[d] = Cardinality(Python!Kept) + 1
                                  ELSE toolPc'[d] = toolPc[d] /\ toolNumber'[d] = toolNumber[d]
    BY <1>1, <1>2 DEF KeptInv
<1>5. ASSUME toolTogether' = {}, toolDeletes' = 0 PROVE InOrder'
    <2>1. InOrder
        BY <1>2, <1>5 DEF KeptInv
    <2> QED BY <1>2, <1>4, <2>1, OrderKept
<1>6. \A d \in Scripts : toolRan'[d] # "none" => toolPc'[d] = "done"
    BY <1>2, <1>4 DEF KeptInv
<1> QED BY <1>2, <1>3, <1>5, <1>6 DEF KeptInv

LEMMA KeepKept ==
    ASSUME PythonInv, KeptInv, NEW c \in Scripts, Python!Keep(c) PROVE KeptInv'
<1> DEFINE n == toolNumber[c]
<1>1. /\ toolPc \in [Python!Calls -> Labels] /\ c \in Python!Calls
      /\ Scripts \subseteq Python!Calls
    BY DEF PythonInv, Python!Calls
<1>2. /\ toolPc[c] = "keep" /\ toolPc' = [toolPc EXCEPT ![c] = "script"]
      /\ toolKept' = [toolKept EXCEPT ![n] = c]
      /\ UNCHANGED <<toolNumber, toolRan, toolDeletes, toolTogether>>
    BY DEF Python!Keep
<1>3. \A d \in Scripts : toolPc'[d] = IF d = c THEN "script" ELSE toolPc[d]
    BY <1>1, <1>2
<1>4. toolKept' \in [Python!Numbers -> Scripts \cup {"none"}]
    BY <1>2 DEF KeptInv
<1>5. ASSUME toolTogether' = {}, toolDeletes' = 0 PROVE InOrder'
    <2>1. InOrder /\ toolTogether = {}
        BY <1>2, <1>5 DEF KeptInv
    <2>2. n \in Python!Numbers /\ n \notin Python!Kept /\ n = Cardinality(Python!Kept) + 1
        BY <1>2, <2>1, NumberFits DEF InOrder
    <2>3. \A m \in Python!Numbers : toolKept'[m] = IF m = n THEN c ELSE toolKept[m]
        BY <1>2 DEF KeptInv
    <2>4. c # "none"
        BY CallsAssumption
    <2>5. Python!Kept' = Python!Kept \cup {n}
        BY <2>2, <2>3, <2>4 DEF Python!Kept, Python!Numbers
    <2>6. Cardinality(Python!Kept') = Cardinality(Python!Kept) + 1
        BY <2>2, <2>5, KeptFinite, FS_AddElement
    <2>7. Python!Kept' = 1 .. Cardinality(Python!Kept')
        <3>1. Python!Kept = 1 .. Cardinality(Python!Kept)
            BY <2>1 DEF InOrder
        <3> QED BY <2>2, <2>5, <2>6, <3>1, KeptFinite
    <2>8. \A m \in Python!Kept : toolKept'[m] = toolKept[m] /\ toolKept[m] \in Scripts \ {c}
                                 /\ toolPc'[toolKept[m]] \in {"script", "run", "done"}
        <3> SUFFICES ASSUME NEW m \in Python!Kept
                     PROVE  toolKept'[m] = toolKept[m] /\ toolKept[m] \in Scripts \ {c}
                            /\ toolPc'[toolKept[m]] \in {"script", "run", "done"}
            OBVIOUS
        <3>1. toolKept'[m] = toolKept[m]
            BY <2>2, <2>3, KeptFinite
        <3>2. toolKept[m] \in Scripts /\ toolPc[toolKept[m]] \in {"script", "run", "done"}
            BY <2>1, KeptIsScript DEF InOrder
        <3> QED BY <1>2, <1>3, <3>1, <3>2
    <2>9. toolKept'[n] = c
        BY <2>2, <2>3
    <2>10. \A k \in Python!Kept' : \A m \in Python!Kept' : toolKept'[k] = toolKept'[m] => k = m
        BY <2>1, <2>5, <2>8, <2>9 DEF InOrder
    <2>11. \A m \in Python!Kept' : toolPc'[toolKept'[m]] \in {"script", "run", "done"}
        BY <1>3, <2>5, <2>8, <2>9
    <2>12. \A d \in Scripts : toolPc'[d] # "keep"
        BY <1>2, <1>3, <2>1 DEF PythonInv, Seen, Python!Running
    <2>13. \A d \in Scripts : toolPc'[d] \in {"script", "run", "done"}
                                  => \E m \in Python!Kept' : toolKept'[m] = d
        BY <1>3, <2>1, <2>5, <2>8, <2>9 DEF InOrder
    <2> QED BY <2>7, <2>10, <2>11, <2>12, <2>13 DEF InOrder
<1>6. \A d \in Scripts : toolRan'[d] # "none" => toolPc'[d] = "done"
    BY <1>2, <1>3 DEF KeptInv
<1> QED BY <1>2, <1>4, <1>5, <1>6 DEF KeptInv

LEMMA RunKept ==
    ASSUME PythonInv, KeptInv, NEW c \in Scripts, Python!WriteScript(c) \/ Python!Run(c)
    PROVE  KeptInv'
<1>1. /\ toolPc \in [Python!Calls -> Labels] /\ c \in Python!Calls
      /\ Scripts \subseteq Python!Calls /\ toolRan \in [Scripts -> Scripts \cup {"none"}]
    BY DEF PythonInv, Python!Calls
<1>2. UNCHANGED <<toolKept, toolNumber, toolDeletes, toolTogether>>
    BY DEF Python!WriteScript, Python!Run
<1>3. \A d \in Scripts : \/ toolPc'[d] = toolPc[d] /\ toolRan'[d] = toolRan[d]
                         \/ /\ toolPc[d] = "script" /\ toolPc'[d] = "run" /\ toolRan'[d] = toolRan[d]
                         \/ toolPc[d] = "run" /\ toolPc'[d] = "done"
    BY <1>1 DEF Python!WriteScript, Python!Run
<1>4. ASSUME toolTogether' = {}, toolDeletes' = 0 PROVE InOrder'
    <2>1. InOrder
        BY <1>2, <1>4 DEF KeptInv
    <2> QED BY <1>2, <1>3, <2>1, OrderKept
<1>5. \A d \in Scripts : toolRan'[d] # "none" => toolPc'[d] = "done"
    BY <1>3 DEF KeptInv
<1> QED BY <1>2, <1>4, <1>5 DEF KeptInv

LEMMA InstallKept ==
    ASSUME PythonInv, KeptInv, NEW c \in Installs,
           Python!TryPip(c) \/ Python!ReadRequirements(c) \/ Python!Record(c)
    PROVE  KeptInv'
<1>1. UNCHANGED <<toolKept, toolNumber, toolDeletes, toolTogether, toolRan>>
    BY DEF Python!TryPip, Python!ReadRequirements, Python!Record, Python!snippets
<1>2. \A d \in Scripts : d \in Python!Calls /\ d # c
    BY CallsAssumption DEF Python!Calls
<1>3. \A d \in Scripts : toolPc'[d] = toolPc[d]
    BY <1>2 DEF Python!TryPip, Python!ReadRequirements, Python!Record, PythonInv
<1>4. ASSUME toolTogether' = {}, toolDeletes' = 0 PROVE InOrder'
    <2>1. InOrder
        BY <1>1, <1>4 DEF KeptInv
    <2> QED BY <1>1, <1>3, <2>1, OrderKept
<1> QED BY <1>1, <1>3, <1>4 DEF KeptInv

LEMMA NextKept ==
    ASSUME PythonInv, KeptInv, [Python!Next]_toolVars PROVE KeptInv'
<1>1. ASSUME NEW c \in Scripts, Python!CountKept(c) PROVE KeptInv'
    BY <1>1, CountKeptKept
<1>2. ASSUME NEW c \in Scripts, Python!Keep(c) PROVE KeptInv'
    BY <1>2, KeepKept
<1>3. ASSUME NEW c \in Scripts, Python!WriteScript(c) \/ Python!Run(c) PROVE KeptInv'
    BY <1>3, RunKept
<1>4. ASSUME NEW c \in Installs, Python!TryPip(c) \/ Python!ReadRequirements(c) \/ Python!Record(c)
      PROVE  KeptInv'
    BY <1>4, InstallKept
<1>5. CASE Python!Delete
    <2>1. /\ toolKept' \in [Python!Numbers -> Scripts \cup {"none"}]
          /\ UNCHANGED <<toolNumber, toolPc, toolRan>>
        BY <1>5 DEF Python!Delete, KeptInv
    <2>2. toolDeletes' \in Nat /\ toolDeletes' # 0
        <3>1. toolDeletes' = toolDeletes + 1
            BY <1>5 DEF Python!Delete
        <3>2. toolDeletes \in Nat
            BY DEF KeptInv
        <3> QED BY <3>1, <3>2
    <2> QED BY <2>1, <2>2 DEF KeptInv
<1>6. CASE UNCHANGED toolVars
    <2>1. UNCHANGED Python!Kept
        BY <1>6 DEF toolVars, Python!Kept
    <2>2. UNCHANGED InOrder
        BY <1>6, <2>1 DEF toolVars, InOrder
    <2> QED BY <1>6, <2>2 DEF toolVars, KeptInv
<1> QED BY <1>1, <1>2, <1>3, <1>4, <1>5, <1>6 DEF Python!Next

PythonSafe == IF part = "tools" THEN PythonInv /\ KeptInv ELSE CallsAreExact

\* A call of run_python that overlaps no other returns the output of its own snippet, although
\* the script's file is shared, and keeps it under a number of its own; and the list of
\* packages never names one that no command has installed, however the calls that read and
\* rewrite it overlap (deep_agent.py: make_python_tools).
THEOREM CallsExact == ToolsSpec => []CallsAreExact
<1>1. ToolsInit => PythonSafe
    <2>1. ToolsRest => CallsAreExact
        BY DEF ToolsRest, CallsAreExact, Python!AloneIsExact, Python!AloneIsKept,
           Python!RecordedIsInstalled
    <2> QED BY <2>1, InitTools, InitKept DEF ToolsInit, PythonSafe
<1>2. PythonSafe /\ [ToolsNext]_allVars => PythonSafe'
    <2> SUFFICES ASSUME PythonSafe, [ToolsNext]_allVars PROVE PythonSafe'
        OBVIOUS
    <2>0. part' = part
        BY DEF ToolsNext, allVars
    <2>1. CASE part = "tools" /\ [Python!Next]_toolVars
        BY <2>0, <2>1, NextTools, NextKept DEF PythonSafe
    <2>2. CASE part # "tools" /\ UNCHANGED toolVars
        <3>1. UNCHANGED CallsAreExact
            BY <2>2 DEF toolVars, CallsAreExact, Python!AloneIsExact, Python!AloneIsKept,
               Python!RecordedIsInstalled
        <3> QED BY <2>0, <2>2, <3>1 DEF PythonSafe
    <2> QED BY <2>1, <2>2 DEF ToolsNext, allVars
<1>3. PythonSafe => CallsAreExact
    <2> SUFFICES ASSUME PythonInv, KeptInv PROVE CallsAreExact
        BY DEF PythonSafe
    <2>1. Python!AloneIsExact
        BY DEF PythonInv, Exact, Python!AloneIsExact
    <2>2. Python!AloneIsKept
        <3> SUFFICES ASSUME toolTogether = {}, toolDeletes = 0, NEW c \in Scripts, toolRan[c] # "none"
                     PROVE  \E n \in Python!Numbers : toolKept[n] = toolRan[c]
            BY DEF Python!AloneIsKept
        <3>1. toolPc[c] = "done" /\ InOrder
            BY DEF KeptInv
        <3>2. toolRan[c] = c
            BY <3>1 DEF PythonInv, Exact
        <3> QED BY <3>1, <3>2, KeptFinite DEF InOrder
    <2>3. Python!RecordedIsInstalled
        BY DEF PythonInv, Installed
    <2> QED BY <2>1, <2>2, <2>3 DEF CallsAreExact
<1> QED BY <1>1, <1>2, <1>3, PTL DEF ToolsSpec, allVars

-----------------------------------------------------------------------------
(* The session of a deep agent *)

\* As long as a session goes on, no count has reached its limit.
BelowLimits ==
    /\ \A f \in Session!Files : sessionWrites[f] < MaxWrites
    /\ \A k \in Session!Counted : sessionCalls[k] < MaxSame

SessionType ==
    /\ sessionPhase \in {"think", "act", "over", "returned", "failed"}
    /\ sessionWrites \in [Session!Files -> Nat] /\ sessionCalls \in [Session!Counted -> Nat]
    /\ sessionLastErr \in [Session!Files -> Session!AllTexts \cup {"none"}]
    /\ sessionPhase = "act" => sessionCall \in Session!Asked

SessionInv ==
    /\ SessionType
    /\ sessionPhase \in {"think", "act"} => BelowLimits
    /\ Session!EmptyIsRetried /\ Session!RefusalFails

\* What is asked for, with the kind of its text.
LEMMA AskedType ==
    ASSUME NEW c \in Session!Asked
    PROVE  /\ c.file \in Session!Files /\ c.tool \in {"write", "python", "read", "move"}
           /\ c.tool = "write" => c.text \in Session!Texts(c.file) \cup {"legacy"}
           /\ c.tool \in {"read", "move"} => <<c.tool, c.file>> \in Session!Counted
BY DEF Session!Asked, Session!Calls, Session!Counted

LEMMA NoneIsNoText ==
    /\ "none" \notin Session!AllTexts /\ "legacy" \notin Session!AllTexts
    /\ \A f \in Session!Files : Session!Texts(f) \subseteq Session!AllTexts
BY DEF Session!AllTexts, Session!Texts, Session!Files

LEMMA InitSession == Session!Init => SessionInv
<1> SUFFICES ASSUME Session!Init PROVE SessionInv
    OBVIOUS
<1>1. SessionType
    BY DEF Session!Init, SessionType
<1>2. BelowLimits
    BY SessionAssumption DEF Session!Init, BelowLimits
<1> QED BY <1>1, <1>2 DEF Session!Init, SessionInv, Session!EmptyIsRetried, Session!RefusalFails

\* The message is counted before its call is made, and a count that reaches its limit ends
\* the session.
LEMMA ThinkSession == ASSUME SessionInv, Session!Think PROVE SessionInv'
<1>1. PICK c \in Session!Asked :
          /\ sessionCall' = c /\ Session!Count(c)
          /\ sessionPhase' = IF Session!Spins(c) THEN "over" ELSE "act"
    BY DEF Session!Think
<1>2. /\ sessionPhase = "think" /\ sessionSaid' = TRUE
      /\ UNCHANGED <<sessionLastErr, sessionAttempt, sessionRefused>>
    BY DEF Session!Think, Session!files
<1>3. BelowLimits /\ SessionType
    BY <1>2 DEF SessionInv
<1>4. c.file \in Session!Files /\ (c.tool \in {"read", "move"} => <<c.tool, c.file>> \in Session!Counted)
      /\ c.tool \in {"write", "python", "read", "move"}
    BY AskedType
<1>5. /\ sessionWrites' = IF c.tool = "write"
                          THEN [sessionWrites EXCEPT ![c.file] = sessionWrites[c.file] + 1]
                          ELSE sessionWrites
      /\ sessionCalls' = IF c.tool \in {"write", "python"} THEN [k \in Session!Counted |-> 0]
             ELSE [sessionCalls EXCEPT ![<<c.tool, c.file>>] = sessionCalls[<<c.tool, c.file>>] + 1]
    BY <1>1 DEF Session!Count
<1>6. sessionWrites' \in [Session!Files -> Nat] /\ sessionCalls' \in [Session!Counted -> Nat]
    <2>1. sessionWrites \in [Session!Files -> Nat] /\ sessionCalls \in [Session!Counted -> Nat]
        BY <1>3 DEF SessionType
    <2>2. sessionWrites[c.file] + 1 \in Nat
        BY <1>4, <2>1
    <2>3. c.tool \in {"read", "move"} => sessionCalls[<<c.tool, c.file>>] + 1 \in Nat
        BY <1>4, <2>1
    <2> QED BY <1>4, <1>5, <2>1, <2>2, <2>3
<1>7. SessionType'
    BY <1>1, <1>2, <1>3, <1>6 DEF SessionType
<1>8. ASSUME sessionPhase' = "act" PROVE BelowLimits'
    <2>1. ~Session!Spins(c)
        BY <1>1, <1>8
    <2>2. \A f \in Session!Files : sessionWrites'[f] < MaxWrites
        <3> SUFFICES ASSUME NEW f \in Session!Files PROVE sessionWrites'[f] < MaxWrites
            OBVIOUS
        <3>1. CASE c.tool = "write" /\ f = c.file
            <4>1. ~(sessionWrites'[f] >= MaxWrites)
                BY <2>1, <3>1 DEF Session!Spins
            <4>2. sessionWrites'[f] \in Nat /\ MaxWrites \in Nat
                BY <1>6, SessionAssumption
            <4> QED BY <4>1, <4>2
        <3>2. CASE ~(c.tool = "write" /\ f = c.file)
            <4>1. sessionWrites'[f] = sessionWrites[f]
                BY <1>3, <1>4, <1>5, <3>2 DEF SessionType
            <4> QED BY <1>3, <4>1 DEF BelowLimits
        <3> QED BY <3>1, <3>2
    <2>3. \A k \in Session!Counted : sessionCalls'[k] < MaxSame
        <3> SUFFICES ASSUME NEW k \in Session!Counted PROVE sessionCalls'[k] < MaxSame
            OBVIOUS
        <3>1. CASE c.tool \in {"write", "python"}
            BY <1>5, <3>1, SessionAssumption
        <3>2. CASE c.tool \in {"read", "move"} /\ k = <<c.tool, c.file>>
            <4>1. ~(sessionCalls'[k] >= MaxSame)
                BY <2>1, <3>2 DEF Session!Spins
            <4>2. sessionCalls'[k] \in Nat /\ MaxSame \in Nat
                BY <1>6, SessionAssumption
            <4> QED BY <4>1, <4>2
        <3>3. CASE c.tool \in {"read", "move"} /\ k # <<c.tool, c.file>>
            <4>1. sessionCalls'[k] = sessionCalls[k]
                BY <1>3, <1>4, <1>5, <3>3 DEF SessionType
            <4> QED BY <1>3, <4>1 DEF BelowLimits
        <3> QED BY <1>4, <3>1, <3>2, <3>3
    <2> QED BY <2>2, <2>3 DEF BelowLimits
<1>9. sessionPhase' \in {"act", "over"}
    BY <1>1
<1>10. ~sessionRefused'
    BY <1>2 DEF SessionInv, Session!RefusalFails
<1> QED BY <1>7, <1>8, <1>9, <1>10 DEF SessionInv, Session!EmptyIsRetried, Session!RefusalFails

\* What a write does to the error that is remembered of its file.
LEMMA WriteErrors ==
    ASSUME SessionType, NEW f \in Session!Files, NEW t \in Session!Texts(f), Session!Write(f, t)
    PROVE  \/ /\ UNCHANGED sessionLesson
              /\ \/ sessionLastErr' = [sessionLastErr EXCEPT ![f] = t]
                 \/ UNCHANGED sessionLastErr
           \/ /\ Session!Verdict(f, t) = "clean"
              /\ sessionLastErr' = [sessionLastErr EXCEPT ![f] = "none"]
              /\ sessionLastErr[f] = "none" => UNCHANGED sessionLesson
<1>1. Session!Verdict(f, t) \in {"error", "contract", "clean"}
    BY DEF Session!Verdict
<1>2. CASE Session!Verdict(f, t) = "error"
    BY <1>2 DEF Session!Write
<1>3. CASE Session!Verdict(f, t) = "contract"
    BY <1>3 DEF Session!Write
<1>4. CASE Session!Verdict(f, t) = "clean"
    BY <1>4 DEF Session!Write
<1> QED BY <1>1, <1>2, <1>3, <1>4

LEMMA ActSession == ASSUME SessionInv, Session!Act PROVE SessionInv'
<1>1. /\ sessionPhase = "act" /\ sessionPhase' = "think"
      /\ UNCHANGED <<sessionWrites, sessionCalls, sessionSaid, sessionAttempt, sessionRefused>>
    BY DEF Session!Act, Session!counts
<1>2. SessionType /\ sessionCall \in Session!Asked /\ BelowLimits
    BY <1>1 DEF SessionInv, SessionType
<1>3. sessionLastErr' \in [Session!Files -> Session!AllTexts \cup {"none"}]
    <2>0. sessionLastErr \in [Session!Files -> Session!AllTexts \cup {"none"}]
        BY <1>2 DEF SessionType
    <2>1. CASE sessionCall.tool = "write" /\ sessionCall.text # "legacy"
        <3>1. /\ Session!Write(sessionCall.file, sessionCall.text)
              /\ sessionCall.file \in Session!Files /\ sessionCall.text \in Session!Texts(sessionCall.file)
            BY <1>2, <2>1, AskedType DEF Session!Act
        <3>2. sessionCall.text \in Session!AllTexts
            BY <3>1, NoneIsNoText
        <3> QED BY <1>2, <2>0, <3>1, <3>2, WriteErrors
    <2>2. CASE ~(sessionCall.tool = "write" /\ sessionCall.text # "legacy")
        BY <2>0, <2>2 DEF Session!Act, Session!Replace, Session!files
    <2> QED BY <2>1, <2>2
<1> QED BY <1>1, <1>2, <1>3
        DEF SessionInv, SessionType, BelowLimits, Session!EmptyIsRetried, Session!RefusalFails

LEMMA NextIsSession == ASSUME SessionInv, [Session!Next]_sessionVars PROVE SessionInv'
<1> USE DEF Session!EmptyIsRetried, Session!RefusalFails
<1>1. CASE Session!Think
    BY <1>1, ThinkSession
<1>2. CASE Session!Act
    BY <1>2, ActSession
<1>3. CASE Session!Conclude \/ Session!Breaks \/ Session!Refuses
    <2>1. /\ UNCHANGED <<sessionWrites, sessionCalls, sessionLastErr, sessionAttempt>>
          /\ sessionPhase \in {"think", "act"} /\ sessionPhase' \in {"over", "failed"}
          /\ sessionRefused' => sessionRefused \/ sessionPhase' = "failed"
        BY <1>3 DEF Session!Conclude, Session!Breaks, Session!Refuses, Session!files, Session!counts
    <2> QED BY <2>1 DEF SessionInv, SessionType
<1>4. CASE Session!NextSession
    <2>1. /\ sessionPhase = "over" /\ sessionPhase' \in {"returned", "think"}
          /\ sessionWrites' = [f \in Session!Files |-> 0] /\ sessionCalls' = [k \in Session!Counted |-> 0]
          /\ UNCHANGED <<sessionLastErr, sessionSaid, sessionRefused>>
          /\ sessionPhase' = "returned" =>
                 (sessionSaid \/ sessionAttempt = Attempts) /\ UNCHANGED sessionAttempt
        BY <1>4 DEF Session!NextSession, Session!files
    <2>2. BelowLimits'
        BY <2>1, SessionAssumption DEF BelowLimits
    <2> QED BY <2>1, <2>2 DEF SessionInv, SessionType
<1>5. CASE UNCHANGED sessionVars
    BY <1>5 DEF sessionVars, SessionInv, SessionType, BelowLimits
<1> QED BY <1>1, <1>2, <1>3, <1>4, <1>5 DEF Session!Next

SessionSafe == IF part = "session" THEN SessionInv ELSE SessionIsGuarded

LEMMA SessionStep ==
    ASSUME SessionSafe, [ToolsNext]_allVars
    PROVE  /\ SessionSafe' /\ part' = part
           /\ part = "session" => [Session!Next]_sessionVars
           /\ part # "session" => UNCHANGED sessionVars
<1>0. part' = part
    BY DEF ToolsNext, allVars
<1>1. CASE part = "session" /\ [Session!Next]_sessionVars
    BY <1>0, <1>1, NextIsSession DEF SessionSafe
<1>2. CASE part # "session" /\ UNCHANGED sessionVars
    BY <1>0, <1>2 DEF SessionSafe, sessionVars, SessionIsGuarded, Session!SpinIsCut,
       Session!EmptyIsRetried, Session!RefusalFails
<1> QED BY <1>1, <1>2 DEF ToolsNext, allVars

THEOREM SessionCorrect == ToolsSpec => []SessionSafe
<1>1. ToolsInit => SessionSafe
    BY InitSession DEF ToolsInit, SessionRests, SessionSafe, SessionIsGuarded, Session!SpinIsCut,
       Session!EmptyIsRetried, Session!RefusalFails
<1> QED BY <1>1, SessionStep, PTL DEF ToolsSpec, allVars

\* A session of a deep agent that repeats a call or rewrites a path is over before the call
\* that reaches the limit is made, one that said nothing is the result only after every
\* attempt, and one the provider refused fails its stage (deep_agent.py: the loop guards;
\* stage_handlers.py: _run_deep), whatever the limits and however long the session.
THEOREM SessionGuarded == ToolsSpec => []SessionIsGuarded
<1>1. SessionSafe => SessionIsGuarded
    BY DEF SessionSafe, SessionInv, BelowLimits, SessionIsGuarded, Session!SpinIsCut
<1> QED BY <1>1, SessionCorrect, PTL

\* A step that stores another lesson, or takes off the error of a testbench.
LEMMA LessonStep ==
    ASSUME SessionInv, [Session!Next]_sessionVars
    PROVE  /\ sessionLesson' # sessionLesson =>
                \E f \in Session!Files : sessionLastErr[f] # "none" /\ sessionLastErr'[f] = "none"
           /\ sessionCompiler /\ sessionLastErr["tb"] # "none" /\ sessionLastErr'["tb"] = "none"
                => sessionDisk["dut"] # "broken"
<1>0. SessionType
    BY DEF SessionInv
<1>1. CASE Session!Act /\ sessionCall.tool = "write" /\ sessionCall.text # "legacy"
    <2> DEFINE f == sessionCall.file
               t == sessionCall.text
    <2>1. sessionCall \in Session!Asked /\ Session!Write(f, t)
        BY <1>0, <1>1 DEF Session!Act, SessionType
    <2>2. f \in Session!Files /\ t \in Session!Texts(f) /\ t # "none"
        BY <1>1, <2>1, AskedType, NoneIsNoText
    <2>3. sessionLastErr \in [Session!Files -> Session!AllTexts \cup {"none"}]
        BY <1>0 DEF SessionType
    <2> HIDE DEF f, t
    <2>4. CASE /\ UNCHANGED sessionLesson
               /\ \/ sessionLastErr' = [sessionLastErr EXCEPT ![f] = t]
                  \/ UNCHANGED sessionLastErr
        <3>1. sessionLastErr'["tb"] = sessionLastErr["tb"] \/ sessionLastErr'["tb"] # "none"
            BY <2>2, <2>3, <2>4 DEF Session!Files
        <3> QED BY <2>4, <3>1
    <2>5. CASE /\ Session!Verdict(f, t) = "clean"
               /\ sessionLastErr' = [sessionLastErr EXCEPT ![f] = "none"]
               /\ sessionLastErr[f] = "none" => UNCHANGED sessionLesson
        <3>1. sessionLesson' # sessionLesson => sessionLastErr[f] # "none" /\ sessionLastErr'[f] = "none"
            BY <2>2, <2>3, <2>5
        <3>2. sessionLastErr["tb"] # "none" /\ sessionLastErr'["tb"] = "none" => f = "tb"
            BY <2>2, <2>3, <2>5 DEF Session!Files
        <3>3. f = "tb" => Session!CheckTb(t)
            BY <2>5 DEF Session!Verdict
        <3>4. f = "tb" /\ sessionCompiler => sessionDisk["dut"] # "broken"
            BY <3>3 DEF Session!CheckTb
        <3> QED BY <2>2, <3>1, <3>2, <3>4
    <2> QED BY <1>0, <2>1, <2>2, <2>4, <2>5, WriteErrors
<1>2. CASE Session!Act /\ ~(sessionCall.tool = "write" /\ sessionCall.text # "legacy")
    BY <1>2 DEF Session!Act, Session!Replace, Session!files
<1>3. CASE \/ Session!Think \/ Session!Conclude \/ Session!Breaks \/ Session!Refuses
           \/ Session!NextSession
    BY <1>3 DEF Session!Think, Session!Conclude, Session!Breaks, Session!Refuses,
       Session!NextSession, Session!files
<1>4. CASE UNCHANGED sessionVars
    BY <1>4 DEF sessionVars
<1> QED BY <1>1, <1>2, <1>3, <1>4 DEF Session!Next

\* A lesson is made by a clean write of a file whose last write was in error, and the error of
\* a testbench is not forgotten while the design it binds to is broken (write_file_disk).
THEOREM LessonsEarned == ToolsSpec => LessonsAreEarned
<1>1. SessionSafe /\ [ToolsNext]_allVars
        => [sessionLesson' # sessionLesson =>
              \E f \in Session!Files : sessionLastErr[f] # "none" /\ sessionLastErr'[f] = "none"]_(Session!vars)
    BY SessionStep, LessonStep DEF SessionSafe, sessionVars, Session!vars
<1>2. SessionSafe /\ [ToolsNext]_allVars
        => [sessionCompiler /\ sessionLastErr["tb"] # "none" /\ sessionLastErr'["tb"] = "none"
              => sessionDisk["dut"] # "broken"]_(Session!vars)
    BY SessionStep, LessonStep DEF SessionSafe, sessionVars, Session!vars
<1> QED BY <1>1, <1>2, SessionCorrect, PTL
        DEF ToolsSpec, allVars, LessonsAreEarned, Session!LessonsAreEarned, Session!BenchIsBound

-----------------------------------------------------------------------------
(* The end of a session *)

SessionGoesOn == sessionPhase \in {"think", "act", "over"}

\* What is left of the present attempt: a message and its call for every turn, and the end.
TurnsLeft ==
    IF sessionPhase = "act" THEN 2 * (MaxTurns - sessionTurns) + 3
    ELSE IF sessionPhase = "think" THEN 2 * (MaxTurns - sessionTurns) + 2
    ELSE IF sessionPhase = "over" THEN 1 ELSE 0

SessionBounds ==
    /\ sessionTurns \in 0 .. MaxTurns /\ sessionAttempt \in 1 .. Attempts
    /\ sessionPhase \in {"think", "act", "over", "returned", "failed"}

LEMMA SessionSpends ==
    ASSUME SessionBounds, Session!Next
    PROVE  /\ SessionBounds'
           /\ SessionGoesOn
           /\ \/ sessionAttempt' = sessionAttempt + 1
              \/ sessionAttempt' = sessionAttempt /\ TurnsLeft' < TurnsLeft
<1>0. /\ MaxTurns \in Nat /\ Attempts \in Nat /\ sessionTurns \in Nat /\ sessionAttempt \in Nat
      /\ sessionTurns <= MaxTurns /\ 1 <= sessionAttempt /\ sessionAttempt <= Attempts
      /\ 0 < Attempts
    BY SessionAssumption DEF SessionBounds
<1> USE DEF SessionBounds, SessionGoesOn, TurnsLeft
<1>1. CASE Session!Think
    <2>1. /\ sessionPhase = "think" /\ sessionPhase' \in {"act", "over"}
          /\ sessionTurns < MaxTurns /\ sessionTurns' = sessionTurns + 1
          /\ sessionAttempt' = sessionAttempt
        BY <1>1 DEF Session!Think
    <2> QED BY <1>0, <2>1
<1>2. CASE Session!Act
    <2>1. /\ sessionPhase = "act" /\ sessionPhase' = "think"
          /\ sessionTurns' = sessionTurns /\ sessionAttempt' = sessionAttempt
        BY <1>2 DEF Session!Act
    <2> QED BY <1>0, <2>1
<1>3. CASE Session!Conclude \/ Session!Breaks \/ Session!Refuses
    <2>1. /\ sessionPhase \in {"think", "act"} /\ sessionPhase' \in {"over", "failed"}
          /\ sessionTurns' = sessionTurns /\ sessionAttempt' = sessionAttempt
        BY <1>3 DEF Session!Conclude, Session!Breaks, Session!Refuses
    <2> QED BY <1>0, <2>1
<1>4. CASE Session!NextSession
    <2>1. /\ sessionPhase = "over" /\ sessionTurns' = 0
          /\ \/ sessionPhase' = "returned" /\ sessionAttempt' = sessionAttempt
             \/ /\ sessionPhase' = "think" /\ sessionAttempt # Attempts
                /\ sessionAttempt' = sessionAttempt + 1
        BY <1>4 DEF Session!NextSession
    <2>2. CASE sessionPhase' = "returned"
        BY <1>0, <2>1, <2>2
    <2>3. CASE sessionPhase' = "think"
        BY <1>0, <2>1, <2>3
    <2> QED BY <2>1, <2>2, <2>3
<1> QED BY <1>1, <1>2, <1>3, <1>4 DEF Session!Next

\* A session of a deep agent is bounded, whatever the model says (deep_agent.py: recursion_limit;
\* stage_handlers.py: _run_deep): each of its steps spends what is left of the present attempt
\* or begins the next one, no attempt is beyond the last, and nothing follows its result.
THEOREM SessionIsBounded ==
    ToolsSpec =>
        /\ [](part = "session" => TurnsLeft \in Nat /\ sessionAttempt \in 1 .. Attempts)
        /\ [][part = "session" =>
                /\ SessionGoesOn
                /\ \/ sessionAttempt' = sessionAttempt + 1
                   \/ sessionAttempt' = sessionAttempt /\ TurnsLeft' < TurnsLeft]_allVars
<1> DEFINE Bounded == part = "session" => SessionBounds
           Left == part = "session" => TurnsLeft \in Nat /\ sessionAttempt \in 1 .. Attempts
           Spends ==
               part = "session" =>
                   /\ SessionGoesOn
                   /\ \/ sessionAttempt' = sessionAttempt + 1
                      \/ sessionAttempt' = sessionAttempt /\ TurnsLeft' < TurnsLeft
<1>1. ToolsInit => Bounded
    <2>1. Session!Init => SessionBounds
        BY SessionAssumption DEF Session!Init, SessionBounds
    <2> QED BY <2>1 DEF ToolsInit
<1>2. Bounded /\ [ToolsNext]_allVars => Bounded' /\ [Spends]_allVars
    <2> SUFFICES ASSUME Bounded, [ToolsNext]_allVars PROVE Bounded' /\ [Spends]_allVars
        OBVIOUS
    <2>1. CASE UNCHANGED allVars
        BY <2>1 DEF allVars, sessionVars, SessionBounds
    <2>2. CASE part # "session" /\ ToolsNext
        BY <2>2 DEF ToolsNext
    <2>3. CASE part = "session" /\ ToolsNext
        <3>1. part' = part /\ Session!Next /\ SessionBounds
            BY <2>3 DEF ToolsNext
        <3> QED BY <3>1, SessionSpends
    <2> QED BY <2>1, <2>2, <2>3
<1>3. Bounded => Left
    BY SessionAssumption DEF SessionBounds, TurnsLeft
<1> HIDE DEF Bounded, Left, Spends
<1>4. ToolsSpec => []Left /\ [][Spends]_allVars
    BY <1>1, <1>2, <1>3, PTL DEF ToolsSpec, allVars
<1> QED BY <1>4 DEF Left, Spends

-----------------------------------------------------------------------------
(* Requests side by side *)

ServiceType ==
    /\ servicePick \in [Tasks -> Models \cup {"none"}]
    /\ serviceWay \in [Requests -> {"deep", "text"}]
    /\ servicePc \in [Requests -> {"idle", "apply", "talk", "delegate", "complete", "save", "report",
                                   "done", "failed"}]
    /\ serviceOverride \in Models \cup {"none"}
    /\ serviceUsed \in [Requests -> SUBSET (Models \cup {Default})]
    /\ serviceNamed \in [Requests -> Models \cup {Default, "none"}]

\* A request uses no model before its turn, and reaches it in one way only.
OneWay ==
    \A c \in Requests :
        /\ servicePc[c] \in {"idle", "apply", "talk", "complete"} => serviceUsed[c] = {}
        /\ serviceWay[c] = "text" => servicePc[c] \notin {"apply", "talk", "delegate"}
        /\ servicePc[c] = "complete" => serviceWay[c] = "text"

\* The override is the pick of a deep agent that has been alone since it set it.
OverrideIsOwn ==
    \A c \in Requests :
        servicePc[c] \in {"talk", "delegate"} /\ c \notin serviceMixed
            => serviceOverride = servicePick[TaskOf[c]]

\* Only who is answered, or about to be, has saved a memory.
SavedIsAnswered ==
    \A r \in serviceMemories : r.call \in Requests /\ servicePc[r.call] \in {"report", "done"}

ServiceInv == ServiceType /\ OneWay /\ OverrideIsOwn /\ SavedIsAnswered /\ RequestsAreApart

LEMMA OwnModel ==
    ASSUME ServiceType, NEW c \in Requests
    PROVE  /\ TaskOf[c] \in Tasks /\ Service!Own(c) \in Models \cup {Default}
           /\ Service!Current \in Models \cup {Default} /\ Service!ChatModel \in Models \cup {Default}
BY ServiceAssumption DEF ServiceType, Service!Own, Service!Current, Service!ChatModel, Service!None

LEMMA InitService == Service!Init => ServiceInv
<1> SUFFICES ASSUME Service!Init PROVE ServiceInv
    OBVIOUS
<1>1. \A c \in Requests : servicePc[c] = "idle" /\ serviceUsed[c] = {}
    BY DEF Service!Init
<1>2. ServiceType
    BY DEF Service!Init, ServiceType, Service!None
<1>3. RequestsAreApart
    BY <1>1 DEF RequestsAreApart, Service!TextUsesOwnModel, Service!AloneUsesOwnModel,
       Service!AnsweredIsRemembered, Service!OnlyTwinsCollide
<1> QED BY <1>1, <1>2, <1>3 DEF Service!Init, ServiceInv, OneWay, OverrideIsOwn, SavedIsAnswered

\* A step that moves one request on before it saves, without a model.
LEMMA MoveService ==
    ASSUME ServiceInv, NEW c \in Requests, NEW step,
           step \in {"apply", "complete", "talk", "done"},
           servicePc' = [servicePc EXCEPT ![c] = step],
           step = "done" => servicePc[c] = "report",
           step # "done" => servicePc[c] \in {"idle", "apply"},
           step \in {"apply", "talk"} => serviceWay[c] = "deep",
           step = "complete" => serviceWay[c] = "text",
           UNCHANGED <<servicePick, serviceProvider, serviceWay, serviceUsed, serviceNamed,
                       serviceMemories>>
    PROVE  /\ ServiceType' \/ serviceOverride' \notin Models \cup {"none"}
           /\ OneWay' /\ SavedIsAnswered'
           /\ Service!TextUsesOwnModel' /\ Service!AnsweredIsRemembered' /\ Service!OnlyTwinsCollide'
<1> USE DEF ServiceInv, RequestsAreApart
<1>1. servicePc \in [Requests -> {"idle", "apply", "talk", "delegate", "complete", "save", "report",
                                   "done", "failed"}]
    BY DEF ServiceType
<1>2. \A d \in Requests : servicePc'[d] = IF d = c THEN step ELSE servicePc[d]
    BY <1>1
<1>3. ServiceType' \/ serviceOverride' \notin Models \cup {"none"}
    BY <1>1 DEF ServiceType
<1>4. OneWay'
    BY <1>2 DEF OneWay
<1>5. SavedIsAnswered'
    BY <1>2 DEF SavedIsAnswered
<1>6. Service!TextUsesOwnModel'
    BY DEF Service!TextUsesOwnModel, Service!Own
<1>7. Service!AnsweredIsRemembered'
    BY <1>2 DEF Service!AnsweredIsRemembered
<1>8. Service!OnlyTwinsCollide'
    BY <1>2 DEF Service!OnlyTwinsCollide
<1> QED BY <1>3, <1>4, <1>5, <1>6, <1>7, <1>8

LEMMA LoadService == ASSUME ServiceInv, NEW c \in Requests, Service!LoadMemory(c) PROVE ServiceInv'
<1> DEFINE step == IF serviceWay[c] = "deep" THEN "apply" ELSE "complete"
<1>1. /\ servicePc[c] = "idle" /\ servicePc' = [servicePc EXCEPT ![c] = step]
      /\ UNCHANGED <<servicePick, serviceProvider, serviceWay, serviceUsed, serviceNamed,
                     serviceMemories, serviceOverride, serviceMixed>>
    BY DEF Service!LoadMemory, Service!inputs, Service!answers
<1>2. serviceWay[c] \in {"deep", "text"} /\ serviceOverride' \in Models \cup {"none"}
    BY <1>1 DEF ServiceInv, ServiceType
<1>3. /\ ServiceType' /\ OneWay' /\ SavedIsAnswered'
      /\ Service!TextUsesOwnModel' /\ Service!AnsweredIsRemembered' /\ Service!OnlyTwinsCollide'
    BY <1>1, <1>2, MoveService
<1>4. \A d \in Requests : servicePc'[d] \in {"talk", "delegate"} => servicePc[d] = servicePc'[d]
    BY <1>1 DEF ServiceInv, ServiceType
<1>5. OverrideIsOwn'
    BY <1>1, <1>4 DEF ServiceInv, OverrideIsOwn
<1>6. Service!AloneUsesOwnModel'
    BY <1>1 DEF ServiceInv, RequestsAreApart, Service!AloneUsesOwnModel, Service!Own
<1> QED BY <1>3, <1>5, <1>6 DEF ServiceInv, RequestsAreApart

\* Whoever sets the override has used no model; the others that are in the middle of their
\* session are no longer alone.
LEMMA ApplyService == ASSUME ServiceInv, NEW c \in Requests, Service!ApplyModel(c) PROVE ServiceInv'
<1>1. /\ servicePc[c] = "apply" /\ servicePc' = [servicePc EXCEPT ![c] = "talk"]
      /\ serviceOverride' = servicePick[TaskOf[c]]
      /\ serviceMixed' = (serviceMixed \ {c}) \cup {o \in Requests : servicePc[o] \in {"talk", "delegate"}}
      /\ UNCHANGED <<servicePick, serviceProvider, serviceWay, serviceUsed, serviceNamed,
                     serviceMemories>>
    BY DEF Service!ApplyModel, Service!inputs, Service!answers
<1>2. serviceWay[c] = "deep" /\ serviceUsed[c] = {}
    BY <1>1 DEF ServiceInv, OneWay, ServiceType
<1>3. serviceOverride' \in Models \cup {"none"}
    BY <1>1, OwnModel DEF ServiceInv, ServiceType
<1>4. /\ ServiceType' /\ OneWay' /\ SavedIsAnswered'
      /\ Service!TextUsesOwnModel' /\ Service!AnsweredIsRemembered' /\ Service!OnlyTwinsCollide'
    BY <1>1, <1>2, <1>3, MoveService
<1>5. \A d \in Requests : d # c /\ d \notin serviceMixed' =>
          servicePc'[d] = servicePc[d] /\ servicePc[d] \notin {"talk", "delegate"} /\ d \notin serviceMixed
    BY <1>1 DEF ServiceInv, ServiceType
<1>6. OverrideIsOwn'
    BY <1>1, <1>5 DEF OverrideIsOwn
<1>7. Service!AloneUsesOwnModel'
    BY <1>1, <1>2, <1>5 DEF ServiceInv, RequestsAreApart, Service!AloneUsesOwnModel, Service!Own
<1> QED BY <1>4, <1>6, <1>7 DEF ServiceInv, RequestsAreApart

\* A deep agent asks a model: the one of its task, when it is alone and the provider is ollama.
LEMMA AskService ==
    ASSUME ServiceInv, NEW c \in Requests, Service!Talk(c) \/ Service!Delegate(c) PROVE ServiceInv'
<1> USE DEF ServiceInv, RequestsAreApart
<1>1. /\ servicePc[c] \in {"talk", "delegate"} /\ serviceWay[c] = "deep"
      /\ UNCHANGED <<servicePick, serviceProvider, serviceWay, serviceNamed, serviceMemories,
                     serviceOverride, serviceMixed>>
    BY DEF Service!Talk, Service!Delegate, Service!inputs, OneWay, ServiceType
<1>2. PICK step \in {"delegate", "save"} : servicePc' = [servicePc EXCEPT ![c] = step]
    BY DEF Service!Talk, Service!Delegate
<1>3. PICK asked \in {{}, {Service!ChatModel}, {Service!Current}} :
          serviceUsed' = [serviceUsed EXCEPT ![c] = serviceUsed[c] \cup asked]
    BY DEF Service!Talk, Service!Delegate
<1>4. \A d \in Requests : /\ servicePc'[d] = IF d = c THEN step ELSE servicePc[d]
                          /\ serviceUsed'[d] = IF d = c THEN serviceUsed[c] \cup asked ELSE serviceUsed[d]
    BY <1>2, <1>3 DEF ServiceType
<1>5. asked \subseteq Models \cup {Default}
    BY OwnModel
<1>6. ServiceType'
    <2>1. serviceUsed[c] \cup asked \in SUBSET (Models \cup {Default})
        BY <1>5 DEF ServiceType
    <2>2. serviceUsed' \in [Requests -> SUBSET (Models \cup {Default})]
        BY <1>3, <2>1 DEF ServiceType
    <2> QED BY <1>1, <1>2, <2>2 DEF ServiceType
<1>7. OneWay' /\ OverrideIsOwn'
    BY <1>1, <1>4 DEF OneWay, OverrideIsOwn
<1>8. SavedIsAnswered'
    BY <1>1, <1>4 DEF SavedIsAnswered
<1>9. serviceProvider = "ollama" /\ c \notin serviceMixed => asked \subseteq {Service!Own(c)}
    <2> SUFFICES ASSUME serviceProvider = "ollama", c \notin serviceMixed
                 PROVE  asked \subseteq {Service!Own(c)}
        OBVIOUS
    <2>1. serviceOverride = servicePick[TaskOf[c]]
        BY <1>1 DEF OverrideIsOwn
    <2>2. Service!Current = Service!Own(c) /\ Service!ChatModel = Service!Own(c)
        BY <2>1 DEF Service!Current, Service!Own, Service!ChatModel
    <2> QED BY <2>2
<1>10. Service!AloneUsesOwnModel'
    <2> SUFFICES ASSUME serviceProvider = "ollama", NEW d \in Requests, d \notin serviceMixed,
                        serviceWay[d] = "deep"
                 PROVE  serviceUsed'[d] \subseteq {Service!Own(d)}
        BY <1>1 DEF Service!AloneUsesOwnModel, Service!Own
    <2>1. serviceUsed[d] \subseteq {Service!Own(d)}
        BY <1>1 DEF Service!AloneUsesOwnModel
    <2> QED BY <1>4, <1>9, <2>1
<1>11. Service!TextUsesOwnModel'
    BY <1>1, <1>4 DEF Service!TextUsesOwnModel, Service!Own
<1>12. Service!AnsweredIsRemembered' /\ Service!OnlyTwinsCollide'
    BY <1>1, <1>4 DEF Service!AnsweredIsRemembered, Service!OnlyTwinsCollide
<1> QED BY <1>6, <1>7, <1>8, <1>10, <1>11, <1>12

LEMMA RefuseService == ASSUME ServiceInv, NEW c \in Requests, Service!Refuse(c) PROVE ServiceInv'
<1> USE DEF ServiceInv, RequestsAreApart
<1>1. /\ servicePc[c] = "delegate" /\ servicePc' = [servicePc EXCEPT ![c] = "failed"]
      /\ serviceNamed' = [serviceNamed EXCEPT ![c] = Service!Current]
      /\ UNCHANGED <<servicePick, serviceProvider, serviceWay, serviceUsed, serviceMemories,
                     serviceOverride, serviceMixed>>
    BY DEF Service!Refuse, Service!inputs
<1>2. \A d \in Requests : /\ servicePc'[d] = IF d = c THEN "failed" ELSE servicePc[d]
                          /\ serviceNamed'[d] = IF d = c THEN Service!Current ELSE serviceNamed[d]
    BY <1>1 DEF ServiceType
<1>3. Service!Current \in Models \cup {Default} /\ Service!Current # "none"
    BY OwnModel, ServiceAssumption
<1>4. ServiceType'
    BY <1>1, <1>3 DEF ServiceType
<1>5. OneWay' /\ OverrideIsOwn' /\ SavedIsAnswered'
    BY <1>1, <1>2 DEF OneWay, OverrideIsOwn, SavedIsAnswered
<1>6. Service!TextUsesOwnModel' /\ Service!AloneUsesOwnModel'
    BY <1>1 DEF Service!TextUsesOwnModel, Service!AloneUsesOwnModel, Service!Own
<1>7. Service!AnsweredIsRemembered'
    BY <1>1, <1>2 DEF Service!AnsweredIsRemembered
<1>8. Service!OnlyTwinsCollide'
    BY <1>1, <1>2, <1>3 DEF Service!OnlyTwinsCollide, Service!None
<1> QED BY <1>4, <1>5, <1>6, <1>7, <1>8

LEMMA CompleteService == ASSUME ServiceInv, NEW c \in Requests, Service!Complete(c) PROVE ServiceInv'
<1> USE DEF ServiceInv, RequestsAreApart
<1>1. /\ servicePc[c] = "complete" /\ servicePc' = [servicePc EXCEPT ![c] = "save"]
      /\ serviceUsed' = [serviceUsed EXCEPT ![c] = serviceUsed[c] \cup {Service!RuntimeModel(c)}]
      /\ UNCHANGED <<servicePick, serviceProvider, serviceWay, serviceNamed, serviceMemories,
                     serviceOverride, serviceMixed>>
    BY DEF Service!Complete, Service!inputs
<1>2. serviceWay[c] = "text" /\ serviceUsed[c] = {}
    BY <1>1 DEF OneWay
<1>3. \A d \in Requests : /\ servicePc'[d] = IF d = c THEN "save" ELSE servicePc[d]
                          /\ serviceUsed'[d] = IF d = c THEN {Service!RuntimeModel(c)} ELSE serviceUsed[d]
    BY <1>1, <1>2 DEF ServiceType
<1>4. ServiceType'
    <2>1. {Service!RuntimeModel(c)} \in SUBSET (Models \cup {Default})
        BY OwnModel DEF ServiceType, Service!RuntimeModel, Service!None
    <2>2. serviceUsed' \in [Requests -> SUBSET (Models \cup {Default})]
        BY <1>1, <1>2, <2>1 DEF ServiceType
    <2> QED BY <1>1, <2>2 DEF ServiceType
<1>5. OneWay' /\ OverrideIsOwn' /\ SavedIsAnswered'
    BY <1>1, <1>3 DEF OneWay, OverrideIsOwn, SavedIsAnswered
<1>6. servicePick[TaskOf[c]] # "none" \/ serviceProvider # "ollama"
          => Service!RuntimeModel(c) = Service!Own(c)
    BY DEF Service!RuntimeModel, Service!Own, Service!ChatModel, Service!None
<1>8. Service!TextUsesOwnModel' /\ Service!AloneUsesOwnModel'
    BY <1>1, <1>2, <1>3, <1>6
    DEF Service!TextUsesOwnModel, Service!AloneUsesOwnModel, Service!Own, Service!None
<1>7. Service!AnsweredIsRemembered' /\ Service!OnlyTwinsCollide'
    BY <1>1, <1>3 DEF Service!AnsweredIsRemembered, Service!OnlyTwinsCollide
<1> QED BY <1>4, <1>5, <1>7, <1>8

LEMMA SaveService == ASSUME ServiceInv, NEW c \in Requests, Service!SaveMemory(c) PROVE ServiceInv'
<1> USE DEF ServiceInv, RequestsAreApart
<1> DEFINE twin == \E r \in serviceMemories : Service!SameId(r, c)
           row == [call |-> c, task |-> TaskOf[c], second |-> serviceClock]
<1>1. /\ servicePc[c] = "save"
      /\ UNCHANGED <<servicePick, serviceProvider, serviceWay, serviceUsed, serviceNamed,
                     serviceOverride, serviceMixed>>
    BY DEF Service!SaveMemory, Service!inputs, Service!answers
<1>2. IF twin THEN servicePc' = [servicePc EXCEPT ![c] = "failed"] /\ UNCHANGED serviceMemories
      ELSE /\ serviceMemories' = serviceMemories \cup {row}
           /\ servicePc' = [servicePc EXCEPT ![c] = "report"]
    BY DEF Service!SaveMemory
<1>3. \A d \in Requests : d # c => servicePc'[d] = servicePc[d]
    BY <1>2 DEF ServiceType
<1>4. servicePc'[c] = IF twin THEN "failed" ELSE "report"
    BY <1>2 DEF ServiceType
<1>5. ServiceType'
    BY <1>1, <1>2 DEF ServiceType
<1>6. OneWay' /\ OverrideIsOwn'
    BY <1>1, <1>3, <1>4 DEF OneWay, OverrideIsOwn
<1>7. SavedIsAnswered'
    <2>1. \A r \in serviceMemories : r.call # c /\ servicePc'[r.call] = servicePc[r.call]
        BY <1>1, <1>3 DEF SavedIsAnswered
    <2>2. row.call = c
        OBVIOUS
    <2> QED BY <1>2, <1>4, <2>1, <2>2 DEF SavedIsAnswered
<1>8. Service!TextUsesOwnModel' /\ Service!AloneUsesOwnModel'
    BY <1>1 DEF Service!TextUsesOwnModel, Service!AloneUsesOwnModel, Service!Own
<1>9. Service!AnsweredIsRemembered'
    <2>1. ~twin => row \in serviceMemories'
        BY <1>2
    <2>2. serviceMemories \subseteq serviceMemories' /\ row.call = c
        BY <1>2
    <2> HIDE DEF twin, row
    <2> QED BY <1>3, <1>4, <2>1, <2>2 DEF Service!AnsweredIsRemembered
<1>10. Service!OnlyTwinsCollide'
    <2>1. twin => \E r \in serviceMemories' : r.task = TaskOf[c] /\ r.call # c
        BY <1>1, <1>2 DEF SavedIsAnswered, Service!SameId
    <2>2. serviceMemories \subseteq serviceMemories'
        BY <1>2
    <2> HIDE DEF twin
    <2> QED BY <1>1, <1>3, <1>4, <2>1, <2>2 DEF Service!OnlyTwinsCollide
<1> QED BY <1>5, <1>6, <1>7, <1>8, <1>9, <1>10

LEMMA ReportService == ASSUME ServiceInv, NEW c \in Requests, Service!Report(c) PROVE ServiceInv'
<1>1. /\ servicePc[c] = "report" /\ servicePc' = [servicePc EXCEPT ![c] = "done"]
      /\ UNCHANGED <<servicePick, serviceProvider, serviceWay, serviceUsed, serviceNamed,
                     serviceMemories, serviceOverride, serviceMixed>>
    BY DEF Service!Report, Service!inputs, Service!answers
<1>2. serviceOverride' \in Models \cup {"none"}
    BY <1>1 DEF ServiceInv, ServiceType
<1>3. /\ ServiceType' /\ OneWay' /\ SavedIsAnswered'
      /\ Service!TextUsesOwnModel' /\ Service!AnsweredIsRemembered' /\ Service!OnlyTwinsCollide'
    BY <1>1, <1>2, MoveService
<1>4. \A d \in Requests : servicePc'[d] \in {"talk", "delegate"} => servicePc[d] = servicePc'[d]
    BY <1>1 DEF ServiceInv, ServiceType
<1>5. OverrideIsOwn'
    BY <1>1, <1>4 DEF ServiceInv, OverrideIsOwn
<1>6. Service!AloneUsesOwnModel'
    BY <1>1 DEF ServiceInv, RequestsAreApart, Service!AloneUsesOwnModel, Service!Own
<1> QED BY <1>3, <1>5, <1>6 DEF ServiceInv, RequestsAreApart

LEMMA IdleService ==
    ASSUME ServiceInv,
           UNCHANGED <<serviceProvider, servicePick, serviceWay, servicePc, serviceOverride, serviceUsed,
                       serviceNamed, serviceMemories, serviceMixed>>
    PROVE  ServiceInv'
BY DEF ServiceInv, ServiceType, OneWay, OverrideIsOwn, SavedIsAnswered, RequestsAreApart,
       Service!TextUsesOwnModel, Service!AloneUsesOwnModel, Service!AnsweredIsRemembered,
       Service!OnlyTwinsCollide, Service!Own

LEMMA NextService == ASSUME ServiceInv, [Service!Next]_serviceVars PROVE ServiceInv'
<1>1. CASE Service!Tick
    BY <1>1, IdleService DEF Service!Tick, Service!inputs, Service!answers
<1>2. ASSUME NEW c \in Requests, Service!Step(c) PROVE ServiceInv'
    BY <1>2, LoadService, ApplyService, AskService, RefuseService, CompleteService, SaveService,
       ReportService DEF Service!Step
<1>3. CASE UNCHANGED serviceVars
    BY <1>3, IdleService DEF serviceVars
<1> QED BY <1>1, <1>2, <1>3 DEF Service!Next

ServiceSafe == IF part = "requests" THEN ServiceInv ELSE RequestsAreApart

\* Requests side by side do not mix: a completion of a task with a pick (of every task, where
\* the provider is not ollama), or a deep agent that runs alone, uses the model of its own
\* task; whoever is answered has left a memory, and one is refused only when its own task
\* saved one (llm.py: build_llm_runtime; stage_handlers.py: _apply_model; memory/store.py),
\* for every number of requests, tasks, models and seconds.
THEOREM RequestsApart == ToolsSpec => []RequestsAreApart
<1> USE DEF Service!TextUsesOwnModel, Service!AloneUsesOwnModel, Service!AnsweredIsRemembered,
            Service!OnlyTwinsCollide
<1>1. ToolsInit => ServiceSafe
    <2>1. ServiceRests => RequestsAreApart
        BY ServiceAssumption DEF ServiceRests, RequestsAreApart, Service!None
    <2> QED BY <2>1, InitService DEF ToolsInit, ServiceSafe
<1>2. ServiceSafe /\ [ToolsNext]_allVars => ServiceSafe'
    <2> SUFFICES ASSUME ServiceSafe, [ToolsNext]_allVars PROVE ServiceSafe'
        OBVIOUS
    <2>0. part' = part
        BY DEF ToolsNext, allVars
    <2>1. CASE part = "requests" /\ [Service!Next]_serviceVars
        BY <2>0, <2>1, NextService DEF ServiceSafe
    <2>2. CASE part # "requests" /\ UNCHANGED serviceVars
        <3>1. UNCHANGED RequestsAreApart
            BY <2>2 DEF serviceVars, RequestsAreApart, Service!Own
        <3> QED BY <2>0, <2>2, <3>1 DEF ServiceSafe
    <2> QED BY <2>1, <2>2 DEF ToolsNext, allVars
<1>3. ServiceSafe => RequestsAreApart
    BY DEF ServiceSafe, ServiceInv
<1> QED BY <1>1, <1>2, <1>3, PTL DEF ToolsSpec, allVars

-----------------------------------------------------------------------------
(* The uploads *)

\* There are no tries left without one only where the probe may find no model that can see.
LeftKept ==
    /\ uploadCurrent \in BOOLEAN /\ uploadLeft \in Nat
    /\ uploadLeft = 0 => FALSE \in Upload!Probes

UploadInv ==
    /\ uploadBrief \in Upload!Roles /\ uploadTodo \subseteq uploadPresent
    /\ uploadDraft \in [Images -> Upload!Entry \cup {Upload!NoEntry}]
    /\ uploadDigest \in [Images -> Upload!Entry \cup {Upload!NoEntry}]
    /\ uploadManifest \in [Images -> Upload!Roles \cup {Upload!None}]
    /\ uploadPhase = "read" => uploadDigest = Upload!NoDigest
    /\ uploadPhase = "manifest" => uploadDigest = uploadDraft
    /\ Upload!RolesAreDigested
    /\ LeftKept

LEMMA EmptyUploads ==
    /\ Upload!NoDigest \in [Images -> Upload!Entry \cup {Upload!NoEntry}]
    /\ Upload!NoRoles \in [Images -> Upload!Roles \cup {Upload!None}]
    /\ \A i \in Images : Upload!NoDigest[i].role = Upload!None /\ Upload!NoRoles[i] = Upload!None
BY DEF Upload!NoDigest, Upload!NoRoles, Upload!NoEntry

\* Without a digest there is no manifest.
LEMMA NoManifest ==
    ASSUME UploadInv, uploadDigest = Upload!NoDigest PROVE uploadManifest = Upload!NoRoles
<1> SUFFICES ASSUME uploadManifest # Upload!NoRoles PROVE FALSE
    OBVIOUS
<1>1. \A i \in Images : uploadManifest[i] = Upload!None
    BY EmptyUploads DEF UploadInv, Upload!RolesAreDigested
<1>2. uploadManifest = [i \in Images |-> Upload!None]
    BY <1>1 DEF UploadInv
<1> QED BY <1>2 DEF Upload!NoRoles

\* A picture in the draft gets its reading.
LEMMA EntryType ==
    ASSUME UploadInv, NEW i \in Images, uploadDraft[i] # Upload!NoEntry, NEW read \in BOOLEAN
    PROVE  /\ [uploadDraft EXCEPT ![i].read = read] \in [Images -> Upload!Entry \cup {Upload!NoEntry}]
           /\ [uploadDraft EXCEPT ![i].read = read][i].read = read
<1>1. uploadDraft[i] \in Upload!Entry /\ uploadDraft \in [Images -> Upload!Entry \cup {Upload!NoEntry}]
    BY DEF UploadInv
<1>2. [uploadDraft[i] EXCEPT !.read = read] \in Upload!Entry /\ [uploadDraft[i] EXCEPT !.read = read].read = read
    BY <1>1 DEF Upload!Entry
<1> QED BY <1>1, <1>2

LEMMA InitUploads == Upload!Init => UploadInv
BY UploadAssumption, EmptyUploads DEF Upload!Init, UploadInv, LeftKept, Upload!RolesAreDigested

LEMMA LeftStays ==
    ASSUME LeftKept, UNCHANGED <<uploadOllama, uploadCurrent>>,
           \/ uploadLeft' \in {uploadLeft, VisionTries}
           \/ uploadLeft > 1 /\ uploadLeft' = uploadLeft - 1
           \/ uploadLeft' = 0 /\ FALSE \in Upload!Probes
    PROVE  LeftKept'
<1>1. uploadLeft \in Nat /\ (uploadLeft = 0 => FALSE \in Upload!Probes)
    BY DEF LeftKept
<1>2. UNCHANGED Upload!Probes
    BY DEF Upload!Probes
<1>3. VisionTries \in Nat /\ VisionTries # 0
    BY UploadAssumption
<1>4. uploadLeft \in Nat /\ uploadLeft > 1 /\ uploadLeft' = uploadLeft - 1
          => uploadLeft' \in Nat /\ uploadLeft' # 0
    OBVIOUS
<1>5. CASE uploadLeft' \in {uploadLeft, VisionTries}
    BY <1>1, <1>2, <1>3, <1>5 DEF LeftKept
<1>6. CASE uploadLeft' = 0 /\ FALSE \in Upload!Probes
    BY <1>2, <1>6 DEF LeftKept
<1>7. CASE uploadLeft > 1 /\ uploadLeft' = uploadLeft - 1
    BY <1>1, <1>2, <1>4, <1>7 DEF LeftKept
<1> QED BY <1>5, <1>6, <1>7

\* A step on the files beside the digest and the manifest.
LEMMA BesideDigest ==
    ASSUME UploadInv, UNCHANGED <<uploadBrief, uploadDigest, uploadManifest>>,
           uploadTodo' \subseteq uploadPresent',
           uploadDraft' \in [Images -> Upload!Entry \cup {Upload!NoEntry}],
           uploadPhase' = "read" => uploadDigest = Upload!NoDigest,
           uploadPhase' = "manifest" => uploadDigest = uploadDraft',
           UNCHANGED <<uploadOllama, uploadCurrent>>,
           \/ uploadLeft' \in {uploadLeft, VisionTries}
           \/ uploadLeft > 1 /\ uploadLeft' = uploadLeft - 1
           \/ uploadLeft' = 0 /\ FALSE \in Upload!Probes
    PROVE  UploadInv'
<1>1. LeftKept'
    BY LeftStays DEF UploadInv
<1> QED BY <1>1 DEF UploadInv, Upload!RolesAreDigested

LEMMA DescribeUpload ==
    ASSUME UploadInv, NEW i \in Images, Upload!Describe(i)
    PROVE  /\ UploadInv' /\ UNCHANGED uploadDigest
           /\ uploadTodo' \in {uploadTodo, uploadTodo \ {i}}
           /\ uploadTodo' # uploadTodo /\ ~uploadDraft'[i].read
                => uploadLeft = 1 \/ (uploadLeft = 0 /\ FALSE \in Upload!Probes)
<1>1. /\ uploadPhase = "read" /\ uploadDraft[i] # Upload!NoEntry
      /\ UNCHANGED <<uploadOllama, uploadCurrent>>
      /\ UNCHANGED <<uploadPhase, uploadBrief, uploadPresent, uploadDigest, uploadManifest>>
    BY DEF Upload!Describe, Upload!inputs
<1>2. CASE /\ uploadDraft' = [uploadDraft EXCEPT ![i].read = TRUE]
           /\ uploadTodo' = uploadTodo \ {i} /\ uploadLeft' = VisionTries
    <2>1. uploadDraft' \in [Images -> Upload!Entry \cup {Upload!NoEntry}] /\ uploadDraft'[i].read
        BY <1>1, <1>2, EntryType
    <2>2. uploadTodo' \subseteq uploadPresent' /\ uploadDigest = Upload!NoDigest
        BY <1>1, <1>2 DEF UploadInv
    <2>3. UploadInv'
        BY <1>1, <1>2, <2>1, <2>2, BesideDigest
    <2> QED BY <1>1, <1>2, <2>1, <2>3
<1>3. CASE /\ uploadLeft > 1 /\ uploadLeft' = uploadLeft - 1
           /\ UNCHANGED <<uploadDraft, uploadTodo>>
    <2>1. UploadInv'
        BY <1>1, <1>3, BesideDigest DEF UploadInv
    <2> QED BY <1>1, <1>3, <2>1
<1>4. CASE /\ uploadLeft <= 1 /\ uploadLeft' = VisionTries
           /\ uploadTodo' = uploadTodo \ {i} /\ UNCHANGED uploadDraft
    <2>1. uploadTodo' \subseteq uploadPresent'
        BY <1>1, <1>4 DEF UploadInv
    <2>2. UploadInv'
        BY <1>1, <1>4, <2>1, BesideDigest DEF UploadInv
    <2>3. uploadLeft = 1 \/ (uploadLeft = 0 /\ FALSE \in Upload!Probes)
        <3>1. uploadLeft \in Nat /\ (uploadLeft = 0 => FALSE \in Upload!Probes)
            BY DEF UploadInv, LeftKept
        <3>2. uploadLeft \in Nat /\ uploadLeft <= 1 => uploadLeft = 1 \/ uploadLeft = 0
            OBVIOUS
        <3> QED BY <1>4, <3>1, <3>2
    <2> QED BY <1>1, <1>4, <2>2, <2>3
<1> QED BY <1>2, <1>3, <1>4 DEF Upload!Describe, Upload!Done

LEMMA ClassifyUpload ==
    ASSUME UploadInv, NEW i \in Images, Upload!Classify(i)
    PROVE  UploadInv' /\ UNCHANGED <<uploadDigest, uploadTodo>>
<1>1. /\ uploadPhase = "read"
      /\ UNCHANGED <<uploadOllama, uploadCurrent>>
      /\ UNCHANGED <<uploadPhase, uploadBrief, uploadPresent, uploadTodo, uploadDigest, uploadManifest>>
    BY DEF Upload!Classify, Upload!inputs
<1>2. PICK r \in Upload!Roles : uploadDraft' = [uploadDraft EXCEPT ![i] = [role |-> r, read |-> FALSE]]
    <2>1. \E sees \in Upload!Probes :
            \E r \in IF sees /\ Upload!ReaderSees THEN Upload!Roles ELSE {uploadBrief} :
              uploadDraft' = [uploadDraft EXCEPT ![i] = [role |-> r, read |-> FALSE]]
        BY DEF Upload!Classify
    <2> QED BY <2>1 DEF UploadInv
<1>3. uploadDraft' \in [Images -> Upload!Entry \cup {Upload!NoEntry}]
    BY <1>2 DEF UploadInv, Upload!Entry
<1>4. uploadLeft' = VisionTries \/ (uploadLeft' = 0 /\ FALSE \in Upload!Probes)
    <2>1. PICK again \in Upload!Probes : uploadLeft' = IF again THEN VisionTries ELSE 0
        BY DEF Upload!Classify
    <2>2. again \in BOOLEAN \/ again = uploadCurrent
        BY DEF Upload!Probes
    <2> QED BY <2>1, <2>2 DEF UploadInv, LeftKept
<1>5. UploadInv'
    BY <1>1, <1>3, <1>4, BesideDigest DEF UploadInv
<1> QED BY <1>1, <1>5

\* What a step does to the files of a task: the digest is written once, a picture leaves the
\* list of those to read only by Describe, and the input is looked for among the data.
LEMMA UploadStep ==
    ASSUME UploadInv, [Upload!Next]_uploadVars
    PROVE  /\ UploadInv'
           /\ uploadDigest # Upload!NoDigest => uploadDigest' = uploadDigest
           /\ \A i \in uploadTodo \ uploadTodo' :
                  uploadPhase' = "read" /\ ~uploadDraft'[i].read
                      => uploadLeft = 1 \/ (uploadLeft = 0 /\ FALSE \in Upload!Probes)
           /\ uploadChip' # uploadChip /\ Upload!DataImages # {} => uploadManifest[uploadChip'] = "data"
<1> DEFINE Kept == uploadDigest # Upload!NoDigest => uploadDigest' = uploadDigest
           Tried == \A i \in uploadTodo \ uploadTodo' :
                        uploadPhase' = "read" /\ ~uploadDraft'[i].read
                            => uploadLeft = 1 \/ (uploadLeft = 0 /\ FALSE \in Upload!Probes)
           Fed == uploadChip' # uploadChip /\ Upload!DataImages # {} => uploadManifest[uploadChip'] = "data"
<1> SUFFICES UploadInv' /\ Kept /\ Tried /\ Fed
    OBVIOUS
<1> USE DEF Upload!inputs
<1>1. CASE Upload!Create \/ Upload!Invoke
    <2>1. /\ uploadPhase' \in {"idle", "ask"} /\ uploadPresent \subseteq uploadPresent'
          /\ uploadLeft' \in {uploadLeft, VisionTries}
          /\ UNCHANGED <<uploadOllama, uploadCurrent>>
          /\ UNCHANGED <<uploadBrief, uploadTodo, uploadDraft, uploadDigest, uploadManifest, uploadChip>>
        BY <1>1 DEF Upload!Create, Upload!Invoke, Upload!Store
    <2>2. UploadInv'
        BY <2>1, BesideDigest DEF UploadInv
    <2> QED BY <2>1, <2>2
<1>2. CASE Upload!Ingest
    <2>1. /\ uploadLeft' \in {uploadLeft, VisionTries}
          /\ UNCHANGED <<uploadOllama, uploadCurrent>>
          /\ UNCHANGED <<uploadBrief, uploadPresent, uploadDigest, uploadManifest, uploadChip>>
        BY <1>2 DEF Upload!Ingest
    <2>2. CASE uploadPhase' = "work" /\ UNCHANGED <<uploadTodo, uploadDraft>>
        <3>1. UploadInv'
            BY <2>1, <2>2, BesideDigest DEF UploadInv
        <3> QED BY <2>1, <2>2, <3>1
    <2>3. CASE /\ uploadDigest = Upload!NoDigest /\ uploadPhase' = "read"
               /\ uploadTodo' = uploadPresent /\ uploadDraft' = Upload!NoDigest
        <3>1. UploadInv'
            BY <2>1, <2>3, BesideDigest, EmptyUploads
        <3>2. uploadTodo \ uploadTodo' = {}
            BY <2>3 DEF UploadInv
        <3> QED BY <2>1, <2>3, <3>1, <3>2
    <2> QED BY <1>2, <2>2, <2>3 DEF Upload!Ingest
<1>3. CASE Upload!WriteDigest
    <2>1. /\ uploadPhase = "read" /\ uploadPhase' = "manifest" /\ uploadDigest' = uploadDraft
          /\ uploadLeft' \in {uploadLeft, VisionTries}
          /\ UNCHANGED <<uploadOllama, uploadCurrent>>
          /\ UNCHANGED <<uploadBrief, uploadPresent, uploadTodo, uploadDraft, uploadManifest, uploadChip>>
        BY <1>3 DEF Upload!WriteDigest
    <2>2. uploadDigest = Upload!NoDigest /\ uploadManifest = Upload!NoRoles
        BY <2>1, NoManifest DEF UploadInv
    <2>3. LeftKept'
        BY <2>1, LeftStays DEF UploadInv
    <2>4. UploadInv'
        BY <2>1, <2>2, <2>3 DEF UploadInv, LeftKept, Upload!RolesAreDigested, Upload!NoRoles
    <2> QED BY <2>1, <2>2, <2>4
<1>4. CASE Upload!WriteManifest
    <2>1. /\ uploadPhase = "manifest" /\ uploadPhase' = "work"
          /\ uploadManifest' = [i \in Images |-> uploadDraft[i].role]
          /\ uploadLeft' \in {uploadLeft, VisionTries}
          /\ UNCHANGED <<uploadOllama, uploadCurrent>>
          /\ UNCHANGED <<uploadBrief, uploadPresent, uploadTodo, uploadDraft, uploadDigest, uploadChip>>
        BY <1>4 DEF Upload!WriteManifest
    <2>2. \A i \in Images : uploadDraft[i].role \in Upload!Roles \cup {Upload!None}
        BY DEF UploadInv, Upload!Entry, Upload!NoEntry
    <2>3. uploadManifest' \in [Images -> Upload!Roles \cup {Upload!None}]
        BY <2>1, <2>2
    <2>4. \A i \in Images : uploadManifest'[i] = uploadDigest'[i].role
        BY <2>1 DEF UploadInv
    <2>5. LeftKept'
        BY <2>1, LeftStays DEF UploadInv
    <2>6. UploadInv'
        BY <2>1, <2>3, <2>4, <2>5 DEF UploadInv, LeftKept, Upload!RolesAreDigested
    <2> QED BY <2>1, <2>6
<1>5. CASE Upload!AgentWrites
    <2>1. /\ uploadPhase' = "work" /\ uploadPresent \subseteq uploadPresent'
          /\ uploadLeft' \in {uploadLeft, VisionTries}
          /\ UNCHANGED <<uploadOllama, uploadCurrent>>
          /\ UNCHANGED <<uploadBrief, uploadTodo, uploadDraft, uploadDigest, uploadManifest, uploadChip>>
        BY <1>5 DEF Upload!AgentWrites
    <2>2. UploadInv'
        BY <2>1, BesideDigest DEF UploadInv
    <2> QED BY <2>1, <2>2
<1>6. CASE Upload!FindInput \/ Upload!EndStage
    <2>1. /\ uploadPhase' = "idle"
          /\ uploadLeft' \in {uploadLeft, VisionTries}
          /\ UNCHANGED <<uploadOllama, uploadCurrent>>
          /\ UNCHANGED <<uploadBrief, uploadPresent, uploadTodo, uploadDraft, uploadDigest, uploadManifest>>
        BY <1>6 DEF Upload!FindInput, Upload!EndStage
    <2>2. UploadInv'
        BY <2>1, BesideDigest DEF UploadInv
    <2>3. Fed
        BY <1>6 DEF Upload!FindInput, Upload!EndStage, Upload!DataImages
    <2> QED BY <2>1, <2>2, <2>3
<1>7. CASE Upload!Crash
    <2>1. /\ uploadPhase' = "idle" /\ uploadTodo' = {} /\ uploadDraft' = Upload!NoDigest
          /\ uploadLeft' \in {uploadLeft, VisionTries}
          /\ UNCHANGED <<uploadOllama, uploadCurrent>>
          /\ UNCHANGED <<uploadBrief, uploadPresent, uploadDigest, uploadManifest, uploadChip>>
        BY <1>7 DEF Upload!Crash
    <2>2. UploadInv'
        BY <2>1, BesideDigest, EmptyUploads
    <2> QED BY <2>1, <2>2
<1>8. ASSUME NEW i \in Images, Upload!Classify(i) PROVE UploadInv' /\ Kept /\ Tried /\ Fed
    <2>1. UNCHANGED uploadChip
        BY <1>8 DEF Upload!Classify
    <2> QED BY <1>8, <2>1, ClassifyUpload
<1>9. ASSUME NEW i \in Images, Upload!Describe(i) PROVE UploadInv' /\ Kept /\ Tried /\ Fed
    <2>1. UNCHANGED uploadChip
        BY <1>9 DEF Upload!Describe
    <2> QED BY <1>9, <2>1, DescribeUpload
<1>10. CASE UNCHANGED uploadVars
    <2>1. UploadInv'
        BY <1>10, BesideDigest DEF uploadVars, UploadInv
    <2> QED BY <1>10, <2>1 DEF uploadVars
<1> QED BY <1>1, <1>2, <1>3, <1>4, <1>5, <1>6, <1>7, <1>8, <1>9, <1>10 DEF Upload!Next

UploadSafe == IF part = "uploads" THEN UploadInv ELSE uploadManifest = Upload!NoRoles

LEMMA UploadsStep ==
    ASSUME UploadSafe, [ToolsNext]_allVars
    PROVE  /\ UploadSafe' /\ part' = part
           /\ part = "uploads" => [Upload!Next]_uploadVars
           /\ part # "uploads" => UNCHANGED uploadVars
<1>0. part' = part
    BY DEF ToolsNext, allVars
<1>1. CASE part = "uploads" /\ [Upload!Next]_uploadVars
    BY <1>0, <1>1, UploadStep DEF UploadSafe
<1>2. CASE part # "uploads" /\ UNCHANGED uploadVars
    BY <1>0, <1>2 DEF UploadSafe, uploadVars, Upload!NoRoles
<1> QED BY <1>1, <1>2 DEF ToolsNext, allVars

THEOREM UploadsCorrect == ToolsSpec => []UploadSafe
<1>1. ToolsInit => UploadSafe
    BY InitUploads DEF ToolsInit, UploadsRest, UploadSafe
<1> QED BY <1>1, UploadsStep, PTL DEF ToolsSpec, allVars

\* Every stage sees the same reading and the same roles of the pictures; one is called
\* unreadable only after every try, or when no model that can see was found when it was its
\* turn, and the chip is not fed a diagram beside a picture that is data (uploads.py: ingest_uploads; hwsw.py: resolve_input), for every number of pictures,
\* tries, requests and deaths of the service.
THEOREM PicturesRead == ToolsSpec => PicturesAreRead
<1>1. UploadSafe => Upload!RolesAreDigested
    BY DEF UploadSafe, UploadInv, Upload!RolesAreDigested
<1>2. UploadSafe /\ [ToolsNext]_allVars
        => [uploadDigest # Upload!NoDigest => uploadDigest' = uploadDigest]_(Upload!vars)
    BY UploadsStep, UploadStep DEF UploadSafe, uploadVars, Upload!vars
<1>3. UploadSafe /\ [ToolsNext]_allVars
        => [\A i \in uploadTodo \ uploadTodo' :
               (uploadPhase' = "read" /\ ~uploadDraft'[i].read)
                    => uploadLeft = 1 \/ (uploadLeft = 0 /\ FALSE \in Upload!Probes)]_(Upload!vars)
    BY UploadsStep, UploadStep DEF UploadSafe, uploadVars, Upload!vars
<1>4. UploadSafe /\ [ToolsNext]_allVars
        => [uploadChip' # uploadChip /\ Upload!DataImages # {}
               => uploadManifest[uploadChip'] = "data"]_(Upload!vars)
    BY UploadsStep, UploadStep DEF UploadSafe, uploadVars, Upload!vars
<1> QED BY <1>1, <1>2, <1>3, <1>4, UploadsCorrect, PTL
        DEF ToolsSpec, allVars, PicturesAreRead, Upload!ReadingIsKept, Upload!UnreadIsTried,
            Upload!InputIsData
=================================================================================
