---------------------------- MODULE HardeningProofs ----------------------------
(***************************************************************************)
(* Theorems about Hardening, for every set of versions, every number of    *)
(* attempts and rewrites, and every range of clocks and constraints.       *)
(***************************************************************************)
EXTENDS Hardening, TLAPS

USE HardeningAssumption, NothingAssumption

-----------------------------------------------------------------------------
(* What the operators return *)

LEMMA BaseType == ASSUME NEW v \in Versions PROVE Base(v) \in 1..MaxClock
  BY DEF Base

\* A job starts at its design's own clock, or at the saved one of the same RTL
\* when that is slower.
LEMMA LoadTuneType ==
  ASSUME NEW v \in Versions, tune \in Tunes \cup {Nothing}
  PROVE  /\ LoadTune(v).clock \in 1..MaxClock
         /\ LoadTune(v).recipe \in 0..MaxRecipe
         /\ LoadTune(v).clock > Base(v) => TuneFits(v) /\ LoadTune(v).clock = tune.clock
         /\ (TuneFits(v) /\ (Declared[v] = 0 \/ tune.clock <= Declared[v])) =>
                LoadTune(v).clock >= tune.clock /\ LoadTune(v).recipe = tune.recipe
  BY BaseType DEF LoadTune, TuneFits, Tunes

\* A run of LibreLane leaves the layout there was or one of the RTL it was given.
LEMMA AfterType ==
  ASSUME NEW src \in Versions, NEW clock \in 1..MaxClock,
         chip.layout \in Layout \cup {Nothing}, NEW layout \in After(src, clock)
  PROVE  /\ layout \in Layout \cup {Nothing}
         /\ layout = chip.layout \/ (layout # Nothing /\ layout.built = src)
  <1>1. \A f \in Faults : [built |-> src, clock |-> clock, faults |-> f] \in Layout
    BY DEF Layout
  <1>2. /\ SUBSET {"late", "dirty"} \subseteq Faults
        /\ {"unknown"} \in Faults
    BY DEF Faults
  <1>3. layout = chip.layout
          \/ \E f \in Faults : layout = [built |-> src, clock |-> clock, faults |-> f]
    <2> DEFINE Run(f) == [built |-> src, clock |-> clock, faults |-> f]
    <2>1. \/ layout = chip.layout
          \/ layout \in {Run(f) : f \in SUBSET {"late", "dirty"}}
          \/ layout = Run({"unknown"})
      BY DEF After
    <2>2. QED
      BY <1>2, <2>1
  <1>4. CASE layout = chip.layout
    BY <1>4
  <1>5. ASSUME NEW f \in Faults, layout = [built |-> src, clock |-> clock, faults |-> f]
        PROVE  layout \in Layout /\ layout.built = src
    BY <1>1, <1>5
  <1>6. QED
    BY <1>3, <1>4, <1>5, NothingAssumption

-----------------------------------------------------------------------------
(* The inductive invariant.  As long as no rewrite has hit a running job, what the
   workspace holds belongs to the RTL it is marked with, the job works for the RTL
   that is there, and a clock slower than a design's own was earned by it. *)

Working == job.at # "idle"

JobTyped == Working => job.fp \in Versions /\ job.src \in Versions

ChipMarked == chip.fp # Nothing /\ chip.layout # Nothing => chip.layout.built = chip.fp
JobCurrent ==
    Working => /\ job.fp = rtl /\ job.src = rtl
               /\ chip.fp \in {rtl, Nothing}
               /\ chip.layout # Nothing => chip.layout.built = rtl
VerdictEarned ==
    verdict.result = "pass" =>
        /\ gds # Nothing /\ gds.built = verdict.rtl
        /\ verdict.stamp # Nothing => Code[verdict.stamp] = Code[verdict.rtl]
ClockEarned ==
    /\ tune # Nothing /\ tune.clock > Base(tune.rtl) => tune.rtl \in slow
    /\ Working /\ job.clock > Base(job.fp) => job.fp \in slow

Earned == ChipMarked /\ JobCurrent /\ VerdictEarned /\ ClockEarned

-----------------------------------------------------------------------------
(* Types *)

\* The parts of TypeOK an action most often leaves alone.
JobType == [at : {"idle", "attempt", "finish"}, fp : Versions \cup {Nothing},
            src : Versions \cup {Nothing}, clock : 1..MaxClock, recipe : 0..MaxRecipe,
            attempt : 0..MaxAttempts, reuse : BOOLEAN, timeout : BOOLEAN]
ChipType == [fp : Versions \cup {Nothing}, layout : Layout \cup {Nothing}]
Typed == TypeOK /\ JobTyped

LEMMA IdleType == Idle \in JobType
  BY DEF Idle, JobType

LEMMA PrepareType ==
  ASSUME Typed, Prepare
  PROVE  tune' \in Tunes \cup {Nothing} /\ chip' \in ChipType
  BY DEF Typed, TypeOK, Prepare, Tunes, ChipType, EmptyChip

LEMMA EndType ==
  ASSUME Typed, NEW r \in {"pass", "fail"}, End(r)
  PROVE  /\ job' \in JobType /\ job'.at = "idle"
         /\ verdict' \in [result : {"none", "pass", "fail"}, rtl : Versions \cup {Nothing},
                          stamp : Versions \cup {Nothing}]
  BY IdleType DEF Typed, TypeOK, End, Idle

LEMMA StartType == ASSUME Typed, Start PROVE Typed'
  <1>1. rtl \in Versions /\ tune \in Tunes \cup {Nothing}
    BY DEF Typed, TypeOK, Tunes
  <1>2. LoadTune(rtl).clock \in 1..MaxClock /\ LoadTune(rtl).recipe \in 0..MaxRecipe
    BY <1>1, LoadTuneType
  <1>3. Reusable(rtl) \in BOOLEAN
    BY DEF Reusable
  <1>4. job' \in JobType /\ job'.fp = rtl /\ job'.src = rtl
    BY <1>1, <1>2, <1>3 DEF Start, JobType
  <1>5. tune' \in Tunes \cup {Nothing} /\ chip' \in ChipType
    BY PrepareType DEF Start
  <1>6. QED
    BY <1>1, <1>4, <1>5 DEF Start, Typed, TypeOK, JobTyped, Working, JobType, ChipType, Tunes,
                         NoVerdict

LEMMA StartFailsType == ASSUME Typed, StartFails PROVE Typed'
  <1>1. tune' \in Tunes \cup {Nothing} /\ chip' \in ChipType
    BY PrepareType DEF StartFails
  <1>2. QED
    BY <1>1, EndType DEF StartFails, Typed, TypeOK, JobTyped, Working, JobType, ChipType, Tunes

\* What an attempt that goes on chooses: a new or the old layout, metrics, a clock
\* and a recipe, all of their types.
LEMMA AttemptStep ==
  ASSUME Typed, Attempt
  PROVE  \E layout \in Layout \cup {Nothing}, clock \in 1..MaxClock, recipe \in 0..MaxRecipe :
           \E seen :
            /\ Retune(layout, seen, clock, recipe)
            /\ layout = chip.layout \/ (layout # Nothing /\ layout.built = job.src)
            /\ clock > job.clock => "late" \in seen
            /\ clock >= job.clock
  <1>1. /\ job \in JobType /\ job.src \in Versions
        /\ chip.layout \in Layout \cup {Nothing}
    BY DEF Typed, TypeOK, JobTyped, Working, Attempt, JobType
  <1>2. PICK layout \in After(job.src, job.clock) : \E seen \in Seen(layout) :
          \E clock \in Relaxed(seen), recipe \in Climbed(seen) :
            Retune(layout, seen, clock, recipe)
    BY DEF Attempt
  <1>3. PICK seen \in Seen(layout) : \E clock \in Relaxed(seen), recipe \in Climbed(seen) :
            Retune(layout, seen, clock, recipe)
    BY <1>2
  <1>4. PICK clock \in Relaxed(seen), recipe \in Climbed(seen) :
            Retune(layout, seen, clock, recipe)
    BY <1>3
  <1>5. clock \in 1..MaxClock /\ clock >= job.clock /\ (clock > job.clock => "late" \in seen)
    BY <1>1 DEF Relaxed, JobType
  <1>6. recipe \in 0..MaxRecipe
    BY <1>1 DEF Climbed, JobType
  <1>7. /\ layout \in Layout \cup {Nothing}
        /\ layout = chip.layout \/ (layout # Nothing /\ layout.built = job.src)
    BY <1>1, AfterType DEF JobType
  <1>8. QED
    BY <1>4, <1>5, <1>6, <1>7

LEMMA AttemptType == ASSUME Typed, Attempt PROVE Typed'
  <1>1. /\ job \in JobType /\ job.src \in Versions /\ job.fp \in Versions /\ rtl \in Versions
        /\ chip \in ChipType /\ slow \subseteq Versions
    BY DEF Typed, TypeOK, JobTyped, Working, Attempt, JobType, ChipType
  <1>2. PICK layout \in Layout \cup {Nothing}, clock \in 1..MaxClock, recipe \in 0..MaxRecipe :
          \E seen : Retune(layout, seen, clock, recipe)
    BY AttemptStep
  <1>3. tune' \in Tunes /\ chip' \in ChipType /\ slow' \subseteq Versions
    BY <1>1, <1>2 DEF Retune, Tunes, ChipType
  <1>4. (IF OutOfAttempts THEN job.attempt ELSE job.attempt + 1) \in 0..MaxAttempts
    <2>1. MaxAttempts \in Nat /\ job.attempt \in 0..MaxAttempts
      BY <1>1 DEF JobType
    <2>2. QED
      BY <2>1 DEF OutOfAttempts
  <1>5. (IF OutOfAttempts THEN "finish" ELSE job.at) \in {"idle", "attempt", "finish"}
    BY <1>1 DEF JobType
  <1>6. job' \in JobType /\ job'.src \in Versions /\ job'.fp \in Versions
    BY <1>1, <1>2, <1>4, <1>5 DEF Retune, JobType
  <1>7. QED
    BY <1>3, <1>6 DEF Attempt, Typed, TypeOK, JobTyped, Working, JobType, ChipType, Tunes

LEMMA LastAttemptType == ASSUME Typed, LastAttempt PROVE Typed'
  <1>1. /\ job \in JobType /\ job.src \in Versions /\ job.fp \in Versions
        /\ chip \in ChipType /\ chip.layout \in Layout \cup {Nothing}
    BY DEF Typed, TypeOK, JobTyped, Working, LastAttempt, JobType, ChipType
  <1>2. PICK layout \in After(job.src, job.clock) : chip' = [chip EXCEPT !.layout = layout]
    BY DEF LastAttempt
  <1>3. layout \in Layout \cup {Nothing}
    BY <1>1, AfterType DEF JobType
  <1>4. chip' \in ChipType
    BY <1>1, <1>2, <1>3 DEF ChipType
  <1>5. job' \in JobType /\ job'.src \in Versions /\ job'.fp \in Versions
    BY <1>1 DEF LastAttempt, JobType
  <1>6. QED
    BY <1>4, <1>5 DEF LastAttempt, Typed, TypeOK, JobTyped, Working, JobType, ChipType

\* A timeout leaves the layout there was, or a first one that is not known to be clean.
LEMMA TimeoutChip ==
  ASSUME Typed, AttemptTimesOut
  PROVE  /\ chip' \in ChipType /\ chip'.fp = chip.fp
         /\ chip'.layout = chip.layout
              \/ (chip'.layout # Nothing /\ chip'.layout.built = job.src)
  <1> DEFINE First == [built |-> job.src, clock |-> job.clock, faults |-> {"unknown"}]
  <1>1. /\ job.src \in Versions /\ job.clock \in 1..MaxClock /\ chip \in ChipType
    BY DEF Typed, TypeOK, JobTyped, Working, AttemptTimesOut, ChipType
  <1>2. {"unknown"} \in Faults
    BY DEF Faults
  <1>3. First \in Layout /\ First.built = job.src
    BY <1>1, <1>2 DEF Layout
  <1>4. \/ chip' = chip
        \/ chip' = [chip EXCEPT !.layout = IF @ = Nothing THEN First ELSE @]
    BY DEF AttemptTimesOut
  <1> HIDE DEF First
  <1>5. QED
    BY <1>1, <1>3, <1>4, NothingAssumption DEF ChipType

LEMMA AttemptTimesOutType == ASSUME Typed, AttemptTimesOut PROVE Typed'
  <1>1. job \in JobType /\ job.src \in Versions /\ job.fp \in Versions
    BY DEF Typed, TypeOK, JobTyped, Working, AttemptTimesOut, JobType
  <1>2. job' \in JobType /\ job'.src \in Versions /\ job'.fp \in Versions
    BY <1>1 DEF AttemptTimesOut, JobType
  <1>3. QED
    BY <1>2, TimeoutChip
       DEF AttemptTimesOut, Typed, TypeOK, JobTyped, Working, JobType, ChipType

LEMMA AttemptNotFoundType == ASSUME Typed, AttemptNotFound PROVE Typed'
  <1>1. job.fp \in Versions /\ chip \in ChipType
    BY DEF Typed, TypeOK, JobTyped, Working, AttemptNotFound, ChipType
  <1>2. chip' \in ChipType
    BY <1>1 DEF AttemptNotFound, ChipType
  <1>3. QED
    BY <1>2, EndType DEF AttemptNotFound, Typed, TypeOK, JobTyped, Working, JobType, ChipType

LEMMA FinishType == ASSUME Typed, Finish PROVE Typed'
  <1>1. /\ job.fp \in Versions /\ job.clock \in 1..MaxClock
        /\ chip \in ChipType /\ gds \in Layout \cup {Nothing}
    BY DEF Typed, TypeOK, JobTyped, Working, Finish, ChipType
  <1>2. chip' \in ChipType /\ gds' \in Layout \cup {Nothing} /\ achieved' \in 0..MaxClock
    BY <1>1 DEF Finish, ChipType
  <1>3. \E r \in {"pass", "fail"} : End(r)
    BY DEF Finish
  <1>4. QED
    BY <1>2, <1>3, EndType DEF Finish, Typed, TypeOK, JobTyped, Working, JobType, ChipType

LEMMA CrashType == ASSUME Typed, Crash PROVE Typed'
  BY IdleType DEF Crash, Typed, TypeOK, JobTyped, Working, JobType, Idle

LEMMA EditType == ASSUME Typed, NEW v \in Versions, Edit(v) PROVE Typed'
  <1>1. edits' \in 0..MaxEdits
    BY DEF Edit, Typed, TypeOK
  <1>2. quiet' \in BOOLEAN
    BY DEF Edit, Typed, TypeOK
  <1>3. QED
    BY <1>1, <1>2 DEF Edit, Typed, TypeOK, JobTyped, Working

LEMMA SimulateType == ASSUME Typed, Simulate PROVE Typed'
  BY DEF Simulate, Typed, TypeOK, JobTyped, Working

LEMMA StepType == Typed /\ [Next]_vars => Typed'
  <1> SUFFICES ASSUME Typed, [Next]_vars PROVE Typed'
    OBVIOUS
  <1>1. CASE \E v \in Versions : Edit(v)
    BY <1>1, EditType
  <1>2. CASE Simulate
    BY <1>2, SimulateType
  <1>3. CASE RunHarden
    BY <1>3, StartType, StartFailsType, AttemptType, LastAttemptType, AttemptTimesOutType,
       AttemptNotFoundType, FinishType DEF RunHarden
  <1>4. CASE Crash
    BY <1>4, CrashType
  <1>5. CASE UNCHANGED vars
    BY <1>5 DEF vars, Typed, TypeOK, JobTyped, Working
  <1>6. QED
    BY <1>1, <1>2, <1>3, <1>4, <1>5 DEF Next

LEMMA InitType == Init => Typed
  <1>1. EmptyChip \in ChipType
    BY DEF EmptyChip, ChipType
  <1>2. QED
    BY <1>1, IdleType DEF Init, Typed, TypeOK, JobTyped, Working, Idle, NoVerdict, JobType, ChipType

\* Every variable keeps its type (TypeOK), for every value of the constants.
THEOREM TypeCorrect == Spec => []TypeOK
  <1>1. Typed => TypeOK
    BY DEF Typed
  <1>2. QED
    BY <1>1, InitType, StepType, PTL DEF Spec

-----------------------------------------------------------------------------
(* TuneIsResumed *)

LEMMA InitResumed == Init => TuneIsResumed
  BY DEF Init, TuneIsResumed, Idle

LEMMA StartResumed == ASSUME Typed, Start PROVE TuneIsResumed'
  <1>1. rtl \in Versions /\ tune \in Tunes \cup {Nothing}
    BY DEF Typed, TypeOK, Tunes
  <1>2. (TuneFits(rtl) /\ (Declared[rtl] = 0 \/ tune.clock <= Declared[rtl])) =>
           LoadTune(rtl).clock >= tune.clock /\ LoadTune(rtl).recipe = tune.recipe
    BY <1>1, LoadTuneType
  <1>3. job'.fp = rtl /\ job'.clock = LoadTune(rtl).clock /\ job'.recipe = LoadTune(rtl).recipe
    BY DEF Start
  <1>4. tune' # Nothing => TuneFits(rtl) /\ tune' = tune
    BY DEF Start, Prepare
  <1>5. LoadTune(rtl).recipe \in 0..MaxRecipe
    BY <1>1, LoadTuneType
  <1>6. QED
    BY <1>2, <1>3, <1>4, <1>5 DEF TuneIsResumed

LEMMA AttemptResumed == ASSUME Typed, Attempt PROVE TuneIsResumed'
  <1>1. job \in JobType
    BY DEF Typed, TypeOK, JobType
  <1>2. PICK layout \in Layout \cup {Nothing}, clock \in 1..MaxClock, recipe \in 0..MaxRecipe :
          \E seen : Retune(layout, seen, clock, recipe)
    BY AttemptStep
  <1>3. /\ tune' = [rtl |-> job.fp, clock |-> clock, recipe |-> recipe]
        /\ job'.clock = clock /\ job'.recipe = recipe
    BY <1>1, <1>2 DEF Retune, JobType
  <1>4. QED
    BY <1>3 DEF TuneIsResumed

LEMMA StepResumed == Typed /\ TuneIsResumed /\ [Next]_vars => TuneIsResumed'
  <1> SUFFICES ASSUME Typed, TuneIsResumed, [Next]_vars PROVE TuneIsResumed'
    OBVIOUS
  <1>1. job \in JobType
    BY DEF Typed, TypeOK, JobType
  <1>2. CASE \E v \in Versions : Edit(v)
    BY <1>2 DEF Edit, TuneIsResumed
  <1>3. CASE Simulate
    BY <1>3 DEF Simulate, TuneIsResumed
  <1>4. CASE Start
    BY <1>4, StartResumed
  <1>5. CASE Attempt
    BY <1>5, AttemptResumed
  <1>6. CASE StartFails \/ AttemptNotFound \/ Finish \/ Crash
    <2>1. job' = Idle
      BY <1>6 DEF StartFails, AttemptNotFound, Finish, Crash, End
    <2>2. QED
      BY <2>1 DEF TuneIsResumed, Idle
  <1>7. CASE LastAttempt \/ AttemptTimesOut
    <2>1. job'.at = "finish"
      BY <1>1, <1>7 DEF LastAttempt, AttemptTimesOut, JobType
    <2>2. QED
      BY <2>1 DEF TuneIsResumed
  <1>8. CASE UNCHANGED vars
    BY <1>8 DEF vars, TuneIsResumed
  <1>9. QED
    BY <1>2, <1>3, <1>4, <1>5, <1>6, <1>7, <1>8 DEF Next, RunHarden

\* A job goes on where the last one for the same RTL stopped (TuneIsResumed): what
\* crashes, timeouts and failed jobs leave of the tune state is taken up again.
THEOREM TuneResumed == Spec => []TuneIsResumed
  BY InitType, StepType, InitResumed, StepResumed, PTL DEF Spec

-----------------------------------------------------------------------------
(* The workspace belongs to the RTL *)

LEMMA StartEarned == ASSUME Typed, Earned, Start PROVE Earned'
  <1>1. rtl \in Versions /\ tune \in Tunes \cup {Nothing} /\ rtl' = rtl /\ slow' = slow
    BY DEF Typed, TypeOK, Tunes, Start
  <1>2. /\ job'.fp = rtl /\ job'.src = rtl /\ job'.clock = LoadTune(rtl).clock
        /\ verdict' = NoVerdict
    BY DEF Start
  <1>3. tune' # Nothing => tune' = tune
    BY DEF Start, Prepare
  <1>4. \/ chip' = EmptyChip
        \/ chip' = chip /\ chip.fp = rtl /\ chip.layout # Nothing
    BY DEF Start, Prepare, Reusable
  <1>5. ChipMarked'
    BY <1>4 DEF Earned, ChipMarked, EmptyChip
  <1>6. JobCurrent'
    BY <1>1, <1>2, <1>4, NothingAssumption DEF Earned, ChipMarked, JobCurrent, EmptyChip
  <1>7. VerdictEarned'
    BY <1>2 DEF VerdictEarned, NoVerdict
  <1>8. ClockEarned'
    <2>1. LoadTune(rtl).clock > Base(rtl) =>
             tune # Nothing /\ tune.rtl = rtl /\ LoadTune(rtl).clock = tune.clock
      BY <1>1, LoadTuneType DEF TuneFits
    <2>2. QED
      BY <1>1, <1>2, <1>3, <2>1 DEF Earned, ClockEarned
  <1>9. QED
    BY <1>5, <1>6, <1>7, <1>8 DEF Earned

LEMMA StartFailsEarned == ASSUME Typed, Earned, StartFails PROVE Earned'
  <1>1. job' = Idle /\ verdict'.result = "fail" /\ slow' = slow
    BY DEF StartFails, End
  <1>2. tune' # Nothing => tune' = tune
    BY DEF StartFails, Prepare
  <1>3. chip' = EmptyChip \/ chip' = chip
    BY DEF StartFails, Prepare
  <1>4. QED
    BY <1>1, <1>2, <1>3
       DEF Earned, ChipMarked, JobCurrent, VerdictEarned, ClockEarned, EmptyChip, Working, Idle

LEMMA AttemptEarned == ASSUME Typed, Earned, Attempt PROVE Earned'
  <1>1. /\ job \in JobType /\ job.fp \in Versions /\ rtl \in Versions /\ chip \in ChipType
        /\ job.fp = rtl /\ job.src = rtl /\ Base(rtl) \in Nat
    <2>1. job \in JobType /\ job.fp \in Versions /\ rtl \in Versions /\ chip \in ChipType
      BY DEF Typed, TypeOK, JobTyped, Working, Attempt, JobType, ChipType
    <2>2. job.fp = rtl /\ job.src = rtl
      BY DEF Earned, JobCurrent, Working, Attempt
    <2>3. QED
      BY <2>1, <2>2, BaseType
  <1>2. PICK layout \in Layout \cup {Nothing}, clock \in 1..MaxClock, recipe \in 0..MaxRecipe :
          \E seen :
            /\ Retune(layout, seen, clock, recipe)
            /\ layout = chip.layout \/ (layout # Nothing /\ layout.built = job.src)
            /\ clock > job.clock => "late" \in seen
            /\ clock >= job.clock
    BY AttemptStep
  <1>3. PICK seen :
            /\ Retune(layout, seen, clock, recipe)
            /\ layout = chip.layout \/ (layout # Nothing /\ layout.built = job.src)
            /\ clock > job.clock => "late" \in seen
            /\ clock >= job.clock
    BY <1>2
  <1>4. /\ chip'.layout = layout /\ chip'.fp = chip.fp
        /\ job'.fp = rtl /\ job'.src = rtl /\ job'.clock = clock
        /\ tune' = [rtl |-> rtl, clock |-> clock, recipe |-> recipe]
        /\ slow' = IF "late" \in seen THEN slow \cup {rtl} ELSE slow
        /\ rtl' = rtl /\ verdict' = verdict /\ gds' = gds
    BY <1>1, <1>3 DEF Retune, JobType, ChipType, Attempt
  <1>5. layout # Nothing => layout.built = rtl
    BY <1>1, <1>3 DEF Earned, JobCurrent, Working, Attempt
  <1>6. chip.fp \in {rtl, Nothing}
    BY DEF Earned, JobCurrent, Working, Attempt
  <1>7. clock > Base(rtl) => rtl \in slow'
    <2>1. CASE clock > job.clock
      BY <1>3, <1>4, <2>1
    <2>2. CASE clock = job.clock
      BY <1>1, <1>4, <2>2 DEF Earned, ClockEarned, Working, Attempt
    <2>3. QED
      BY <1>1, <1>3, <2>1, <2>2 DEF JobType
  <1>8. QED
    BY <1>4, <1>5, <1>6, <1>7
       DEF Earned, ChipMarked, JobCurrent, VerdictEarned, ClockEarned

\* A run that keeps the clock leaves the workspace's layout of this RTL.
LEMMA RunEarned ==
  ASSUME Typed, Earned, job.at = "attempt",
         chip'.fp = chip.fp,
         chip'.layout = chip.layout
           \/ (chip'.layout # Nothing /\ chip'.layout.built = job.src),
         job'.fp = job.fp, job'.src = job.src, job'.clock = job.clock,
         UNCHANGED <<rtl, tune, gds, verdict, slow>>
  PROVE  Earned'
  <1>1. /\ job.fp = rtl /\ job.src = rtl /\ chip.fp \in {rtl, Nothing}
        /\ chip.layout # Nothing => chip.layout.built = rtl
    BY DEF Earned, JobCurrent, Working
  <1>2. chip'.layout # Nothing => chip'.layout.built = rtl
    BY <1>1
  <1>3. ChipMarked' /\ JobCurrent'
    BY <1>1, <1>2 DEF ChipMarked, JobCurrent
  <1>4. QED
    BY <1>3 DEF Earned, VerdictEarned, ClockEarned, Working

LEMMA LastAttemptEarned == ASSUME Typed, Earned, LastAttempt PROVE Earned'
  <1>1. /\ job \in JobType /\ job.src \in Versions
        /\ chip \in ChipType /\ chip.layout \in Layout \cup {Nothing}
    BY DEF Typed, TypeOK, JobTyped, Working, LastAttempt, JobType, ChipType
  <1>2. PICK layout \in After(job.src, job.clock) : chip' = [chip EXCEPT !.layout = layout]
    BY DEF LastAttempt
  <1>3. layout = chip.layout \/ (layout # Nothing /\ layout.built = job.src)
    BY <1>1, AfterType DEF JobType
  <1>4. chip'.fp = chip.fp /\ chip'.layout = layout
    BY <1>1, <1>2 DEF ChipType
  <1>5. job'.fp = job.fp /\ job'.src = job.src /\ job'.clock = job.clock
    BY <1>1 DEF LastAttempt, JobType
  <1>6. QED
    BY <1>3, <1>4, <1>5, RunEarned DEF LastAttempt

LEMMA AttemptTimesOutEarned == ASSUME Typed, Earned, AttemptTimesOut PROVE Earned'
  <1>1. job'.fp = job.fp /\ job'.src = job.src /\ job'.clock = job.clock
    BY DEF AttemptTimesOut, Typed, TypeOK
  <1>2. QED
    BY <1>1, TimeoutChip, RunEarned DEF AttemptTimesOut

\* The end of a job, with the layout it leaves marked with its RTL.
LEMMA MarkEarned ==
  ASSUME Typed, Earned, Working, job' = Idle,
         chip' = chip \/ chip' = [chip EXCEPT !.fp = job.fp],
         UNCHANGED <<rtl, tune, slow>>
  PROVE  ChipMarked' /\ JobCurrent' /\ ClockEarned'
  <1>1. /\ job.fp = rtl /\ chip.fp \in {rtl, Nothing}
        /\ chip.layout # Nothing => chip.layout.built = rtl
    BY DEF Earned, JobCurrent
  <1>2. chip'.layout = chip.layout /\ chip'.fp \in {rtl, Nothing}
    BY <1>1 DEF Typed, TypeOK
  <1>3. QED
    BY <1>1, <1>2 DEF ChipMarked, JobCurrent, ClockEarned, Earned, Working, Idle

LEMMA AttemptNotFoundEarned == ASSUME Typed, Earned, AttemptNotFound PROVE Earned'
  <1>1. ChipMarked' /\ JobCurrent' /\ ClockEarned'
    BY MarkEarned DEF AttemptNotFound, End, Working
  <1>2. VerdictEarned'
    BY DEF AttemptNotFound, End, VerdictEarned
  <1>3. QED
    BY <1>1, <1>2 DEF Earned

\* A job passes with the layout of its RTL, and only if SIM verified that RTL's code
\* or nothing at all.
LEMMA FinishEarned == ASSUME Typed, Earned, Finish PROVE Earned'
  <1>1. ChipMarked' /\ JobCurrent' /\ ClockEarned'
    <2>1. job' = Idle
      BY DEF Finish, End
    <2>2. QED
      BY <2>1, MarkEarned DEF Finish, Working
  <1>2. VerdictEarned'
    <2>1. SUFFICES ASSUME verdict'.result = "pass"
                   PROVE  /\ gds' # Nothing /\ gds'.built = verdict'.rtl
                          /\ verdict'.stamp # Nothing =>
                                Code[verdict'.stamp] = Code[verdict'.rtl]
      BY DEF VerdictEarned
    <2>2. /\ Verified(rtl) /\ chip.layout # Nothing
          /\ verdict'.rtl = rtl /\ verdict'.stamp = stamp
      BY <2>1 DEF Finish, End
    <2>3. gds' = chip.layout /\ chip.layout.built = rtl
      BY <2>2 DEF Finish, Earned, JobCurrent, Working
    <2>4. QED
      BY <2>2, <2>3 DEF Verified
  <1>3. QED
    BY <1>1, <1>2 DEF Earned

LEMMA CrashEarned == ASSUME Earned, Crash PROVE Earned'
  BY DEF Crash, Earned, ChipMarked, JobCurrent, VerdictEarned, ClockEarned, Working, Idle

\* A rewrite between two jobs leaves everything marked with the RTL it belongs to.
LEMMA EditEarned ==
  ASSUME quiet => Earned, NEW v \in Versions, Edit(v), quiet' PROVE Earned'
  <1>1. quiet /\ job.at = "idle"
    BY DEF Edit
  <1>2. QED
    BY <1>1
       DEF Edit, Earned, ChipMarked, JobCurrent, VerdictEarned, ClockEarned, Working

LEMMA StepEarned == Typed /\ (quiet => Earned) /\ [Next]_vars => (quiet' => Earned')
  <1> SUFFICES ASSUME Typed, quiet => Earned, [Next]_vars, quiet' PROVE Earned'
    OBVIOUS
  <1>1. CASE \E v \in Versions : Edit(v)
    BY <1>1, EditEarned
  <1>2. CASE RunHarden
    <2>1. quiet' = quiet
      BY <1>2 DEF RunHarden, Start, StartFails, Attempt, LastAttempt, AttemptTimesOut,
                  AttemptNotFound, Finish
    <2>2. Earned
      BY <2>1
    <2>3. QED
      BY <1>2, <2>2, StartEarned, StartFailsEarned, AttemptEarned, LastAttemptEarned,
         AttemptTimesOutEarned, AttemptNotFoundEarned, FinishEarned DEF RunHarden
  <1>3. CASE Crash
    <2>1. Earned
      BY <1>3 DEF Crash
    <2>2. QED
      BY <1>3, <2>1, CrashEarned
  <1>4. CASE Simulate
    BY <1>4 DEF Simulate, Earned, ChipMarked, JobCurrent, VerdictEarned, ClockEarned, Working
  <1>5. CASE UNCHANGED vars
    BY <1>5 DEF vars, Earned, ChipMarked, JobCurrent, VerdictEarned, ClockEarned, Working
  <1>6. QED
    BY <1>1, <1>2, <1>3, <1>4, <1>5 DEF Next

LEMMA InitEarned == Init => (quiet => Earned)
  BY DEF Init, Earned, ChipMarked, JobCurrent, VerdictEarned, ClockEarned, Working, Idle,
         EmptyChip, NoVerdict

LEMMA WorkspaceEarned == Spec => [](quiet => Earned)
  BY InitType, StepType, InitEarned, StepEarned, PTL DEF Spec

\* A passing job delivers the layout of the RTL it was asked for (LayoutIsFresh): no
\* sequence of rewrites, reuses, timeouts and restarts between jobs lets the layout
\* of another design through.
THEOREM LayoutFresh == Spec => []LayoutIsFresh
  <1>1. (quiet => Earned) => LayoutIsFresh
    BY DEF Earned, VerdictEarned, LayoutIsFresh
  <1>2. QED
    BY <1>1, WorkspaceEarned, PTL

\* Hardening only passes Verilog that SIM verified (VerifiedCode): the layout that is
\* delivered was built from the code the stamp names, also when it was reused.
THEOREM CodeVerified == Spec => []VerifiedCode
  <1>1. (quiet => Earned) => VerifiedCode
    BY DEF Earned, VerdictEarned, VerifiedCode
  <1>2. QED
    BY <1>1, WorkspaceEarned, PTL

\* A job slower than its design asks for runs an RTL that has itself missed timing
\* (SlowOnlyWhenLate): the tune state never hands one design's clock to another.
THEOREM ClockNotInherited == Spec => []SlowOnlyWhenLate
  <1>1. (quiet => Earned) => SlowOnlyWhenLate
    BY DEF Earned, ClockEarned, SlowOnlyWhenLate, Working
  <1>2. QED
    BY <1>1, WorkspaceEarned, PTL

-----------------------------------------------------------------------------
(* How far the two refuted claims of Hardening hold.  The stamp misses files other
   than Verilog, and the tune state of a declared clock is lost; nothing else is wrong. *)

\* Versions that differ, differ in their Verilog.
StampCoversAll == \A v, w \in Versions : Code[v] = Code[w] => v = w

\* Where the stamp covers every file, hardening passes only what SIM verified
\* (OnlyVerified): the .sv, .svh and .mem files it leaves out are all that is missed.
THEOREM VerifiedWhenStamped == ASSUME StampCoversAll PROVE Spec => []OnlyVerified
  <1>1. Typed /\ (quiet => Earned) => OnlyVerified
    <2> SUFFICES ASSUME Typed, Earned, verdict.result = "pass", verdict.stamp # Nothing
                 PROVE  gds.built = verdict.stamp
      BY DEF OnlyVerified
    <2>1. gds \in Layout /\ gds.built \in Versions /\ verdict.stamp \in Versions
      BY DEF Typed, TypeOK, Earned, VerdictEarned, Layout
    <2>2. Code[verdict.stamp] = Code[gds.built]
      BY DEF Earned, VerdictEarned
    <2>3. QED
      BY <2>1, <2>2 DEF StampCoversAll
  <1>2. QED
    BY <1>1, InitType, StepType, WorkspaceEarned, PTL DEF Spec

Clean(layout) == layout # Nothing /\ layout.faults = {}
SlowerThanDeclared(clock, v) == Declared[v] > 0 /\ clock > Declared[v]

\* A clock of the RTL v that a next job for v loads again, or that LoadTune refuses.
Loaded(clock, v) == clock = LoadTune(v).clock \/ SlowerThanDeclared(clock, v)

\* A clean layout ends a job: while one is sought there is none, and no fingerprint that
\* would let a restarted job take the unfinished run for a finished one.
Sought ==
    /\ Working /\ ~job.reuse => chip.fp = Nothing
    /\ job.at = "attempt" => ~job.reuse /\ ~Clean(chip.layout)
\* The clock a job works for, and that of a clean layout that may be reused, is the one
\* the tune state remembers.
Remembered ==
    /\ tune # Nothing => tune.clock >= Base(tune.rtl)
    /\ Working => job.clock >= Base(job.fp) /\ Loaded(job.clock, job.fp)
    /\ chip.fp # Nothing /\ Clean(chip.layout) => Loaded(chip.layout.clock, chip.fp)
\* What a job is about to publish.
Published ==
    job.at = "finish" =>
        IF job.reuse THEN job.clock = LoadTune(job.fp).clock /\ chip.fp = job.fp
                     ELSE Clean(chip.layout) => chip.layout.clock = job.clock

Settled == Sought /\ Remembered /\ Published

\* The code's own exception to AchievedIsClosed: a layout slower than its design declares.
ClosedOrRefused ==
    quiet /\ verdict.result = "pass" /\ Clean(gds) =>
        achieved = gds.clock \/ SlowerThanDeclared(gds.clock, gds.built)

\* The tune state is what LoadTune reads.
LEMMA LoadTuneReads ==
  ASSUME NEW v \in Versions, tune' = tune \/ (~TuneFits(v) /\ tune' = Nothing)
  PROVE  LoadTune(v)' = LoadTune(v)
  BY DEF LoadTune, TuneFits

\* A saved clock is loaded again unless the design declares a faster one.
LEMMA SavedIsLoaded ==
  ASSUME NEW v \in Versions, NEW clock \in 1..MaxClock, clock >= Base(v),
         NEW recipe \in 0..MaxRecipe,
         tune' = [rtl |-> v, clock |-> clock, recipe |-> recipe]
  PROVE  Loaded(clock, v)'
  <1>1. tune' \in Tunes /\ tune' # Nothing /\ tune'.rtl = v /\ tune'.clock = clock
    BY DEF Tunes
  <1>2. Base(v) \in Nat /\ (Declared[v] > 0 => Base(v) = Declared[v]) /\ Declared[v] \in Nat
    BY BaseType DEF Base
  <1>3. QED
    BY <1>1, <1>2 DEF Loaded, LoadTune, TuneFits, SlowerThanDeclared

\* A run that leaves a clean layout where there was none made it, at its clock, and the
\* tuner sees nothing in it.
LEMMA CleanRun ==
  ASSUME NEW src, NEW clock, NEW layout \in After(src, clock), Clean(layout),
         ~Clean(chip.layout)
  PROVE  layout.clock = clock /\ Seen(layout) = {{}}
  <1>1. layout # chip.layout /\ layout.faults = {}
    BY DEF Clean
  <1>2. PICK f \in Faults : layout = [built |-> src, clock |-> clock, faults |-> f]
    BY <1>1 DEF After, Faults
  <1>3. QED
    BY <1>1, <1>2 DEF Seen, Clean

\* A job never starts faster than its design asks for.
LEMMA LoadTuneSlower ==
  ASSUME NEW v \in Versions, tune \in Tunes \cup {Nothing}
  PROVE  LoadTune(v).clock \in 1..MaxClock /\ LoadTune(v).clock >= Base(v)
  BY BaseType DEF LoadTune, TuneFits, Tunes

LEMMA StartSettled == ASSUME Typed, Settled, Start PROVE Settled'
  <1>1. PICK v \in Versions : v = rtl
    BY DEF Typed, TypeOK
  <1>2. /\ tune \in Tunes \cup {Nothing}
        /\ tune' = tune \/ (~TuneFits(v) /\ tune' = Nothing)
    BY <1>1 DEF Typed, TypeOK, Start, Prepare
  <1>3. LoadTune(v).clock >= Base(v) /\ LoadTune(v)' = LoadTune(v)
    BY <1>2, LoadTuneSlower, LoadTuneReads
  <1>4. /\ job'.at = IF Reusable(v) THEN "finish" ELSE "attempt"
        /\ job'.fp = v /\ job'.clock = LoadTune(v).clock /\ job'.reuse = Reusable(v)
    BY <1>1 DEF Start
  <1>5. /\ Reusable(v) => chip' = chip /\ chip.fp = v /\ Clean(chip.layout)
        /\ ~Reusable(v) => chip'.fp = Nothing /\ chip'.layout = Nothing
    BY <1>1 DEF Start, Prepare, Reusable, Clean, EmptyChip
  <1>6. Sought'
    BY <1>4, <1>5 DEF Sought, Clean, Working
  <1>7. Remembered'
    <2>1. tune' # Nothing => tune'.clock >= Base(tune'.rtl)
      BY <1>2, NothingAssumption DEF Settled, Remembered
    <2>2. job'.clock >= Base(job'.fp) /\ Loaded(job.clock, job.fp)'
      BY <1>3, <1>4 DEF Loaded
    <2>3. chip'.fp # Nothing /\ Clean(chip.layout)' => Loaded(chip.layout.clock, chip.fp)'
      <3>1. CASE chip' = chip /\ chip.fp = v
        BY <1>3, <3>1 DEF Loaded, Settled, Remembered, Clean, SlowerThanDeclared
      <3>2. QED
        BY <1>5, <3>1
    <2>4. QED
      BY <2>1, <2>2, <2>3 DEF Remembered
  <1>8. Published'
    BY <1>3, <1>4, <1>5 DEF Published
  <1>9. QED
    BY <1>6, <1>7, <1>8 DEF Settled

LEMMA StartFailsSettled == ASSUME Typed, Settled, StartFails PROVE Settled'
  <1>1. PICK v \in Versions : v = rtl
    BY DEF Typed, TypeOK
  <1>2. /\ tune \in Tunes \cup {Nothing}
        /\ tune' = tune \/ (~TuneFits(v) /\ tune' = Nothing)
    BY <1>1 DEF Typed, TypeOK, StartFails, Prepare
  <1>3. LoadTune(v)' = LoadTune(v)
    BY <1>2, LoadTuneReads
  <1>4. /\ (chip' = chip /\ chip.fp = v) \/ chip'.fp = Nothing
        /\ job'.at = "idle"
    BY <1>1 DEF StartFails, Prepare, Reusable, EmptyChip, End, Idle
  <1>5. tune' # Nothing => tune'.clock >= Base(tune'.rtl)
    BY <1>2, NothingAssumption DEF Settled, Remembered
  <1>6. chip'.fp # Nothing /\ Clean(chip.layout)' => Loaded(chip.layout.clock, chip.fp)'
    <2>1. CASE chip' = chip /\ chip.fp = v
      BY <1>3, <2>1 DEF Loaded, Settled, Remembered, Clean, SlowerThanDeclared
    <2>2. QED
      BY <1>4, <2>1
  <1>7. QED
    BY <1>4, <1>5, <1>6 DEF Settled, Sought, Remembered, Published, Working

\* The tuner goes on only without a clean layout.
LEMMA AttemptSettled == ASSUME Typed, Settled, Attempt PROVE Settled'
  <1>1. /\ job \in JobType /\ job.fp \in Versions /\ job.clock \in 1..MaxClock
        /\ chip \in ChipType /\ chip.fp = Nothing /\ ~job.reuse /\ ~Clean(chip.layout)
        /\ job.clock >= Base(job.fp) /\ Base(job.fp) \in Nat
    BY BaseType
       DEF Typed, TypeOK, JobTyped, Working, Attempt, JobType, ChipType, Settled, Sought, Remembered
  <1>2. PICK layout \in After(job.src, job.clock) : \E seen \in Seen(layout) :
          \E clock \in Relaxed(seen), recipe \in Climbed(seen) :
            Retune(layout, seen, clock, recipe)
    BY DEF Attempt
  <1>3. PICK seen \in Seen(layout) : \E clock \in Relaxed(seen), recipe \in Climbed(seen) :
            Retune(layout, seen, clock, recipe)
    BY <1>2
  <1>4. PICK clock \in Relaxed(seen), recipe \in Climbed(seen) :
            Retune(layout, seen, clock, recipe)
    BY <1>3
  <1>5. clock \in 1..MaxClock /\ clock >= Base(job.fp) /\ recipe \in 0..MaxRecipe
    BY <1>1 DEF Relaxed, Climbed, JobType
  <1>6. ~Clean(layout)
    <2>1. SUFFICES ASSUME Clean(layout) PROVE FALSE
      OBVIOUS
    <2>2. seen = {}
      BY <1>1, <2>1, CleanRun
    <2>3. clock = job.clock /\ recipe = job.recipe
      BY <2>2 DEF Relaxed, Climbed
    <2>4. QED
      BY <1>4, <2>3 DEF Retune
  <1>7. /\ chip'.fp = Nothing /\ chip'.layout = layout
        /\ job'.at \in {"attempt", "finish"} /\ job'.fp = job.fp /\ job'.clock = clock
        /\ ~job'.reuse
        /\ tune' = [rtl |-> job.fp, clock |-> clock, recipe |-> recipe]
    BY <1>1, <1>4 DEF Retune, JobType, ChipType, Attempt
  <1>8. Sought' /\ Published'
    <2>1. ~Clean(chip.layout)'
      BY <1>6, <1>7 DEF Clean
    <2>2. QED
      BY <1>7, <2>1 DEF Sought, Published
  <1>9. Remembered'
    <2>1. tune' # Nothing => tune'.clock >= Base(tune'.rtl)
      BY <1>5, <1>7
    <2>2. Loaded(clock, job.fp)'
      <3> DEFINE v == job.fp
      <3>1. \A w \in Versions : w = v => Loaded(clock, w)'
        BY <1>5, <1>7, SavedIsLoaded
      <3>2. QED
        BY <1>1, <1>7, <3>1 DEF Loaded
    <2>3. QED
      BY <1>5, <1>7, <2>1, <2>2 DEF Remembered, Loaded
  <1>10. QED
    BY <1>8, <1>9 DEF Settled

\* The last run makes a clean layout for the clock of the job, or leaves one that is not.
LEMMA LastAttemptSettled == ASSUME Typed, Settled, LastAttempt PROVE Settled'
  <1>1. /\ job \in JobType /\ chip \in ChipType /\ chip.fp = Nothing
        /\ ~job.reuse /\ ~Clean(chip.layout)
    BY DEF Typed, TypeOK, LastAttempt, JobType, ChipType, Settled, Sought, Working
  <1>2. PICK layout \in After(job.src, job.clock) : chip' = [chip EXCEPT !.layout = layout]
    BY DEF LastAttempt
  <1>3. Clean(layout) => layout.clock = job.clock
    BY <1>1, CleanRun
  <1>4. chip'.fp = Nothing /\ chip'.layout = layout
    BY <1>1, <1>2 DEF ChipType
  <1>5. job' = [job EXCEPT !.at = "finish"]
    BY DEF LastAttempt
  <1>6. /\ job'.at = "finish" /\ ~job'.reuse /\ job'.clock = job.clock /\ job'.fp = job.fp
        /\ tune' = tune
    BY <1>1, <1>5 DEF LastAttempt, JobType
  <1>7. Sought' /\ Published'
    BY <1>3, <1>4, <1>6 DEF Sought, Published, Clean
  <1>8. Remembered'
    BY <1>4, <1>6 DEF Settled, Remembered, Working, LastAttempt, Loaded, LoadTune, TuneFits,
                      SlowerThanDeclared
  <1>9. QED
    BY <1>7, <1>8 DEF Settled

\* A run that timed out leaves no clean layout.
LEMMA TimesOutSettled == ASSUME Typed, Settled, AttemptTimesOut PROVE Settled'
  <1>1. /\ job \in JobType /\ chip \in ChipType /\ chip.fp = Nothing
        /\ ~job.reuse /\ ~Clean(chip.layout)
    BY DEF Typed, TypeOK, AttemptTimesOut, JobType, ChipType, Settled, Sought, Working
  <1>2. chip'.fp = Nothing /\ ~Clean(chip'.layout)
    BY <1>1 DEF AttemptTimesOut, ChipType, Clean
  <1>3. job' = [job EXCEPT !.at = "finish", !.timeout = TRUE]
    BY DEF AttemptTimesOut
  <1>4. /\ job'.at = "finish" /\ ~job'.reuse /\ job'.clock = job.clock /\ job'.fp = job.fp
        /\ tune' = tune
    BY <1>1, <1>3 DEF AttemptTimesOut, JobType
  <1>5. Sought' /\ Published'
    BY <1>2, <1>4 DEF Sought, Published, Clean
  <1>6. Remembered'
    BY <1>2, <1>4 DEF Settled, Remembered, Working, AttemptTimesOut, Loaded, LoadTune, TuneFits,
                      SlowerThanDeclared
  <1>7. QED
    BY <1>5, <1>6 DEF Settled

LEMMA NotFoundSettled == ASSUME Typed, Settled, AttemptNotFound PROVE Settled'
  <1>1. /\ chip \in ChipType /\ ~Clean(chip.layout) /\ tune' = tune /\ job'.at = "idle"
    BY DEF Typed, TypeOK, AttemptNotFound, ChipType, Settled, Sought, End, Idle
  <1>2. ~Clean(chip'.layout)
    BY <1>1 DEF AttemptNotFound, ChipType, Clean
  <1>3. QED
    BY <1>1, <1>2 DEF Settled, Sought, Remembered, Published, Working, Clean

\* What is marked as finished is clean at the clock of the job, or not clean.
LEMMA FinishSettled == ASSUME Typed, Settled, Finish PROVE Settled'
  <1>1. chip \in ChipType /\ tune' = tune /\ job'.at = "idle"
    BY DEF Typed, TypeOK, Finish, ChipType, End, Idle
  <1>2. \/ chip' = chip
        \/ ~job.reuse /\ chip'.fp = job.fp /\ chip'.layout = chip.layout
    BY <1>1 DEF Finish, ChipType
  <1>3. chip'.fp # Nothing /\ Clean(chip.layout)' => Loaded(chip.layout.clock, chip.fp)'
    <2>1. CASE chip' = chip
      BY <1>1, <2>1 DEF Settled, Remembered, Loaded, LoadTune, TuneFits, SlowerThanDeclared, Clean
    <2>2. CASE ~job.reuse /\ chip'.fp = job.fp /\ chip'.layout = chip.layout
      <3>1. Loaded(job.clock, job.fp) /\ (Clean(chip.layout) => chip.layout.clock = job.clock)
        BY <2>2 DEF Finish, Settled, Remembered, Published, Working
      <3>2. QED
        BY <1>1, <2>2, <3>1 DEF Loaded, LoadTune, TuneFits, SlowerThanDeclared, Clean
    <2>3. QED
      BY <1>2, <2>1, <2>2
  <1>4. QED
    BY <1>1, <1>3 DEF Settled, Sought, Remembered, Published, Working

LEMMA StepSettled == Typed /\ Settled /\ [Next]_vars => Settled'
  <1> SUFFICES ASSUME Typed, Settled, [Next]_vars PROVE Settled'
    OBVIOUS
  <1>1. CASE \/ \E v \in Versions : Edit(v)
             \/ Simulate
             \/ UNCHANGED vars
    <2>1. UNCHANGED <<tune, chip, job>>
      BY <1>1 DEF Edit, Simulate, vars
    <2>2. QED
      BY <2>1 DEF Settled, Sought, Remembered, Published, Working, Clean, Loaded, LoadTune,
                  TuneFits, SlowerThanDeclared
  <1>2. CASE RunHarden
    BY <1>2, StartSettled, StartFailsSettled, AttemptSettled, LastAttemptSettled,
       TimesOutSettled, NotFoundSettled, FinishSettled DEF RunHarden
  <1>3. CASE Crash
    <2>1. job'.at = "idle" /\ UNCHANGED <<tune, chip>>
      BY <1>3 DEF Crash, Idle
    <2>2. QED
      BY <2>1 DEF Settled, Sought, Remembered, Published, Working, Clean, Loaded, LoadTune,
                  TuneFits, SlowerThanDeclared
  <1>4. QED
    BY <1>1, <1>2, <1>3 DEF Next

LEMMA InitSettled == Init => Settled
  BY DEF Init, Settled, Sought, Remembered, Published, Working, Idle, EmptyChip

\* A job publishes the clock of its layout; of a reused one only when the tune state gave
\* that clock back.
LEMMA FinishClosed == ASSUME Typed, Earned, Settled, Finish PROVE ClosedOrRefused'
  <1> SUFFICES ASSUME verdict'.result = "pass", Clean(gds')
               PROVE  achieved' = gds'.clock \/ SlowerThanDeclared(gds'.clock, gds'.built)
    BY DEF ClosedOrRefused, Clean, SlowerThanDeclared
  <1>1. /\ achieved' = job.clock /\ chip.layout # Nothing /\ gds' = chip.layout
        /\ Clean(chip.layout) /\ Working
    BY DEF Finish, End, Working
  <1>2. CASE ~job.reuse
    BY <1>1, <1>2 DEF Settled, Published, Finish
  <1>3. CASE job.reuse
    <2>1. job.clock = LoadTune(job.fp).clock /\ chip.fp = job.fp /\ job.fp \in Versions
      BY <1>1, <1>3 DEF Settled, Published, Finish, Typed, JobTyped
    <2>2. chip.fp # Nothing /\ chip.layout.built = chip.fp
      BY <1>1, <2>1 DEF Earned, ChipMarked
    <2>3. Loaded(chip.layout.clock, chip.fp)
      BY <1>1, <2>2 DEF Settled, Remembered
    <2>4. QED
      BY <1>1, <2>1, <2>2, <2>3 DEF Loaded
  <1>4. QED
    BY <1>2, <1>3

LEMMA StepClosed ==
  Typed /\ (quiet => Earned) /\ Settled /\ ClosedOrRefused /\ [Next]_vars => ClosedOrRefused'
  <1> SUFFICES ASSUME Typed, quiet => Earned, Settled, ClosedOrRefused, [Next]_vars
               PROVE  ClosedOrRefused'
    OBVIOUS
  <1>1. CASE Finish
    <2>1. quiet' = quiet
      BY <1>1 DEF Finish
    <2>2. CASE quiet
      BY <1>1, <2>2, FinishClosed
    <2>3. CASE ~quiet
      BY <2>1, <2>3 DEF ClosedOrRefused
    <2>4. QED
      BY <2>2, <2>3
  <1>2. CASE Start \/ StartFails \/ AttemptNotFound
    <2>1. verdict'.result # "pass"
      BY <1>2 DEF Start, StartFails, AttemptNotFound, End, NoVerdict
    <2>2. QED
      BY <2>1 DEF ClosedOrRefused
  <1>3. CASE \/ \E v \in Versions : Edit(v)
             \/ Simulate \/ Attempt \/ LastAttempt \/ AttemptTimesOut \/ Crash
             \/ UNCHANGED vars
    <2>1. UNCHANGED <<gds, achieved, verdict>>
      BY <1>3 DEF Edit, Simulate, Attempt, LastAttempt, AttemptTimesOut, Crash, vars
    <2>2. quiet' => quiet
      <3>1. CASE \E v \in Versions : Edit(v)
        BY <3>1 DEF Edit
      <3>2. CASE ~\E v \in Versions : Edit(v)
        BY <1>3, <3>2 DEF Simulate, Attempt, LastAttempt, AttemptTimesOut, Crash, vars
      <3>3. QED
        BY <3>1, <3>2
    <2>3. QED
      BY <2>1, <2>2 DEF ClosedOrRefused, Clean, SlowerThanDeclared
  <1>4. QED
    BY <1>1, <1>2, <1>3 DEF Next, RunHarden

LEMMA InitClosed == Init => ClosedOrRefused
  BY DEF Init, ClosedOrRefused, NoVerdict

\* The published clock is the one the clean layout was built for, unless that is slower
\* than the clock its design declares: only there does run_harden forget it.
THEOREM PublishedClosed == Spec => []ClosedOrRefused
  BY InitType, StepType, WorkspaceEarned, InitSettled, StepSettled, InitClosed, StepClosed,
     PTL DEF Spec

\* AchievedIsClosed holds of designs that leave the clock to the default: the clock the
\* tuner has relaxed survives reuse, crashes and timeouts.
THEOREM AchievedWhenUndeclared ==
  ASSUME \A v \in Versions : Declared[v] = 0 PROVE Spec => []AchievedIsClosed
  <1>1. Typed /\ (quiet => Earned) /\ ClosedOrRefused => AchievedIsClosed
    <2> SUFFICES ASSUME Typed, Earned, ClosedOrRefused,
                        quiet, verdict.result = "pass", gds.faults = {}
                 PROVE  achieved = gds.clock
      BY DEF AchievedIsClosed
    <2>1. gds \in Layout /\ gds # Nothing
      BY NothingAssumption DEF Typed, TypeOK, Earned, VerdictEarned
    <2>2. gds.built \in Versions
      BY <2>1 DEF Layout
    <2>3. ~SlowerThanDeclared(gds.clock, gds.built)
      BY <2>2 DEF SlowerThanDeclared
    <2>4. QED
      BY <2>1, <2>3 DEF ClosedOrRefused, Clean
  <1>2. QED
    BY <1>1, InitType, StepType, WorkspaceEarned, PublishedClosed, PTL DEF Spec

=============================================================================
