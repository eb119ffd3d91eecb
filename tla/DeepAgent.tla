------------------------------- MODULE DeepAgent -------------------------------
(***************************************************************************)
(* One session of a deep agent (agent-service/agents/deep_agent.py, _run_deep *)
(* of stage_handlers.py): the model sends messages with tool calls, the     *)
(* loop that reads them counts and stops it, the file tools write into the  *)
(* workspace and compile what they have written, and a session that said    *)
(* nothing is tried again.  The message is read before its call is made:    *)
(* the graph is a generator.  A message without a call ends the session, so *)
(* the guard that counts repeated texts without a call counts to one.       *)
(***************************************************************************)
EXTENDS Naturals

CONSTANTS
    MaxWrites, \* GARUDA_DEEP_MAX_WRITES_PER_PATH, 8 in the code
    MaxSame,   \* GARUDA_DEEP_MAX_SAME_CALL, 4 in the code
    MaxTurns,  \* messages in the recursion limit, 60 steps in the code
    Attempts   \* DEEP_EMPTY_RETRIES

VARIABLES
    phase,    \* where the session is
    compiler, \* iverilog is installed
    call,     \* the call of the last message
    disk,     \* the design and its testbench as they are on disk
    lastErr,  \* _LAST_WRITE_ERR: the text of the last write with an error
    lesson,   \* the last lesson remember_fix has stored, with what it replaced
    writes,   \* per path, the writes asked for
    calls,    \* per other call, how often it was asked for since the last write
    turns,    \* messages of this session
    said,     \* the transcript holds an assistant's text or a tool call
    attempt,  \* sessions tried
    refused,  \* history: the provider has refused
    unread    \* history: per other call, how often since a NEW path was written

vars == <<phase, compiler, call, disk, lastErr, lesson, writes, calls, turns, said,
          attempt, refused, unread>>
files == <<disk, lastErr, lesson>>
counts == <<writes, calls, unread>>

Files == {"dut", "tb"}
\* A design has an unpacked array as a port; a testbench writes the golden output itself
\* or loads a data file that does not exist; both may not compile.  legacy is a .sv path.
Texts(f) == IF f = "dut" THEN {"clean", "broken", "port"}
                         ELSE {"clean", "broken", "own golden", "no data"}
AllTexts == Texts("dut") \cup Texts("tb")
Counted == {"read", "move"} \X Files
Calls == {[tool |-> "write", file |-> f, text |-> t] : f \in Files, t \in AllTexts \cup {"legacy"}}
         \cup {[tool |-> t, file |-> f, text |-> "none"] :
                 t \in {"python", "read", "move"}, f \in Files}
Asked == {c \in Calls : c.tool = "write" => c.text \in Texts(c.file) \cup {"legacy"}}
NoCall == [tool |-> "none", file |-> "none", text |-> "none"]
NoLesson == [file |-> "none", broken |-> "none", fixed |-> "none", over |-> "none"]

-----------------------------------------------------------------------------
\* The data files a text loads exist (missing_data_report, find_data_file).
DataFound(t) == t # "no data"
\* check_file compiles a file alone and looks for its data files.
CheckFile(t) == compiler => t # "broken" /\ DataFound(t)
\* Mutant: the testbench is compiled alone, against stubs.
CheckTbAlone(t) == CheckFile(t)
\* check_tb compiles a testbench with the design it names, and looks for nothing then.
CheckTb(t) ==
    IF disk["dut"] = "absent" THEN CheckFile(t)
    ELSE compiler => t # "broken" /\ disk["dut"] # "broken"

\* What write_file_disk finds in the text it has written.
Verdict(f, t) ==
    IF t = "port" THEN "error"
    ELSE IF t = "own golden" THEN "contract"
    ELSE IF (f = "tb" /\ CheckTb(t)) \/ (f = "dut" /\ CheckFile(t)) THEN "clean"
    ELSE "error"

\* Mutant: the error is not taken off when a lesson is made of it.
WriteUncleared(f, t) ==
    /\ disk' = [disk EXCEPT ![f] = t]
    /\ lastErr' = IF Verdict(f, t) = "error" THEN [lastErr EXCEPT ![f] = t] ELSE lastErr
    /\ lesson' = IF Verdict(f, t) = "clean" /\ lastErr[f] # "none"
                 THEN [file |-> f, broken |-> lastErr[f], fixed |-> t, over |-> disk[f]]
                 ELSE lesson
\* The file is written first and judged then.
Write(f, t) ==
    /\ disk' = [disk EXCEPT ![f] = t]
    /\ CASE Verdict(f, t) = "error" ->
              lastErr' = [lastErr EXCEPT ![f] = t] /\ UNCHANGED lesson
         [] Verdict(f, t) = "contract" -> UNCHANGED <<lastErr, lesson>>
         [] OTHER ->
              /\ lastErr' = [lastErr EXCEPT ![f] = "none"]
              /\ lesson' = IF lastErr[f] = "none" THEN lesson
                           ELSE [file |-> f, broken |-> lastErr[f], fixed |-> t, over |-> disk[f]]

\* run_python and rename_file_disk leave any text under the name, delete_file_disk none.
Replace(f) ==
    /\ \E t \in Texts(f) \cup {"absent"} : disk' = [disk EXCEPT ![f] = t]
    /\ UNCHANGED <<lastErr, lesson>>

-----------------------------------------------------------------------------
Init ==
    /\ phase = "think" /\ compiler \in BOOLEAN
    /\ call = NoCall
    /\ disk = [f \in Files |-> "absent"]
    /\ lastErr = [f \in Files |-> "none"]
    /\ lesson = NoLesson
    /\ writes = [f \in Files |-> 0]
    /\ calls = [k \in Counted |-> 0] /\ unread = [k \in Counted |-> 0]
    /\ turns = 0 /\ said = FALSE /\ attempt = 1
    /\ refused = FALSE

\* A write clears the counts of the other calls, and so does run_python.
Count(c) ==
    /\ writes' = IF c.tool = "write" THEN [writes EXCEPT ![c.file] = @ + 1] ELSE writes
    /\ calls' = IF c.tool \in {"write", "python"} THEN [k \in Counted |-> 0]
                ELSE [calls EXCEPT ![<<c.tool, c.file>>] = @ + 1]

CountUnread(c) ==
    unread' = IF c.tool = "write"
              THEN IF writes[c.file] = 0 THEN [k \in Counted |-> 0] ELSE unread
              ELSE IF c.tool = "python" \/ unread[<<c.tool, c.file>>] = MaxSame THEN unread
              ELSE [unread EXCEPT ![<<c.tool, c.file>>] = @ + 1]

\* Mutant: the limits are passed and not reached.
SpinsLate(c) ==
    IF c.tool = "write" THEN writes'[c.file] > MaxWrites
    ELSE c.tool # "python" /\ calls'[<<c.tool, c.file>>] > MaxSame
\* The loop guards.
Spins(c) ==
    IF c.tool = "write" THEN writes'[c.file] >= MaxWrites
    ELSE c.tool # "python" /\ calls'[<<c.tool, c.file>>] >= MaxSame

Think ==
    /\ phase = "think" /\ turns < MaxTurns
    /\ \E c \in Asked :
         /\ call' = c
         /\ Count(c) /\ CountUnread(c)
         /\ phase' = IF Spins(c) THEN "over" ELSE "act"
    /\ turns' = turns + 1 /\ said' = TRUE
    /\ UNCHANGED <<compiler, files, attempt, refused>>

\* The call of the message is made.
Act ==
    /\ phase = "act"
    /\ phase' = "think"
    /\ IF call.tool = "write" /\ call.text # "legacy" THEN Write(call.file, call.text)
       ELSE IF call.tool \in {"python", "move"} THEN Replace(call.file)
       ELSE UNCHANGED files
    /\ UNCHANGED <<compiler, call, counts, turns, said, attempt, refused>>

\* A message without a call.
Conclude ==
    /\ phase = "think"
    /\ phase' = "over" /\ said' = TRUE
    /\ UNCHANGED <<compiler, call, files, counts, turns, attempt, refused>>

\* The recursion limit or another exception; the budget of the session, found when the
\* next message is there, which is not read; or an answer that holds no message.
Breaks ==
    /\ phase \in {"think", "act"}
    /\ phase' = "over"
    /\ UNCHANGED <<compiler, call, files, counts, turns, said, attempt, refused>>

\* Mutant: a refusal is an exception like the others.
RefusesQuietly ==
    /\ phase = "think"
    /\ phase' = "over" /\ refused' = TRUE
    /\ UNCHANGED <<compiler, call, files, counts, turns, said, attempt>>
\* The message of the exception names a provider's failure: DeepAgentProviderError.
Refuses ==
    /\ phase = "think"
    /\ phase' = "failed" /\ refused' = TRUE
    /\ UNCHANGED <<compiler, call, files, counts, turns, said, attempt>>

\* Mutant: an empty session is the result.
NextSessionNever ==
    /\ phase = "over"
    /\ phase' = "returned"
    /\ UNCHANGED <<compiler, call, files, counts, turns, said, attempt, refused>>
\* _run_deep: an empty transcript is tried again, and the last one is the result.
NextSession ==
    /\ phase = "over"
    /\ phase' = IF said \/ attempt = Attempts THEN "returned" ELSE "think"
    /\ attempt' = IF phase' = "think" THEN attempt + 1 ELSE attempt
    /\ writes' = [f \in Files |-> 0] /\ calls' = [k \in Counted |-> 0]
    /\ unread' = calls' /\ turns' = 0
    /\ UNCHANGED <<compiler, call, files, said, refused>>

Next == Think \/ Act \/ Conclude \/ Breaks \/ Refuses \/ NextSession

Spec == Init /\ [][Next]_vars

-----------------------------------------------------------------------------
\* The variables keep their types, and the counters the limits the guards set for them.
TypeOK ==
    /\ phase \in {"think", "act", "over", "returned", "failed"}
    /\ compiler \in BOOLEAN /\ said \in BOOLEAN /\ refused \in BOOLEAN
    /\ call \in Asked \cup {NoCall}
    /\ disk \in [Files -> AllTexts \cup {"absent"}]
    /\ lastErr \in [Files -> AllTexts \cup {"none"}]
    /\ lesson \in [file : Files \cup {"none"}, broken : AllTexts \cup {"none"},
                   fixed : AllTexts \cup {"none"}, over : AllTexts \cup {"none", "absent"}]
    /\ writes \in [Files -> 0..MaxWrites]
    /\ calls \in [Counted -> 0..MaxSame] /\ unread \in [Counted -> 0..MaxSame]
    /\ turns \in 0..MaxTurns
    /\ attempt \in 1..Attempts

\* A call that would be the MaxSame-th of its kind since the last write, or the
\* MaxWrites-th write of its path, is never made: the session is over before it.
SpinIsCut ==
    phase = "act" => /\ \A f \in Files : writes[f] < MaxWrites
                     /\ \A k \in Counted : calls[k] < MaxSame

\* A stage goes on with the result of a session that said nothing only when every
\* attempt was made, and never when the provider refused.
EmptyIsRetried == phase = "returned" => said \/ attempt = Attempts
RefusalFails == refused => phase = "failed"

\* A lesson is made by a write that compiles clean of a file whose last write was in
\* error: rewriting a clean file teaches nothing, and an error teaches once.
LessonsAreEarned ==
    [][lesson' # lesson => \E f \in Files : lastErr[f] # "none" /\ lastErr'[f] = "none"]_vars

\* A testbench accepted after the design it binds to has compiled: with a compiler, what
\* is remembered as an error of the testbench is never forgotten while the design is broken.
BenchIsBound ==
    [][compiler /\ lastErr["tb"] # "none" /\ lastErr'["tb"] = "none" => disk["dut"] # "broken"]_vars

-----------------------------------------------------------------------------
(* What the comments claim and the code does not keep *)

\* deep_agent.py: only a write of a NEW path clears the counts, a rewrite is no progress.
RewriteIsNoProgress == phase = "act" => \A k \in Counted : unread[k] < MaxSame
\* verilog_check.py:654-656: a testbench that loads a file that is not there is rejected
\* when it is written.
DataIsThere ==
    [][phase = "act" /\ compiler /\ call.tool = "write" /\ call.text = "no data" /\ phase' = "think"
        => lastErr'["tb"] # "none"]_vars
\* deep_agent.py: broken then clean is a real fix, so its lesson names two texts.
LessonIsFix == lesson.file # "none" => lesson.broken # lesson.fixed
=============================================================================
