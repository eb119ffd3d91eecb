--------------------------------- MODULE Export ---------------------------------
(***************************************************************************)
(* What the last two stages say of the layout: the three hardening stages     *)
(* write their reports, SIGNOFF sums them up (run_signoff, collect_evidence)  *)
(* and EXPORT writes the paper (run_export in                                 *)
(* agent-service/agents/stage_handlers.py, with reporting/): the mathematics  *)
(* and the related work are authored, the evidence is collected, the diagrams *)
(* and the paper are typeset, and a plain PDF is the fallback.  The files of  *)
(* one export are still there when the next one runs.                         *)
(*                                                                           *)
(* A hardening job that fails is repeated before the flow goes on and writes  *)
(* its report again: only the jobs that complete are modelled.                *)
(***************************************************************************)
EXTENDS Naturals, Sequences

CONSTANTS
    Reworks,   \* bound: the RTL is changed after an export
    Exports,   \* bound: runs of EXPORT that a user asks for
    MaxCrashes \* bound: restarts of agent-service

VARIABLES
    design,  \* the version of the RTL, from 1
    layout,  \* the layout in exports/harden: which RTL it is of, and its checks
    reports, \* reports/<stage>_report.json
    summary, \* reports/signoff_summary.md
    notes,   \* which of module_math.json and related_work.json are written
    ctx,     \* the evidence collected by this run
    figures, \* exports/diagrams.pdf: the RTL it draws
    pages,   \* whether this run includes its pages
    tex,     \* exports/final_report.tex
    pdf,     \* exports/final_report.pdf
    answer,  \* which PDFs the stage declares
    pc, export, crashes

files == <<layout, reports, summary, notes, figures, tex, pdf>>
vars == <<design, files, ctx, pages, answer, pc, export, crashes>>

Order == <<"SYNTH", "PNR", "DRC_LVS">>
Harden == {Order[i] : i \in DOMAIN Order}
Checks == {"quiet", "clean", "failed", "unmeasured"}
Clean == {"quiet", "clean"}
Notes == {"math", "related"}
None == "none"
NoRtl == 0

\* Mutant: the evidence is collected before anything is authored.
FollowedEarly ==
    [SYNTH |-> "PNR", PNR |-> "DRC_LVS", DRC_LVS |-> "signoff", signoff |-> "collect",
     collect |-> "math", math |-> "related", related |-> "figures", figures |-> "paper",
     paper |-> "pass 1"]
\* What comes after a step.
Followed ==
    [SYNTH |-> "PNR", PNR |-> "DRC_LVS", DRC_LVS |-> "signoff", signoff |-> "math",
     math |-> "related", related |-> "collect", collect |-> "figures", figures |-> "paper",
     paper |-> "pass 1"]
Go == pc' = Followed[pc]

NoReport == [ready |-> FALSE, failed |-> FALSE]
NoEvidence == [math |-> FALSE, related |-> FALSE, ready |-> FALSE, failed |-> FALSE]
NoTex == [math |-> FALSE, related |-> FALSE, ready |-> FALSE, figures |-> NoRtl, now |-> FALSE]
NoPdf == [by |-> None, now |-> FALSE, whole |-> FALSE]
NoAnswer == [ieee |-> FALSE, plain |-> FALSE]

Init ==
    /\ design = 1 /\ layout = [of |-> NoRtl, checks |-> "failed"]
    /\ reports = [s \in Harden |-> NoReport] /\ summary = NoReport
    /\ notes \in {{}, {"math"}}
    /\ ctx = NoEvidence /\ figures = NoRtl /\ pages = FALSE
    /\ tex = NoTex /\ pdf = NoPdf /\ answer = NoAnswer
    /\ pc = "SYNTH" /\ export = 1 /\ crashes = 0

-----------------------------------------------------------------------------
\* A run of this RTL with nothing to object to in any corner is used again.
Reusable == layout = [of |-> design, checks |-> "quiet"]

HardenJob ==
    /\ pc \in Harden
    /\ \E c \in Checks :
          layout' = IF Reusable THEN layout ELSE [of |-> design, checks |-> c]
    /\ reports' = [reports EXCEPT ![pc] = [ready |-> layout'.checks \in Clean,
                                           failed |-> layout'.checks = "failed"]]
    /\ Go
    /\ UNCHANGED <<design, summary, notes, ctx, figures, pages, tex, pdf, answer, export, crashes>>

\* Mutant: the first report that has the checks is kept.
FailedChecksFirst == reports[Head(Order)].failed
\* The reports are read in the order of the stages: the last one's checks stand.
FailedChecks == reports[Order[Len(Order)]].failed
\* A layout any of the reports calls ready makes the design ready.
Ready == \E s \in Harden : reports[s].ready

Signoff ==
    /\ pc = "signoff"
    /\ summary' = [ready |-> Ready, failed |-> FailedChecks]
    /\ Go
    /\ UNCHANGED <<design, layout, reports, notes, ctx, figures, pages, tex, pdf, answer, export,
                   crashes>>

-----------------------------------------------------------------------------
(* run_export *)

\* An agent writes what is missing, if there is one and it does not fail.
Author ==
    /\ pc \in Notes
    /\ \E written \in SUBSET {pc} : notes' = notes \cup written
    /\ Go
    /\ UNCHANGED <<design, layout, reports, summary, ctx, figures, pages, tex, pdf, answer, export,
                   crashes>>

Collect ==
    /\ pc = "collect"
    /\ ctx' = [math |-> "math" \in notes, related |-> "related" \in notes,
               ready |-> Ready, failed |-> FailedChecks]
    /\ Go
    /\ UNCHANGED <<design, files, pages, answer, export, crashes>>

\* pdflatex is not there or is killed, and then may have begun a file; or it ends, with a
\* file or without.  compile_figures looks whether the file is there.
CompileFigures ==
    /\ pc = "figures"
    /\ \/ pages' = FALSE /\ figures' \in {figures, design}
       \/ pages' = TRUE /\ figures' = design
       \/ pages' = (figures # NoRtl) /\ UNCHANGED figures
    /\ Go
    /\ UNCHANGED <<design, layout, reports, summary, notes, ctx, tex, pdf, answer, export, crashes>>

\* The source of the paper; a report that cannot be written is left out.
GenerateLatex ==
    /\ pc = "paper"
    /\ \/ /\ tex' = [math |-> ctx.math, related |-> ctx.related, ready |-> ctx.ready,
                     figures |-> IF pages THEN figures ELSE NoRtl, now |-> TRUE]
          /\ Go
       \/ pc' = "plain" /\ UNCHANGED tex
    /\ UNCHANGED <<design, layout, reports, summary, notes, ctx, figures, pages, pdf, answer, export,
                   crashes>>

Written(whole) == pdf' = [by |-> "ieee", now |-> TRUE, whole |-> whole]

\* Mutant: a compiler that was killed is no reason to give up.
KilledGoesOn ==
    /\ pc \in {"pass 1", "pass 2"}
    /\ Written(FALSE) \/ UNCHANGED pdf
    /\ pc' = "result"
    /\ UNCHANGED <<design, layout, reports, summary, notes, ctx, figures, pages, tex, answer, export,
                   crashes>>
\* pdflatex is missing, or killed in either pass: the paper is given up.
Killed ==
    /\ pc \in {"pass 1", "pass 2"}
    /\ Written(FALSE) \/ UNCHANGED pdf
    /\ pc' = "plain"
    /\ UNCHANGED <<design, layout, reports, summary, notes, ctx, figures, pages, tex, answer, export,
                   crashes>>
\* It ends, whatever its return code, with a file or with none.
Pass ==
    /\ pc \in {"pass 1", "pass 2"}
    /\ Written(TRUE) \/ UNCHANGED pdf
    /\ pc' = IF pc = "pass 1" THEN "pass 2" ELSE "result"
    /\ UNCHANGED <<design, layout, reports, summary, notes, ctx, figures, pages, tex, answer, export,
                   crashes>>

\* Mutant: the plain layout is made in any case.
ResultThenPlain ==
    /\ pc = "result"
    /\ answer' = [answer EXCEPT !.ieee = pdf.by # None]
    /\ pc' = "plain"
    /\ UNCHANGED <<design, files, ctx, pages, export, crashes>>
\* compile_pdf looks whether there is a PDF beside the source.
Result ==
    /\ pc = "result"
    /\ answer' = [answer EXCEPT !.ieee = pdf.by # None]
    /\ pc' = IF pdf.by # None THEN "done" ELSE "plain"
    /\ UNCHANGED <<design, files, ctx, pages, export, crashes>>

\* generate_pdf writes the same file, or nothing at all.
GeneratePdf ==
    /\ pc = "plain"
    /\ \/ pdf' = [by |-> "plain", now |-> TRUE, whole |-> TRUE] /\ answer' = [answer EXCEPT !.plain = TRUE]
       \/ UNCHANGED <<pdf, answer>>
    /\ pc' = "done"
    /\ UNCHANGED <<design, layout, reports, summary, notes, ctx, figures, pages, tex, export, crashes>>

-----------------------------------------------------------------------------
\* What is on disk is now of an earlier run; a compiler that was running leaves a torn file.
Afresh ==
    /\ ctx' = NoEvidence /\ pages' = FALSE /\ answer' = NoAnswer
    /\ tex' = [tex EXCEPT !.now = FALSE]
    /\ \/ pdf' = [pdf EXCEPT !.now = FALSE]
       \/ pc \in {"pass 1", "pass 2"} /\ pdf' = [by |-> "ieee", now |-> FALSE, whole |-> FALSE]

\* A user retries a stage, and all that follow it run again; or has the design reworked.
Again ==
    /\ pc = "done" /\ export < Exports /\ export' = export + 1
    /\ \/ pc' \in Harden \cup {"signoff", "math"} /\ UNCHANGED design
       \/ pc' = "SYNTH" /\ design <= Reworks /\ design' = design + 1
    /\ Afresh
    /\ UNCHANGED <<layout, reports, summary, notes, figures, crashes>>

\* agent-service restarts in EXPORT, and the orchestrator dispatches the stage again.
Crash ==
    /\ pc \notin Harden \cup {"signoff", "done"}
    /\ crashes < MaxCrashes /\ crashes' = crashes + 1
    /\ pc' = "math" /\ Afresh
    /\ UNCHANGED <<design, layout, reports, summary, notes, figures, export>>

Typeset == CompileFigures \/ GenerateLatex \/ Killed \/ Pass \/ Result \/ GeneratePdf
Step == HardenJob \/ Signoff \/ Author \/ Collect \/ Typeset
Next == Step \/ Again \/ Crash

Spec == Init /\ [][Next]_vars

-----------------------------------------------------------------------------
\* The variables keep their types.
TypeOK ==
    /\ design \in 1..Reworks + 1 /\ layout \in [of : 0..Reworks + 1, checks : Checks]
    /\ reports \in [Harden -> [ready : BOOLEAN, failed : BOOLEAN]]
    /\ summary \in [ready : BOOLEAN, failed : BOOLEAN] /\ notes \subseteq Notes
    /\ ctx \in [math : BOOLEAN, related : BOOLEAN, ready : BOOLEAN, failed : BOOLEAN]
    /\ figures \in 0..Reworks + 1 /\ pages \in BOOLEAN
    /\ tex \in [math : BOOLEAN, related : BOOLEAN, ready : BOOLEAN,
                figures : 0..Reworks + 1, now : BOOLEAN]
    /\ pdf \in [by : {None, "ieee", "plain"}, now : BOOLEAN, whole : BOOLEAN]
    /\ answer \in [ieee : BOOLEAN, plain : BOOLEAN]
    /\ export \in 1..Exports /\ crashes \in 0..MaxCrashes

AtEnd == pc = "done"

\* The failed checks SIGNOFF lists are those of the layout that is delivered, though each of
\* the three stages may have hardened it anew.
FailedAreOfLayout == pc = "math" => (summary.failed <=> layout.checks = "failed")

\* stage_handlers.py:3313-3314: what is authored is in the paper of the same run.
AuthoredIsInPaper ==
    AtEnd /\ tex.now => tex.math = ("math" \in notes) /\ tex.related = ("related" \in notes)

\* stage_handlers.py:3343-3348: the plain layout never replaces a paper this run delivers.
PlainIsFallback == AtEnd /\ answer.ieee => ~answer.plain /\ (pdf.now => pdf.by = "ieee")

\* A PDF this run wrote and declares is complete, though a compiler may have been killed while
\* it wrote the file.
DeclaredIsWhole == AtEnd /\ pdf.now /\ (answer.ieee \/ answer.plain) => pdf.whole

-----------------------------------------------------------------------------
(* What the comments claim and the code does not keep *)

\* harden_runner.py:989: tapeout_ready is of a layout whose checks are clean, so a design is
\* not called ready when the layout it delivers fails them.
ReadyIsOfLayout == pc = "math" /\ summary.ready => layout.checks \in Clean

\* stage_handlers.py:3091: DRC/LVS clean is a finding, not the lack of one.
CleanIsMeasured == pc = "math" /\ ~summary.failed => layout.checks \in Clean

\* latex_report.py:928-930: compile_pdf returns None when the compile produced nothing.
PaperIsOfThisExport == AtEnd /\ answer.ieee => pdf.now /\ pdf.by = "ieee"

\* diagrams.py:525-526: figures are omitted when nothing could be built.
FiguresAreOfRtl == AtEnd /\ tex.now => tex.figures \in {NoRtl, design}
=============================================================================
