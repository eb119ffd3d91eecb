------------------------------ MODULE GoldenProofs ------------------------------
(***************************************************************************)
(* Theorems about the golden model's stage: for every number of repair     *)
(* rounds and every sequence of workspaces an agent may leave, a human is  *)
(* never asked to approve a model that fails its own tests, and what the   *)
(* gate shows beside the model is about the model that is there.           *)
(***************************************************************************)
EXTENDS GoldenGen, TLAPS

Items == {"models", "tests", "stale dump", "manifest", "preview", "dump", "docs"}

(* Lemmas about the operators of the module *)

\* A verdict has its type, whatever the suite does and however it is run.
LEMMA VerdictType ==
    ASSUME NEW w \in Workspaces, pytest \in BOOLEAN
    PROVE  VerdictOn(w) \in Verdicts
BY DEF VerdictOn, Verdicts, NoVerdict, PytestVerdict, ScriptVerdict, Workspaces, AllWorkspaces

\* The pictures drawn by the stage leave everything else of a workspace alone, and show
\* the dump where it can be drawn.
LEMMA RenderedType ==
    ASSUME NEW w \in Workspaces
    PROVE  /\ Rendered(w) \in Workspaces
           /\ Rendered(w).models = w.models /\ Rendered(w).suite = w.suite
           /\ Rendered(w).scripts = w.scripts /\ Rendered(w).dump = w.dump
           /\ Rendered(w).docs = w.docs /\ Rendered(w).manifest = w.manifest
           /\ Rendered(w).drawable = w.drawable
           /\ w.drawable => Rendered(w).picture = "dump"
BY DEF Rendered, Workspaces, AllWorkspaces

\* The manifest written at the end is all that changes after the last check.
LEMMA SummarizedType ==
    ASSUME NEW w \in Workspaces
    PROVE  /\ Summarized(w) \in Workspaces
           /\ Summarized(w).models = w.models /\ Summarized(w).suite = w.suite
           /\ Summarized(w).scripts = w.scripts /\ Summarized(w).dump = w.dump
           /\ Summarized(w).docs = w.docs /\ Summarized(w).picture = w.picture
           /\ Summarized(w).drawable = w.drawable
           /\ w.manifest = "tiered" => Summarized(w).manifest = "tiered"
BY DEF Summarized, Workspaces, AllWorkspaces

\* A verdict only depends on what neither the pictures nor the manifest change.
LEMMA VerdictOfSuite ==
    ASSUME NEW w, NEW x, w.suite = x.suite, w.scripts = x.scripts
    PROVE  VerdictOn(w) = VerdictOn(x)
BY DEF VerdictOn, ScriptVerdict

\* So a step that keeps those, and pytest, keeps the verdict.
LEMMA VerdictKept ==
    ASSUME pytest' = pytest, ws'.suite = ws.suite, ws'.scripts = ws.scripts
    PROVE  VerdictOn(ws)' = VerdictOn(ws)
<1>1. VerdictOn(ws)' = VerdictOn(ws')
    BY Zenon DEF VerdictOn
<1>2. VerdictOn(ws') = VerdictOn(ws)
    BY VerdictOfSuite
<1> QED BY <1>1, <1>2

-----------------------------------------------------------------------------
(* Types *)

LEMMA InitTyped == Init => TypeOK
<1> SUFFICES ASSUME Init PROVE TypeOK
    OBVIOUS
<1>1. ws \in Workspaces
    BY DEF Init, Empty, Workspaces, AllWorkspaces, Suites
<1>2. tests \in Verdicts
    BY DEF Init, NoVerdict, Verdicts
<1>3. rounds \in 0 .. RepairRounds
    BY RoundsAssumption DEF Init
<1> QED BY <1>1, <1>2, <1>3 DEF Init, TypeOK

LEMMA NextTyped == TypeOK /\ [Next]_vars => TypeOK'
<1> SUFFICES ASSUME TypeOK, [Next]_vars PROVE TypeOK'
    OBVIOUS
<1>0. NoVerdict \in Verdicts
    BY DEF NoVerdict, Verdicts
<1>1. CASE Start
    BY <1>1 DEF Start, TypeOK
<1>2. CASE AgentPass
    BY <1>2, <1>0 DEF AgentPass, TypeOK
<1>3. CASE ProviderRefuses
    BY <1>3 DEF ProviderRefuses, TypeOK
<1>4. CASE CheckWorkspace
    <2>1. ws' \in Workspaces
        BY <1>4, RenderedType DEF CheckWorkspace, TypeOK
    <2>2. tests' \in Verdicts
        BY <1>4, VerdictType DEF CheckWorkspace, TypeOK
    <2>3. gaps' \subseteq Items
        BY <1>4 DEF CheckWorkspace, GapsOf, Items
    <2> QED BY <1>4, <2>1, <2>2, <2>3 DEF CheckWorkspace, TypeOK, Items
<1>5. CASE Repair
    <2>1. rounds' \in 0 .. RepairRounds
        <3>1. rounds \in 0 .. RepairRounds /\ rounds < RepairRounds /\ rounds' = rounds + 1
            BY <1>5 DEF Repair, TypeOK
        <3> QED BY <3>1, RoundsAssumption
    <2> QED BY <1>5, <2>1 DEF Repair, TypeOK
<1>6. CASE Conclude
    BY <1>6, SummarizedType DEF Conclude, TypeOK
<1>7. CASE Template
    <2> DEFINE made == [ws EXCEPT
                           !.models = TRUE,
                           !.suite = IF @ \in {"failing", "passing"} THEN @ ELSE "passing",
                           !.dump = IF @ = "absent" THEN @ ELSE "older"]
    <2>1. made \in Workspaces
        <3>1. ws \in AllWorkspaces
            BY DEF TypeOK, Workspaces
        <3>2. (made.scripts => made.suite = "failing") /\ (made.dump = "absent" => ~made.drawable)
            BY <3>1 DEF AllWorkspaces, TypeOK, Workspaces
        <3>3. made \in AllWorkspaces
            BY <3>1 DEF AllWorkspaces, Suites
        <3> QED BY <3>2, <3>3 DEF Workspaces
    <2>2. ws' \in Workspaces
        BY <1>7, <2>1, SummarizedType DEF Template
    <2>3. tests' \in Verdicts
        BY <1>7, <2>2, VerdictType DEF Template, TypeOK
    <2> QED BY <1>7, <2>2, <2>3 DEF Template, TypeOK
<1>8. CASE Rerun
    <2>1. rounds' \in 0 .. RepairRounds
        BY <1>8, RoundsAssumption DEF Rerun
    <2>2. output' \in BOOLEAN
        BY <1>8, Zenon DEF Rerun, TypeOK
    <2> QED BY <1>8, <1>0, <2>1, <2>2 DEF Rerun, TypeOK
<1>9. CASE UNCHANGED vars
    BY <1>9 DEF vars, TypeOK
<1> QED BY <1>1, <1>2, <1>3, <1>4, <1>5, <1>6, <1>7, <1>8, <1>9 DEF Next

\* TypeOK holds for every number of repair rounds.
THEOREM TypeCorrect == Spec => []TypeOK
BY InitTyped, NextTyped, PTL DEF Spec

-----------------------------------------------------------------------------
(* The gate *)

\* What is known while the gaps are being judged: the verdict and the gaps are those of the
\* workspace that is there, and what can be drawn is.
Checked ==
    phase = "check" =>
        /\ deep /\ current /\ tests = VerdictOn(ws)
        /\ gaps = GapsOf(ws, tests)
        /\ ws.drawable => ws.picture = "dump"

\* Only the deep agent's passes lead to the check, only runs without it to the template.
RightWay ==
    /\ phase \in {"agent", "test"} => deep
    /\ phase = "template" => ~deep

GateInv ==
    /\ TypeOK /\ RightWay /\ Checked
    /\ VerdictIsCurrent /\ FailingModelIsRefused /\ PictureIsOfDump /\ EarlyGateIsComplete

LEMMA InitGate == Init => GateInv
BY InitTyped DEF Init, GateInv, RightWay, Checked, VerdictIsCurrent, FailingModelIsRefused,
                 PictureIsOfDump, EarlyGateIsComplete

\* The step that opens the gate after the agent's passes.
LEMMA ConcludeGate ==
    ASSUME GateInv, Conclude PROVE GateInv'
<1> USE DEF Conclude
<1>1. TypeOK'
    BY NextTyped DEF Next, GateInv
<1>2. CASE Refused(ws, tests)
    BY <1>1, <1>2 DEF GateInv, RightWay, Checked, VerdictIsCurrent, FailingModelIsRefused,
                      PictureIsOfDump, EarlyGateIsComplete
<1>3. CASE ~Refused(ws, tests)
    <2>1. /\ phase' = "gate" /\ ws' = Summarized(ws) /\ ws \in Workspaces
          /\ deep' = deep /\ current' = current /\ tests' = tests /\ rounds' = rounds
          /\ pytest' = pytest /\ output' = output
          /\ deep /\ current /\ tests = VerdictOn(ws) /\ gaps = GapsOf(ws, tests)
          /\ ws.drawable => ws.picture = "dump"
        BY <1>3 DEF GateInv, TypeOK, Checked
    <2>2. /\ ws'.models = ws.models /\ ws'.suite = ws.suite /\ ws'.scripts = ws.scripts
          /\ ws'.dump = ws.dump /\ ws'.docs = ws.docs /\ ws'.picture = ws.picture
          /\ ws'.drawable = ws.drawable
          /\ ws.manifest = "tiered" => ws'.manifest = "tiered"
        BY <2>1, SummarizedType
    <2>3. VerdictIsCurrent'
        <3>1. VerdictOn(ws)' = VerdictOn(ws)
            BY <2>1, <2>2, VerdictKept
        <3> QED BY <2>1, <3>1 DEF VerdictIsCurrent
    <2>4. FailingModelIsRefused'
        <3>1. ws.suite = "failing" /\ pytest => tests.ran /\ tests.failed
            BY <2>1 DEF VerdictOn, PytestVerdict
        <3> QED BY <1>3, <2>1, <2>2, <3>1 DEF Refused, FailingModelIsRefused
    <2>5. PictureIsOfDump'
        BY <2>1, <2>2 DEF PictureIsOfDump
    <2>6. EarlyGateIsComplete'
        <3>1. rounds < RepairRounds => gaps = {}
            <4>1. (gaps = {} \/ rounds = RepairRounds) /\ rounds \in 0 .. RepairRounds
                BY DEF GateInv, TypeOK
            <4> QED BY <4>1, RoundsAssumption
        <3>2. gaps = {} => /\ ws.models /\ ws.docs /\ ws.manifest = "tiered"
                           /\ ws.dump # "older" /\ (output => ws.dump # "absent")
            <4> SUFFICES ASSUME GapsOf(ws, tests) = {}
                         PROVE  /\ ws.models /\ ws.docs /\ ws.manifest = "tiered"
                                /\ ws.dump # "older" /\ (output => ws.dump # "absent")
                BY <2>1
            <4>1. /\ "models" \notin GapsOf(ws, tests) /\ "docs" \notin GapsOf(ws, tests)
                  /\ "manifest" \notin GapsOf(ws, tests)
                  /\ "stale dump" \notin GapsOf(ws, tests)
                  /\ "dump" \notin GapsOf(ws, tests)
                OBVIOUS
            <4> QED BY <4>1 DEF GapsOf
        <3>3. ws.dump \in {"absent", "older", "newer"}
            BY <2>1 DEF Workspaces, AllWorkspaces
        <3> QED BY <2>1, <2>2, <3>1, <3>2, <3>3 DEF EarlyGateIsComplete
    <2> QED BY <1>1, <2>1, <2>3, <2>4, <2>5, <2>6 DEF GateInv, RightWay, Checked
<1> QED BY <1>2, <1>3

LEMMA NextGate == GateInv /\ [Next]_vars => GateInv'
<1> SUFFICES ASSUME GateInv, [Next]_vars PROVE GateInv'
    OBVIOUS
<1>0. TypeOK'
    BY NextTyped DEF GateInv
<1> USE DEF GateInv, RightWay, Checked, VerdictIsCurrent, FailingModelIsRefused,
            PictureIsOfDump, EarlyGateIsComplete
<1>1. CASE Start
    BY <1>0, <1>1 DEF Start
<1>2. CASE AgentPass
    BY <1>0, <1>2 DEF AgentPass
<1>3. CASE ProviderRefuses
    BY <1>0, <1>3 DEF ProviderRefuses
<1>4. CASE CheckWorkspace
    <2>1. /\ phase' = "check" /\ deep' /\ current' /\ ws' = Rendered(ws)
          /\ tests' = VerdictOn(ws) /\ gaps' = GapsOf(Rendered(ws), tests')
          /\ pytest' = pytest /\ output' = output /\ ws \in Workspaces
        BY <1>4 DEF CheckWorkspace, TypeOK
    <2>2. VerdictOn(ws)' = VerdictOn(ws)
        <3>1. ws'.suite = ws.suite /\ ws'.scripts = ws.scripts
            BY <2>1, RenderedType
        <3> QED BY <2>1, <3>1, VerdictKept
    <2>3. gaps' = GapsOf(ws, tests)'
        BY <2>1 DEF GapsOf
    <2>4. ws'.drawable => ws'.picture = "dump"
        BY <2>1, RenderedType
    <2> QED BY <1>0, <2>1, <2>2, <2>3, <2>4
<1>5. CASE Repair
    BY <1>0, <1>5 DEF Repair
<1>6. CASE Conclude
    BY <1>6, ConcludeGate
<1>7. CASE Template
    <2>1. phase' = "gate" /\ ~deep' /\ current' /\ tests' = VerdictOn(ws)'
        BY <1>7 DEF Template, VerdictOn, ScriptVerdict
    <2> QED BY <1>0, <2>1
<1>8. CASE Rerun
    BY <1>0, <1>8 DEF Rerun
<1>9. CASE UNCHANGED vars
    BY <1>0, <1>9 DEF vars, VerdictOn, ScriptVerdict, GapsOf
<1> QED BY <1>1, <1>2, <1>3, <1>4, <1>5, <1>6, <1>7, <1>8, <1>9 DEF Next

THEOREM GateCorrect == Spec => []GateInv
BY InitGate, NextGate, PTL DEF Spec

\* The numbers shown at the gate are those of the models and tests on disk
\* (run_golden_gen runs the tests after every pass).
THEOREM VerdictCurrent == Spec => []VerdictIsCurrent
BY GateCorrect, PTL DEF GateInv

\* A model whose suite fails is never handed to the gate by a run of the deep agent.
THEOREM FailingRefused == Spec => []FailingModelIsRefused
BY GateCorrect, PTL DEF GateInv

\* The picture at the gate is drawn by the stage from the dump, over what the agent has
\* drawn there, whenever the dump can be drawn (_render_golden_previews).
THEOREM PictureHonest == Spec => []PictureIsOfDump
BY GateCorrect, PTL DEF GateInv

\* A gate that opens before the repairs are used up lacks no deliverable.
THEOREM EarlyGateComplete == Spec => []EarlyGateIsComplete
BY GateCorrect, PTL DEF GateInv

-----------------------------------------------------------------------------
(* The end of a run *)

Ended == phase \in {"gate", "failed"}

\* What a run still has before it: the repair passes that are left, four steps each, and
\* the steps of the present one.
Place == CASE phase = "start" -> 4
           [] phase \in {"agent", "template"} -> 3
           [] phase = "test" -> 2
           [] phase = "check" -> 1
           [] OTHER -> 0
Left == 4 * (RepairRounds - rounds) + Place

LEMMA LeftCounts == TypeOK => Left \in Nat
<1> SUFFICES ASSUME TypeOK PROVE Left \in Nat
    OBVIOUS
<1>1. Place \in 0 .. 4
    BY DEF Place
<1>2. RepairRounds \in Nat /\ rounds \in 0 .. RepairRounds
    BY RoundsAssumption DEF TypeOK
<1> QED BY <1>1, <1>2 DEF Left

\* A step ahead within a pass, or the first step of the next one.
LEMMA StepSpends == TypeOK /\ ~Ended /\ Next => Left' < Left
<1> SUFFICES ASSUME TypeOK, ~Ended, Next PROVE Left' < Left
    OBVIOUS
<1>1. RepairRounds \in Nat /\ rounds \in Nat /\ rounds <= RepairRounds
    <2>1. rounds \in 0 .. RepairRounds
        BY DEF TypeOK
    <2> QED BY <2>1, RoundsAssumption
<1>2. CASE Repair
    <2>1. Place = 1 /\ Place' = 3 /\ rounds' = rounds + 1
        BY <1>2 DEF Repair, Place
    <2> QED BY <1>1, <2>1 DEF Left
<1>3. CASE Start \/ AgentPass \/ ProviderRefuses \/ CheckWorkspace \/ Conclude \/ Template
    <2>1. rounds' = rounds
        BY <1>3 DEF Start, AgentPass, ProviderRefuses, CheckWorkspace, Conclude, Template
    <2>2. Place \in 1 .. 4 /\ Place' \in 0 .. 4 /\ Place' < Place
        <3>1. CASE Start
            BY <3>1 DEF Start, Place
        <3>2. CASE AgentPass
            BY <3>2 DEF AgentPass, Place
        <3>3. CASE ProviderRefuses
            BY <3>3 DEF ProviderRefuses, Place
        <3>4. CASE CheckWorkspace
            BY <3>4 DEF CheckWorkspace, Place
        <3>5. CASE Conclude
            BY <3>5 DEF Conclude, Place
        <3>6. CASE Template
            BY <3>6 DEF Template, Place
        <3> QED BY <1>3, <3>1, <3>2, <3>3, <3>4, <3>5, <3>6
    <2>3. Place \in Nat /\ Place' \in Nat /\ Place' < Place
        BY <2>2
    <2>4. 4 * (RepairRounds - rounds) \in Nat
        BY <1>1
    <2>5. Left = 4 * (RepairRounds - rounds) + Place /\ Left' = 4 * (RepairRounds - rounds) + Place'
        BY <2>1 DEF Left
    <2> QED BY <2>3, <2>4, <2>5
<1>4. ~Rerun
    BY DEF Rerun, Ended
<1> QED BY <1>2, <1>3, <1>4 DEF Next

\* A run of the stage is bounded, whatever agents leave behind and tests say: each step
\* before the gate or the failure spends what is left of it (run_golden_gen: a repair pass
\* is paid for with a round).
THEOREM RunSpends == Spec => [](Left \in Nat) /\ [][~Ended => Left' < Left]_vars
<1>1. Spec => [](Left \in Nat)
    BY TypeCorrect, LeftCounts, PTL
<1>2. TypeOK /\ [Next]_vars => [~Ended => Left' < Left]_vars
    BY StepSpends
<1> QED BY <1>1, <1>2, TypeCorrect, PTL DEF Spec

===============================================================================
