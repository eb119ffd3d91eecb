----------------------------- MODULE RtlDirectory -----------------------------
(***************************************************************************)
(* The directory rtl/ of a workspace as the stages RTL_GEN and RTL_REPAIR  *)
(* read it (agent-service/agents/stage_handlers.py): _rtl_status,          *)
(* _rtl_hierarchy, _golden_ips_without_rtl, _rtl_structure_gaps and        *)
(* _planned_rtl_files.  A file is named after the module it should         *)
(* declare; its content is one of a few kinds the stages tell apart.       *)
(***************************************************************************)
EXTENDS Naturals, FiniteSets

CONSTANTS
    Modules,  \* names of modules, rtl/<name>.v each
    Top,      \* the top module of the task
    Serial    \* the modules whose name tells of a serial interface, uart_rx

ASSUME DirectoryAssumption ==
    /\ IsFiniteSet(Modules)
    /\ Top \in Modules
    /\ Serial \subseteq Modules

VARIABLE rtl  \* rtl/: what there is under each name

\* clean keeps every rule; broken does not compile; framed declares an array of 256
\* entries or more; wrong breaks another rule of structure (SystemVerilog, several
\* modules in a file, a register with two drivers); renamed declares its module under
\* another name.
Contents == {"clean", "broken", "framed", "wrong", "renamed"}
Directories == [Modules -> Contents \cup {"absent"}]

With(content, dir) == {m \in Modules : dir[m] = content}

\* The .v files, and the modules found declared in them.
Files(dir) == Modules \ With("absent", dir)
Declared(dir) == Files(dir) \ With("renamed", dir)

\* check_file of every file.
Broken(dir) == With("broken", dir)

\* Planned files nobody has written: a file is looked for by its name.
Missing(planned, dir) == planned \ Files(dir)

\* _golden_ips_without_rtl: a module of the contract is looked for in the declarations.
Unimplemented(contract, dir) == contract \ Declared(dir)

\* _serial_io_design: the brief, the contract or a file on disk tells of a serial port.
Streaming(contract, brief, dir) == brief \/ (contract \cup Files(dir)) \cap Serial # {}

\* _rtl_structure_gaps.  Without a contract a design of one file is a gap.
StructureGaps(contract, brief, dir) ==
    {gap \in {"frame buffers", "rules", "contract", "one file"} :
        \/ /\ gap = "frame buffers"
           /\ Streaming(contract, brief, dir) /\ With("framed", dir) # {}
        \/ gap = "rules" /\ With("wrong", dir) # {}
        \/ gap = "contract" /\ Unimplemented(contract, dir) # {}
        \/ gap = "one file" /\ contract = {} /\ Cardinality(Files(dir)) = 1}
===============================================================================
