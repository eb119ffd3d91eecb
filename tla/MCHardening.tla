------------------------------ MODULE MCHardening ------------------------------
(***************************************************************************)
(* Small instances of Hardening for TLC.                                   *)
(***************************************************************************)
EXTENDS Hardening

CONSTANTS plain, weights, clocked

\* weights differs from plain in a .mem file only; clocked is another design, one
\* that declares its clock in rtl/params.vh.
ThreeVersions == {plain, weights, clocked}
ThreeCode == [v \in ThreeVersions |-> IF v = clocked THEN clocked ELSE plain]
ThreeDeclared == [v \in ThreeVersions |-> IF v = clocked THEN 2 ELSE 0]
===============================================================================
