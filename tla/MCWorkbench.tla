----------------------------- MODULE MCWorkbench -----------------------------
(* A small instance of Workbench for TLC. *)
EXTENDS Workbench, TLC

CONSTANTS a, b, demo, a1, a2, b1, sample, file

MCStudyOf == (a1 :> a) @@ (a2 :> a) @@ (b1 :> b)

\* Study a may have no evidence yet, or two items; b has one.
MCEvidenceLists == (a :> {<< >>, <<a1, a2>>}) @@ (b :> {<<b1>>})
=============================================================================
