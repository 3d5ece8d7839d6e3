------------------------------ MODULE MCImport ------------------------------
\* Two imports, into two schools.
EXTENDS ImportWorkflow, TLC

CONSTANTS i1, i2, x1, x2

MCSchoolOf == (i1 :> "s1") @@ (i2 :> "s2")
=============================================================================
