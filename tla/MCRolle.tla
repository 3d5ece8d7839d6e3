------------------------------ MODULE MCRolle ------------------------------
\* A small instance of the Rollen.
EXTENDS RolleRegister, TLC

CONSTANTS l1, l2, n1, n2, k1, k2, r1, r2

MCSymmetry == Permutations({n1, n2}) \cup Permutations({k1, k2}) \cup Permutations({r1, r2})
=============================================================================
