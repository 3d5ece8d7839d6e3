----------------------------- MODULE MCTokens ------------------------------
\* A small instance of persons with second factors.
EXTENDS TokenRegister, TLC

CONSTANTS p1, p2, u1, u2, u3, r1, r2, s1, s2

MCSymmetry ==
    Permutations({p1, p2}) \cup Permutations({u1, u2, u3}) \cup Permutations({r1, r2})
        \cup Permutations({s1, s2})
=============================================================================
