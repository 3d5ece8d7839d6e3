----------------------------- MODULE MCAccounts -----------------------------
\* Small instances of persons and their accounts.
EXTENDS PersonAccounts, TLC

CONSTANTS p1, p2, r1, r2, meier, Meier, meiEr

\* Two names are alike to who decides about a new username, and a third, which is
\* not, makes the same one.
MCBaseOf == [n \in Names |-> "ameier"]
MCFormOf == [n \in Names |-> IF n = meiEr THEN "mei-er" ELSE "meier"]

MCSymmetry == Permutations({p1, p2}) \cup Permutations({r1, r2}) \cup Permutations({meier, Meier})
=============================================================================
