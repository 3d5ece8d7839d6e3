--------------------------- MODULE MCOrganisation ---------------------------
\* Small instances of the schools, their Klassen and their groups.
EXTENDS ItslearningGroups

CONSTANTS s1, k1, k2, n1, n2, r1, r2

MCSymmetry ==
    Permutations({k1, k2}) \cup Permutations({n1, n2}) \cup Permutations({r1, r2})
=============================================================================
