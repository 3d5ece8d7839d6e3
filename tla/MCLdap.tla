------------------------------- MODULE MCLdap -------------------------------
EXTENDS LdapDirectory, TLC

CONSTANTS p1, p2, m1, m2

Kontext(school, art, rolle) == [school |-> school, art |-> art, rolle |-> rolle]

\* A teacher at two schools.
MCSchools == {Kontext("A", "LEHR", "r1"), Kontext("B", "LEHR", "r1")}

MCSymmetry == Permutations(Persons) \cup Permutations(Mails)
=============================================================================
