------------------------------ MODULE MCEmail ------------------------------
\* One teacher whose Rolle is at up to two schools.
EXTENDS EmailLifecycle, TLC

CONSTANTS p1, p2

Kontext(school, rolle) == [school |-> school, rolle |-> rolle]

MCTwoSchools == {Kontext("A", "r1"), Kontext("B", "r1")}
=============================================================================
