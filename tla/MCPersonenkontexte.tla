------------------------- MODULE MCPersonenkontexte -------------------------
\* Small instances of the update of one person's Personenkontexte.
EXTENDS PersonenkontexteSerial, TLC

CONSTANTS l1, l2, s1,   \* two kontexte of a LEHR rolle, one of a LERN rolle
          c1, c2, c3    \* the administrators' calls

MCRollenartOf == (l1 :> "LEHR") @@ (l2 :> "LEHR") @@ (s1 :> "LERN")

\* Administrators' calls are alike.
MCClientSymmetry == Permutations(Clients)

\* Bound: of the calls and the deletion any four happen.
MCFourAct == Cardinality({c \in Calls \cup Deletions : pc[c] # "idle"}) <= 4
=============================================================================
