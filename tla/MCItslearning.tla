---------------------------- MODULE MCItslearning ----------------------------
\* Small instances of one person in itslearning.
EXTENDS ItslearningPersons, TLC

Kontext(orga, rolle) == [orga |-> orga, rolle |-> rolle]

\* The head of a school who also teaches a Klasse, may have a Rolle without
\* itslearning there, and administers another school.
MCKontexte == {Kontext(School, "leit"), Kontext(School, "ohne"), Kontext(SchoolKlasse, "lehr"),
               Kontext(Other, "admin")}
MCRankOf == ("lehr" :> 3) @@ ("ohne" :> 3) @@ ("leit" :> 4) @@ ("admin" :> 5)
=============================================================================
