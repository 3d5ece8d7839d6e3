SPECIFICATION Spec
CONSTANTS
    l1 = l1
    l2 = l2
    n1 = n1
    n2 = n2
    k1 = k1
    k2 = k2
    r1 = r1
    r2 = r2
    Rollen = {l1}
    NewIds = {l2}
    Names = {n1, n2}
    Knoten = {k1, k2}
    Merkmale = {"BEFRISTUNG_PFLICHT"}
    Pflicht = "BEFRISTUNG_PFLICHT"
    Rechte = {"ROLLEN_VERWALTEN"}
    Angebote = {"email"}
    Requests = {r1, r2}
    MaxCalls = 2
    DatabaseFails = TRUE
SYMMETRY MCSymmetry
INVARIANTS
    BefristungAlone
    NamesUniqueAlone
    ToldAlone
PROPERTIES
    ChangesOnlyWhatItNames
CHECK_DEADLOCK FALSE
