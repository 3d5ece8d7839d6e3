SPECIFICATION Spec
CONSTANTS
    p1 = p1
    p2 = p2
    m1 = m1
    m2 = m2
    Persons = {p1, p2}
    Kontexte <- MCSchools
    Mails = {m1, m2}
    Retries = 2
    MaxEvents = 2
    MaxTroubles = 1
SYMMETRY MCSymmetry
INVARIANTS
    LookupHolds
    CalmMirrors
    SyncMirrors
