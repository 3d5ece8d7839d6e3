SPECIFICATION Spec
CONSTANTS
    p1 = p1
    p2 = p2
    u1 = u1
    u2 = u2
    u3 = u3
    r1 = r1
    r2 = r2
    s1 = s1
    s2 = s2
    Persons = {p1, p2}
    Usernames = {u1, u2, u3}
    Software = {s1, s2}
    Hardware = {"h"}
    Requests = {r1, r2}
    Nobody = Nobody
    Lost = Lost
    MaxCalls = 3
    MaxTroubles = 1
SYMMETRY MCSymmetry
INVARIANTS
    TokensFollow
    OneToVerify
    DeletedLeaveNothing
PROPERTIES
    TakenByOwn
CHECK_DEADLOCK FALSE
