SPECIFICATION Spec
CONSTANTS
    s1 = s1
    k1 = k1
    k2 = k2
    n1 = n1
    n2 = n2
    r1 = r1
    r2 = r2
    Schools = {s1}
    NewIds = {k1, k2}
    Names = {n1, n2}
    Parents = {"ersatz", "traeger"}
    Requests = {r1, r2}
    MaxCalls = 3
    MaxFailures = 1
SYMMETRY MCSymmetry
INVARIANTS
    NamesUniqueAlone
    MirrorAlone
PROPERTIES
    UpdatesWhatItRead
    MoveKeepsBranch
CHECK_DEADLOCK FALSE
