SPECIFICATION FairSpec
CONSTANTS
    i1 = i1
    i2 = i2
    x1 = x1
    x2 = x2
    Imports = {i1, i2}
    Items = {x1, x2}
    MaxBreaks = 1
    MaxRequests = 4
    Schools = {"s1", "s2"}
    SchoolOf <- MCSchoolOf
    Overlap = FALSE
INVARIANTS
    StatusTellsItems
    ImportedAtSchool
    SuccessHasPerson
PROPERTY ExecutionEnds
CHECK_DEADLOCK FALSE
