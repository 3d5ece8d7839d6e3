SPECIFICATION EmailSpec
CONSTANTS
    p1 = p1
    p2 = p2
    Persons = {p1}
    Kontexte <- MCTwoSchools
    MaxEvents = 2
    MaxFailures = 1
    MaxOverlaps = 0
INVARIANTS
    EmailTypeOK
    CalmServed
    DeletedDisabled
    OneEnabledAlone
