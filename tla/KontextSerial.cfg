SPECIFICATION FairSpec
CONSTANTS
    l1 = l1
    l2 = l2
    s1 = s1
    c1 = c1
    c2 = c2
    c3 = c3
    Clients = {c1, c2}
    CronCalls = {}
    Deletions = {"d"}
    Keys = {l1, l2, s1}
    RollenartOf <- MCRollenartOf
    BefristungPflicht = {}
    Fristen = {"never"}
    Unbefristet = "never"
    Vergangen = {}
    Abgelaufen = {}
    Faults = {"delete", "insert"}
    MaxParallel = 1
INVARIANTS
    OrgUnassignmentDateCorrect
    SameRollenart
PROPERTIES
    RefinesRegister
    CallsEnd
CHECK_DEADLOCK FALSE
