SPECIFICATION Spec
CONSTANTS
    l1 = l1
    l2 = l2
    s1 = s1
    c1 = c1
    c2 = c2
    c3 = c3
    Clients = {c1, c2, c3}
    CronCalls = {"cron"}
    Deletions = {"d"}
    Keys = {l1}
    RollenartOf <- MCRollenartOf
    BefristungPflicht = {l1}
    Fristen = {"never", "past"}
    Unbefristet = "never"
    Vergangen = {"past"}
    Abgelaufen = {"past"}
    Faults = {"delete", "insert", "save", "remove"}
    MaxParallel = 2
CONSTRAINT MCFourAct
SYMMETRY MCClientSymmetry
INVARIANTS
    ValidatedSawAll
    BefristungKept
    NoSilentKontext
CHECK_DEADLOCK FALSE
