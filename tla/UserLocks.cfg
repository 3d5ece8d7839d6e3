SPECIFICATION FairLocksSpec
CONSTANTS
    Calls = {"r1", "r2"}
    Crons = {"k1", "k2"}
    Overlap = FALSE
INVARIANTS
    LockedIffDisabled
PROPERTY ExpiredLocksGo
CHECK_DEADLOCK FALSE
