SPECIFICATION FairPersonsSpec
CONSTANTS
    Kontexte <- MCKontexte
    Serving = {"lehr", "leit", "admin"}
    RankOf <- MCRankOf
    MaxEvents = 2
    MaxSyncs = 1
    MaxRefusals = 1
INVARIANTS
    SoundAgrees
PROPERTY QueueDrains
CHECK_DEADLOCK FALSE
