SPECIFICATION FairSpec
CONSTANTS
    Event = {e1, e2, e3}
    Sweep = {s1, s2}
    RETENTION_BATCH_SIZE = 1
    Budget = 2
    RetentionPeriod = 1
    QueueLife = 1
    MaxTime = 4
    MaxAborts = 1
INVARIANTS
    TypeOK
    PurgedStaysAway
    NothingBehindSweep
PROPERTIES
    NoEarlyDelete
    ExpiredIsDeleted
