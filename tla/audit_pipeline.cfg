\* Two calls of log_event by any of four requests, one worker.
SPECIFICATION FairSpec
CONSTANTS
    r1 = r1
    r2 = r2
    r3 = r3
    r4 = r4
    u1 = u1
    u2 = u2
    k1 = k1
    Request = {r1, r2, r3, r4}
    Uuid = {u1, u2}
    Submission <- MCSubmission
    MaxAttempts = 2
    MaxCalls = 2
    Worker = {w1}
    MaxBatch = 2
    MaxDeliveries = 2
    MaxLate = 0
    MaxCopies <- MCMaxCopies
    Key = {k1}
    KeyId = {k1}
    KeyLength <- MCKeyLength
    ZeroKey <- MCZeroKey
    KeyIdOf <- MCKeyIdOf
    DIGEST_GENESIS_HASH = GENESIS
    NotHex = NotHex
INVARIANTS
    TypeOK
    CoveredIsStored
    StoredAsLogged
    DeadLetterExplained
PROPERTY
    ImplementsAuditLog
