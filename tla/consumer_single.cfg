\* One worker, two events (one may be unprocessable), an unusable key.
SPECIFICATION FairSpec
CONSTANTS
    EventId = {e1, e2, bad}
    Unprocessable = {bad}
    Refused = {bad}
    Worker = {w1}
    Key = {k1, short}
    short = short
    Copied = {e1}
    KeyId = {k1, short}
    KeyLength <- MCKeyLength
    ZeroKey <- MCZeroKey
    KeyIdOf <- MCKeyIdOf
    DIGEST_GENESIS_HASH = GENESIS
    NotHex = NotHex
    MaxBatch = 2
    MaxDeliveries = 2
    MaxCopies <- MCMaxCopies
    MaxLate = 0
INVARIANTS
    TypeOK
    NoEventLost
    AckedIsCovered
    CoveredIsStored
    ChainVerifies
PROPERTY
    EveryEventSettles
