\* One worker, two usable keys: the chain after a key rotation.
SPECIFICATION Spec
CONSTANTS
    EventId = {e1, e2}
    Unprocessable = {}
    Refused = {}
    Worker = {w1}
    Key = {k1, k2}
    short = short
    Copied = {}
    KeyId = {k1, k2}
    KeyLength <- MCKeyLength
    ZeroKey <- MCZeroKey
    KeyIdOf <- MCKeyIdOf
    DIGEST_GENESIS_HASH = GENESIS
    NotHex = NotHex
    MaxBatch = 1
    MaxDeliveries = 2
    MaxCopies <- MCMaxCopies
    MaxLate = 0
INVARIANT
    SegmentsVerify
