\* Two workers, a late row, two usable keys.
SPECIFICATION Spec
CONSTANTS
    EventId = {e1, e2}
    Unprocessable = {}
    Refused = {}
    Worker = {w1, w2}
    Key = {k1, k2}
    short = short
    Copied = {}
    KeyId = {k1, k2}
    KeyLength <- MCKeyLength
    ZeroKey <- MCZeroKey
    KeyIdOf <- MCKeyIdOf
    DIGEST_GENESIS_HASH = GENESIS
    NotHex = NotHex
    MaxBatch = 2
    MaxDeliveries = 2
    MaxCopies <- MCMaxCopies
    MaxLate = 1
INVARIANTS
    NoEventLost
    AckedIsCovered
    CoveredIsStored
    InvalidBlamesRace
PROPERTY
    BreakIsPermanent
SYMMETRY Symmetry
