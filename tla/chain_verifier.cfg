\* verify_chain, the loop against its declarative verdict.
SPECIFICATION Spec
CONSTANTS
    e1 = e1
    k1 = k1
    k2 = k2
    short = short
    zero = zero
    id1 = id1
    id2 = id2
    DIGEST_GENESIS_HASH = GENESIS
    NotHex = NotHex
    EventId <- MCEventId
    Key <- MCKey
    KeyLength <- MCKeyLength
    ZeroKey <- MCZeroKey
    KeyId <- MCKeyId
    KeyIdOf <- MCKeyIdOf
    Chains <- MCChains
    MaxEntries = 3
INVARIANTS
    TypeOK
    WalkedPrefixIntact
    ReturnsVerdict
    EditsNoticed
