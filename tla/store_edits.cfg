\* Three events, one key, every edit of one row of audit_events.
SPECIFICATION Spec
CONSTANTS
    k1 = k1
    hmac_key = k1
    EventId = {e1, e2, e3}
    Text = {t1, t2}
    Key = {k1}
    KeyId = {k1}
    KeyLength <- MCKeyLength
    ZeroKey <- MCZeroKey
    KeyIdOf <- MCKeyIdOf
    DIGEST_GENESIS_HASH = GENESIS
    NotHex = NotHex
INVARIANT
    EditIsNoticed
