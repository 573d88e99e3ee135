---------------------------- MODULE DigestChain ----------------------------
(* The pure functions of rust/src/consumer.rs that build and check the digest *)
(* chain: compute_batch_hash, compute_digest_signature, derive_key_id and     *)
(* verify_chain.  Cryptography is abstract: SHA-256 over the sorted,          *)
(* length-prefixed ids is the multiset of the ids, and an HMAC tag is the     *)
(* term of what was signed and the key that signed it.  A row holds the tag   *)
(* as text, in hex digits whose letters may be of either case.                *)
EXTENDS Integers, Sequences, FiniteSets

CONSTANTS
    EventId,              \* event ids (UUID v4 hex)
    Key,                  \* HMAC keys an operator may configure
    KeyLength,            \* length in bytes of each key
    ZeroKey,              \* the keys that hold only zero bytes
    KeyId,                \* key ids (first 8 hex digits of SHA-256(key))
    KeyIdOf,              \* the id of each key; two keys may share one
    DIGEST_GENESIS_HASH,  \* no batch hash: 64 hex digits never start with "provii"
    NotHex                \* a text that does not decode as hex

MIN_DIGEST_KEY_LENGTH == 32

BatchHash == [EventId -> Nat]

Hash == BatchHash \cup {DIGEST_GENESIS_HASH}

Tag == [key : Key, batch_hash : Hash, previous_hash : Hash, key_id : KeyId]

(* A tag in hex; "other" stands for every spelling with a capital letter. *)
HexText == [bytes : Tag, letters : {"lower", "other"}]

DigestEntry == [batch_hash       : Hash,
                previous_hash    : Hash,
                digest_signature : HexText \cup {NotHex},
                key_id           : KeyId]

ASSUME ChainAssumption == /\ IsFiniteSet(EventId)
                          /\ KeyLength \in [Key -> Nat]
                          /\ ZeroKey \subseteq Key
                          /\ KeyIdOf \in [Key -> KeyId]
                          /\ NotHex \notin Tag \cup HexText
----------------------------------------------------------------------------

(* A key is usable when it is long enough and not all zeros. *)
validate_digest_key(hmac_key) ==
    /\ KeyLength[hmac_key] >= MIN_DIGEST_KEY_LENGTH
    /\ hmac_key \notin ZeroKey

derive_key_id(key) == KeyIdOf[key]

Multiplicity(ids, e) == Cardinality({i \in DOMAIN ids : ids[i] = e})

(* Sorting forgets the order of the ids and keeps how often each occurs. *)
compute_batch_hash(ids) == [e \in EventId |-> Multiplicity(ids, e)]

(* Faulty variant: the key id is not among what is signed. *)
hmac_without_key_id(hmac_key, batch_hash, previous_hash, key_id) ==
    [key           |-> hmac_key,
     batch_hash    |-> batch_hash,
     previous_hash |-> previous_hash,
     key_id        |-> CHOOSE id \in KeyId : TRUE]

hmac(hmac_key, batch_hash, previous_hash, key_id) ==
    [key           |-> hmac_key,
     batch_hash    |-> batch_hash,
     previous_hash |-> previous_hash,
     key_id        |-> key_id]

(* hex::encode writes lower case. *)
hex_encode(tag) == [bytes |-> tag, letters |-> "lower"]

(* hex::decode reads either case: several texts hold the same tag. *)
hex_decode(text) == IF text = NotHex THEN NotHex ELSE text.bytes

(* Defined for the keys that pass validate_digest_key; for the others the code *)
(* returns HmacKeyError, which the callers below treat as an action of its own. *)
compute_digest_signature(batch_hash, previous_hash, hmac_key, key_id) ==
    hex_encode(hmac(hmac_key, batch_hash, previous_hash, key_id))
----------------------------------------------------------------------------
(* The outcomes of verify_chain.  Indices are zero-based, as in the code.     *)

Valid(n) == [verdict |-> "Valid", entries_verified |-> n]

Invalid(idx, batch_hash) == [verdict              |-> "Invalid",
                             first_mismatch_index |-> idx,
                             batch_hash           |-> batch_hash]

Error(kind) == [verdict |-> "Err", error |-> kind]

(* Faulty variant: an entry links to its predecessor's signature. *)
PreviousSignature(entries, i) ==
    IF i = 1 THEN DIGEST_GENESIS_HASH ELSE entries[i - 1].digest_signature

(* The hash entry i must link to. *)
PreviousHash(entries, i) ==
    IF i = 1 THEN DIGEST_GENESIS_HASH ELSE entries[i - 1].batch_hash

Linked(entries, i) == entries[i].previous_hash = PreviousHash(entries, i)

Signed(entries, hmac_key, i) ==
    hex_decode(entries[i].digest_signature)
        = hmac(hmac_key, entries[i].batch_hash, entries[i].previous_hash,
               entries[i].key_id)

Intact(entries, hmac_key, i) ==
    Linked(entries, i) /\ Signed(entries, hmac_key, i)

Faults(entries, hmac_key) == {i \in DOMAIN entries : ~Intact(entries, hmac_key, i)}

FirstFault(entries, hmac_key) ==
    CHOOSE i \in Faults(entries, hmac_key) :
        \A j \in Faults(entries, hmac_key) : i <= j

(* What the first faulty entry is reported as. *)
FaultVerdict(entries, i) ==
    IF Linked(entries, i) /\ hex_decode(entries[i].digest_signature) = NotHex
    THEN Error("FieldValidationError")
    ELSE Invalid(i - 1, entries[i].batch_hash)

(* Faulty variant: the last fault is reported, not the first. *)
verify_chain_last(entries, hmac_key) ==
    LET bad == Faults(entries, hmac_key)
    IN  IF bad = {} THEN Valid(Len(entries))
        ELSE FaultVerdict(entries, CHOOSE i \in bad : \A j \in bad : i >= j)

(* The verdict on a chain: what the loop of verify_chain computes (module     *)
(* ChainVerifier has the loop itself).                                        *)
verify_chain(entries, hmac_key) ==
    IF entries = <<>> THEN Valid(0)
    ELSE IF ~validate_digest_key(hmac_key) THEN Error("HmacKeyError")
    ELSE IF Faults(entries, hmac_key) = {} THEN Valid(Len(entries))
    ELSE FaultVerdict(entries, FirstFault(entries, hmac_key))
============================================================================
