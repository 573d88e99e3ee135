--------------------------- MODULE ChainVerifier ---------------------------
(* The loop of verify_chain in rust/src/consumer.rs, one step per iteration,  *)
(* run over every chain of the constant Chains with every key.  DigestChain   *)
(* states the verdict declaratively; this module shows that the loop, with    *)
(* its early returns, returns exactly that verdict.                           *)
EXTENDS DigestChain

CONSTANT Chains           \* the slices of entries verify_chain may be given

ASSUME ChainsAssumption == Chains \subseteq Seq(DigestEntry)

VARIABLES
    entries, hmac_key,    \* the arguments
    pc,
    idx,                  \* entries walked so far: the code's idx
    expected_previous,
    result                \* the value returned, once pc = "done"

vars == <<entries, hmac_key, pc, idx, expected_previous, result>>

Unreturned == [verdict |-> "none"]

Init ==
    /\ entries \in Chains
    /\ hmac_key \in Key
    /\ pc = "start"
    /\ idx = 0
    /\ expected_previous = DIGEST_GENESIS_HASH
    /\ result = Unreturned
----------------------------------------------------------------------------

Return(verdict) ==
    /\ pc' = "done"
    /\ result' = verdict
    /\ UNCHANGED <<entries, hmac_key, idx, expected_previous>>

(* The empty slice is valid whatever the key. *)
ReturnEmpty ==
    /\ pc = "start"
    /\ entries = <<>>
    /\ Return(Valid(0))

RejectKey ==
    /\ pc = "start"
    /\ entries # <<>>
    /\ ~validate_digest_key(hmac_key)
    /\ Return(Error("HmacKeyError"))

EnterLoop ==
    /\ pc = "start"
    /\ entries # <<>>
    /\ validate_digest_key(hmac_key)
    /\ pc' = "walk"
    /\ UNCHANGED <<entries, hmac_key, idx, expected_previous, result>>

Entry == entries[idx + 1]

RecomputedTag ==
    hmac(hmac_key, Entry.batch_hash, Entry.previous_hash, Entry.key_id)

stored_tag == hex_decode(Entry.digest_signature)

Walking == pc = "walk" /\ idx < Len(entries)

LinkMismatch ==
    /\ Walking
    /\ Entry.previous_hash # expected_previous
    /\ Return(Invalid(idx, Entry.batch_hash))

RejectHex ==
    /\ Walking
    /\ Entry.previous_hash = expected_previous
    /\ stored_tag = NotHex
    /\ Return(Error("FieldValidationError"))

TagMismatch ==
    /\ Walking
    /\ Entry.previous_hash = expected_previous
    /\ stored_tag \notin {NotHex, RecomputedTag}
    /\ Return(Invalid(idx, Entry.batch_hash))

(* Faulty variant: expected_previous keeps its first value. *)
AdvanceFromGenesis ==
    /\ Walking
    /\ Entry.previous_hash = expected_previous
    /\ stored_tag = RecomputedTag
    /\ idx' = idx + 1
    /\ UNCHANGED <<entries, hmac_key, pc, expected_previous, result>>

(* Faulty variant: the signature is carried to the next entry, not the hash. *)
AdvanceBySignature ==
    /\ Walking
    /\ Entry.previous_hash = expected_previous
    /\ stored_tag = RecomputedTag
    /\ idx' = idx + 1
    /\ expected_previous' = Entry.digest_signature
    /\ UNCHANGED <<entries, hmac_key, pc, result>>

Advance ==
    /\ Walking
    /\ Entry.previous_hash = expected_previous
    /\ stored_tag = RecomputedTag
    /\ idx' = idx + 1
    /\ expected_previous' = Entry.batch_hash
    /\ UNCHANGED <<entries, hmac_key, pc, result>>

ReturnValid ==
    /\ pc = "walk"
    /\ idx = Len(entries)
    /\ Return(Valid(Len(entries)))

Returned == pc = "done" /\ UNCHANGED vars

Next ==
    \/ ReturnEmpty \/ RejectKey \/ EnterLoop
    \/ LinkMismatch \/ RejectHex \/ TagMismatch \/ Advance
    \/ ReturnValid
    \/ Returned

Spec == Init /\ [][Next]_vars
----------------------------------------------------------------------------

TypeOK ==
    /\ entries \in Seq(DigestEntry)
    /\ hmac_key \in Key
    /\ pc \in {"start", "walk", "done"}
    /\ idx \in 0..Len(entries)
    /\ expected_previous \in Hash

(* The loop invariant: every entry already passed links to its predecessor    *)
(* and carries the tag of the key, and expected_previous is the hash the next *)
(* entry must link to.                                                        *)
WalkedPrefixIntact ==
    pc = "walk" =>
        /\ entries # <<>>
        /\ validate_digest_key(hmac_key)
        /\ expected_previous = PreviousHash(entries, idx + 1)
        /\ \A i \in 1..idx : Intact(entries, hmac_key, i)

(* verify_chain returns the verdict on the first faulty entry, an error when   *)
(* that entry's signature does not decode, and Valid only when no entry is     *)
(* faulty: the early returns of the loop lose no later fault and report no     *)
(* entry before it.                                                            *)
ReturnsVerdict == pc = "done" => result = verify_chain(entries, hmac_key)

(* What verify_chain notices of a later edit of a chain it found valid: a      *)
(* batch_hash, previous_hash or key_id that is replaced; a digest_signature    *)
(* that is replaced by text that is not another spelling of it; a row taken    *)
(* out from among the others, or two neighbours exchanged, when their batch    *)
(* hashes are not those of the row before.  README.md:26 has it that "deleting *)
(* [...], reordering batches, or modifying field values" all break the chain.  *)
(* That is more than the loop can do: it does not notice a row taken from the  *)
(* end, a signature written in capital letters, or what becomes of the rows of *)
(* a batch that was digested twice in a row.                                   *)
EditsNoticed ==
    LET noticed(edited) == verify_chain(edited, hmac_key).verdict # "Valid"
        hash(n) == entries[n].batch_hash
        hashes == {hash(n) : n \in DOMAIN entries} \cup {DIGEST_GENESIS_HASH}
        texts == {entries[n].digest_signature : n \in DOMAIN entries}
        values == [batch_hash       |-> hashes,
                   previous_hash    |-> hashes,
                   digest_signature |-> {NotHex} \cup
                                            [bytes   : {text.bytes : text \in texts},
                                             letters : {"lower", "other"}],
                   key_id           |-> KeyId]
        respelt(n, field, v) ==
            field = "digest_signature"
                /\ hex_decode(v) = hex_decode(entries[n].digest_signature)
        without(n) == SubSeq(entries, 1, n - 1) \o SubSeq(entries, n + 1, Len(entries))
        exchanged(n) == [entries EXCEPT ![n] = entries[n + 1], ![n + 1] = entries[n]]
    IN  pc = "done" /\ result.verdict = "Valid" =>
            /\ \A n \in DOMAIN entries, field \in DOMAIN values :
                  \A v \in values[field] \ {entries[n][field]} :
                      ~respelt(n, field, v) =>
                          noticed([entries EXCEPT ![n][field] = v])
            /\ \A n \in 1..(Len(entries) - 1) :
                  /\ hash(n) # PreviousHash(entries, n) => noticed(without(n))
                  /\ {hash(n), hash(n + 1)} # {PreviousHash(entries, n)} =>
                        noticed(exchanged(n))
============================================================================
