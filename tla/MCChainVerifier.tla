-------------------------- MODULE MCChainVerifier --------------------------
(* Every chain of at most MaxEntries entries over two batches, with every link *)
(* (right, wrong, skipping) and five kinds of signature: the right tag under    *)
(* either key, in lower case or not, the tag of another entry, and text that   *)
(* is not hex.                                                                *)
EXTENDS ChainVerifier

CONSTANTS e1, k1, k2, short, zero, id1, id2, MaxEntries

MCEventId == {e1}
MCKey == {k1, k2, short, zero}
MCKeyLength == [k \in MCKey |-> IF k = short THEN 31 ELSE 32]
MCZeroKey == {zero}
MCKeyId == {id1, id2}
MCKeyIdOf == [k \in MCKey |-> id1]

MCBatchHash == {compute_batch_hash(ids) : ids \in {<<e1>>, <<e1, e1>>}}

Honest(key, batch_hash, previous_hash) ==
    [batch_hash       |-> batch_hash,
     previous_hash    |-> previous_hash,
     digest_signature |-> compute_digest_signature(batch_hash, previous_hash, key, id1),
     key_id           |-> id1]

MCEntries ==
    LET honest == {Honest(key, b, p) :
                      key \in {k1, k2}, b \in MCBatchHash,
                      p \in MCBatchHash \cup {DIGEST_GENESIS_HASH}}
        other == compute_digest_signature(compute_batch_hash(<<>>),
                                          DIGEST_GENESIS_HASH, k1, id1)
    IN  honest \cup {[r EXCEPT !.digest_signature.letters = "other"] : r \in honest}
            \cup {[r EXCEPT !.digest_signature = s] :
                     r \in honest, s \in {other, NotHex}}

MCChains == UNION {[1..n -> MCEntries] : n \in 0..MaxEntries}
============================================================================
