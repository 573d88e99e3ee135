------------------------ MODULE ChainVerifierProofs ------------------------
(* verify_chain returns the declarative verdict on every chain and every key:  *)
(* the loop invariant WalkedPrefixIntact is inductive and, at each return,     *)
(* says which entry is the first faulty one.  And what the verdict notices of  *)
(* an edit to a chain it finds valid, or to the events that were digested.     *)
EXTENDS ChainVerifier, DigestChainProofs

(* verify_chain's variables keep their types. *)
THEOREM TypeCorrect == Spec => []TypeOK
<1>1. Init => TypeOK
  BY ChainsAssumption DEF Init, TypeOK, Hash
<1>2. TypeOK /\ [Next]_vars => TypeOK'
  <2> SUFFICES ASSUME TypeOK, [Next]_vars
               PROVE  TypeOK'
    OBVIOUS
  <2> USE DEF TypeOK, Return
  <2>1. CASE ReturnEmpty \/ RejectKey \/ EnterLoop \/ ReturnValid
    BY <2>1 DEF ReturnEmpty, RejectKey, EnterLoop, ReturnValid
  <2>2. CASE LinkMismatch \/ RejectHex \/ TagMismatch
    BY <2>2 DEF LinkMismatch, RejectHex, TagMismatch
  <2>3. CASE Advance
    <3>1. idx + 1 \in DOMAIN entries
      BY <2>3 DEF Advance, Walking
    <3>2. Entry.batch_hash \in Hash
      BY <3>1, EntryType DEF Entry
    <3> QED
      BY <2>3, <3>1, <3>2 DEF Advance, Walking
  <2>4. CASE UNCHANGED vars
    BY <2>4 DEF vars
  <2> QED
    BY <2>1, <2>2, <2>3, <2>4 DEF Next, Returned
<1> QED
  BY <1>1, <1>2, PTL DEF Spec
----------------------------------------------------------------------------

AtStart == pc = "start" => idx = 0 /\ expected_previous = DIGEST_GENESIS_HASH

LoopInv == WalkedPrefixIntact /\ ReturnsVerdict /\ AtStart

(* In the loop, the entry under examination is linked exactly when its         *)
(* previous_hash is expected_previous.                                         *)
LEMMA EntryUnderExamination ==
    ASSUME TypeOK, LoopInv, Walking
    PROVE  /\ idx + 1 \in DOMAIN entries
           /\ Entry = entries[idx + 1]
           /\ Linked(entries, idx + 1) <=> Entry.previous_hash = expected_previous
           /\ Signed(entries, hmac_key, idx + 1)
                  <=> stored_tag = RecomputedTag
           /\ \A j \in 1..idx : Intact(entries, hmac_key, j)
           /\ verify_chain(entries, hmac_key)
                  = IF Faults(entries, hmac_key) = {} THEN Valid(Len(entries))
                    ELSE FaultVerdict(entries, FirstFault(entries, hmac_key))
<1>1. idx + 1 \in DOMAIN entries
  BY DEF TypeOK, Walking
<1>2. entries # <<>> /\ validate_digest_key(hmac_key)
  BY DEF LoopInv, WalkedPrefixIntact, Walking
<1> QED
  BY <1>1, <1>2 DEF LoopInv, WalkedPrefixIntact, Walking, Entry, Linked, Signed,
                    RecomputedTag, stored_tag, verify_chain

(* An entry that is not intact ends the walk with the verdict on it. *)
LEMMA FaultEndsWalk ==
    ASSUME TypeOK, LoopInv, Walking, ~Intact(entries, hmac_key, idx + 1)
    PROVE  verify_chain(entries, hmac_key) = FaultVerdict(entries, idx + 1)
<1>1. idx \in Nat /\ (idx + 1) - 1 = idx
  BY DEF TypeOK
<1>2. FirstFault(entries, hmac_key) = idx + 1 /\ Faults(entries, hmac_key) # {}
  BY <1>1, EntryUnderExamination, FirstFaultUnique DEF TypeOK
<1> QED
  BY <1>2, EntryUnderExamination

(* A stored signature that does not decode is no tag. *)
LEMMA TagDecodes ==
    ASSUME TypeOK, Walking
    PROVE  RecomputedTag # NotHex
<1>1. idx + 1 \in DOMAIN entries
  BY DEF TypeOK, Walking
<1>2. Entry \in DigestEntry
  BY <1>1, EntryType DEF Entry, TypeOK
<1>3. RecomputedTag \in Tag
  BY <1>2 DEF RecomputedTag, hmac, Tag, DigestEntry, TypeOK
<1> QED
  BY <1>3, ChainAssumption

(* The invariant of the loop of verify_chain, with what each return says.      *)
LEMMA LoopInvariant == Spec => []LoopInv
<1>1. Init => LoopInv
  BY DEF Init, LoopInv, WalkedPrefixIntact, ReturnsVerdict, AtStart
<1>2. TypeOK /\ LoopInv /\ [Next]_vars => LoopInv'
  <2> SUFFICES ASSUME TypeOK, LoopInv, [Next]_vars
               PROVE  LoopInv'
    OBVIOUS
  <2> USE DEF LoopInv, WalkedPrefixIntact, ReturnsVerdict, AtStart, Return
  <2>1. CASE ReturnEmpty
    BY <2>1 DEF ReturnEmpty, verify_chain
  <2>2. CASE RejectKey
    BY <2>2 DEF RejectKey, verify_chain
  <2>3. CASE EnterLoop
    BY <2>3 DEF EnterLoop, PreviousHash
  <2>4. CASE LinkMismatch
    <3>1. ~Linked(entries, idx + 1)
      BY <2>4, EntryUnderExamination DEF LinkMismatch
    <3>2. verify_chain(entries, hmac_key) = FaultVerdict(entries, idx + 1)
      BY <2>4, <3>1, FaultEndsWalk DEF LinkMismatch, Intact
    <3>3. FaultVerdict(entries, idx + 1) = Invalid(idx, Entry.batch_hash)
      BY <3>1 DEF FaultVerdict, Entry, TypeOK
    <3> QED
      BY <2>4, <3>2, <3>3 DEF LinkMismatch
  <2>5. CASE RejectHex
    <3>1. /\ Linked(entries, idx + 1)
          /\ ~Signed(entries, hmac_key, idx + 1)
      BY <2>5, EntryUnderExamination, TagDecodes DEF RejectHex
    <3>2. verify_chain(entries, hmac_key) = FaultVerdict(entries, idx + 1)
      BY <2>5, <3>1, FaultEndsWalk DEF RejectHex, Intact
    <3>3. FaultVerdict(entries, idx + 1) = Error("FieldValidationError")
      BY <2>5, <3>1 DEF RejectHex, FaultVerdict, Entry, stored_tag
    <3> QED
      BY <2>5, <3>2, <3>3 DEF RejectHex
  <2>6. CASE TagMismatch
    <3>1. ~Signed(entries, hmac_key, idx + 1)
      BY <2>6, EntryUnderExamination DEF TagMismatch
    <3>2. verify_chain(entries, hmac_key) = FaultVerdict(entries, idx + 1)
      BY <2>6, <3>1, FaultEndsWalk DEF TagMismatch, Intact
    <3>3. FaultVerdict(entries, idx + 1) = Invalid(idx, Entry.batch_hash)
      BY <2>6 DEF TagMismatch, FaultVerdict, Entry, stored_tag, TypeOK
    <3> QED
      BY <2>6, <3>2, <3>3 DEF TagMismatch
  <2>7. CASE Advance
    <3>1. Intact(entries, hmac_key, idx + 1)
      BY <2>7, EntryUnderExamination DEF Advance, Intact
    <3>2. \A i \in 1..(idx + 1) : Intact(entries, hmac_key, i)
      BY <2>7, <3>1, EntryUnderExamination DEF Advance, TypeOK
    <3>3. Entry.batch_hash = PreviousHash(entries, idx + 2)
      BY DEF PreviousHash, Entry, TypeOK
    <3> QED
      BY <2>7, <3>2, <3>3 DEF Advance, Walking, TypeOK
  <2>8. CASE ReturnValid
    <3>1. Faults(entries, hmac_key) = {}
      BY <2>8 DEF ReturnValid, Faults, TypeOK
    <3> QED
      BY <2>8, <3>1 DEF ReturnValid, verify_chain
  <2>9. CASE UNCHANGED vars
    BY <2>9 DEF vars
  <2> QED
    BY <2>1, <2>2, <2>3, <2>4, <2>5, <2>6, <2>7, <2>8, <2>9 DEF Next, Returned
<1> QED
  BY <1>1, <1>2, TypeCorrect, PTL DEF Spec

(* While verify_chain walks, every entry it has passed is linked and signed,   *)
(* and expected_previous is the hash the next one must link to.                *)
THEOREM PrefixIntact == Spec => []WalkedPrefixIntact
  BY LoopInvariant, PTL DEF LoopInv

(* The loop of verify_chain returns the declarative verdict: the first entry   *)
(* that is not linked or not signed decides, and only a chain without one is   *)
(* valid.                                                                      *)
THEOREM LoopReturnsVerdict == Spec => []ReturnsVerdict
  BY LoopInvariant, PTL DEF LoopInv
----------------------------------------------------------------------------

(* Of a chain verify_chain found valid, a replaced field is noticed unless it  *)
(* is the signature in another spelling, and a row taken out from among the    *)
(* others or two neighbours exchanged unless their batch hashes are those of   *)
(* the row before.                                                             *)
THEOREM EditsAreNoticed == Spec => []EditsNoticed
<1>1. TypeOK /\ ReturnsVerdict => EditsNoticed
  <2> SUFFICES ASSUME TypeOK, ReturnsVerdict, pc = "done", result.verdict = "Valid"
               PROVE  EditsNoticed
    BY DEF EditsNoticed
  <2>1. entries \in Seq(DigestEntry) /\ hmac_key \in Key
    BY DEF TypeOK
  <2>2. verify_chain(entries, hmac_key).verdict = "Valid"
    BY DEF ReturnsVerdict
  <2>3. \A n \in DOMAIN entries :
            /\ entries # <<>>
            /\ validate_digest_key(hmac_key)
            /\ \A i \in DOMAIN entries : Intact(entries, hmac_key, i)
    BY <2>1, <2>2, ValidIsIntact
  <2>4. \A n \in 1..(Len(entries) - 1) : n \in DOMAIN entries
    BY <2>1
  <2>5. ASSUME NEW n \in DOMAIN entries,
               NEW field \in {"batch_hash", "previous_hash",
                              "digest_signature", "key_id"},
               NEW v, v # entries[n][field],
               ~(field = "digest_signature"
                   /\ hex_decode(v) = hex_decode(entries[n].digest_signature))
        PROVE  verify_chain([entries EXCEPT ![n][field] = v],
                            hmac_key).verdict # "Valid"
    BY <2>1, <2>3, <2>5, ReplacedFieldNoticed
  <2>6. ASSUME NEW n \in 1..(Len(entries) - 1),
               entries[n].batch_hash # PreviousHash(entries, n)
        PROVE  verify_chain(SubSeq(entries, 1, n - 1)
                                \o SubSeq(entries, n + 1, Len(entries)),
                            hmac_key).verdict # "Valid"
    BY <2>1, <2>3, <2>4, <2>6, TakenOutNoticed
  <2>7. ASSUME NEW n \in 1..(Len(entries) - 1),
               {entries[n].batch_hash, entries[n + 1].batch_hash}
                   # {PreviousHash(entries, n)}
        PROVE  verify_chain([entries EXCEPT ![n] = entries[n + 1],
                                            ![n + 1] = entries[n]],
                            hmac_key).verdict # "Valid"
    <3>1. ~(/\ PreviousHash(entries, n) = entries[n].batch_hash
            /\ entries[n].batch_hash = entries[n + 1].batch_hash)
      BY <2>7
    <3> QED
      BY <2>1, <2>3, <2>4, <3>1, ExchangedNoticed
  <2> DEFINE hashes == {entries[n].batch_hash : n \in DOMAIN entries}
                          \cup {DIGEST_GENESIS_HASH}
             texts == {entries[n].digest_signature : n \in DOMAIN entries}
             values == [batch_hash       |-> hashes,
                        previous_hash    |-> hashes,
                        digest_signature |-> {NotHex} \cup
                                                [bytes   : {text.bytes : text \in texts},
                                                 letters : {"lower", "other"}],
                        key_id           |-> KeyId]
  <2>8. DOMAIN values = {"batch_hash", "previous_hash", "digest_signature", "key_id"}
    OBVIOUS
  <2> HIDE DEF values
  <2>9. \A n \in DOMAIN entries, field \in DOMAIN values :
           \A v \in values[field] \ {entries[n][field]} :
              ~(field = "digest_signature"
                  /\ hex_decode(v) = hex_decode(entries[n].digest_signature)) =>
                 verify_chain([entries EXCEPT ![n][field] = v], hmac_key).verdict # "Valid"
    BY <2>5, <2>8, Zenon
  <2> QED
    BY <2>6, <2>7, <2>9, Zenon DEF EditsNoticed, values
<1> QED
  BY <1>1, TypeCorrect, LoopReturnsVerdict, PTL
----------------------------------------------------------------------------
(* The stored log of StoreIntegrity, whose digest rows verify_chain checks.    *)

CONSTANTS
    store_key,            \* the key its rows are signed with
    Column                \* what the other columns of an event may hold

VARIABLES audit_events, audit_digests, batches, edited

Store == INSTANCE StoreIntegrity WITH hmac_key <- store_key, Text <- Column

(* The batch hash of a set of events, in whatever order they were digested. *)
SetHash(events) == compute_batch_hash([e \in events |-> e])

(* StoreIntegrity's functions of the digest chain are DigestChain's. *)
LEMMA StoreFunctions ==
    /\ \A ids : Store!compute_batch_hash(ids) = compute_batch_hash(ids)
    /\ \A rows, n : Store!PreviousHash(rows, n) = PreviousHash(rows, n)
    /\ \A k, b, p, id : Store!hmac(k, b, p, id) = hmac(k, b, p, id)
    /\ \A tag : Store!hex_encode(tag) = hex_encode(tag)
    /\ \A text : Store!hex_decode(text) = hex_decode(text)
    /\ \A k : Store!validate_digest_key(k) <=> validate_digest_key(k)
<1>1. ASSUME NEW ids PROVE Store!compute_batch_hash(ids) = compute_batch_hash(ids)
  <2>1. \A e : Store!Multiplicity(ids, e) = Multiplicity(ids, e)
    BY DEF Store!Multiplicity, Multiplicity, Store!Cardinality, Cardinality
  <2> QED
    BY <2>1 DEF Store!compute_batch_hash, compute_batch_hash
<1>2. ASSUME NEW rows, NEW n PROVE Store!PreviousHash(rows, n) = PreviousHash(rows, n)
  BY DEF Store!PreviousHash, PreviousHash
<1>3. ASSUME NEW k, NEW b, NEW p, NEW id PROVE Store!hmac(k, b, p, id) = hmac(k, b, p, id)
  BY DEF Store!hmac, hmac
<1>4. ASSUME NEW k PROVE Store!validate_digest_key(k) <=> validate_digest_key(k)
  BY DEF Store!validate_digest_key, validate_digest_key,
         Store!MIN_DIGEST_KEY_LENGTH, MIN_DIGEST_KEY_LENGTH
<1>5. /\ \A tag : Store!hex_encode(tag) = hex_encode(tag)
      /\ \A text : Store!hex_decode(text) = hex_decode(text)
  BY DEF Store!hex_encode, hex_encode, Store!hex_decode, hex_decode
<1> QED
  BY <1>1, <1>2, <1>3, <1>4, <1>5

LEMMA StoreVerdict ==
    ASSUME NEW rows, NEW k
    PROVE  Store!verify_chain(rows, k) = verify_chain(rows, k)
<1>1. \A n : /\ Store!Linked(rows, n) <=> Linked(rows, n)
             /\ Store!Intact(rows, k, n) <=> Intact(rows, k, n)
  BY StoreFunctions DEF Store!Linked, Linked, Store!Intact, Intact, Store!Signed, Signed
<1>2. Store!Faults(rows, k) = Faults(rows, k)
  BY <1>1 DEF Store!Faults, Faults
<1>3. Store!FirstFault(rows, k) = FirstFault(rows, k)
  BY <1>2 DEF Store!FirstFault, FirstFault
<1>4. \A n : Store!FaultVerdict(rows, n) = FaultVerdict(rows, n)
  BY <1>1, StoreFunctions DEF Store!FaultVerdict, FaultVerdict, Store!Error, Error, Store!Invalid, Invalid
<1> QED
  BY <1>2, <1>3, <1>4, StoreFunctions
     DEF Store!verify_chain, verify_chain, Store!Valid, Valid, Store!Error, Error

(* It tells sets of events apart. *)
LEMMA SetHashValue ==
    ASSUME NEW S, NEW e \in EventId
    PROVE  SetHash(S)[e] = IF e \in S THEN 1 ELSE 0
<1> DEFINE ids == [f \in S |-> f]
<1>1. SetHash(S)[e] = Cardinality({i \in DOMAIN ids : ids[i] = e})
  BY DEF SetHash, compute_batch_hash, Multiplicity
<1>2. CASE e \in S
  <2>1. {i \in DOMAIN ids : ids[i] = e} = {e}
    BY <1>2
  <2> QED
    BY <1>1, <1>2, <2>1, FS_Singleton
<1>3. CASE e \notin S
  <2>1. {i \in DOMAIN ids : ids[i] = e} = {}
    BY <1>3
  <2> QED
    BY <1>1, <1>3, <2>1, FS_EmptySet
<1> QED
  BY <1>2, <1>3

LEMMA SetHashType ==
    ASSUME NEW S
    PROVE  SetHash(S) \in BatchHash
<1>1. SetHash(S) = [e \in EventId |-> SetHash(S)[e]]
  BY DEF SetHash, compute_batch_hash
<1>2. \A e \in EventId : SetHash(S)[e] \in Nat
  BY SetHashValue
<1> QED
  BY <1>1, <1>2 DEF BatchHash

(* The events that are in a batch. *)
Digested == UNION {batches[n] : n \in DOMAIN batches}

(* The log as its writer left it, whatever was done to audit_events since. *)
LogInv ==
    /\ audit_digests \in Seq(DigestEntry)
    /\ batches \in Seq(SUBSET EventId)
    /\ Len(batches) = Len(audit_digests)
    /\ \A n \in DOMAIN batches : audit_digests[n].batch_hash = SetHash(batches[n])
    /\ \A n \in DOMAIN audit_digests : Intact(audit_digests, store_key, n)
    /\ ~edited => Store!Stored = Digested

(* A batch that is digested extends the log. *)
LEMMA DigestExtendsLog ==
    ASSUME store_key \in Key, LogInv, NEW events \in SUBSET EventId, Store!Digest(events)
    PROVE  LogInv'
<1> DEFINE previous == PreviousHash(audit_digests, Len(audit_digests) + 1)
           row == [batch_hash       |-> SetHash(events),
                   previous_hash    |-> previous,
                   digest_signature |-> compute_digest_signature(SetHash(events),
                                            previous, store_key, KeyIdOf[store_key]),
                   key_id           |-> KeyIdOf[store_key]]
<1>1. audit_digests \in Seq(DigestEntry) /\ batches \in Seq(SUBSET EventId)
      /\ Len(batches) = Len(audit_digests) /\ Len(batches) \in Nat
  BY DEF LogInv
<1>2. audit_digests' = Append(audit_digests, row) /\ batches' = Append(batches, events)
  BY StoreFunctions
     DEF Store!Digest, SetHash, Store!derive_key_id, derive_key_id,
         Store!compute_digest_signature, compute_digest_signature
<1>3. row \in DigestEntry
  <2>1. previous \in Hash
    BY <1>1, NewestHashType
  <2>2. SetHash(events) \in Hash
    BY SetHashType DEF Hash
  <2>3. KeyIdOf[store_key] \in KeyId
    BY ChainAssumption DEF ChainAssumption
  <2> HIDE DEF previous
  <2> QED
    BY <2>1, <2>2, <2>3, SetHashType, SignatureDecodes DEF DigestEntry
<1>4. \A n \in DOMAIN audit_digests' : Intact(audit_digests', store_key, n)
  <2>1. /\ row.previous_hash = PreviousHash(audit_digests, Len(audit_digests) + 1)
        /\ hex_decode(row.digest_signature)
             = hmac(store_key, row.batch_hash, row.previous_hash, row.key_id)
    BY <1>3, SignatureDecodes DEF DigestEntry
  <2> HIDE DEF row
  <2> QED
    BY <1>1, <1>2, <1>3, <2>1, AppendIntact DEF LogInv
<1>5. /\ row.batch_hash = SetHash(events)
      /\ DOMAIN batches = 1..Len(batches)
      /\ DOMAIN batches' = 1..(Len(batches) + 1)
      /\ \A n \in 1..Len(batches) : /\ batches'[n] = batches[n]
                                    /\ audit_digests'[n] = audit_digests[n]
      /\ batches'[Len(batches) + 1] = events
      /\ audit_digests'[Len(batches) + 1] = row
  <2>1. row.batch_hash = SetHash(events)
    OBVIOUS
  <2> HIDE DEF row
  <2> QED
    BY <1>1, <1>2, <1>3, <2>1, AppendProperties
<1>6. \A n \in 1..(Len(batches) + 1) : n \in 1..Len(batches) \/ n = Len(batches) + 1
  BY <1>1
<1> HIDE DEF row
<1>7. \A n \in DOMAIN batches' : audit_digests'[n].batch_hash = SetHash(batches'[n])
  BY <1>5, <1>6 DEF LogInv
<1>8. Store!Stored' = Store!Stored \cup events
  BY DEF Store!Digest, Store!Stored, Store!Put
<1>9. Digested' = Digested \cup events
  <2>1. ASSUME NEW e \in Digested' PROVE e \in Digested \cup events
    BY <1>5, <1>6, <2>1 DEF Digested
  <2>2. ASSUME NEW e \in Digested \cup events PROVE e \in Digested'
    <3>1. 1..Len(batches) \subseteq DOMAIN batches' /\ Len(batches) + 1 \in DOMAIN batches'
      BY <1>1, <1>5
    <3> QED
      BY <1>5, <2>2, <3>1 DEF Digested
  <2> QED
    BY <2>1, <2>2
<1>10. Store!Stored' = Digested'
  BY <1>8, <1>9 DEF LogInv, Store!Digest
<1>11. /\ audit_digests' \in Seq(DigestEntry) /\ batches' \in Seq(SUBSET EventId)
       /\ Len(batches') = Len(audit_digests')
  BY <1>1, <1>2, <1>3, AppendProperties
<1> QED
  BY <1>4, <1>7, <1>10, <1>11 DEF LogInv

LEMMA LogInvariant ==
    ASSUME store_key \in Key
    PROVE  Store!Spec => []LogInv
<1>1. Store!Init => LogInv
  <2> SUFFICES ASSUME Store!Init PROVE LogInv
    OBVIOUS
  <2>1. batches = <<>> /\ audit_digests = <<>> /\ Store!Stored = {}
    BY DEF Store!Init, Store!Stored
  <2>2. DOMAIN batches = {} /\ DOMAIN audit_digests = {} /\ Digested = {}
    BY <2>1 DEF Digested
  <2> QED
    BY <2>1, <2>2 DEF LogInv
<1>2. LogInv /\ [Store!Next]_(Store!vars) => LogInv'
  <2> SUFFICES ASSUME LogInv, [Store!Next]_(Store!vars) PROVE LogInv'
    OBVIOUS
  <2>1. ASSUME NEW events \in SUBSET EventId, Store!Digest(events) PROVE LogInv'
    BY <2>1, DigestExtendsLog
  <2>2. CASE Store!Edit
    BY <2>2 DEF Store!Edit, LogInv
  <2>3. CASE Store!Audited \/ UNCHANGED Store!vars
    BY <2>3 DEF Store!Audited, Store!vars, LogInv, Store!Stored, Digested
  <2> QED
    BY <2>1, <2>2, <2>3 DEF Store!Next
<1> QED
  BY <1>1, <1>2, PTL DEF Store!Spec

(* What the check can tell: a stored log verifies exactly when the events      *)
(* stored are those that were digested, whatever was done to it.  So an event  *)
(* that is deleted or inserted is noticed (README.md:26), whatever its batch;  *)
(* a field that is changed never is; and a log nobody edited verifies.         *)
THEOREM ExactlyTheIds ==
    ASSUME store_key \in Key, validate_digest_key(store_key)
    PROVE  Store!Spec => []((Store!Verifies <=> Store!Stored = Digested)
                            /\ (~edited => Store!Verifies))
<1>1. LogInv => (Store!Verifies <=> Store!Stored = Digested)
  <2> SUFFICES ASSUME LogInv PROVE Store!Verifies <=> Store!Stored = Digested
    OBVIOUS
  <2>1. Store!verify_chain(audit_digests, store_key).verdict = "Valid"
    BY IntactVerifies, StoreVerdict DEF LogInv, Valid
  <2>2. ASSUME NEW n \in DOMAIN batches
        PROVE  /\ batches[n] \subseteq EventId
               /\ audit_digests[n].batch_hash = SetHash(batches[n])
    BY DEF LogInv
  <2>3. ASSUME Store!Verifies PROVE Store!Stored = Digested
    <3>1. Store!Stored \subseteq Digested
      BY <2>3 DEF Store!Verifies, Digested
    <3>2. ASSUME NEW n \in DOMAIN batches, NEW e \in batches[n] PROVE e \in Store!Stored
      <4>1. e \in EventId /\ SetHash(batches[n]) = SetHash(batches[n] \cap Store!Stored)
        BY <2>2, <2>3, StoreFunctions DEF Store!Verifies, SetHash
      <4>2. SetHash(batches[n])[e] = 1
        BY <4>1, SetHashValue
      <4>3. SetHash(batches[n] \cap Store!Stored)[e] = 1
        BY <4>1, <4>2
      <4> QED
        BY <4>1, <4>3, SetHashValue
    <3> QED
      BY <3>1, <3>2 DEF Digested
  <2>4. ASSUME Store!Stored = Digested PROVE Store!Verifies
    <3>1. ASSUME NEW n \in DOMAIN batches PROVE batches[n] \cap Store!Stored = batches[n]
      BY <2>4 DEF Digested
    <3>2. \A e \in Store!Stored : \E n \in DOMAIN batches : e \in batches[n]
      BY <2>4 DEF Digested
    <3> QED
      BY <2>1, <2>2, <3>1, <3>2, StoreFunctions DEF Store!Verifies, SetHash
  <2> QED
    BY <2>3, <2>4
<1>2. LogInv => (~edited => Store!Stored = Digested)
  BY DEF LogInv
<1> QED
  BY <1>1, <1>2, LogInvariant, PTL
============================================================================
