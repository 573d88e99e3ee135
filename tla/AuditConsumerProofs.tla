------------------------ MODULE AuditConsumerProofs ------------------------
(* Invariants of the consumer pipeline for every number of workers, events,    *)
(* keys and every bound: types, no event lost and none invented, what the      *)
(* digest chain covers is stored, what is acknowledged is covered, a row that  *)
(* breaks the chain raced or was signed with another key; and, for a single    *)
(* worker with a single usable key and no late row, that the chain verifies.   *)
EXTENDS AuditConsumer, DigestChainProofs

(* How often an id occurs in a batch: positive exactly for the ids it holds. *)
LEMMA MultiplicityType ==
    ASSUME NEW ids \in Seq(EventId), NEW e
    PROVE  /\ Multiplicity(ids, e) \in Nat
           /\ Multiplicity(ids, e) > 0 <=> e \in Range(ids)
<1> DEFINE at == {i \in DOMAIN ids : ids[i] = e}
<1>1. DOMAIN ids = 1..Len(ids) /\ Len(ids) \in Nat
  OBVIOUS
<1>2. IsFiniteSet(DOMAIN ids)
  BY <1>1, FS_Interval
<1>3. IsFiniteSet(at)
  BY <1>2, FS_Subset
<1>4. Cardinality(at) \in Nat /\ (Cardinality(at) = 0 <=> at = {})
  BY <1>3, FS_CardinalityType, FS_EmptySet
<1>5. at # {} <=> e \in Range(ids)
  BY DEF Range
<1> QED
  BY <1>4, <1>5 DEF Multiplicity

(* Dead-lettering one message leaves every other message of the batch. *)
LEMMA RemoveAtType ==
    ASSUME NEW ids \in Seq(EventId), NEW i \in DOMAIN ids
    PROVE  /\ RemoveAt(ids, i) \in Seq(EventId)
           /\ \A e \in Range(ids) : e # ids[i] => e \in Range(RemoveAt(ids, i))
           /\ Range(RemoveAt(ids, i)) \subseteq Range(ids)
<1> DEFINE front == SubSeq(ids, 1, i - 1)
           back == SubSeq(ids, i + 1, Len(ids))
<1>1. i \in 1..Len(ids) /\ Len(ids) \in Nat
  OBVIOUS
<1>2. /\ front \in Seq(EventId) /\ Len(front) = i - 1
      /\ \A j \in 1..(i - 1) : front[j] = ids[j]
  BY <1>1, SubSeqProperties
<1>3. /\ back \in Seq(EventId) /\ Len(back) = Len(ids) - i
      /\ \A j \in 1..(Len(ids) - i) : back[j] = ids[i + j]
  BY <1>1, SubSeqProperties
<1>4. DEFINE rest == front \o back
<1>5. RemoveAt(ids, i) = rest
  BY DEF RemoveAt
<1> HIDE DEF front, back
<1>6. /\ rest \in Seq(EventId)
      /\ Len(rest) = Len(front) + Len(back)
      /\ \A m \in 1..(Len(front) + Len(back)) :
            rest[m] = IF m <= Len(front) THEN front[m] ELSE back[m - Len(front)]
  BY <1>2, <1>3, ConcatProperties
<1> HIDE DEF rest
<1>7. Len(front) + Len(back) = Len(ids) - 1
  BY <1>1, <1>2, <1>3
<1>8. DOMAIN rest = 1..(Len(ids) - 1)
  BY <1>6, <1>7
<1>9. ASSUME NEW m \in 1..(Len(ids) - 1)
      PROVE  rest[m] = IF m < i THEN ids[m] ELSE ids[m + 1]
  <2>1. rest[m] = IF m <= i - 1 THEN front[m] ELSE back[m - (i - 1)]
    BY <1>2, <1>6, <1>7
  <2>2. CASE m < i
    <3>1. m \in 1..(i - 1) /\ m <= i - 1
      BY <1>1, <2>2
    <3> QED
      BY <1>2, <2>1, <2>2, <3>1
  <2>3. CASE m >= i
    <3>1. /\ m - (i - 1) \in 1..(Len(ids) - i)
          /\ i + (m - (i - 1)) = m + 1
          /\ ~(m <= i - 1) /\ ~(m < i)
      BY <1>1, <2>3
    <3> QED
      BY <1>3, <2>1, <3>1
  <2> QED
    BY <1>1, <2>2, <2>3
<1>10. ASSUME NEW j \in 1..Len(ids), j # i
      PROVE  \E m \in 1..(Len(ids) - 1) : rest[m] = ids[j]
  <2>1. CASE j < i
    BY <1>1, <1>9, <2>1
  <2>2. CASE j > i
    <3>1. j - 1 \in 1..(Len(ids) - 1) /\ ~(j - 1 < i) /\ (j - 1) + 1 = j
      BY <1>1, <2>2
    <3> QED
      BY <1>9, <3>1
  <2> QED
    BY <1>1, <1>10, <2>1, <2>2
<1>11. ASSUME NEW m \in 1..(Len(ids) - 1)
       PROVE  \E j \in 1..Len(ids) : rest[m] = ids[j]
  BY <1>1, <1>9
<1>12. Range(ids) = {ids[j] : j \in 1..Len(ids)}
  BY <1>1 DEF Range
<1>13. Range(rest) = {rest[m] : m \in 1..(Len(ids) - 1)}
  BY <1>8 DEF Range
<1>14. \A e \in Range(ids) : e # ids[i] => e \in Range(rest)
  BY <1>10, <1>12, <1>13
<1>15. Range(rest) \subseteq Range(ids)
  BY <1>11, <1>12, <1>13
<1> QED
  BY <1>5, <1>6, <1>14, <1>15

(* A batch's digest row is a DigestEntry that covers exactly the batch's ids. *)
LEMMA DigestRowType ==
    ASSUME NEW ids \in Seq(EventId), NEW previous_hash \in Hash, NEW k \in Key
    PROVE  /\ compute_batch_hash(ids) \in BatchHash
           /\ DigestRow(ids, previous_hash, k) \in DigestEntry
           /\ DigestRow(ids, previous_hash, k).batch_hash = compute_batch_hash(ids)
           /\ \A e \in EventId : compute_batch_hash(ids)[e] > 0 <=> e \in Range(ids)
<1>1. compute_batch_hash(ids) \in BatchHash
  BY MultiplicityType DEF compute_batch_hash, BatchHash
<1>2. KeyIdOf[k] \in KeyId
  BY ChainAssumption
<1>3. \A e \in EventId : compute_batch_hash(ids)[e] > 0 <=> e \in Range(ids)
  BY MultiplicityType DEF compute_batch_hash
<1>4. compute_digest_signature(compute_batch_hash(ids), previous_hash, k, KeyIdOf[k])
          \in HexText
  BY <1>1, <1>2, SignatureDecodes DEF Hash
<1> QED
  BY <1>1, <1>2, <1>3, <1>4 DEF DigestRow, DigestEntry, Hash, derive_key_id

(* A row carries the tag of the key it was signed with, over its own fields. *)
SignedBy(row, k) ==
    hex_decode(row.digest_signature)
        = hmac(k, row.batch_hash, row.previous_hash, row.key_id)

LEMMA RowSigned ==
    ASSUME NEW ids \in Seq(EventId), NEW previous_hash \in Hash, NEW k \in Key
    PROVE  /\ DigestRow(ids, previous_hash, k).previous_hash = previous_hash
           /\ SignedBy(DigestRow(ids, previous_hash, k), k)
<1>1. compute_batch_hash(ids) \in Hash /\ KeyIdOf[k] \in KeyId
  BY DigestRowType, ChainAssumption DEF Hash
<1> QED
  BY <1>1, SignatureDecodes DEF SignedBy, DigestRow, derive_key_id

----------------------------------------------------------------------------

(* A row that lands leaves the table a sequence of digest rows. *)
LEMMA AppendDigestType ==
    ASSUME audit_digests \in Seq(DigestEntry), raced \subseteq Nat,
           NEW row \in DigestEntry, NEW at, AppendDigest(row, at)
    PROVE  audit_digests' \in Seq(DigestEntry) /\ raced' \subseteq Nat
<1>1. Append(audit_digests, row) \in Seq(DigestEntry)
  BY AppendProperties
<1>2. Len(audit_digests) + 1 \in Nat
  OBVIOUS
<1> QED
  BY <1>1, <1>2 DEF AppendDigest

(* The actions that only put a failed batch back. *)
LEMMA FailureType ==
    ASSUME TypeOK, NEW w \in Worker, Retry(w), Release(w)
    PROVE  /\ queue' \in [EventId -> Nat]
           /\ audit_dlq' \subseteq EventId
           /\ pc' \in [Worker -> {"idle", "received", "storing", "linking", "digested"}]
           /\ batch' \in [Worker -> Seq(EventId)]
           /\ inserted' \in [Worker -> Nat]
           /\ key' \in [Worker -> Key]
           /\ head' \in [Worker -> Hash]
           /\ headAt' \in [Worker -> Nat]
<1>1. batch[w] \in Seq(EventId) /\ Range(batch[w]) \subseteq EventId
  BY DEF TypeOK, Range
<1>2. \A e \in EventId : Multiplicity(batch[w], e) \in Nat
  BY <1>1, MultiplicityType
<1> QED
  BY <1>1, <1>2 DEF TypeOK, Retry, Release, Hash

(* Every variable of the pipeline keeps its type. *)
THEOREM TypeCorrect == Spec => []TypeOK
<1>1. Init => TypeOK
  BY ConsumerAssumption DEF Init, TypeOK, Hash
<1>2. TypeOK /\ [Next]_vars => TypeOK'
  <2> SUFFICES ASSUME TypeOK, [Next]_vars
               PROVE  TypeOK'
    OBVIOUS
  <2> USE DEF queueVars, tableVars, workerVars
  <2>1. ASSUME NEW e \in EventId, Send(e) \/ Duplicate(e)
        PROVE  TypeOK'
    <3>1. copies[e] \in Nat /\ queue[e] \in Nat
      BY DEF TypeOK
    <3>2. CASE Send(e)
      BY <3>2 DEF TypeOK, Send
    <3>3. CASE Duplicate(e)
      BY <3>1, <3>3 DEF TypeOK, Duplicate
    <3> QED
      BY <2>1, <3>2, <3>3
  <2>2. ASSUME NEW w \in Worker, Receive(w)
        PROVE  TypeOK'
    <3>1. PICK b \in BatchesOf({e \in EventId : queue[e] > 0}) :
              /\ \A e \in EventId : Multiplicity(b, e) <= queue[e]
              /\ queue' = [e \in EventId |-> queue[e] - Multiplicity(b, e)]
              /\ deliveries' = [e \in EventId |-> IF e \in Range(b) THEN Delivered(e)
                                                                    ELSE deliveries[e]]
              /\ batch' = [batch EXCEPT ![w] = b]
      BY <2>2 DEF Receive
    <3>2. b \in Seq(EventId)
      BY ConsumerAssumption DEF BatchesOf
    <3>3. \A e \in EventId : queue[e] - Multiplicity(b, e) \in Nat
      BY <3>1, <3>2, MultiplicityType DEF TypeOK
    <3>4. \A e \in EventId : Delivered(e) \in 0..MaxDeliveries
      BY ConsumerAssumption DEF TypeOK, Delivered
    <3> QED
      BY <2>2, <3>1, <3>2, <3>3, <3>4 DEF TypeOK, Receive
  <2>3. ASSUME NEW w \in Worker, DeadLetter(w)
        PROVE  TypeOK'
    <3>1. PICK i \in DOMAIN batch[w] :
              /\ audit_dlq' = audit_dlq \cup {batch[w][i]}
              /\ batch' = [batch EXCEPT ![w] = RemoveAt(@, i)]
      BY <2>3 DEF DeadLetter
    <3>2. batch[w] \in Seq(EventId) /\ batch[w][i] \in EventId
      BY DEF TypeOK
    <3>3. RemoveAt(batch[w], i) \in Seq(EventId)
      BY <3>2, RemoveAtType
    <3> QED
      BY <2>3, <3>1, <3>2, <3>3 DEF TypeOK, DeadLetter
  <2>4. ASSUME NEW w \in Worker, Validated(w)
        PROVE  TypeOK'
    BY <2>4 DEF TypeOK, Validated, Goto
  <2>5. ASSUME NEW w \in Worker, InsertEvent(w)
        PROVE  TypeOK'
    <3>1. batch[w][inserted[w] + 1] \in EventId
      BY <2>5 DEF TypeOK, InsertEvent
    <3>2. inserted[w] + 1 \in Nat
      BY DEF TypeOK
    <3>3. audit_events' \subseteq EventId
      BY <2>5, <3>1 DEF TypeOK, InsertEvent
    <3>4. inserted' \in [Worker -> Nat]
      BY <2>5, <3>2 DEF TypeOK, InsertEvent
    <3> QED
      BY <2>5, <3>3, <3>4 DEF TypeOK, InsertEvent
  <2>6. ASSUME NEW w \in Worker, ReadHead(w)
        PROVE  TypeOK'
    <3>1. Len(audit_digests) \in Nat
      BY DEF TypeOK
    <3> QED
      BY <2>6, <3>1, NewestHashType DEF TypeOK, ReadHead, Goto
  <2>7. ASSUME NEW w \in Worker, InsertDigest(w)
        PROVE  TypeOK'
    <3>1. DigestRow(batch[w], head[w], key[w]) \in DigestEntry
      BY DigestRowType DEF TypeOK
    <3>2. AppendDigest(DigestRow(batch[w], head[w], key[w]), headAt[w])
      BY <2>7 DEF InsertDigest
    <3>3. audit_digests' \in Seq(DigestEntry) /\ raced' \subseteq Nat
      BY <3>1, <3>2, AppendDigestType DEF TypeOK
    <3> QED
      BY <2>7, <3>3 DEF TypeOK, InsertDigest, Goto
  <2>8. ASSUME NEW w \in Worker, Ack(w)
        PROVE  TypeOK'
    BY <2>8 DEF TypeOK, Ack, Processed, Release, Hash, Range
  <2>9. ASSUME NEW w \in Worker, SignFails(w) \/ Crash(w)
         PROVE  TypeOK'
    <3>1. /\ Retry(w) /\ Release(w)
          /\ UNCHANGED <<copies, deliveries, audit_events, audit_digests, acked,
                         digest_key, late, raced>>
      BY <2>9 DEF SignFails, Crash
    <3> QED
      BY <3>1, FailureType DEF TypeOK
  <2>10. ASSUME NEW w \in Worker, CrashInInsert(w)
         PROVE  TypeOK'
    <3>1. DigestRow(batch[w], head[w], key[w]) \in DigestEntry
      BY DigestRowType DEF TypeOK
    <3>2. late' \subseteq LateRow
      BY <2>10, <3>1 DEF TypeOK, CrashInInsert, LateRow
    <3> QED
      BY <2>10, <3>2, FailureType DEF TypeOK, CrashInInsert
  <2>11. ASSUME NEW r \in late, LandLate(r) \/ LoseLate(r)
         PROVE  TypeOK'
    <3>1. r.row \in DigestEntry
      BY DEF TypeOK, LateRow
    <3>2. CASE LandLate(r)
      BY <3>1, <3>2, AppendDigestType DEF TypeOK, LandLate
    <3>3. CASE LoseLate(r)
      BY <3>3 DEF TypeOK, LoseLate
    <3> QED
      BY <2>11, <3>2, <3>3
  <2>12. ASSUME NEW k \in Key, RotateKey(k)
         PROVE  TypeOK'
    BY <2>12 DEF TypeOK, RotateKey
  <2>13. CASE UNCHANGED vars
    BY <2>13 DEF TypeOK, vars
  <2> QED
    BY <2>1, <2>2, <2>3, <2>4, <2>5, <2>6, <2>7, <2>8, <2>9, <2>10, <2>11, <2>12,
       <2>13 DEF Next, Handle, Work, Drained
<1> QED
  BY <1>1, <1>2, PTL DEF Spec
----------------------------------------------------------------------------
(* The single writer.                                                         *)

SingleWriter ==
    /\ \A v, w \in Worker : v = w
    /\ \A j, k \in Key : validate_digest_key(j) /\ validate_digest_key(k) => j = k
    /\ MaxLate = 0

HeadCurrent ==
    \A w \in Worker : pc[w] = "linking" =>
        head[w] = PreviousHash(audit_digests, Len(audit_digests) + 1)

RowsIntact ==
    \A k \in Key : validate_digest_key(k) =>
        \A i \in DOMAIN audit_digests : Intact(audit_digests, k, i)

ChainInv == late = {} /\ HeadCurrent /\ RowsIntact

(* With one worker, one usable key and no late row, the stored chain verifies  *)
(* at every moment: the row the worker read stays the newest until it appends, *)
(* for nobody else appends, and it never signs with an unusable key.           *)
THEOREM SingleWriterChainVerifies ==
    ASSUME SingleWriter
    PROVE  Spec => []ChainVerifies
<1>1. Init => ChainInv
  BY DEF Init, ChainInv, HeadCurrent, RowsIntact
<1>2. TypeOK /\ ChainInv /\ [Next]_vars => ChainInv'
  <2> SUFFICES ASSUME TypeOK, ChainInv, [Next]_vars
               PROVE  ChainInv'
    OBVIOUS
  <2> USE DEF queueVars, tableVars, workerVars
  <2>1. ASSUME UNCHANGED <<audit_digests, head, late>>,
               \A w \in Worker : pc'[w] = "linking" => pc[w] = "linking"
        PROVE  ChainInv'
    BY <2>1 DEF ChainInv, HeadCurrent, RowsIntact
  <2>2. ASSUME NEW e \in EventId, Send(e) \/ Duplicate(e)
        PROVE  ChainInv'
    BY <2>1, <2>2 DEF Send, Duplicate
  <2>3. ASSUME NEW w \in Worker,
               Receive(w) \/ DeadLetter(w) \/ Validated(w) \/ InsertEvent(w)
        PROVE  ChainInv'
    BY <2>1, <2>3 DEF TypeOK, Receive, DeadLetter, Validated, InsertEvent, Goto
  <2>4. ASSUME NEW w \in Worker, ReadHead(w)
        PROVE  ChainInv'
    BY <2>4 DEF SingleWriter, TypeOK, ChainInv, HeadCurrent, RowsIntact, ReadHead, Goto
  <2>5. ASSUME NEW w \in Worker, InsertDigest(w)
        PROVE  ChainInv'
    <3> DEFINE row == DigestRow(batch[w], head[w], key[w])
    <3>1. row \in DigestEntry
      BY DigestRowType DEF TypeOK
    <3>2. /\ row.previous_hash = PreviousHash(audit_digests, Len(audit_digests) + 1)
          /\ hex_decode(row.digest_signature) =
                 hmac(key[w], row.batch_hash, row.previous_hash, row.key_id)
      <4>1. row.previous_hash = head[w] /\ SignedBy(row, key[w])
        BY RowSigned DEF TypeOK
      <4> QED
        BY <2>5, <4>1 DEF InsertDigest, ChainInv, HeadCurrent, SignedBy
    <3>3. audit_digests' = Append(audit_digests, row)
      BY <2>5 DEF InsertDigest, AppendDigest
    <3>4. RowsIntact'
      <4> SUFFICES ASSUME NEW k \in Key, validate_digest_key(k)
                   PROVE  \A i \in DOMAIN Append(audit_digests, row) :
                              Intact(Append(audit_digests, row), k, i)
        BY <3>3 DEF RowsIntact
      <4>1. k = key[w]
        BY <2>5 DEF SingleWriter, InsertDigest, TypeOK
      <4> HIDE DEF row
      <4> QED
        BY <3>1, <3>2, <4>1, AppendIntact DEF TypeOK, ChainInv, RowsIntact
    <3>5. HeadCurrent'
      BY <2>5 DEF SingleWriter, TypeOK, HeadCurrent, InsertDigest, Goto
    <3> QED
      BY <2>5, <3>4, <3>5 DEF ChainInv, InsertDigest
  <2>6. ASSUME NEW w \in Worker, SignFails(w) \/ Crash(w) \/ Ack(w)
        PROVE  ChainInv'
    BY <2>6 DEF SingleWriter, TypeOK, ChainInv, HeadCurrent, RowsIntact,
                SignFails, Crash, Ack, Processed, Release
  <2>7. ASSUME NEW w \in Worker, CrashInInsert(w)
        PROVE  FALSE
    <3>1. Cardinality(late) = 0
      BY FS_EmptySet DEF ChainInv
    <3> QED
      BY <2>7, <3>1 DEF CrashInInsert, SingleWriter
  <2>8. ASSUME NEW r \in late
        PROVE  FALSE
    BY <2>8 DEF ChainInv
  <2>9. ASSUME NEW k \in Key, RotateKey(k)
        PROVE  ChainInv'
    BY <2>1, <2>9 DEF RotateKey
  <2>10. CASE UNCHANGED vars
    BY <2>1, <2>10 DEF vars
  <2> QED
    BY <2>2, <2>3, <2>4, <2>5, <2>6, <2>7, <2>8, <2>9, <2>10 DEF Next, Handle, Work, Drained
<1>3. TypeOK /\ ChainInv => ChainVerifies
  BY IntactVerifies DEF TypeOK, ChainInv, RowsIntact, ChainVerifies
<1> QED
  BY <1>1, <1>2, <1>3, TypeCorrect, PTL DEF Spec
----------------------------------------------------------------------------

(* Whatever the workers do, a chain that verify_chain finds broken stays       *)
(* broken at the same row: the table only grows, and only at its end.          *)
THEOREM BreakNeverHeals == Spec => BreakIsPermanent
<1> DEFINE Permanent ==
        \A k \in Key :
            verify_chain(audit_digests, k).verdict = "Invalid" =>
                verify_chain(audit_digests', k) = verify_chain(audit_digests, k)
<1>1. TypeOK /\ TypeOK' /\ [Next]_vars => [Permanent]_vars
  <2> SUFFICES ASSUME TypeOK, [Next]_vars
               PROVE  Permanent
    OBVIOUS
  <2> USE DEF queueVars, tableVars, workerVars
  <2>1. ASSUME UNCHANGED audit_digests
        PROVE  Permanent
    BY <2>1
  <2>2. ASSUME NEW row \in DigestEntry, NEW at, AppendDigest(row, at)
        PROVE  Permanent
    BY <2>2, BreakStays DEF AppendDigest, TypeOK
  <2>3. ASSUME NEW e \in EventId, Send(e) \/ Duplicate(e)
        PROVE  Permanent
    BY <2>1, <2>3 DEF Send, Duplicate
  <2>4. ASSUME NEW w \in Worker,
               \/ Receive(w) \/ DeadLetter(w) \/ Validated(w) \/ InsertEvent(w)
               \/ ReadHead(w) \/ SignFails(w) \/ Ack(w) \/ Crash(w)
               \/ CrashInInsert(w)
        PROVE  Permanent
    BY <2>1, <2>4 DEF Receive, DeadLetter, Validated, InsertEvent, ReadHead,
                      SignFails, Ack, Processed, Crash, CrashInInsert
  <2>5. ASSUME NEW w \in Worker, InsertDigest(w)
        PROVE  Permanent
    <3>1. DigestRow(batch[w], head[w], key[w]) \in DigestEntry
      BY DigestRowType DEF TypeOK
    <3> QED
      BY <2>2, <2>5, <3>1 DEF InsertDigest
  <2>6. ASSUME NEW r \in late, LandLate(r) \/ LoseLate(r)
        PROVE  Permanent
    <3>1. r.row \in DigestEntry
      BY DEF TypeOK, LateRow
    <3> QED
      BY <2>1, <2>2, <2>6, <3>1 DEF LandLate, LoseLate
  <2>7. ASSUME NEW k \in Key, RotateKey(k)
        PROVE  Permanent
    BY <2>1, <2>7 DEF RotateKey
  <2>8. CASE UNCHANGED vars
    BY <2>1, <2>8 DEF vars
  <2> QED
    BY <2>3, <2>4, <2>5, <2>6, <2>7, <2>8 DEF Next, Handle, Work, Drained
<1> QED
  BY <1>1, TypeCorrect, PTL DEF Spec, BreakIsPermanent
----------------------------------------------------------------------------
(* Who wrote a row, and behind which row it lands.                             *)

(* A row carries the tag of some key, over its own fields. *)
SelfSigned(row) == \E k \in Key : SignedBy(row, k)

(* The hash was that of the row at a position of the table, and still is: the  *)
(* table only grows.                                                           *)
ReadFrom(hash, at) ==
    at <= Len(audit_digests) /\ hash = PreviousHash(audit_digests, at + 1)

RaceInv ==
    /\ \A w \in Worker : pc[w] = "linking" => ReadFrom(head[w], headAt[w])
    /\ \A r \in late : SelfSigned(r.row) /\ ReadFrom(r.row.previous_hash, r.readAt)
    /\ \A i \in DOMAIN audit_digests :
          SelfSigned(audit_digests[i]) /\ (i \in raced \/ Linked(audit_digests, i))

(* A hash read from the table stays the hash of the row it was read from. *)
LEMMA ReadFromStays ==
    ASSUME audit_digests \in Seq(DigestEntry), NEW row \in DigestEntry,
           audit_digests' = Append(audit_digests, row),
           NEW hash, NEW at \in Nat, ReadFrom(hash, at)
    PROVE  at <= Len(audit_digests') /\ hash = PreviousHash(audit_digests', at + 1)
<1>1. /\ Len(audit_digests) \in Nat
      /\ Len(audit_digests') = Len(audit_digests) + 1
      /\ \A i \in 1..Len(audit_digests) : audit_digests'[i] = audit_digests[i]
  BY AppendProperties
<1>2. at # 0 => at \in 1..Len(audit_digests)
  BY <1>1 DEF ReadFrom
<1>3. (at + 1) - 1 = at /\ (at + 1 = 1 <=> at = 0) /\ at <= Len(audit_digests) + 1
  BY <1>1 DEF ReadFrom
<1> QED
  BY <1>1, <1>2, <1>3 DEF ReadFrom, PreviousHash

(* A row that lands is linked, unless the newest row is not the one its writer *)
(* read, and then raced records its position.                                  *)
LEMMA LandingExplained ==
    ASSUME TypeOK, RaceInv,
           NEW row \in DigestEntry, NEW at \in Nat,
           SelfSigned(row), ReadFrom(row.previous_hash, at),
           AppendDigest(row, at),
           \A w \in Worker : pc'[w] = "linking" => pc[w] = "linking",
           UNCHANGED <<head, headAt>>,
           late' \subseteq late
    PROVE  RaceInv'
<1> DEFINE longer == audit_digests'
           n == Len(audit_digests) + 1
<1>1. audit_digests \in Seq(DigestEntry) /\ longer = Append(audit_digests, row)
  BY DEF TypeOK, AppendDigest
<1>2. ASSUME NEW hash, NEW m \in Nat, ReadFrom(hash, m)
      PROVE  ReadFrom(hash, m)'
  BY <1>1, <1>2, ReadFromStays DEF ReadFrom
<1>3. \A w \in Worker : pc'[w] = "linking" => ReadFrom(head[w], headAt[w])'
  <2> SUFFICES ASSUME NEW w \in Worker, pc[w] = "linking"
               PROVE  ReadFrom(head[w], headAt[w])'
    OBVIOUS
  <2>1. headAt[w] \in Nat /\ ReadFrom(head[w], headAt[w])
    BY DEF TypeOK, RaceInv
  <2>2. headAt[w] <= Len(audit_digests')
        /\ head[w] = PreviousHash(audit_digests', headAt[w] + 1)
    BY <1>1, <2>1, ReadFromStays
  <2> QED
    BY <2>2 DEF ReadFrom
<1>4. \A r \in late' : SelfSigned(r.row) /\ ReadFrom(r.row.previous_hash, r.readAt)'
  <2> SUFFICES ASSUME NEW r \in late
               PROVE  SelfSigned(r.row) /\ ReadFrom(r.row.previous_hash, r.readAt)'
    OBVIOUS
  <2>1. r.readAt \in Nat /\ SelfSigned(r.row) /\ ReadFrom(r.row.previous_hash, r.readAt)
    BY DEF TypeOK, LateRow, RaceInv
  <2> QED
    BY <1>2, <2>1
<1>5. /\ Len(audit_digests) \in Nat
      /\ DOMAIN audit_digests = 1..Len(audit_digests)
      /\ DOMAIN longer = 1..n
      /\ \A i \in 1..n : i = n \/ i \in 1..Len(audit_digests)
      /\ \A i \in 1..Len(audit_digests) : longer[i] = audit_digests[i]
      /\ longer[n] = row
  BY <1>1, AppendProperties
<1>6. ASSUME NEW i \in 1..Len(audit_digests)
      PROVE  SelfSigned(longer[i]) /\ (i \in raced' \/ Linked(longer, i))
  <2>1. SelfSigned(audit_digests[i]) /\ (i \in raced \/ Linked(audit_digests, i))
    BY <1>5 DEF RaceInv
  <2>2. raced \subseteq raced'
    BY DEF AppendDigest
  <2>3. Linked(longer, i) <=> Linked(audit_digests, i)
    <3>1. \A j \in 1..Len(audit_digests) :
              i # 1 => i - 1 \in 1..Len(audit_digests)
      BY <1>5
    <3>2. PreviousHash(longer, i) = PreviousHash(audit_digests, i)
      BY <1>5, <3>1 DEF PreviousHash
    <3> QED
      BY <1>5, <3>2 DEF Linked
  <2> QED
    BY <1>5, <2>1, <2>2, <2>3
<1>7. n \in raced' \/ Linked(longer, n)
  <2>1. CASE at = Len(audit_digests)
    <3>1. row.previous_hash = PreviousHash(longer, n)
      BY <1>1, <2>1, ReadFromStays
    <3> QED
      BY <1>5, <3>1 DEF Linked
  <2>2. CASE at # Len(audit_digests)
    BY <2>2 DEF AppendDigest
  <2> QED
    BY <2>1, <2>2
<1>8. \A i \in DOMAIN longer : SelfSigned(longer[i]) /\ (i \in raced' \/ Linked(longer, i))
  BY <1>5, <1>6, <1>7
<1> QED
  BY <1>3, <1>4, <1>8 DEF RaceInv, SelfSigned

(* The row a worker signs is signed by the key it holds. *)
LEMMA RowSelfSigned ==
    ASSUME NEW ids \in Seq(EventId), NEW previous_hash \in Hash, NEW k \in Key
    PROVE  /\ SelfSigned(DigestRow(ids, previous_hash, k))
           /\ DigestRow(ids, previous_hash, k).previous_hash = previous_hash
  BY RowSigned DEF SelfSigned

(* Every step keeps RaceInv. *)
LEMMA RaceStep == TypeOK /\ RaceInv /\ [Next]_vars => RaceInv'
<1> SUFFICES ASSUME TypeOK, RaceInv, [Next]_vars
             PROVE  RaceInv'
  OBVIOUS
<1> USE DEF queueVars, tableVars, workerVars
<1>1. ASSUME UNCHANGED <<audit_digests, raced>>,
             late' \subseteq late,
             \A w \in Worker : pc'[w] = "linking" =>
                 pc[w] = "linking" /\ head'[w] = head[w] /\ headAt'[w] = headAt[w]
      PROVE  RaceInv'
  BY <1>1 DEF RaceInv, ReadFrom, SelfSigned
<1>2. ASSUME NEW e \in EventId, Send(e) \/ Duplicate(e)
      PROVE  RaceInv'
  BY <1>1, <1>2 DEF Send, Duplicate
<1>3. ASSUME NEW w \in Worker,
             Receive(w) \/ DeadLetter(w) \/ Validated(w) \/ InsertEvent(w)
      PROVE  RaceInv'
  BY <1>1, <1>3 DEF TypeOK, Receive, DeadLetter, Validated, InsertEvent, Goto
<1>4. ASSUME NEW w \in Worker, ReadHead(w)
      PROVE  RaceInv'
  <2>1. /\ Len(audit_digests) \in Nat
        /\ UNCHANGED <<audit_digests, late, raced>>
        /\ pc' = [pc EXCEPT ![w] = "linking"]
        /\ head' = [head EXCEPT ![w] = PreviousHash(audit_digests,
                                                    Len(audit_digests) + 1)]
        /\ headAt' = [headAt EXCEPT ![w] = Len(audit_digests)]
    BY <1>4 DEF ReadHead, Goto, TypeOK
  <2>2. \A v \in Worker : pc'[v] = "linking" => ReadFrom(head'[v], headAt'[v])
    BY <2>1 DEF TypeOK, RaceInv, ReadFrom
  <2> QED
    BY <2>1, <2>2 DEF RaceInv, ReadFrom, SelfSigned
<1>5. ASSUME NEW w \in Worker, InsertDigest(w)
      PROVE  RaceInv'
  <2> DEFINE row == DigestRow(batch[w], head[w], key[w])
  <2>1. /\ row \in DigestEntry /\ SelfSigned(row) /\ row.previous_hash = head[w]
        /\ headAt[w] \in Nat
    BY DigestRowType, RowSelfSigned DEF TypeOK
  <2>2. /\ AppendDigest(row, headAt[w])
        /\ pc[w] = "linking"
        /\ pc' = [pc EXCEPT ![w] = "digested"]
        /\ UNCHANGED <<head, headAt, late>>
    BY <1>5 DEF InsertDigest, Goto
  <2>3. ReadFrom(row.previous_hash, headAt[w])
    BY <2>1, <2>2 DEF RaceInv
  <2>4. \A v \in Worker : pc'[v] = "linking" => pc[v] = "linking"
    BY <2>2 DEF TypeOK
  <2> HIDE DEF row
  <2> QED
    BY <2>1, <2>2, <2>3, <2>4, LandingExplained
<1>6. ASSUME NEW w \in Worker, SignFails(w) \/ Crash(w) \/ Ack(w)
      PROVE  RaceInv'
  BY <1>1, <1>6 DEF TypeOK, SignFails, Crash, Ack, Processed, Release
<1>7. ASSUME NEW w \in Worker, CrashInInsert(w)
      PROVE  RaceInv'
  <2> DEFINE row == DigestRow(batch[w], head[w], key[w])
  <2>1. SelfSigned(row) /\ row.previous_hash = head[w]
    BY RowSelfSigned DEF TypeOK
  <2>2. /\ pc[w] = "linking"
        /\ late' = late \cup {[row |-> row, readAt |-> headAt[w]]}
        /\ UNCHANGED <<audit_digests, raced>>
        /\ \A v \in Worker : pc'[v] = "linking" =>
               pc[v] = "linking" /\ head'[v] = head[v] /\ headAt'[v] = headAt[v]
    BY <1>7 DEF CrashInInsert, Release, TypeOK
  <2>3. ReadFrom(row.previous_hash, headAt[w])
    BY <2>1, <2>2 DEF RaceInv
  <2> HIDE DEF row
  <2>4. \A r \in late' : SelfSigned(r.row) /\ ReadFrom(r.row.previous_hash, r.readAt)
    BY <2>1, <2>2, <2>3 DEF RaceInv
  <2> QED
    BY <2>2, <2>4 DEF RaceInv, ReadFrom, SelfSigned
<1>8. ASSUME NEW r \in late, LandLate(r)
      PROVE  RaceInv'
  <2>1. /\ r.row \in DigestEntry /\ r.readAt \in Nat
        /\ SelfSigned(r.row) /\ ReadFrom(r.row.previous_hash, r.readAt)
    BY DEF TypeOK, LateRow, RaceInv
  <2>2. /\ AppendDigest(r.row, r.readAt)
        /\ late' \subseteq late
        /\ UNCHANGED <<pc, head, headAt>>
    BY <1>8 DEF LandLate
  <2> QED
    BY <2>1, <2>2, LandingExplained
<1>9. ASSUME NEW r \in late, LoseLate(r)
      PROVE  RaceInv'
  BY <1>1, <1>9 DEF LoseLate
<1>10. ASSUME NEW k \in Key, RotateKey(k)
       PROVE  RaceInv'
  BY <1>1, <1>10 DEF RotateKey
<1>11. CASE UNCHANGED vars
  BY <1>1, <1>11 DEF vars
<1> QED
  BY <1>2, <1>3, <1>4, <1>5, <1>6, <1>7, <1>8, <1>9, <1>10, <1>11
     DEF Next, Handle, Work, Drained

(* The row verify_chain blames is not intact. *)
LEMMA BlamedRowFaulty ==
    ASSUME NEW rows \in Seq(DigestEntry), NEW k \in Key,
           verify_chain(rows, k).verdict = "Invalid"
    PROVE  /\ verify_chain(rows, k).first_mismatch_index + 1 \in DOMAIN rows
           /\ ~Intact(rows, k, verify_chain(rows, k).first_mismatch_index + 1)
<1> DEFINE f == FirstFault(rows, k)
<1>1. /\ rows # <<>> /\ Faults(rows, k) # {}
      /\ verify_chain(rows, k) = FaultVerdict(rows, f)
  BY DEF verify_chain, Valid, Error
<1>2. f \in DOMAIN rows /\ ~Intact(rows, k, f)
  BY <1>1, FirstFaultExists DEF Faults
<1>3. f \in Nat /\ (f - 1) + 1 = f
  BY <1>2
<1> HIDE DEF f
<1>4. FaultVerdict(rows, f) = Invalid(f - 1, rows[f].batch_hash)
  BY <1>1 DEF FaultVerdict, Error
<1> QED
  BY <1>1, <1>2, <1>3, <1>4 DEF Invalid

(* verify_chain blames no innocent row, whatever the number of workers and     *)
(* keys: what it names was signed with another key, or landed behind a row its *)
(* writer had not read.                                                        *)
THEOREM NoInnocentBlamed == Spec => []InvalidBlamesRace
<1>1. Init => RaceInv
  BY DEF Init, RaceInv
<1>2. TypeOK /\ RaceInv => InvalidBlamesRace
  <2> SUFFICES ASSUME TypeOK, RaceInv, NEW k \in Key,
                      verify_chain(audit_digests, k).verdict = "Invalid",
                      NEW i, i = verify_chain(audit_digests, k).first_mismatch_index + 1,
                      i \notin raced
               PROVE  hex_decode(audit_digests[i].digest_signature).key # k
    BY DEF InvalidBlamesRace
  <2>1. i \in DOMAIN audit_digests /\ ~Intact(audit_digests, k, i)
    BY BlamedRowFaulty DEF TypeOK
  <2>2. SelfSigned(audit_digests[i]) /\ Linked(audit_digests, i)
    BY <2>1 DEF RaceInv
  <2>3. ~Signed(audit_digests, k, i)
    BY <2>1, <2>2 DEF Intact
  <2> QED
    BY <2>2, <2>3 DEF SelfSigned, SignedBy, Signed, hmac
<1> QED
  BY <1>1, <1>2, RaceStep, TypeCorrect, PTL DEF Spec
----------------------------------------------------------------------------
(* Nothing is lost, and the chain tells the truth, whatever the number of      *)
(* workers and whatever lands late.                                            *)

Stored(ids) == \A e \in Range(ids) : e \in audit_events

(* What each step of a worker has established about its batch. *)
WorkerInv ==
    \A w \in Worker :
        /\ pc[w] = "idle" => batch[w] = <<>>
        /\ pc[w] \in {"idle", "received"} => inserted[w] = 0
        /\ inserted[w] <= Len(batch[w])
        /\ \A i \in 1..inserted[w] : batch[w][i] \in audit_events
        /\ pc[w] = "storing" => Range(batch[w]) \cap Unprocessable = {}
        /\ pc[w] \in {"linking", "digested"} => Stored(batch[w])
        /\ pc[w] = "digested" => \A e \in Range(batch[w]) : Covered(e)

(* A row under way covers only events already stored. *)
LateInv ==
    \A r \in late : \A e \in EventId : r.row.batch_hash[e] > 0 => e \in audit_events

StoreInv ==
    WorkerInv /\ LateInv /\ CoveredIsStored /\ AckedIsCovered /\ NoEventLost

(* A row that lands covers its batch, and every covered event stays covered. *)
LEMMA CoveredGrows ==
    ASSUME audit_digests \in Seq(DigestEntry), NEW row \in DigestEntry, NEW at,
           AppendDigest(row, at)
    PROVE  \A e \in EventId : Covered(e)' <=> Covered(e) \/ row.batch_hash[e] > 0
<1>1. /\ Len(audit_digests) \in Nat
      /\ DOMAIN audit_digests = 1..Len(audit_digests)
      /\ DOMAIN audit_digests' = 1..(Len(audit_digests) + 1)
      /\ \A i \in 1..Len(audit_digests) : audit_digests'[i] = audit_digests[i]
      /\ audit_digests'[Len(audit_digests) + 1] = row
  BY AppendProperties DEF AppendDigest
<1>2. \A i \in 1..(Len(audit_digests) + 1) :
          i \in 1..Len(audit_digests) \/ i = Len(audit_digests) + 1
  BY <1>1
<1>3. 1..Len(audit_digests) \subseteq 1..(Len(audit_digests) + 1)
      /\ Len(audit_digests) + 1 \in 1..(Len(audit_digests) + 1)
  BY <1>1
<1> QED
  BY <1>1, <1>2, <1>3 DEF Covered

(* The events a worker holds are those at the positions of its batch. *)
LEMMA HeldEvents ==
    ASSUME TypeOK, NEW w \in Worker
    PROVE  /\ batch[w] \in Seq(EventId)
           /\ Range(batch[w]) \subseteq EventId
           /\ Range(batch[w]) = {batch[w][i] : i \in 1..Len(batch[w])}
           /\ Len(batch[w]) \in Nat
           /\ Range(<<>>) = {}
<1>1. batch[w] \in Seq(EventId)
  BY DEF TypeOK
<1>2. DOMAIN batch[w] = 1..Len(batch[w]) /\ Len(batch[w]) \in Nat
  BY <1>1
<1>3. Range(<<>>) = {}
  BY DEF Range
<1>4. Range(batch[w]) = {batch[w][i] : i \in 1..Len(batch[w])}
  BY <1>2, Zenon DEF Range
<1>5. \A i \in 1..Len(batch[w]) : batch[w][i] \in EventId
  BY <1>1
<1>6. Range(batch[w]) \subseteq EventId
  BY <1>4, <1>5
<1> QED
  BY <1>1, <1>2, <1>3, <1>4, <1>6

(* A failed batch goes back to the queue or is dead-lettered.                   *)
LEMMA FailureLosesNothing ==
    ASSUME TypeOK, StoreInv, NEW w \in Worker, Retry(w), Release(w),
           UNCHANGED <<copies, deliveries, audit_events, audit_digests, acked>>
    PROVE  /\ WorkerInv' /\ CoveredIsStored' /\ AckedIsCovered' /\ NoEventLost'
<1>1. WorkerInv'
  <2> SUFFICES ASSUME NEW v \in Worker
               PROVE  /\ pc'[v] = "idle" => batch'[v] = <<>>
                      /\ pc'[v] \in {"idle", "received"} => inserted'[v] = 0
                      /\ inserted'[v] <= Len(batch'[v])
                      /\ \A i \in 1..inserted'[v] : batch'[v][i] \in audit_events
                      /\ pc'[v] = "storing" => Range(batch'[v]) \cap Unprocessable = {}
                      /\ pc'[v] \in {"linking", "digested"} => Stored(batch'[v])
                      /\ pc'[v] = "digested" => \A e \in Range(batch'[v]) : Covered(e)
    BY DEF WorkerInv, Stored, Covered
  <2>1. CASE v = w
    <3>1. pc'[v] = "idle" /\ batch'[v] = <<>> /\ inserted'[v] = 0 /\ Len(<<>>) = 0
      BY <2>1 DEF Release, TypeOK
    <3> QED
      BY <3>1
  <2>2. CASE v # w
    <3>1. pc'[v] = pc[v] /\ batch'[v] = batch[v] /\ inserted'[v] = inserted[v]
      BY <2>2 DEF Release, TypeOK
    <3> QED
      BY <3>1 DEF StoreInv, WorkerInv
  <2> QED
    BY <2>1, <2>2
<1>2. CoveredIsStored' /\ AckedIsCovered'
  BY DEF StoreInv, CoveredIsStored, AckedIsCovered, Covered
<1>3. NoEventLost'
  <2> SUFFICES ASSUME NEW e \in EventId, copies[e] > 0
               PROVE  \/ queue'[e] > 0
                      \/ \E v \in Worker : e \in Range(batch'[v])
                      \/ Settled(e)'
    BY DEF NoEventLost
  <2>1. /\ queue[e] \in Nat /\ deliveries[e] \in 0..MaxDeliveries
        /\ Multiplicity(batch[w], e) \in Nat
        /\ Multiplicity(batch[w], e) > 0 <=> e \in Range(batch[w])
    BY HeldEvents, MultiplicityType DEF TypeOK
  <2>2. CASE queue[e] > 0
    BY <2>1, <2>2 DEF Retry
  <2>3. CASE e \in Range(batch[w])
    <3>1. CASE deliveries[e] < MaxDeliveries
      BY <2>1, <2>3, <3>1 DEF Retry
    <3>2. CASE deliveries[e] = MaxDeliveries
      BY <2>3, <3>2 DEF Retry, Settled
    <3> QED
      BY <2>1, <3>1, <3>2, ConsumerAssumption
  <2>4. CASE \E v \in Worker : v # w /\ e \in Range(batch[v])
    BY <2>4 DEF Release, TypeOK
  <2>5. CASE Settled(e)
    BY <2>5 DEF Settled, Covered, Retry
  <2> QED
    BY <2>2, <2>3, <2>4, <2>5 DEF StoreInv, NoEventLost
<1> QED
  BY <1>1, <1>2, <1>3

(* Every step keeps StoreInv. *)
LEMMA StoreStep == TypeOK /\ StoreInv /\ [Next]_vars => StoreInv'
<1> SUFFICES ASSUME TypeOK, StoreInv, [Next]_vars
             PROVE  StoreInv'
  OBVIOUS
<1> USE DEF queueVars, tableVars, workerVars
<1>1. ASSUME NEW e \in EventId, Send(e) \/ Duplicate(e)
      PROVE  StoreInv'
  <2>1. \A d \in EventId : queue[d] \in Nat /\ copies[d] \in Nat
    BY DEF TypeOK
  <2>2. queue'[e] > 0 /\ \A d \in EventId \ {e} : queue'[d] = queue[d] /\ copies'[d] = copies[d]
    BY <1>1, <2>1 DEF Send, Duplicate, TypeOK
  <2>3. UNCHANGED <<deliveries, tableVars, acked, digest_key, workerVars, late, raced>>
    BY <1>1 DEF Send, Duplicate
  <2>4. NoEventLost'
    BY <2>2, <2>3 DEF StoreInv, NoEventLost, Settled, Covered
  <2> QED
    BY <2>3, <2>4 DEF StoreInv, WorkerInv, LateInv, CoveredIsStored, AckedIsCovered,
                      Stored, Covered
<1>2. ASSUME NEW w \in Worker, Receive(w)
      PROVE  StoreInv'
  <2>1. PICK b \in BatchesOf({e \in EventId : queue[e] > 0}) :
            /\ \A e \in EventId : Multiplicity(b, e) <= queue[e]
            /\ queue' = [e \in EventId |-> queue[e] - Multiplicity(b, e)]
            /\ batch' = [batch EXCEPT ![w] = b]
    BY <1>2 DEF Receive
  <2>2. b \in Seq(EventId) /\ Len(b) \in Nat
    BY ConsumerAssumption DEF BatchesOf
  <2>3. /\ batch'[w] = b
        /\ \A v \in Worker \ {w} : batch'[v] = batch[v]
        /\ pc'[w] = "received"
        /\ \A v \in Worker \ {w} : pc'[v] = pc[v]
        /\ UNCHANGED <<copies, tableVars, acked, inserted, late>>
    BY <1>2, <2>1 DEF Receive, TypeOK
  <2>4. inserted[w] = 0 /\ batch[w] = <<>>
    BY <1>2 DEF Receive, StoreInv, WorkerInv
  <2>5. WorkerInv'
    BY <2>2, <2>3, <2>4 DEF StoreInv, WorkerInv, Stored, Covered
  <2>6. NoEventLost'
    <3> SUFFICES ASSUME NEW e \in EventId, copies[e] > 0
                 PROVE  \/ queue'[e] > 0
                        \/ \E v \in Worker : e \in Range(batch'[v])
                        \/ Settled(e)'
      BY <2>3 DEF NoEventLost
    <3>1. CASE queue[e] > 0
      <4>1. /\ queue[e] \in Nat /\ Multiplicity(b, e) \in Nat
            /\ Multiplicity(b, e) > 0 <=> e \in Range(b)
        BY <2>2, MultiplicityType DEF TypeOK
      <4>2. CASE Multiplicity(b, e) = 0
        BY <2>1, <3>1, <4>1, <4>2
      <4>3. CASE Multiplicity(b, e) > 0
        BY <2>3, <4>1, <4>3
      <4> QED
        BY <4>1, <4>2, <4>3
    <3>2. CASE \E v \in Worker : e \in Range(batch[v])
      BY <2>3, <2>4, <3>2, HeldEvents
    <3>3. CASE Settled(e)
      BY <2>3, <3>3 DEF Settled, Covered
    <3> QED
      BY <3>1, <3>2, <3>3 DEF StoreInv, NoEventLost
  <2> QED
    BY <2>3, <2>5, <2>6 DEF StoreInv, LateInv, CoveredIsStored, AckedIsCovered, Covered
<1>3. ASSUME NEW w \in Worker, DeadLetter(w)
      PROVE  StoreInv'
  <2>1. PICK i \in DOMAIN batch[w] :
            /\ audit_dlq' = audit_dlq \cup {batch[w][i]}
            /\ batch' = [batch EXCEPT ![w] = RemoveAt(@, i)]
    BY <1>3 DEF DeadLetter
  <2>2. /\ batch'[w] = RemoveAt(batch[w], i)
        /\ \A v \in Worker \ {w} : batch'[v] = batch[v]
        /\ UNCHANGED <<queueVars, audit_events, audit_digests, acked, pc, inserted, late>>
    BY <1>3, <2>1 DEF DeadLetter, TypeOK
  <2>3. /\ batch'[w] \in Seq(EventId)
        /\ \A e \in Range(batch[w]) : e # batch[w][i] => e \in Range(batch'[w])
    BY <2>2, HeldEvents, RemoveAtType
  <2>4. pc[w] = "received" /\ inserted[w] = 0 /\ Len(batch'[w]) \in Nat
    BY <1>3, <2>3 DEF DeadLetter, StoreInv, WorkerInv
  <2>5. WorkerInv'
    BY <2>2, <2>4 DEF StoreInv, WorkerInv, Stored, Covered
  <2>6. NoEventLost'
    BY <2>1, <2>2, <2>3 DEF StoreInv, NoEventLost, Settled, Covered
  <2> QED
    BY <2>2, <2>5, <2>6 DEF StoreInv, LateInv, CoveredIsStored, AckedIsCovered, Covered
<1>4. ASSUME NEW w \in Worker, Validated(w)
      PROVE  StoreInv'
  <2>1. /\ pc' = [pc EXCEPT ![w] = IF batch[w] = <<>> THEN "digested" ELSE "storing"]
        /\ Range(batch[w]) \cap Unprocessable = {}
        /\ UNCHANGED <<queueVars, tableVars, acked, batch, inserted, late>>
    BY <1>4 DEF Validated, Goto
  <2>2. WorkerInv'
    BY <2>1, HeldEvents DEF StoreInv, WorkerInv, Stored, Covered, TypeOK
  <2> QED
    BY <2>1, <2>2 DEF StoreInv, LateInv, CoveredIsStored, AckedIsCovered, NoEventLost,
                      Settled, Covered
<1>5. ASSUME NEW w \in Worker, InsertEvent(w)
      PROVE  StoreInv'
  <2>0. batch[w][inserted[w] + 1] \notin Refused
    <3>1. inserted[w] + 1 \in 1..Len(batch[w])
      <4>1. inserted[w] \in Nat /\ Len(batch[w]) \in Nat
        BY HeldEvents DEF TypeOK
      <4> QED
        BY <1>5, <4>1 DEF InsertEvent
    <3>2. batch[w][inserted[w] + 1] \in Range(batch[w])
      BY <3>1, HeldEvents
    <3> QED
      BY <1>5, <3>2, ConsumerAssumption DEF InsertEvent, StoreInv, WorkerInv
  <2>1. /\ audit_events' = audit_events \cup {batch[w][inserted[w] + 1]}
        /\ inserted' = [inserted EXCEPT ![w] = @ + 1]
        /\ UNCHANGED <<queueVars, audit_digests, audit_dlq, acked, pc, batch, late>>
        /\ pc[w] = "storing" /\ inserted[w] < Len(batch[w])
    BY <1>5, <2>0 DEF InsertEvent
  <2>2. WorkerInv'
    <3>1. ASSUME NEW v \in Worker
          PROVE  /\ inserted'[v] <= Len(batch[v])
                 /\ \A i \in 1..inserted'[v] : batch[v][i] \in audit_events'
      <4>1. inserted[v] \in Nat /\ Len(batch[v]) \in Nat
            /\ inserted[v] <= Len(batch[v])
            /\ \A i \in 1..inserted[v] : batch[v][i] \in audit_events
        BY HeldEvents DEF TypeOK, StoreInv, WorkerInv
      <4>2. inserted'[v] = IF v = w THEN inserted[v] + 1 ELSE inserted[v]
        BY <2>1 DEF TypeOK
      <4> QED
        BY <2>1, <4>1, <4>2
    <3>2. \A v \in Worker : pc[v] \in {"idle", "received"} => inserted'[v] = 0
      BY <2>1 DEF TypeOK, StoreInv, WorkerInv
    <3> QED
      BY <2>1, <3>1, <3>2 DEF StoreInv, WorkerInv, Stored, Covered
  <2> QED
    BY <2>1, <2>2 DEF StoreInv, LateInv, CoveredIsStored, AckedIsCovered, NoEventLost,
                      Settled, Covered
<1>6. ASSUME NEW w \in Worker, ReadHead(w)
      PROVE  StoreInv'
  <2>1. /\ pc' = [pc EXCEPT ![w] = "linking"]
        /\ UNCHANGED <<queueVars, tableVars, acked, batch, inserted, late>>
        /\ inserted[w] = Len(batch[w])
    BY <1>6 DEF ReadHead, Goto
  <2>2. Stored(batch[w])
    <3>1. \A i \in 1..inserted[w] : batch[w][i] \in audit_events
      BY <1>6 DEF StoreInv, WorkerInv
    <3>2. Range(batch[w]) = {batch[w][i] : i \in 1..inserted[w]}
      BY <2>1, HeldEvents
    <3> QED
      BY <3>1, <3>2 DEF Stored
  <2>3. \A v \in Worker : pc'[v] = IF v = w THEN "linking" ELSE pc[v]
    BY <2>1 DEF TypeOK
  <2>4. WorkerInv'
    BY <2>1, <2>2, <2>3 DEF StoreInv, WorkerInv, Stored, Covered
  <2> QED
    BY <2>1, <2>4 DEF StoreInv, LateInv, CoveredIsStored, AckedIsCovered, NoEventLost,
                      Settled, Covered
<1>7. ASSUME NEW row \in DigestEntry, NEW at, AppendDigest(row, at),
             UNCHANGED <<queueVars, audit_events, audit_dlq, acked>>,
             \A e \in EventId : row.batch_hash[e] > 0 => e \in audit_events,
             \A v \in Worker : batch'[v] = batch[v]
      PROVE  /\ \A e \in EventId : Covered(e) => Covered(e)'
             /\ CoveredIsStored' /\ AckedIsCovered' /\ NoEventLost'
  <2>1. \A e \in EventId : Covered(e)' <=> Covered(e) \/ row.batch_hash[e] > 0
    BY <1>7, CoveredGrows DEF TypeOK
  <2> QED
    BY <1>7, <2>1 DEF StoreInv, CoveredIsStored, AckedIsCovered, NoEventLost, Settled,
                      TypeOK
<1>8. ASSUME NEW w \in Worker, InsertDigest(w)
      PROVE  StoreInv'
  <2> DEFINE row == DigestRow(batch[w], head[w], key[w])
  <2>1. /\ AppendDigest(row, headAt[w])
        /\ pc' = [pc EXCEPT ![w] = "digested"]
        /\ pc[w] = "linking"
        /\ UNCHANGED <<queueVars, audit_events, audit_dlq, acked, batch, inserted, late>>
    BY <1>8 DEF InsertDigest, Goto
  <2>2. /\ row \in DigestEntry
        /\ \A e \in EventId : row.batch_hash[e] > 0 <=> e \in Range(batch[w])
    BY DigestRowType DEF TypeOK
  <2> HIDE DEF row
  <2>3. \A e \in EventId : row.batch_hash[e] > 0 => e \in audit_events
    BY <2>1, <2>2 DEF StoreInv, WorkerInv, Stored
  <2>4. /\ \A e \in EventId : Covered(e) => Covered(e)'
        /\ CoveredIsStored' /\ AckedIsCovered' /\ NoEventLost'
    BY <1>7, <2>1, <2>2, <2>3
  <2>5. \A e \in Range(batch[w]) : Covered(e)'
    BY <2>1, <2>2, CoveredGrows, HeldEvents DEF TypeOK
  <2>6. WorkerInv'
    BY <2>1, <2>4, <2>5, HeldEvents DEF StoreInv, WorkerInv, Stored, TypeOK
  <2> QED
    BY <2>1, <2>4, <2>6 DEF StoreInv, LateInv
<1>9. ASSUME NEW w \in Worker, Ack(w)
      PROVE  StoreInv'
  <2>1. /\ acked' = acked \cup Range(batch[w])
        /\ Release(w)
        /\ UNCHANGED <<queueVars, tableVars, late>>
        /\ pc[w] = "digested"
    BY <1>9 DEF Ack, Processed
  <2>2. \A e \in Range(batch[w]) : e \in audit_events /\ Covered(e)
    BY <2>1 DEF StoreInv, WorkerInv, Stored
  <2>3. WorkerInv'
    <3>1. /\ pc'[w] = "idle" /\ batch'[w] = <<>> /\ inserted'[w] = 0
          /\ \A v \in Worker \ {w} : /\ pc'[v] = pc[v] /\ batch'[v] = batch[v]
                                    /\ inserted'[v] = inserted[v]
      BY <2>1 DEF Release, TypeOK
    <3>2. \A e \in EventId : Covered(e)' <=> Covered(e)
      BY <2>1 DEF Covered
    <3>3. Len(<<>>) = 0 /\ \A v \in Worker : Range(batch[v]) \subseteq EventId
      BY HeldEvents
    <3> QED
      BY <2>1, <3>1, <3>2, <3>3 DEF StoreInv, WorkerInv, Stored
  <2>4. NoEventLost'
    <3>1. \A v \in Worker \ {w} : batch'[v] = batch[v]
      BY <2>1 DEF Release, TypeOK
    <3> QED
      BY <2>1, <2>2, <3>1 DEF StoreInv, NoEventLost, Settled, Covered
  <2> QED
    BY <2>1, <2>2, <2>3, <2>4 DEF StoreInv, LateInv, CoveredIsStored, AckedIsCovered,
                                  Covered
<1>10. ASSUME NEW w \in Worker, SignFails(w) \/ Crash(w)
       PROVE  StoreInv'
  <2>1. /\ Retry(w) /\ Release(w)
        /\ UNCHANGED <<copies, deliveries, audit_events, audit_digests, acked, late>>
    BY <1>10 DEF SignFails, Crash
  <2> QED
    BY <2>1, FailureLosesNothing DEF StoreInv, LateInv
<1>11. ASSUME NEW w \in Worker, CrashInInsert(w)
       PROVE  StoreInv'
  <2> DEFINE row == DigestRow(batch[w], head[w], key[w])
  <2>1. /\ Retry(w) /\ Release(w)
        /\ late' = late \cup {[row |-> row, readAt |-> headAt[w]]}
        /\ UNCHANGED <<copies, deliveries, audit_events, audit_digests, acked>>
        /\ pc[w] = "linking"
    BY <1>11 DEF CrashInInsert
  <2>2. \A e \in EventId : row.batch_hash[e] > 0 <=> e \in Range(batch[w])
    BY DigestRowType DEF TypeOK
  <2> HIDE DEF row
  <2>3. LateInv'
    BY <2>1, <2>2 DEF StoreInv, WorkerInv, Stored, LateInv
  <2> QED
    BY <2>1, <2>3, FailureLosesNothing DEF StoreInv
<1>12. ASSUME NEW r \in late, LandLate(r)
       PROVE  StoreInv'
  <2>1. r.row \in DigestEntry /\ \A e \in EventId : r.row.batch_hash[e] > 0 => e \in audit_events
    BY DEF TypeOK, LateRow, StoreInv, LateInv
  <2>2. /\ AppendDigest(r.row, r.readAt)
        /\ late' = late \ {r}
        /\ UNCHANGED <<queueVars, audit_events, audit_dlq, acked, workerVars>>
    BY <1>12 DEF LandLate
  <2>3. /\ \A e \in EventId : Covered(e) => Covered(e)'
        /\ CoveredIsStored' /\ AckedIsCovered' /\ NoEventLost'
    BY <1>7, <2>1, <2>2
  <2>4. WorkerInv'
    BY <2>2, <2>3, HeldEvents DEF StoreInv, WorkerInv, Stored
  <2> QED
    BY <2>2, <2>3, <2>4 DEF StoreInv, LateInv
<1>13. ASSUME UNCHANGED <<copies, queue, tableVars, acked, pc, batch, inserted>>,
              late' \subseteq late
       PROVE  StoreInv'
  BY <1>13 DEF StoreInv, WorkerInv, LateInv, CoveredIsStored, AckedIsCovered,
               NoEventLost, Settled, Stored, Covered
<1>14. ASSUME NEW r \in late, LoseLate(r)
       PROVE  StoreInv'
  BY <1>13, <1>14 DEF LoseLate
<1>15. ASSUME NEW k \in Key, RotateKey(k)
       PROVE  StoreInv'
  BY <1>13, <1>15 DEF RotateKey
<1>16. CASE UNCHANGED vars
  BY <1>13, <1>16 DEF vars
<1> QED
  BY <1>1, <1>2, <1>3, <1>4, <1>5, <1>6, <1>8, <1>9, <1>10, <1>11, <1>12, <1>14,
     <1>15, <1>16 DEF Next, Handle, Work, Drained

(* The inductive invariant of the store holds in every reachable state. *)
LEMMA StoreInvariant == Spec => []StoreInv
<1>1. Init => StoreInv
  BY ConsumerAssumption DEF Init, StoreInv, WorkerInv, LateInv, CoveredIsStored,
                            AckedIsCovered, NoEventLost, Stored, Covered, Range
<1> QED
  BY <1>1, StoreStep, TypeCorrect, PTL DEF Spec

(* No event is lost between the queue and the store, for any number of         *)
(* workers, crashes, redeliveries and late rows.                               *)
THEOREM NothingLost == Spec => []NoEventLost
  BY StoreInvariant, PTL DEF StoreInv

(* What the queue may forget is stored and covered by a digest row. *)
THEOREM AcknowledgedIsCovered == Spec => []AckedIsCovered
  BY StoreInvariant, PTL DEF StoreInv

(* The digest chain covers only events that are stored. *)
THEOREM ChainTellsTheTruth == Spec => []CoveredIsStored
  BY StoreInvariant, PTL DEF StoreInv
----------------------------------------------------------------------------
(* Nothing comes from nowhere: where the events of the tables come from, and   *)
(* what a step does with those already there.                                  *)

(* An event waits, is held, is stored or is a dead letter. *)
Present(e) ==
    \/ queue[e] > 0
    \/ \E w \in Worker : e \in Range(batch[w])
    \/ e \in audit_events \cup audit_dlq

OnlySent == \A e \in EventId : Present(e) => copies[e] > 0

(* A dead letter was delivered as often as allowed, or cannot be processed. *)
DeadLettersEarned ==
    \A e \in audit_dlq : e \in Unprocessable \/ deliveries[e] = MaxDeliveries

OriginInv == OnlySent /\ DeadLettersEarned

(* A failed batch brings no event in, and only a last delivery makes a dead    *)
(* letter of a message.                                                        *)
LEMMA FailureInventsNothing ==
    ASSUME TypeOK, OriginInv, NEW w \in Worker, Retry(w), Release(w),
           UNCHANGED <<copies, deliveries, audit_events>>
    PROVE  OriginInv'
<1>1. ASSUME NEW e \in EventId, Present(e)'
      PROVE  Present(e)
  <2>1. /\ queue[e] \in Nat /\ Multiplicity(batch[w], e) \in Nat
        /\ Multiplicity(batch[w], e) > 0 <=> e \in Range(batch[w])
    BY HeldEvents, MultiplicityType DEF TypeOK
  <2>2. CASE queue'[e] > 0
    BY <2>1, <2>2 DEF Retry, Present
  <2>3. CASE \E v \in Worker : e \in Range(batch'[v])
    BY <2>3, HeldEvents DEF Release, Present, TypeOK
  <2>4. CASE e \in audit_events' \cup audit_dlq'
    BY <2>4 DEF Retry, Present
  <2> QED
    BY <1>1, <2>2, <2>3, <2>4 DEF Present
<1>2. OnlySent'
  BY <1>1 DEF OriginInv, OnlySent
<1>3. DeadLettersEarned'
  BY DEF OriginInv, DeadLettersEarned, Retry
<1> QED
  BY <1>2, <1>3 DEF OriginInv

(* Every step keeps OriginInv. *)
LEMMA OriginStep == TypeOK /\ OriginInv /\ [Next]_vars => OriginInv'
<1> SUFFICES ASSUME TypeOK, OriginInv, [Next]_vars
             PROVE  OriginInv'
  OBVIOUS
<1> USE DEF queueVars, tableVars, workerVars
<1>1. ASSUME UNCHANGED <<copies, queue, deliveries, audit_events, audit_dlq, batch>>
      PROVE  OriginInv'
  BY <1>1 DEF OriginInv, OnlySent, Present, DeadLettersEarned
<1>2. ASSUME NEW e \in EventId, Send(e) \/ Duplicate(e)
      PROVE  OriginInv'
  <2>1. /\ \A d \in EventId \ {e} : queue'[d] = queue[d] /\ copies'[d] = copies[d]
        /\ copies'[e] > 0
        /\ UNCHANGED <<deliveries, audit_events, audit_dlq, batch>>
    BY <1>2 DEF TypeOK, Send, Duplicate
  <2> QED
    BY <2>1 DEF OriginInv, OnlySent, Present, DeadLettersEarned
<1>3. ASSUME NEW w \in Worker, Receive(w)
      PROVE  OriginInv'
  <2>1. PICK b \in BatchesOf({e \in EventId : queue[e] > 0}) :
            /\ queue' = [e \in EventId |-> queue[e] - Multiplicity(b, e)]
            /\ deliveries' = [e \in EventId |-> IF e \in Range(b) THEN Delivered(e)
                                                                  ELSE deliveries[e]]
            /\ batch' = [batch EXCEPT ![w] = b]
    BY <1>3 DEF Receive
  <2>2. b \in Seq(EventId) /\ \A e \in Range(b) : queue[e] > 0
    BY ConsumerAssumption DEF BatchesOf, Range
  <2>3. UNCHANGED <<copies, audit_events, audit_dlq>>
    BY <1>3 DEF Receive
  <2>4. ASSUME NEW e \in EventId, Present(e)'
        PROVE  Present(e)
    <3>1. queue'[e] > 0 => queue[e] > 0
      BY <2>1, <2>2, MultiplicityType DEF TypeOK
    <3>2. \A v \in Worker :
              e \in Range(batch'[v]) => e \in Range(b) \/ e \in Range(batch[v])
      BY <2>1 DEF TypeOK
    <3> QED
      BY <2>2, <2>3, <2>4, <3>1, <3>2 DEF Present
  <2>5. \A e \in EventId : deliveries[e] = MaxDeliveries => deliveries'[e] = MaxDeliveries
    BY <2>1, ConsumerAssumption DEF Delivered
  <2>6. DeadLettersEarned'
    BY <2>3, <2>5 DEF OriginInv, DeadLettersEarned, TypeOK
  <2> QED
    BY <2>3, <2>4, <2>6 DEF OriginInv, OnlySent
<1>4. ASSUME NEW w \in Worker, DeadLetter(w)
      PROVE  OriginInv'
  <2>1. PICK i \in DOMAIN batch[w] :
            /\ batch[w][i] \in Unprocessable
            /\ audit_dlq' = audit_dlq \cup {batch[w][i]}
            /\ batch' = [batch EXCEPT ![w] = RemoveAt(@, i)]
    BY <1>4 DEF DeadLetter
  <2>2. UNCHANGED <<copies, queue, deliveries, audit_events>>
    BY <1>4 DEF DeadLetter
  <2>3. Range(RemoveAt(batch[w], i)) \subseteq Range(batch[w])
    BY HeldEvents, RemoveAtType
  <2>4. \A v \in Worker : Range(batch'[v]) \subseteq Range(batch[v])
    BY <2>1, <2>3 DEF TypeOK
  <2>5. batch[w][i] \in Range(batch[w])
    BY DEF Range
  <2>6. \A e \in EventId : Present(e)' => Present(e)
    BY <2>1, <2>2, <2>4, <2>5 DEF Present
  <2> QED
    BY <2>1, <2>2, <2>6 DEF OriginInv, OnlySent, DeadLettersEarned
<1>5. ASSUME NEW w \in Worker, InsertEvent(w)
      PROVE  OriginInv'
  <2> DEFINE e == batch[w][inserted[w] + 1]
  <2>1. inserted[w] + 1 \in DOMAIN batch[w]
    BY <1>5 DEF InsertEvent, TypeOK
  <2>2. e \in Range(batch[w])
    BY <2>1 DEF Range
  <2>3. /\ audit_events' \subseteq audit_events \cup {e}
        /\ UNCHANGED <<copies, queue, deliveries, audit_dlq, batch>>
    BY <1>5 DEF InsertEvent
  <2> HIDE DEF e
  <2>4. \A d \in EventId : Present(d)' => Present(d)
    BY <2>2, <2>3 DEF Present
  <2> QED
    BY <2>3, <2>4 DEF OriginInv, OnlySent, DeadLettersEarned
<1>6. ASSUME NEW w \in Worker, Validated(w) \/ ReadHead(w) \/ InsertDigest(w)
      PROVE  OriginInv'
  BY <1>1, <1>6 DEF Validated, ReadHead, InsertDigest
<1>7. ASSUME NEW w \in Worker, Ack(w)
      PROVE  OriginInv'
  <2>1. UNCHANGED <<queueVars, tableVars>>
    BY <1>7 DEF Ack, Processed
  <2>2. \A v \in Worker : Range(batch'[v]) \subseteq Range(batch[v])
    BY <1>7, HeldEvents DEF Ack, Processed, Release, TypeOK
  <2> QED
    BY <2>1, <2>2 DEF OriginInv, OnlySent, Present, DeadLettersEarned
<1>8. ASSUME NEW w \in Worker, SignFails(w) \/ Crash(w) \/ CrashInInsert(w)
      PROVE  OriginInv'
  BY <1>8, FailureInventsNothing DEF SignFails, Crash, CrashInInsert
<1>9. ASSUME NEW r \in late, LandLate(r) \/ LoseLate(r)
      PROVE  OriginInv'
  BY <1>1, <1>9 DEF LandLate, LoseLate
<1>10. ASSUME NEW k \in Key, RotateKey(k)
       PROVE  OriginInv'
  BY <1>1, <1>10 DEF RotateKey
<1>11. CASE UNCHANGED vars
  BY <1>1, <1>11 DEF vars
<1> QED
  BY <1>2, <1>3, <1>4, <1>5, <1>6, <1>7, <1>8, <1>9, <1>10, <1>11
     DEF Next, Handle, Work, Drained

(* Nothing is stored, covered by a digest or dead-lettered that no producer    *)
(* sent, and no message is dead-lettered early that could be processed.        *)
THEOREM NothingInvented == Spec => []OriginInv
<1>1. Init => OriginInv
  BY DEF Init, OriginInv, OnlySent, Present, DeadLettersEarned, Range
<1> QED
  BY <1>1, OriginStep, TypeCorrect, PTL DEF Spec

(* What is settled stays settled, and the queue itself sends nothing: whatever *)
(* the queue and the workers do, crash included.                               *)
LEMMA HandleSettles ==
    ASSUME TypeOK, Handle
    PROVE  /\ \A e \in EventId : Settled(e) => Settled(e)'
           /\ \A e \in EventId : copies'[e] > 0 <=> copies[e] > 0
<1> USE DEF queueVars, tableVars, workerVars
<1> DEFINE Kept == /\ \A e \in EventId : Settled(e) => Settled(e)'
                   /\ \A e \in EventId : copies'[e] > 0 <=> copies[e] > 0
<1>1. ASSUME UNCHANGED <<copies, audit_digests>>,
             audit_events \subseteq audit_events', audit_dlq \subseteq audit_dlq'
      PROVE  Kept
  BY <1>1 DEF Settled, Covered
<1>2. ASSUME NEW e \in EventId, Duplicate(e)
      PROVE  Kept
  BY <1>2 DEF Duplicate, TypeOK, Settled, Covered
<1>3. ASSUME NEW row \in DigestEntry, NEW at, AppendDigest(row, at),
             UNCHANGED <<copies, audit_events, audit_dlq>>
      PROVE  Kept
  <2>1. \A e \in EventId : Covered(e) => Covered(e)'
    BY <1>3, CoveredGrows DEF TypeOK
  <2> QED
    BY <1>3, <2>1 DEF Settled
<1>4. ASSUME NEW w \in Worker,
             \/ Receive(w) \/ DeadLetter(w) \/ Validated(w) \/ InsertEvent(w)
             \/ ReadHead(w) \/ SignFails(w) \/ Ack(w) \/ Crash(w) \/ CrashInInsert(w)
      PROVE  Kept
  BY <1>1, <1>4 DEF Receive, DeadLetter, Validated, InsertEvent, ReadHead, SignFails,
                    Ack, Processed, Crash, CrashInInsert, Retry
<1>5. ASSUME NEW w \in Worker, InsertDigest(w)
      PROVE  Kept
  <2>1. DigestRow(batch[w], head[w], key[w]) \in DigestEntry
    BY DigestRowType DEF TypeOK
  <2> QED
    BY <1>3, <1>5, <2>1 DEF InsertDigest
<1>6. ASSUME NEW r \in late, LandLate(r) \/ LoseLate(r)
      PROVE  Kept
  <2>1. r.row \in DigestEntry
    BY DEF TypeOK, LateRow
  <2> QED
    BY <1>1, <1>3, <1>6, <2>1 DEF LandLate, LoseLate
<1>7. ASSUME NEW k \in Key, RotateKey(k)
      PROVE  Kept
  BY <1>1, <1>7 DEF RotateKey
<1> QED
  BY <1>2, <1>4, <1>5, <1>6, <1>7 DEF Handle, Work

(* Only an event that was sent is settled. *)
LEMMA SettledWasSent ==
    ASSUME OriginInv, NEW e \in EventId, Settled(e)
    PROVE  copies[e] > 0
  BY DEF OriginInv, OnlySent, Present, Settled
============================================================================
