------------------------- MODULE DigestChainProofs -------------------------
(* What verify_chain says of any chain: which entry it blames, and how its     *)
(* verdict changes when a row is appended.                                     *)
EXTENDS DigestChain, FiniteSetTheorems, SequenceTheorems, WellFoundedInduction,
        TLAPS

(* The fields of a stored digest row have their types. *)
LEMMA EntryType ==
    ASSUME NEW chain \in Seq(DigestEntry), NEW i \in DOMAIN chain
    PROVE  /\ chain[i] \in DigestEntry
           /\ chain[i].batch_hash \in Hash
<1>1. chain[i] \in DigestEntry
  OBVIOUS
<1> QED
  BY <1>1 DEF DigestEntry

(* The signature the code computes is text that decodes to the tag. *)
LEMMA SignatureDecodes ==
    ASSUME NEW k \in Key, NEW batch_hash \in Hash, NEW previous_hash \in Hash,
           NEW key_id \in KeyId
    PROVE  LET signature == compute_digest_signature(batch_hash, previous_hash, k, key_id)
           IN  /\ signature \in HexText
               /\ hex_decode(signature) = hmac(k, batch_hash, previous_hash, key_id)
<1> DEFINE tag == hmac(k, batch_hash, previous_hash, key_id)
<1>1. tag \in Tag
  BY DEF hmac, Tag
<1> HIDE DEF tag
<1>2. hex_encode(tag) \in HexText /\ hex_encode(tag).bytes = tag
  BY <1>1 DEF hex_encode, HexText
<1>3. hex_encode(tag) # NotHex
  BY <1>2, ChainAssumption
<1>4. hex_decode(hex_encode(tag)) = tag
  BY <1>2, <1>3 DEF hex_decode
<1> QED
  BY <1>2, <1>4 DEF compute_digest_signature, tag

(* The first fault is the only fault no other precedes. *)
LEMMA FirstFaultUnique ==
    ASSUME NEW chain \in Seq(DigestEntry), NEW k \in Key,
           NEW i \in DOMAIN chain,
           ~Intact(chain, k, i),
           \A j \in 1..(i - 1) : Intact(chain, k, j)
    PROVE  FirstFault(chain, k) = i /\ Faults(chain, k) # {}
<1>1. DOMAIN chain = 1..Len(chain) /\ Len(chain) \in Nat
  OBVIOUS
<1>2. i \in Faults(chain, k)
  BY DEF Faults
<1>3. \A j \in Faults(chain, k) : j \in Int /\ i <= j
  BY <1>1 DEF Faults
<1>4. \A x \in Faults(chain, k) :
          (\A j \in Faults(chain, k) : x <= j) => x = i
  BY <1>1, <1>2, <1>3
<1> QED
  BY <1>2, <1>3, <1>4 DEF FirstFault

(* The hash a new row links to: the newest row's, or the genesis hash. *)
LEMMA NewestHashType ==
    ASSUME NEW rows \in Seq(DigestEntry)
    PROVE  PreviousHash(rows, Len(rows) + 1) \in Hash
<1>1. CASE Len(rows) = 0
  BY <1>1 DEF PreviousHash, Hash
<1>2. CASE Len(rows) > 0
  <2>1. rows[Len(rows)] \in DigestEntry
    BY <1>2
  <2> QED
    BY <1>2, <2>1 DEF PreviousHash, DigestEntry
<1> QED
  BY <1>1, <1>2

(* Appending a row changes nothing for the rows before it. *)
LEMMA AppendKeepsRows ==
    ASSUME NEW rows \in Seq(DigestEntry), NEW row \in DigestEntry, NEW k \in Key,
           NEW i \in DOMAIN rows
    PROVE  /\ Append(rows, row)[i] = rows[i]
           /\ Linked(Append(rows, row), i) <=> Linked(rows, i)
           /\ Intact(Append(rows, row), k, i) <=> Intact(rows, k, i)
           /\ FaultVerdict(Append(rows, row), i) = FaultVerdict(rows, i)
<1>1. i \in 1..Len(rows) /\ Len(rows) \in Nat
  OBVIOUS
<1>2. \A j \in 1..Len(rows) : Append(rows, row)[j] = rows[j]
  BY AppendProperties
<1>3. i # 1 => i - 1 \in 1..Len(rows)
  BY <1>1
<1>4. PreviousHash(Append(rows, row), i) = PreviousHash(rows, i)
  BY <1>1, <1>2, <1>3 DEF PreviousHash
<1>5. Linked(Append(rows, row), i) <=> Linked(rows, i)
  BY <1>1, <1>2, <1>4 DEF Linked
<1> QED
  BY <1>1, <1>2, <1>5 DEF Signed, Intact, FaultVerdict

(* A row that links to the newest and is signed with the key extends an        *)
(* intact chain.                                                               *)
LEMMA AppendIntact ==
    ASSUME NEW rows \in Seq(DigestEntry), NEW row \in DigestEntry, NEW k \in Key,
           \A i \in DOMAIN rows : Intact(rows, k, i),
           row.previous_hash = PreviousHash(rows, Len(rows) + 1),
           hex_decode(row.digest_signature)
               = hmac(k, row.batch_hash, row.previous_hash, row.key_id)
    PROVE  \A i \in DOMAIN Append(rows, row) : Intact(Append(rows, row), k, i)
<1> DEFINE longer == Append(rows, row)
           n == Len(rows) + 1
<1>1. /\ Len(rows) \in Nat
      /\ DOMAIN rows = 1..Len(rows)
      /\ DOMAIN longer = 1..n
      /\ \A i \in 1..Len(rows) : longer[i] = rows[i]
      /\ longer[n] = row
  BY AppendProperties
<1>2. PreviousHash(longer, n) = PreviousHash(rows, n)
  <2>1. n # 1 => n - 1 \in 1..Len(rows)
    BY <1>1
  <2> HIDE DEF longer, n
  <2> QED
    BY <1>1, <2>1 DEF PreviousHash
<1>3. Intact(longer, k, n)
  BY <1>1, <1>2 DEF Intact, Linked, Signed
<1>4. \A i \in 1..Len(rows) : Intact(longer, k, i)
  BY <1>1, AppendKeepsRows
<1>5. \A i \in 1..n : i = n \/ i \in 1..Len(rows)
  BY <1>1
<1> QED
  BY <1>1, <1>3, <1>4, <1>5

(* A usable key finds a chain of intact entries valid. *)
LEMMA IntactVerifies ==
    ASSUME NEW rows \in Seq(DigestEntry), NEW k \in Key, validate_digest_key(k),
           \A i \in DOMAIN rows : Intact(rows, k, i)
    PROVE  verify_chain(rows, k) = Valid(Len(rows))
<1>1. Faults(rows, k) = {}
  BY DEF Faults
<1>2. rows = <<>> => Len(rows) = 0
  OBVIOUS
<1> QED
  BY <1>1, <1>2 DEF verify_chain
----------------------------------------------------------------------------

(* A chain with a fault has a first one. *)
LEMMA FirstFaultExists ==
    ASSUME NEW rows \in Seq(DigestEntry), NEW k \in Key, Faults(rows, k) # {}
    PROVE  /\ FirstFault(rows, k) \in Faults(rows, k)
           /\ \A j \in Faults(rows, k) : FirstFault(rows, k) <= j
<1>1. Faults(rows, k) \subseteq Nat
  BY DEF Faults
<1>2. \E i \in Faults(rows, k) :
          \A j \in Faults(rows, k) : <<j, i>> \notin OpToRel(<, Nat)
  BY <1>1, NatLessThanWellFounded, WFMin
<1>3. \A i, j \in Nat : <<j, i>> \notin OpToRel(<, Nat) => i <= j
  BY DEF OpToRel
<1>4. \E i \in Faults(rows, k) : \A j \in Faults(rows, k) : i <= j
  BY <1>1, <1>2, <1>3
<1> QED
  BY <1>4 DEF FirstFault

(* No append repairs a broken chain or moves the break. *)
THEOREM BreakStays ==
    ASSUME NEW rows \in Seq(DigestEntry), NEW row \in DigestEntry, NEW k \in Key,
           verify_chain(rows, k).verdict = "Invalid"
    PROVE  verify_chain(Append(rows, row), k) = verify_chain(rows, k)
<1> DEFINE longer == Append(rows, row)
           f == FirstFault(rows, k)
<1>1. rows # <<>> /\ validate_digest_key(k) /\ Faults(rows, k) # {}
  BY DEF verify_chain, Valid, Error
<1>2. f \in DOMAIN rows /\ ~Intact(rows, k, f)
      /\ \A j \in DOMAIN rows : ~Intact(rows, k, j) => f <= j
  BY <1>1, FirstFaultExists DEF Faults
<1>3. /\ Len(rows) \in Nat
      /\ DOMAIN rows = 1..Len(rows)
      /\ longer \in Seq(DigestEntry) /\ longer # <<>>
      /\ DOMAIN longer = 1..(Len(rows) + 1)
  BY AppendProperties
<1>4. f \in DOMAIN longer
  BY <1>2, <1>3
<1>5. ~Intact(longer, k, f) /\ FaultVerdict(longer, f) = FaultVerdict(rows, f)
  BY <1>2, AppendKeepsRows
<1>6. \A j \in 1..(f - 1) : Intact(longer, k, j)
  <2> SUFFICES ASSUME NEW j \in 1..(f - 1)
               PROVE  Intact(longer, k, j)
    OBVIOUS
  <2>1. j \in DOMAIN rows /\ ~(f <= j)
    BY <1>2, <1>3
  <2> QED
    BY <1>2, <2>1, AppendKeepsRows
<1>7. FirstFault(longer, k) = f /\ Faults(longer, k) # {}
  <2> HIDE DEF longer, f
  <2> QED
    BY <1>3, <1>4, <1>5, <1>6, FirstFaultUnique
<1> QED
  BY <1>1, <1>3, <1>5, <1>7 DEF verify_chain
----------------------------------------------------------------------------
(* What verify_chain notices of an edit.                                       *)

(* One fault is enough: no other row makes up for it.                          *)
LEMMA FaultIsNotValid ==
    ASSUME NEW rows, NEW k, NEW i \in DOMAIN rows, ~Intact(rows, k, i)
    PROVE  verify_chain(rows, k).verdict # "Valid"
<1>1. rows # <<>> /\ Faults(rows, k) # {}
  BY DEF Faults
<1>2. \/ verify_chain(rows, k) = Error("HmacKeyError")
      \/ verify_chain(rows, k) = FaultVerdict(rows, FirstFault(rows, k))
  BY <1>1 DEF verify_chain
<1> QED
  BY <1>2 DEF FaultVerdict, Error, Invalid

(* A chain with rows is found valid only with a usable key and every row       *)
(* intact.                                                                     *)
LEMMA ValidIsIntact ==
    ASSUME NEW rows \in Seq(DigestEntry), NEW k \in Key,
           rows # <<>>,
           verify_chain(rows, k).verdict = "Valid"
    PROVE  /\ validate_digest_key(k)
           /\ \A i \in DOMAIN rows : Intact(rows, k, i)
<1>1. validate_digest_key(k)
  BY DEF verify_chain, Error
<1> QED
  BY <1>1, FaultIsNotValid

(* A field that differs from what was signed breaks the row's tag, whichever   *)
(* field it is; a signature only if it is not the old one spelt in another way. *)
LEMMA ReplacedFieldNoticed ==
    ASSUME NEW rows \in Seq(DigestEntry), NEW k \in Key, NEW n \in DOMAIN rows,
           Intact(rows, k, n),
           NEW field \in {"batch_hash", "previous_hash", "digest_signature", "key_id"},
           NEW v, v # rows[n][field],
           field = "digest_signature" => hex_decode(v) # hex_decode(rows[n][field])
    PROVE  verify_chain([rows EXCEPT ![n][field] = v], k).verdict # "Valid"
<1> DEFINE edited == [rows EXCEPT ![n][field] = v]
<1>1. rows[n] \in DigestEntry
  OBVIOUS
<1>2. n \in DOMAIN edited /\ edited[n] = [rows[n] EXCEPT ![field] = v]
  OBVIOUS
<1>3. hex_decode(rows[n].digest_signature) =
          hmac(k, rows[n].batch_hash, rows[n].previous_hash, rows[n].key_id)
  BY DEF Intact, Signed
<1>4. ~Signed(edited, k, n)
  <2> DEFINE row == rows[n]
             other == edited[n]
  <2> SUFFICES hex_decode(other.digest_signature) #
                   hmac(k, other.batch_hash, other.previous_hash, other.key_id)
    BY DEF Signed
  <2>1. row \in DigestEntry /\ other = [row EXCEPT ![field] = v]
    BY <1>1, <1>2
  <2>2. hex_decode(row.digest_signature)
            = hmac(k, row.batch_hash, row.previous_hash, row.key_id)
    BY <1>3
  <2>3. /\ v # row[field]
        /\ field = "digest_signature" => hex_decode(v) # hex_decode(row[field])
    OBVIOUS
  <2> HIDE DEF row, other
  <2>4. CASE field = "batch_hash"
    BY <2>1, <2>2, <2>3, <2>4 DEF DigestEntry, hmac
  <2>5. CASE field = "previous_hash"
    BY <2>1, <2>2, <2>3, <2>5 DEF DigestEntry, hmac
  <2>6. CASE field = "digest_signature"
    BY <2>1, <2>2, <2>3, <2>6 DEF DigestEntry, hmac
  <2>7. CASE field = "key_id"
    BY <2>1, <2>2, <2>3, <2>7 DEF DigestEntry, hmac
  <2> QED
    BY <2>4, <2>5, <2>6, <2>7
<1> HIDE DEF edited
<1>5. ~Intact(edited, k, n)
  BY <1>4 DEF Intact
<1>6. verify_chain(edited, k).verdict # "Valid"
  BY <1>2, <1>5, FaultIsNotValid
<1> QED
  BY <1>6 DEF edited

(* A chain of signed rows whose rows outside S are linked is found valid with   *)
(* a usable key exactly when those of S are linked too.                         *)
LEMMA ValidIfLinked ==
    ASSUME NEW rows \in Seq(DigestEntry), NEW k \in Key,
           validate_digest_key(k),
           NEW S, S \subseteq DOMAIN rows,
           \A i \in DOMAIN rows : Signed(rows, k, i),
           \A i \in DOMAIN rows \ S : Linked(rows, i)
    PROVE  verify_chain(rows, k).verdict = "Valid" <=> \A i \in S : Linked(rows, i)
<1>1. CASE \A i \in S : Linked(rows, i)
  <2>1. \A i \in DOMAIN rows : Intact(rows, k, i)
    BY <1>1 DEF Intact
  <2> QED
    BY <1>1, <2>1, IntactVerifies DEF Valid
<1>2. CASE ~\A i \in S : Linked(rows, i)
  <2>1. PICK i \in S : ~Linked(rows, i)
    BY <1>2
  <2>2. i \in DOMAIN rows /\ ~Intact(rows, k, i)
    BY <2>1 DEF Intact
  <2> QED
    BY <1>2, <2>2, FaultIsNotValid
<1> QED
  BY <1>1, <1>2

(* A row taken out before the newest goes unnoticed exactly when its batch     *)
(* hash is the one of the row before it.                                       *)
LEMMA TakenOutNoticed ==
    ASSUME NEW rows \in Seq(DigestEntry), NEW k \in Key, validate_digest_key(k),
           \A i \in DOMAIN rows : Intact(rows, k, i),
           NEW n \in 1..(Len(rows) - 1)
    PROVE  verify_chain(SubSeq(rows, 1, n - 1) \o SubSeq(rows, n + 1, Len(rows)),
                        k).verdict = "Valid"
               <=> rows[n].batch_hash = PreviousHash(rows, n)
<1> DEFINE left == SubSeq(rows, 1, n - 1)
           right == SubSeq(rows, n + 1, Len(rows))
           shorter == left \o right
           len == Len(rows)
<1>1. len \in Nat /\ n \in Nat /\ 1 <= n /\ n < len /\ DOMAIN rows = 1..len
  OBVIOUS
<1>2. /\ left \in Seq(DigestEntry) /\ Len(left) = n - 1
      /\ \A i \in 1..(n - 1) : left[i] = rows[i]
  BY <1>1, SubSeqProperties
<1>3. /\ right \in Seq(DigestEntry) /\ Len(right) = len - n
      /\ \A i \in 1..(len - n) : right[i] = rows[n + i]
  <2>1. \A i \in 1..(len - n) : (n + 1) + i - 1 = n + i
    BY <1>1
  <2>2. len - (n + 1) + 1 = len - n
    BY <1>1
  <2> QED
    BY <1>1, <2>1, <2>2, SubSeqProperties
<1>4. /\ shorter \in Seq(DigestEntry) /\ Len(shorter) = len - 1
      /\ \A i \in 1..(n - 1) : shorter[i] = rows[i]
      /\ \A i \in n..(len - 1) : shorter[i] = rows[i + 1]
  <2> HIDE DEF left, right, len
  <2>1. shorter \in Seq(DigestEntry) /\ Len(shorter) = Len(left) + Len(right)
    BY <1>2, <1>3, ConcatProperties
  <2>2. \A i \in 1..(n - 1) : shorter[i] = rows[i]
    BY <1>1, <1>2, <1>3, ConcatProperties
  <2>3. \A i \in n..(len - 1) : shorter[i] = rows[i + 1]
    <3> SUFFICES ASSUME NEW i \in n..(len - 1)
                 PROVE  shorter[i] = rows[i + 1]
      OBVIOUS
    <3>1. /\ i \in 1..(Len(left) + Len(right)) /\ ~(i <= Len(left))
          /\ i - Len(left) \in 1..(len - n)
          /\ n + (i - Len(left)) = i + 1
      BY <1>1, <1>2, <1>3
    <3>2. shorter[i] = right[i - Len(left)]
      BY <3>1, <1>2, <1>3, ConcatProperties
    <3> QED
      BY <3>1, <3>2, <1>3
  <2>4. (n - 1) + (len - n) = len - 1
    BY <1>1
  <2>5. Len(shorter) = len - 1
    BY <1>2, <1>3, <2>1, <2>4, Zenon
  <2> QED
    BY <2>1, <2>2, <2>3, <2>5, Zenon
<1>5. DOMAIN shorter = 1..(len - 1)
  <2> HIDE DEF shorter, len
  <2> QED
    BY <1>4
<1> HIDE DEF shorter, len
<1>6. \A i \in DOMAIN shorter : Signed(shorter, k, i)
  <2>1. \A i \in 1..len : Signed(rows, k, i)
    BY <1>1 DEF Intact
  <2>2. \A i \in DOMAIN shorter : \E j \in 1..len : shorter[i] = rows[j]
    BY <1>1, <1>4, <1>5
  <2> QED
    BY <2>1, <2>2 DEF Signed
<1>7. \A i \in 1..(len - 1) :
          i # n => PreviousHash(shorter, i) =
                       IF i < n THEN PreviousHash(rows, i) ELSE PreviousHash(rows, i + 1)
  BY <1>1, <1>4 DEF PreviousHash
<1>8. \A i \in DOMAIN shorter \ {n} : Linked(shorter, i)
  <2> SUFFICES ASSUME NEW i \in 1..(len - 1), i # n
               PROVE  Linked(shorter, i)
    BY <1>5
  <2>1. CASE i < n
    <3>1. i \in DOMAIN rows /\ shorter[i] = rows[i]
      BY <1>1, <1>4, <2>1
    <3> QED
      BY <1>7, <2>1, <3>1 DEF Linked, Intact
  <2>2. CASE i > n
    <3>1. i + 1 \in DOMAIN rows /\ shorter[i] = rows[i + 1]
      BY <1>1, <1>4, <2>2
    <3> QED
      BY <1>1, <1>7, <2>2, <3>1 DEF Linked, Intact
  <2> QED
    BY <1>1, <2>1, <2>2
<1>9. Linked(shorter, n) <=> rows[n].batch_hash = PreviousHash(rows, n)
  <2>1. PreviousHash(shorter, n) = PreviousHash(rows, n)
    BY <1>1, <1>4 DEF PreviousHash
  <2>2. shorter[n] = rows[n + 1] /\ n + 1 \in DOMAIN rows
    BY <1>1, <1>4
  <2>3. rows[n + 1].previous_hash = rows[n].batch_hash
    BY <1>1, <2>2 DEF Intact, Linked, PreviousHash
  <2> QED
    BY <2>1, <2>2, <2>3 DEF Linked
<1>10. {n} \subseteq DOMAIN shorter
  BY <1>1, <1>5
<1>11. verify_chain(shorter, k).verdict = "Valid" <=> \A i \in {n} : Linked(shorter, i)
  BY <1>4, <1>6, <1>8, <1>10, ValidIfLinked
<1> QED
  BY <1>9, <1>11 DEF shorter, len

(* Two neighbours exchanged go unnoticed exactly when they and the row before   *)
(* them have the same batch hash.                                               *)
LEMMA ExchangedNoticed ==
    ASSUME NEW rows \in Seq(DigestEntry), NEW k \in Key, validate_digest_key(k),
           \A i \in DOMAIN rows : Intact(rows, k, i),
           NEW n \in 1..(Len(rows) - 1)
    PROVE  verify_chain([rows EXCEPT ![n] = rows[n + 1], ![n + 1] = rows[n]],
                        k).verdict = "Valid"
               <=> /\ PreviousHash(rows, n) = rows[n].batch_hash
                   /\ rows[n].batch_hash = rows[n + 1].batch_hash
<1> DEFINE swapped == [rows EXCEPT ![n] = rows[n + 1], ![n + 1] = rows[n]]
           len == Len(rows)
           S == {i \in DOMAIN rows : n <= i /\ i <= n + 2}
<1>1. len \in Nat /\ n \in Nat /\ 1 <= n /\ n < len /\ DOMAIN rows = 1..len
  OBVIOUS
<1>2. /\ swapped \in Seq(DigestEntry) /\ DOMAIN swapped = 1..len
      /\ swapped[n] = rows[n + 1] /\ swapped[n + 1] = rows[n]
      /\ \A i \in 1..len : i # n /\ i # n + 1 => swapped[i] = rows[i]
  <2>1. rows[n] \in DigestEntry /\ rows[n + 1] \in DigestEntry /\ n # n + 1
    BY <1>1
  <2>2. \A row, other \in DigestEntry :
            [rows EXCEPT ![n] = row, ![n + 1] = other] \in Seq(DigestEntry)
    BY <1>1
  <2>3. swapped \in Seq(DigestEntry)
    BY <2>1, <2>2
  <2>4. DOMAIN swapped = DOMAIN rows
    OBVIOUS
  <2>5. swapped[n + 1] = rows[n]
    BY <1>1
  <2>6. swapped[n] = rows[n + 1]
    BY <1>1, <2>1
  <2>7. \A i \in 1..len : i # n /\ i # n + 1 => swapped[i] = rows[i]
    BY <1>1
  <2> QED
    BY <1>1, <2>3, <2>4, <2>5, <2>6, <2>7
<1> HIDE DEF swapped, len
<1>3. /\ \A i \in 1..len : Signed(rows, k, i)
      /\ \A i \in 1..len : rows[i].previous_hash = PreviousHash(rows, i)
  BY <1>1 DEF Intact, Linked
<1>4. \A i \in DOMAIN swapped : Signed(swapped, k, i)
  <2> SUFFICES ASSUME NEW i \in 1..len
               PROVE  Signed(swapped, k, i)
    BY <1>2
  <2>1. PICK j \in 1..len : swapped[i] = rows[j]
    BY <1>1, <1>2
  <2>2. Signed(rows, k, j)
    BY <1>3
  <2> QED
    BY <2>1, <2>2 DEF Signed
<1>5. \A i \in DOMAIN swapped \ S : Linked(swapped, i)
  <2> SUFFICES ASSUME NEW i \in 1..len, ~(n <= i /\ i <= n + 2)
               PROVE  Linked(swapped, i)
    BY <1>1, <1>2
  <2>1. /\ swapped[i] = rows[i]
        /\ i # 1 => i - 1 \in 1..len /\ swapped[i - 1] = rows[i - 1]
    BY <1>1, <1>2
  <2>2. PreviousHash(swapped, i) = PreviousHash(rows, i)
    BY <2>1 DEF PreviousHash
  <2> QED
    BY <1>3, <2>1, <2>2 DEF Linked
<1>6. Linked(swapped, n) <=> rows[n].batch_hash = PreviousHash(rows, n)
  <2>1. PreviousHash(swapped, n) = PreviousHash(rows, n)
    BY <1>1, <1>2 DEF PreviousHash
  <2>2. rows[n + 1].previous_hash = rows[n].batch_hash
    BY <1>1, <1>3 DEF PreviousHash
  <2> QED
    BY <1>2, <2>1, <2>2 DEF Linked
<1>7. Linked(swapped, n + 1) <=> PreviousHash(rows, n) = rows[n + 1].batch_hash
  <2>1. PreviousHash(swapped, n + 1) = rows[n + 1].batch_hash
    BY <1>1, <1>2 DEF PreviousHash
  <2>2. rows[n].previous_hash = PreviousHash(rows, n)
    BY <1>1, <1>3
  <2> QED
    BY <1>2, <2>1, <2>2 DEF Linked
<1>8. n + 2 \in 1..len =>
          (Linked(swapped, n + 2) <=> rows[n + 1].batch_hash = rows[n].batch_hash)
  <2> SUFFICES ASSUME n + 2 \in 1..len
               PROVE  Linked(swapped, n + 2) <=>
                          rows[n + 1].batch_hash = rows[n].batch_hash
    OBVIOUS
  <2>1. PreviousHash(swapped, n + 2) = rows[n].batch_hash
    BY <1>1, <1>2 DEF PreviousHash
  <2>2. /\ swapped[n + 2] = rows[n + 2]
        /\ rows[n + 2].previous_hash = rows[n + 1].batch_hash
    BY <1>1, <1>2, <1>3 DEF PreviousHash
  <2> DEFINE at == n + 2
  <2> HIDE DEF at
  <2>3. /\ PreviousHash(swapped, at) = rows[n].batch_hash
        /\ swapped[at].previous_hash = rows[n + 1].batch_hash
    BY <2>1, <2>2 DEF at
  <2>4. Linked(swapped, at) <=> rows[n + 1].batch_hash = rows[n].batch_hash
    BY <2>3, Zenon DEF Linked
  <2> QED
    BY <2>4 DEF at
<1>9. S \subseteq DOMAIN swapped /\ n \in S /\ n + 1 \in S
      /\ \A i \in S : i = n \/ i = n + 1 \/ (i = n + 2 /\ n + 2 \in 1..len)
  BY <1>1, <1>2
<1> HIDE DEF S
<1>10. verify_chain(swapped, k).verdict = "Valid" <=> \A i \in S : Linked(swapped, i)
  BY <1>2, <1>4, <1>5, <1>9, ValidIfLinked
<1>11. (\A i \in S : Linked(swapped, i)) <=>
          /\ PreviousHash(rows, n) = rows[n].batch_hash
          /\ rows[n].batch_hash = rows[n + 1].batch_hash
  BY <1>6, <1>7, <1>8, <1>9
<1> QED
  BY <1>10, <1>11 DEF swapped
============================================================================
