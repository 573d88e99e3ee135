--------------------------- MODULE StoreIntegrity ---------------------------
(* The stored log after a row of audit_events was edited, and the check that   *)
(* README.md ("Independent verification") describes: verify_chain over the     *)
(* digest rows, and the batch hashes recomputed from the stored event ids.     *)
(* The log is written by the one writer, batch after batch; the auditor is as  *)
(* well informed as can be and knows which events were in which batch.         *)
EXTENDS DigestChain

CONSTANTS
    hmac_key,             \* the key the rows are signed with
    Text                  \* what the other columns of a row may hold

VARIABLES
    audit_events,         \* table: the columns of each event stored, by event_id
    audit_digests,        \* table: the digest rows, oldest first
    batches,              \* the event ids of each batch
    edited                \* history: whether a row of audit_events was edited

vars == <<audit_events, audit_digests, batches, edited>>

Stored == DOMAIN audit_events

Init ==
    /\ audit_events = [e \in {} |-> CHOOSE v \in Text : TRUE]
    /\ audit_digests = <<>>
    /\ batches = <<>>
    /\ edited = FALSE

(* The table with the rows of some events set to new columns. *)
Put(events, columns) ==
    [e \in Stored \cup events |-> IF e \in events THEN columns[e] ELSE audit_events[e]]

(* A batch of new events is stored and digested. *)
Digest(events) ==
    LET batch_hash == compute_batch_hash([e \in events |-> e])   \* in any order
        key_id == derive_key_id(hmac_key)
        previous_hash == PreviousHash(audit_digests, Len(audit_digests) + 1)
    IN  /\ ~edited
        /\ events # {} /\ events \cap Stored = {}
        /\ \E columns \in [events -> Text] : audit_events' = Put(events, columns)
        /\ audit_digests' = Append(audit_digests,
               [batch_hash       |-> batch_hash,
                previous_hash    |-> previous_hash,
                digest_signature |-> compute_digest_signature(batch_hash, previous_hash,
                                                              hmac_key, key_id),
                key_id           |-> key_id])
        /\ batches' = Append(batches, events)
        /\ UNCHANGED edited

(* A row of audit_events is removed, added or changed, by whatever reaches D1. *)
Remove(e) ==
    /\ e \in Stored
    /\ audit_events' = [f \in Stored \ {e} |-> audit_events[f]]

Add(e) ==
    /\ e \notin Stored
    /\ \E v \in Text : audit_events' = Put({e}, [f \in {e} |-> v])

Change(e) ==
    /\ e \in Stored
    /\ \E v \in Text \ {audit_events[e]} : audit_events' = Put({e}, [f \in {e} |-> v])

Edit ==
    /\ ~edited
    /\ \E e \in EventId : Remove(e) \/ Add(e) \/ Change(e)
    /\ edited' = TRUE
    /\ UNCHANGED <<audit_digests, batches>>

Audited == edited /\ UNCHANGED vars

Next == (\E events \in SUBSET EventId : Digest(events)) \/ Edit \/ Audited

Spec == Init /\ [][Next]_vars
----------------------------------------------------------------------------

(* verify_chain finds the chain valid, every batch hash is the one recomputed  *)
(* from the stored ids of its batch, and every stored event is in a batch.     *)
Verifies ==
    /\ verify_chain(audit_digests, hmac_key).verdict = "Valid"
    /\ \A n \in DOMAIN batches :
          audit_digests[n].batch_hash =
              compute_batch_hash([e \in batches[n] \cap Stored |-> e])
    /\ \A e \in Stored : \E n \in DOMAIN batches : e \in batches[n]

(* What README.md:26 and schema.sql:5-8 say of the digest chain: that it       *)
(* detects an event that was inserted, one that was deleted and a field value  *)
(* that was modified.                                                          *)
EditIsNoticed == edited => ~Verifies
============================================================================
