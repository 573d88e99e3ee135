--------------------------- MODULE AuditConsumer ---------------------------
(* The pipeline from the audit queue to the D1 store.  Producers enqueue      *)
(* events (rust/src/sinks/queue.rs); the queue delivers batches at least once *)
(* and retries a batch whose worker fails, dead-lettering it after            *)
(* MaxDeliveries; a worker runs the consumer side of rust/src/consumer.rs and *)
(* schema.sql on its batch:                                                   *)
(*                                                                            *)
(*   receive -> drop unprocessable -> INSERT OR IGNORE each event             *)
(*           -> read the newest digest row -> sign and insert a digest row    *)
(*           -> acknowledge                                                   *)
(*                                                                            *)
(* The functions are src/'s; the worker that calls them and the queue live in *)
(* other repositories and are modelled from how src/ says they use them.  A   *)
(* worker may fail between any two steps, and a digest row whose INSERT was    *)
(* sent before the failure may still reach the table afterwards.              *)
(*                                                                            *)
(* Dead-lettering is one step here.  In the deployment a message goes to a     *)
(* dead-letter queue first, and a consumer of that queue, which touches no     *)
(* other table, writes it to audit_dlq (schema.sql:93-111): audit_dlq stands   *)
(* for that queue and the table together, and nothing is said of the way from  *)
(* the one to the other.                                                       *)
EXTENDS DigestChain, SequencesExt

CONSTANTS
    Worker,               \* concurrent invocations of the consumer worker
    Unprocessable,        \* messages that do not deserialise or fail
                          \* validate_field_lengths
    Refused,              \* events whose row a CHECK constraint refuses
    MaxBatch,             \* the queue's batch size
    MaxDeliveries,        \* deliveries before a failing message is dead-lettered
    MaxCopies,            \* bound, per event: copies the queue makes of its message
    MaxLate               \* bound: digest INSERTs in flight after a failure

ASSUME ConsumerAssumption == /\ Unprocessable \subseteq EventId
                             /\ Refused \subseteq Unprocessable
                             /\ MaxBatch \in Nat \ {0}
                             /\ MaxDeliveries \in Nat \ {0}
                             /\ MaxCopies \in [EventId -> Nat \ {0}]
                             /\ MaxLate \in Nat

VARIABLES
    copies,               \* copies of each event's message the queue ever held
    queue,                \* copies waiting to be delivered
    deliveries,           \* deliveries of each event so far, up to MaxDeliveries
    audit_events,         \* table: the event_ids stored (UNIQUE)
    audit_digests,        \* table: the digest rows, oldest first
    audit_dlq,            \* the events in the dead-letter queue or its table
    acked,                \* history: events a worker acknowledged as processed
    digest_key,           \* the configured HMAC key
    pc,                   \* per worker: its next step
    batch,                \* per worker: ids of the messages it holds
    inserted,             \* per worker: how many of them it has inserted
    key,                  \* per worker: the key read at the start of the batch
    head,                 \* per worker: the batch_hash it read as the newest
    headAt,               \* history, per worker: the position of that row
    late,                 \* digest rows sent to D1 by workers that then failed
    raced                 \* history: positions of the rows that landed behind
                          \* another row than the one their writer had read

queueVars == <<copies, queue, deliveries>>
tableVars == <<audit_events, audit_digests, audit_dlq>>
workerVars == <<pc, batch, inserted, key, head, headAt>>
vars == <<queueVars, tableVars, acked, digest_key, workerVars, late, raced>>

(* The batches that can be made of some events' messages. *)
BatchesOf(events) == UNION {[1..n -> events] : n \in 1..MaxBatch}

Init ==
    /\ copies = [e \in EventId |-> 0]
    /\ queue = [e \in EventId |-> 0]
    /\ deliveries = [e \in EventId |-> 0]
    /\ audit_events = {}
    /\ audit_digests = <<>>
    /\ audit_dlq = {}
    /\ acked = {}
    /\ digest_key \in Key
    /\ pc = [w \in Worker |-> "idle"]
    /\ batch = [w \in Worker |-> <<>>]
    /\ inserted = [w \in Worker |-> 0]
    /\ key = [w \in Worker |-> digest_key]
    /\ head = [w \in Worker |-> DIGEST_GENESIS_HASH]
    /\ headAt = [w \in Worker |-> 0]
    /\ late = {}
    /\ raced = {}
----------------------------------------------------------------------------
(* The queue.                                                                 *)

(* QueueAuditSink::send succeeds: one message per event. *)
Send(e) ==
    /\ copies[e] = 0
    /\ copies' = [copies EXCEPT ![e] = 1]
    /\ queue' = [queue EXCEPT ![e] = 1]
    /\ UNCHANGED <<deliveries, tableVars, acked, digest_key, workerVars, late, raced>>

(* At-least-once delivery: a message already sent, even one already            *)
(* acknowledged, is queued once more.                                          *)
Duplicate(e) ==
    /\ copies[e] \in 1..(MaxCopies[e] - 1)
    /\ copies' = [copies EXCEPT ![e] = @ + 1]
    /\ queue' = [queue EXCEPT ![e] = @ + 1]
    /\ UNCHANGED <<deliveries, tableVars, acked, digest_key, workerVars, late, raced>>

Delivered(e) == IF deliveries[e] < MaxDeliveries THEN deliveries[e] + 1
                                                 ELSE MaxDeliveries

(* A batch of waiting messages, in any order, goes to an idle worker, which    *)
(* reads the key its environment holds.                                        *)
Receive(w) ==
    /\ pc[w] = "idle"
    /\ \E b \in BatchesOf({e \in EventId : queue[e] > 0}) :
          /\ \A e \in EventId : Multiplicity(b, e) <= queue[e]
          /\ queue' = [e \in EventId |-> queue[e] - Multiplicity(b, e)]
          /\ deliveries' = [e \in EventId |-> IF e \in Range(b) THEN Delivered(e)
                                                              ELSE deliveries[e]]
          /\ batch' = [batch EXCEPT ![w] = b]
    /\ key' = [key EXCEPT ![w] = digest_key]
    /\ pc' = [pc EXCEPT ![w] = "received"]
    /\ UNCHANGED <<copies, tableVars, acked, digest_key, inserted, head, headAt,
                   late, raced>>

(* The worker's state when it holds no batch. *)
Release(w) ==
    /\ pc' = [pc EXCEPT ![w] = "idle"]
    /\ batch' = [batch EXCEPT ![w] = <<>>]
    /\ inserted' = [inserted EXCEPT ![w] = 0]
    /\ head' = [head EXCEPT ![w] = DIGEST_GENESIS_HASH]
    /\ headAt' = [headAt EXCEPT ![w] = 0]
    /\ UNCHANGED key

(* Faulty variant: a failed batch is not put back. *)
RetryForgotten(w) ==
    /\ UNCHANGED <<queue, audit_dlq>>

(* The queue takes a failed batch back: each message waits again, or is        *)
(* dead-lettered when this was its last delivery.                              *)
Retry(w) ==
    /\ queue' = [e \in EventId |->
                    IF deliveries[e] < MaxDeliveries
                    THEN queue[e] + Multiplicity(batch[w], e) ELSE queue[e]]
    /\ audit_dlq' = audit_dlq \cup
                        {e \in Range(batch[w]) : deliveries[e] = MaxDeliveries}
----------------------------------------------------------------------------
(* The worker.                                                                *)

Goto(w, step) == pc' = [pc EXCEPT ![w] = step]

(* validate_field_lengths rejects a message: it leaves the batch for the       *)
(* dead-letter queue.                                                          *)
DeadLetter(w) ==
    /\ pc[w] = "received"
    /\ \E i \in DOMAIN batch[w] :
          /\ batch[w][i] \in Unprocessable
          /\ audit_dlq' = audit_dlq \cup {batch[w][i]}
          /\ batch' = [batch EXCEPT ![w] = RemoveAt(@, i)]
    /\ UNCHANGED <<queueVars, audit_events, audit_digests, acked, digest_key, pc,
                   inserted, key, head, headAt, late, raced>>

(* Every message left is processable.  A batch with none left gets no digest. *)
Validated(w) ==
    /\ pc[w] = "received"
    /\ Range(batch[w]) \cap Unprocessable = {}
    /\ Goto(w, IF batch[w] = <<>> THEN "digested" ELSE "storing")
    /\ UNCHANGED <<queueVars, tableVars, acked, digest_key, batch, inserted, key,
                   head, headAt, late, raced>>

(* INSERT OR IGNORE of the next event: a row already there stays as it is, and *)
(* a row that a CHECK constraint refuses is ignored without a word.            *)
InsertEvent(w) ==
    /\ pc[w] = "storing"
    /\ inserted[w] < Len(batch[w])
    /\ audit_events' = audit_events \cup ({batch[w][inserted[w] + 1]} \ Refused)
    /\ inserted' = [inserted EXCEPT ![w] = @ + 1]
    /\ UNCHANGED <<queueVars, audit_digests, audit_dlq, acked, digest_key, pc,
                   batch, key, head, headAt, late, raced>>

(* Faulty variant: the digest is started while events are still to insert. *)
ReadHeadEarly(w) ==
    /\ pc[w] = "storing"
    /\ head' = [head EXCEPT ![w] = PreviousHash(audit_digests, Len(audit_digests) + 1)]
    /\ headAt' = [headAt EXCEPT ![w] = Len(audit_digests)]
    /\ Goto(w, "linking")
    /\ UNCHANGED <<queueVars, tableVars, acked, digest_key, batch, inserted, key,
                   late, raced>>

(* The newest digest row, or the genesis hash when there is none. *)
ReadHead(w) ==
    /\ pc[w] = "storing"
    /\ inserted[w] = Len(batch[w])
    /\ head' = [head EXCEPT ![w] = PreviousHash(audit_digests, Len(audit_digests) + 1)]
    /\ headAt' = [headAt EXCEPT ![w] = Len(audit_digests)]
    /\ Goto(w, "linking")
    /\ UNCHANGED <<queueVars, tableVars, acked, digest_key, batch, inserted, key,
                   late, raced>>

(* The row for a batch: BatchResult's batch_hash, previous_hash, signature and *)
(* key_id.                                                                     *)
DigestRow(ids, previous_hash, hmac_key) ==
    LET batch_hash == compute_batch_hash(ids)
        key_id == derive_key_id(hmac_key)
    IN  [batch_hash       |-> batch_hash,
         previous_hash    |-> previous_hash,
         digest_signature |-> compute_digest_signature(batch_hash, previous_hash,
                                                       hmac_key, key_id),
         key_id           |-> key_id]

(* A row lands at the end of audit_digests; the history variable records       *)
(* whether the newest row is still the one its writer read.                    *)
AppendDigest(row, readAt) ==
    /\ audit_digests' = Append(audit_digests, row)
    /\ raced' = IF readAt = Len(audit_digests) THEN raced
                ELSE raced \cup {Len(audit_digests) + 1}

(* Faulty variant: every row is linked to the genesis hash. *)
InsertDigestUnlinked(w) ==
    /\ pc[w] = "linking"
    /\ validate_digest_key(key[w])
    /\ AppendDigest(DigestRow(batch[w], DIGEST_GENESIS_HASH, key[w]), headAt[w])
    /\ Goto(w, "digested")
    /\ UNCHANGED <<queueVars, audit_events, audit_dlq, acked, digest_key, batch,
                   inserted, key, head, headAt, late>>

(* Faulty variant: a row is signed with an unusable key. *)
InsertDigestUnguarded(w) ==
    /\ pc[w] = "linking"
    /\ AppendDigest(DigestRow(batch[w], head[w], key[w]), headAt[w])
    /\ Goto(w, "digested")
    /\ UNCHANGED <<queueVars, audit_events, audit_dlq, acked, digest_key, batch,
                   inserted, key, head, headAt, late>>

InsertDigest(w) ==
    /\ pc[w] = "linking"
    /\ validate_digest_key(key[w])
    /\ AppendDigest(DigestRow(batch[w], head[w], key[w]), headAt[w])
    /\ Goto(w, "digested")
    /\ UNCHANGED <<queueVars, audit_events, audit_dlq, acked, digest_key, batch,
                   inserted, key, head, headAt, late>>

Processed(w) ==
    /\ acked' = acked \cup Range(batch[w])
    /\ Release(w)
    /\ UNCHANGED <<queueVars, tableVars, digest_key, late, raced>>

(* Faulty variant: a batch is acknowledged once its events are stored. *)
AckStored(w) == pc[w] \in {"linking", "digested"} /\ Processed(w)

(* The queue forgets an acknowledged batch. *)
Ack(w) == pc[w] = "digested" /\ Processed(w)

(* compute_digest_signature returns HmacKeyError: the batch fails with its     *)
(* events already stored.                                                      *)
SignFails(w) ==
    /\ pc[w] = "linking"
    /\ ~validate_digest_key(key[w])
    /\ Retry(w)
    /\ Release(w)
    /\ UNCHANGED <<copies, deliveries, audit_events, audit_digests, acked,
                   digest_key, late, raced>>

(* The worker crashes, times out or meets a D1 error, between any two steps. *)
Crash(w) ==
    /\ pc[w] # "idle"
    /\ Retry(w)
    /\ Release(w)
    /\ UNCHANGED <<copies, deliveries, audit_events, audit_digests, acked,
                   digest_key, late, raced>>

(* The worker fails while its digest INSERT is under way: nobody waits for the *)
(* answer any more, and the row may land or be lost.                           *)
CrashInInsert(w) ==
    /\ pc[w] = "linking"
    /\ validate_digest_key(key[w])
    /\ Cardinality(late) < MaxLate
    /\ late' = late \cup {[row |-> DigestRow(batch[w], head[w], key[w]),
                           readAt |-> headAt[w]]}
    /\ Retry(w)
    /\ Release(w)
    /\ UNCHANGED <<copies, deliveries, audit_events, audit_digests, acked,
                   digest_key, raced>>

LandLate(r) ==
    /\ AppendDigest(r.row, r.readAt)
    /\ late' = late \ {r}
    /\ UNCHANGED <<queueVars, audit_events, audit_dlq, acked, digest_key, workerVars>>

LoseLate(r) ==
    /\ late' = late \ {r}
    /\ UNCHANGED <<queueVars, tableVars, acked, digest_key, workerVars, raced>>

(* An operator deploys another key. *)
RotateKey(k) ==
    /\ digest_key # k
    /\ digest_key' = k
    /\ UNCHANGED <<queueVars, tableVars, acked, workerVars, late, raced>>
----------------------------------------------------------------------------

(* Nothing is left to do: every event was sent and handled. *)
Drained ==
    /\ \A e \in EventId : copies[e] > 0 /\ queue[e] = 0
    /\ \A w \in Worker : pc[w] = "idle"
    /\ late = {}
    /\ UNCHANGED vars

Work(w) ==
    \/ Receive(w) \/ DeadLetter(w) \/ Validated(w) \/ InsertEvent(w)
    \/ ReadHead(w) \/ InsertDigest(w) \/ SignFails(w) \/ Ack(w)

(* What happens to the messages and rows that are there. *)
Handle ==
    \/ \E e \in EventId : Duplicate(e)
    \/ \E w \in Worker : Work(w) \/ Crash(w) \/ CrashInInsert(w)
    \/ \E r \in late : LandLate(r) \/ LoseLate(r)
    \/ \E k \in Key : RotateKey(k)

Next == (\E e \in EventId : Send(e)) \/ Handle \/ Drained

Spec == Init /\ [][Next]_vars

(* The queue invokes a worker while messages wait, and a worker runs on until  *)
(* it fails; nothing makes a producer send, a key rotate or a late row land.   *)
FairSpec == Spec /\ \A w \in Worker : WF_vars(Work(w))
----------------------------------------------------------------------------

LateRow == [row : DigestEntry, readAt : Nat]

TypeOK ==
    /\ copies \in [EventId -> Nat]
    /\ queue \in [EventId -> Nat]
    /\ deliveries \in [EventId -> 0..MaxDeliveries]
    /\ audit_events \subseteq EventId
    /\ audit_digests \in Seq(DigestEntry)
    /\ audit_dlq \subseteq EventId
    /\ acked \subseteq EventId
    /\ digest_key \in Key
    /\ pc \in [Worker -> {"idle", "received", "storing", "linking", "digested"}]
    /\ batch \in [Worker -> Seq(EventId)]
    /\ inserted \in [Worker -> Nat]
    /\ key \in [Worker -> Key]
    /\ head \in [Worker -> Hash]
    /\ headAt \in [Worker -> Nat]
    /\ late \subseteq LateRow
    /\ raced \subseteq Nat

(* Some digest row covers the event. *)
Covered(e) == \E i \in DOMAIN audit_digests : audit_digests[i].batch_hash[e] > 0

Settled(e) == (e \in audit_events /\ Covered(e)) \/ e \in audit_dlq

(* No event is lost between the queue and the store: one that was sent waits   *)
(* in the queue, is held by a worker, is stored and covered by a digest row,   *)
(* or is dead-lettered, whatever fails, is redelivered or lands late           *)
(* (schema.sql:98: not "silently lost").                                       *)
NoEventLost ==
    \A e \in EventId :
        copies[e] > 0 => \/ queue[e] > 0
                         \/ \E w \in Worker : e \in Range(batch[w])
                         \/ Settled(e)

(* A message the queue forgets is safe: its event is stored and some digest    *)
(* row covers it, although a worker may fail between the two writes.           *)
AckedIsCovered == \A e \in acked : e \in audit_events /\ Covered(e)

(* The digest chain never vouches for an event that is not in audit_events:    *)
(* rows are written after the whole batch is inserted, late rows included.     *)
CoveredIsStored == \A e \in EventId : Covered(e) => e \in audit_events

(* With one worker, one usable key and no late row, verify_chain finds the     *)
(* stored chain valid at every moment, through crashes, redeliveries and       *)
(* deployments of an unusable key.                                             *)
ChainVerifies ==
    \A k \in Key : validate_digest_key(k) =>
        verify_chain(audit_digests, k) = Valid(Len(audit_digests))

(* verify_chain blames no innocent row: when it reports a mismatch under a     *)
(* key, the row it names was signed with another key, or landed behind a row   *)
(* its writer had not read.                                                    *)
InvalidBlamesRace ==
    \A k \in Key :
        LET v == verify_chain(audit_digests, k)
            i == v.first_mismatch_index + 1
        IN  v.verdict = "Invalid" =>
                i \in raced \/ hex_decode(audit_digests[i].digest_signature).key # k

(* A broken chain stays broken at the same row: no later append repairs it or  *)
(* hides where it broke.                                                       *)
BreakIsPermanent ==
    [][\A k \in Key :
           verify_chain(audit_digests, k).verdict = "Invalid" =>
               verify_chain(audit_digests', k) = verify_chain(audit_digests, k)]_vars

(* Every event that is sent is at last stored and covered, or dead-lettered. *)
EveryEventSettles == \A e \in EventId : copies[e] > 0 ~> Settled(e)

(* The rows i..j carry one key id, and their neighbours another. *)
Segment(i, j) ==
    /\ i <= j
    /\ \A n \in i..j : audit_digests[n].key_id = audit_digests[i].key_id
    /\ i > 1 => audit_digests[i - 1].key_id # audit_digests[i].key_id
    /\ j < Len(audit_digests) => audit_digests[j + 1].key_id # audit_digests[i].key_id

(* What consumer.rs promises of key rotation (lines 110 and 303): a chain      *)
(* whose key was rotated is still verifiable, segment by segment, each with    *)
(* the key its key_id names.                                                   *)
SegmentsVerify ==
    \A i, j \in DOMAIN audit_digests :
        Segment(i, j) =>
            \A k \in Key :
                derive_key_id(k) = audit_digests[i].key_id =>
                    verify_chain(SubSeq(audit_digests, i, j), k) = Valid(j - i + 1)
============================================================================
