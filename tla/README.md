# A TLA+ model of provii-audit

provii-audit is a Rust library for tamper-evident audit logs. A *producer* worker calls
`AuditLogger::log_event`, which validates, hashes and builds an `AuditEvent` and writes
it to a Cloudflare queue. A *consumer* worker drains the queue into a D1 database with
the functions of `rust/src/consumer.rs`: it stores the events of each batch and appends
one row to a chain of signed digests. Anyone who holds the key can later check the chain
with `verify_chain`. A scheduled job deletes the events that are too old.

This directory models that path, model-checks it with TLC on small instances, and proves
its main properties with TLAPS for every value of the constants. Paths below are
relative to the repository.

## Inventory

| Component | State | Operations | Correct when |
|---|---|---|---|
| Field validation, event builder (`rust/src/sanitize.rs` 48-136, `rust/src/event.rs` 329-768) | none | `validate_append_fields`, `validate_secondary_fields`, `AuditEventBuilder::build`, `validate_field_lengths` | what the producer admits, the consumer accepts |
| Audit logger (`rust/src/logger.rs`) | a sink or none, a salt; one suspended call per request | `log_event`, `log_event_best_effort` | Ok stands for a queued event; copies only after reported failures |
| Queue sink (`rust/src/sinks/queue.rs`) | a queue binding | `send`, `write` | (external queue: at least once, any order) |
| Digest functions (`rust/src/consumer.rs` 41-239) | none | `compute_batch_hash`, `compute_digest_signature`, `derive_key_id`, key guard | the hash does not depend on order; unusable keys sign nothing |
| Chain verifier (`rust/src/consumer.rs` 288-379) | loop index, expected hash | `verify_chain` | blames the first faulty row, and only a faulty one |
| Consumer pipeline (`rust/src/consumer.rs`, `schema.sql`; the worker itself is another repository) | tables `audit_events`, `audit_digests`, `audit_dlq`; a batch per invocation | receive, validate, INSERT OR IGNORE, read newest digest, sign, INSERT, acknowledge, retry, dead-letter | no event lost; covered means stored; acknowledged means covered; the chain verifies |
| Retention (`retention_delete_sql`; the job is another repository) | a cutoff and a budget per invocation; rows by age | paced DELETE | deletes every expired row at last and no other; a deleted event stays deleted |
| PII stripping (`rust/src/sanitize.rs` 138-782) | none; per scanner a position and an output | four scanners run in order | no recognised pattern survives; other text does |
| ISO 8601 (`rust/src/event.rs` 776-828) | none | `format_iso8601` | agrees with the calendar; clamps |
| Privacy context (`rust/src/privacy.rs`) | a salt | three HMACs, salt guard | hashes of different kinds never coincide |
| Severity, enumerations, wire format (`rust/src/severity.rs`, `rust/src/event.rs` 42-240, `rust/src/consumer.rs` 381-420) | none | tables of names, serde, bind parameters by position | what is stored is what was logged; the schema accepts every name |
| Errors, fuzz targets, build | none | constructors, harness | not modelled |

How they interact: the logger calls the validation, the hashing, the builder and then
*awaits* the sink, the only point where requests on one logger interleave. The queue
connects producers and consumer and delivers at least once, in any order. The worker's
steps are separate awaits on D1: it can fail between any two, and an INSERT that was
sent may be executed although nobody waits for it. `verify_chain` reads the digest table
long afterwards.

What is hard here: two invocations that read the same newest digest row; a row that
lands late; a failure between storing the events and signing them; redelivery of what
was done already; an unusable or rotated key; the producer's and the consumer's checks
drifting apart; an ambiguous queue write; retention beside redelivery; columns that meet
their values by position only; scanners that work on each other's output. `PROJECT.json`
lists each with its line and the properties aimed at it.

## Modules

`DigestChain` holds the pure functions of `consumer.rs`. Cryptography is abstract and
free of collisions: SHA-256 over sorted, length-prefixed ids is the multiset of the ids
(so an id that occurs twice in a batch counts twice, as in the code), and an HMAC tag is
the record of what was signed and with which key. A row holds the tag as hex digits, which
`hex_encode` writes in lower case and `hex_decode` reads in either, so several texts hold
one tag. Key ids may collide: `KeyIdOf` is any function. HMAC's zero-padding of short keys is left out; the guard refuses keys under 32
bytes anyway. `verify_chain` is stated declaratively there: the verdict on the first
faulty entry.

`StoreIntegrity` is the log after one row of `audit_events` was edited, and the check
the repository's README describes: `verify_chain`, and the batch hashes recomputed from
the stored ids, by an auditor who knows which events were in which batch.

`ChainVerifier` is the loop of `verify_chain`, one action per return and one for an
iteration that passes. It shows that the loop computes the verdict of `DigestChain`
(`ReturnsVerdict`), by the loop invariant `WalkedPrefixIntact`, and says which later
edits of an accepted chain are noticed (`EditsNoticed`). That the loop ends is no
property: it is a `for` over a slice.

`AuditConsumer` extends `DigestChain` with the queue, the workers and the three tables.
One action per step of the worker between two awaits:

| Action | Code |
|---|---|
| `Send`, `Duplicate`, `Receive`, `Retry` | `QueueAuditSink::send`; the queue, external |
| `DeadLetter`, `Validated` | `validate_field_lengths` on each message; table `audit_dlq` |
| `InsertEvent` | `insert_sql` for one event; one in `Refused` breaks a CHECK constraint and is ignored |
| `ReadHead` | the newest digest row, or `DIGEST_GENESIS_HASH` |
| `InsertDigest` | `compute_batch_hash`, `derive_key_id`, `compute_digest_signature`, `digest_insert_sql` |
| `SignFails` | `HmacKeyError` from the key guard |
| `Ack` | the batch is done |
| `Crash`, `CrashInInsert`, `LandLate`, `LoseLate` | the worker fails; its digest INSERT is executed later, or never |
| `RotateKey` | another key is deployed |

Signing and INSERT are one action because nothing is awaited between them. The worker's
own code is in another repository; the model takes from `src/README.md` ("Integration")
and `schema.sql` what it calls and in which order, and leaves open what they do not say:
how many invocations run, and that a redelivered event is filtered out of a batch before
hashing. `DeadLetter` shortens one path: `schema.sql` (93-111) has a dead-letter queue with
a consumer of its own that writes the table `audit_dlq`. The variable `audit_dlq` stands
for both, and giving a message up puts it there in one step. That it gets from the queue
to the table rests on that consumer and is no part of what is shown. The variables `acked`, `headAt` and `raced` are history: no action reads them.

`AuditEvent` gives the length checks on both sides of the queue and the map from
parameters to event fields. A text is its length; for the two texts `strip_pii`
rewrites, the length before and after. The order of the checks, which decides only which
field an error names, is left out.

`AuditLogger` runs `log_event` for several requests. A call that fails its checks ends
there; one that passes builds an event under an id `generate_uuid_v4` drew and waits for
`sink.write`, which
the queue answers, refuses, or executes without an answer, or the runtime drops the
request. `log_event_best_effort` hides the error, so nobody calls again. Hashing cannot
fail (HMAC takes keys of any length). An id is any one of `Uuid` that no call has drawn:
that 122 random bits do not repeat is assumed of the generator, not shown.

`AuditRow` follows the values of an event into its row: the enumerations of `event.rs`
and `severity.rs` with their names, the "" that stands for a missing value in the
message and in the bind parameters, the 23 parameters and the 23 columns they meet by
position, and the CHECK constraints of `schema.sql`. `queue_message_id` alone is not
what was logged: it is empty when the event is built, and the consumer sets it after
dequeue (`rust/src/event.rs` 320). A text is the name of the field it
is the text of, so that a value in the wrong column shows.

`AuditPipeline` composes the whole. It has an instance of `AuditLogger` (its `pc`
renamed to `call`) and one of `AuditConsumer`, whose event ids are pairs of an
`event_id` and the request behind it: `Unprocessable` is what `validate_field_lengths`
refuses of the event the logger builds, `Refused` what the constraints of `AuditRow`
refuse of the row the consumer binds. A request's `Finish` that puts a message on the
logger's queue is, in the same step, the consumer's `Send`; all else interleaves.

`AuditLog` is the promise of the whole in three sets: events are handed over
(`written`), confirmed to their caller or not (`confirmed`), and at last `settled`, that
is stored under a digest or kept as dead letters. `AuditPipeline` implements it:

| `AuditLog` | `AuditPipeline` |
|---|---|
| `written` | the events the queue ever held (`copies[e] > 0`) |
| `confirmed` | the events whose request ended with Ok |
| `settled` | `Settled(e)` of `AuditConsumer`: stored and covered, or in `audit_dlq` |
| `Write(e)` | `Finish(r)` that puts the message on the queue, whatever the caller is told |
| `Settle` | `InsertDigest`, `LandLate`, `DeadLetter`, a retry after the last delivery |
| a stutter | every other step |

`RetentionSweep` is the paced DELETE. `StartSweep` fixes a cutoff, `FullRun` is a run
that removes as many rows as its cap (and is followed by another while the budget
lasts), `ShortRun` one that removes fewer and ends the sweep, `Abort` the death of the
invocation between two runs. Sweeps overlap; beside them producers log, and the queue
delivers an event again until `QueueLife` has passed. The job's code is in another
repository; the loop is the one the documentation of `retention_delete_sql` prescribes.
`swept` and `purged` are history. The DELETE touches `audit_events` only: from then on,
the digest rows cover events that are no longer there, by design.

`Sanitize` runs the four scanners of `strip_pii` over a text of characters. A scanner's
steps up to a match are one action (`Redact`), its end another (`NextPass`); the parsers
are operators with the names they have in the code. What the comments call an address or
a date is stated again, of a whole text and without scanning (`IsIPv4`, `IsIPv6`,
`IsEmail`), for the properties to compare with; `IsLoneTld` is what the e-mail scanner
takes beside the documented pattern. A position counts characters where
the code counts bytes: no character outside ASCII belongs to a class.

`Iso8601` has `format_iso8601` beside a calendar that turns over day by day. A timestamp
is a pair of a day and the milliseconds into it, because `timestamp_ms` is beyond TLC's
integers; the arithmetic starts from that pair in the code as well. No subtraction in it
goes below zero (`TypeOK`), so unsigned and natural numbers agree.

`Privacy` has the domain-separated hashes over sequences of bytes, with an injective
HMAC. It has no state and no run; `SanitizeProofs` ends with what matters about it.

The modules whose names begin with `MC` give the constants their values for TLC; those
that end in `Proofs` hold the theorems about the module they are named after. Those
about `StoreIntegrity` are in `ChainVerifierProofs`, whose log it checks; those about
`Privacy` are in `SanitizeProofs`, with the other way to keep personal data out of an
event.

Definitions whose comment starts "Faulty variant" are not part of any specification.
Each is the definition that follows it with a plausible mistake, and `PROJECT.json`
("mutants") names the property that notices when it takes that definition's place.

## Runs

| Run | Question | Bounds |
|---|---|---|
| `chain_verifier` | Does the loop return the declarative verdict, on every chain? | all chains of up to 3 entries over 2 hashes, with every link and five kinds of signature, right tags in other letters among them; 2 usable keys, a short one, a zero one |
| `consumer_single` | Is the single writer safe and live? | 1 worker; 2 ordinary events, one of them delivered up to twice more, and 1 unprocessable; batches of 2; 2 deliveries; one usable key, one unusable |
| `consumer_race` | What survives without the single-writer assumption? | 2 workers, 2 events, batches of 2, 2 deliveries, 1 late row, 2 keys |
| `key_rotation` | Is a chain verifiable across a rotation? (violation) | 1 worker, 2 events, 2 keys |
| `logger` | Do interleaved, failing and repeated calls keep their promises? | 2 requests, 2 calls each, about 38 parameter sets: every field at its limit and one byte over, texts that grow and shrink |
| `audit_pipeline` | Does the whole keep the promise of `AuditLog`, and is what is stored what was logged? | 4 requests, 2 calls of `log_event` in all, one request with a `request_id` and one with an `event_type` that is too long; 1 worker, batches of 2, 2 deliveries, one event delivered a second time |
| `retention` | Does retention delete what is expired, all of it and nothing else? | 3 events, 2 sweeps, cap 1, budget 2, period 1, queue life 1, 5 instants, 1 failure |
| `calendar` | Does the arithmetic agree with the calendar? | every day of 1970-2370 and of 9996-10000, 5 times of day |
| `pii_scanners` | Is nothing recognised left, and nothing else removed? | about 25,000 texts: up to three pieces out of addresses, dates and parts, four short ones with an "@" among them, a long address beside a piece, two addresses that share a domain shorter or longer than a placeholder |
| `pii_email` | Is no e-mail address left? (violation) | the same texts |
| `store_edits` | Is every edit of a stored event noticed? (violation) | 3 events, 2 texts, 1 key, 1 edit |
| `field_bounds` | Does every queued event pass the consumer's check? (violation) | 1 request, 1 call, the same parameter sets |

Three entries are enough for `chain_verifier`: a first entry (genesis link), one that
links to it, and one behind that, which may link to the wrong one; an exchange or a
removal that repeated hashes hide needs three as well. Two workers are enough for a
stale read, and a late row races a single worker as well. Two deliveries give a retry
and a last attempt. Named bounds: `MaxCopies` (copies the queue makes of a message),
`MaxLate` (rows in flight), `MaxAttempts` (calls of a request) and the counter
`deliveries`, which stops at `MaxDeliveries`. `consumer_race` and `logger` check safety
only and use symmetry of workers, events and requests; `consumer_single`, with its
liveness property, uses none.

In `audit_pipeline`, two calls let two requests race, one request call twice, and an
event share a batch with another; the four requests differ in every enumerated field and
in why the consumer or the logger refuses them. In `retention`, a cap of 1 makes three
expired rows need three runs, so that a budget of 2 ends a sweep before its cutoff is
reached, and 5 instants are two periods and more. The calendar repeats itself after 400
years, and the last years cross the clamp. The pieces of `pii_scanners` meet at every
seam: each parser can match at its beginning, in the middle and at the end, beside every
kind of character that spoils a match, and beside a placeholder.

Deadlock is checked everywhere: `Returned`, `Drained`, `Over`, `Quiet`, `Done`, `Stop`
(of the calendar) and `Audited` are the states in which the system may stop; retention
always has a next step.

What the runs show:

- The store is sound with any number of workers: no event is lost (`NoEventLost`), what
  is acknowledged is covered (`AckedIsCovered`), what is covered is stored
  (`CoveredIsStored`). An event may be stored without being covered only if it ends in
  `audit_dlq`, after its last delivery failed between the two writes.
- The chain is sound only with a single writer, one usable key and no late row
  (`ChainVerifies`). `schema.sql` names the single-writer invariant, and nothing in the
  schema enforces it. Without it, `InvalidBlamesRace` says what a break can mean (a row
  that landed behind one its writer had not read, or another key) and `BreakIsPermanent`
  that it is never repaired or moved by later rows. A stale append can go unnoticed only
  when the newest hash happens to equal the one that was read, as when a batch is
  digested twice in a row.
- End to end, an event the queue took is settled, also when its write was reported as
  failed or abandoned (`ImplementsAuditLog`); the other direction, an event that is told
  Ok and not queued, does not exist. Every value of the enumerations reaches its column
  and passes the schema (`StoredAsLogged`, `CoveredIsStored`). A dead letter before the
  last delivery always is one of the fields the producer does not check, or a text that
  grew (`DeadLetterExplained`). In this run only the former happens; `logger` and
  `field_bounds` have the texts that grow.
- Retention is complete and never early, with overlapping and dying invocations
  (`NothingBehindSweep`, `ExpiredIsDeleted`, `NoEarlyDelete`). That a deleted event
  stays deleted rests on `QueueLife` being no longer than the retention period: INSERT
  OR IGNORE forgets an id with its row. 90 days against a queue's days leave room.
- On a chain that `verify_chain` accepts, a replaced `batch_hash`, `previous_hash` or
  `key_id` is noticed, and a replaced `digest_signature` unless it is the same digits in
  other letters; an entry removed from the middle or exchanged with its neighbour is
  noticed unless batch hashes repeat (`EditsNoticed`). `src/README.md` (26) claims more:
  that deleting a legitimate row or reordering batches always breaks the chain. The
  property is stated as what is noticed and nothing beyond. Not noticed are the removal
  of rows from the end of the chain, the removal or exchange of rows of a batch that was
  digested twice in a row (the links compare hashes, not signatures), and a signature
  rewritten in capital letters (`hex::decode` reads them).
- `format_iso8601` is right on every day looked at and keeps the order of timestamps.
- The scanners leave nothing they recognise and remove whole patterns only
  (`NothingLeft`, `OnlyPatternsRemoved`), with three exceptions the invariants name. An
  address without a domain label (`a@.co`) is redacted although the documented pattern
  leaves it out. When the local part of one address begins inside the address before it
  (`a@b.co@c.org`), it is no longer in the output, and `strip_emails` takes back as many
  characters of something else: the end of the earlier placeholder, and of the text
  before it when the domain between is longer than the placeholder. And an IPv4 tail
  that is spoilt leaves `::` for a second call to redact.
- Four divergences, each found by a violation run: `verify_chain` cannot check the rows
  behind a key rotation (`key_rotation`); `log_event` admits events the consumer must
  dead-letter (`field_bounds`); an address before a full stop stays in the text
  (`pii_email`); a changed field of a stored event is not noticed, because digests cover
  event ids only (`store_edits`; an event that is removed or added is noticed).

## Fairness

`AuditConsumer` has weak fairness of `Work(w)` per worker: the queue keeps
invoking a consumer while messages wait, and an invocation runs on until it fails.
Nothing makes a producer send, a key rotate, a worker crash or a late row land.
`EveryEventSettles` needs no fairness beyond that, because `MaxDeliveries` bounds the
retries. `AuditLogger` claims no liveness: nothing in the library bounds how long a
write may take. `AuditPipeline` takes over the fairness of `Work(w)` and nothing else: a
request may never call, and a write never end. `RetentionSweep` has weak fairness of
`Tick`, `StartSweep` and `DeleteRun`: time passes, the job is scheduled again and again,
and an invocation that does not die goes on; nothing makes a producer log or the queue
deliver. `MaxAborts` bounds the invocations that die.

## Proofs

Assumptions: `ChainAssumption` (finitely many event ids, keys have lengths and ids,
undecodable text is no tag), `ChainsAssumption`, `ConsumerAssumption`,
`LoggerAssumption`, `PipelineAssumption` and `CalendarAssumption` (types of the
constants, no size bounds), `TextsAssumption` (texts are sequences of characters, the
placeholders' among them), and `SweepAssumption`, which adds that the queue's messages do
not outlive the retention period.

- `ChainVerifierProofs`: `TypeCorrect`; `PrefixIntact`, the loop invariant
  `WalkedPrefixIntact`, which ties `expected_previous` to the entry before and says that
  no fault was passed; `LoopReturnsVerdict` from it, because the entry that ends the walk
  is then the first fault. `EditsAreNoticed` is about the chain and not about the loop:
  it follows from lemmas on a replaced, a removed and an exchanged entry in
  `DigestChainProofs`, which say exactly which links an edit can break.
- `DigestChainProofs`: `BreakStays`, no append changes a negative verdict.
- `AuditConsumerProofs`: `TypeCorrect`. `SingleWriterChainVerifies` assumes
  `SingleWriter` (one worker, one usable key, `MaxLate = 0`) and needs that the head a
  worker holds is still the newest row and that every row is intact under the usable
  key. `BreakNeverHeals` needs types and `BreakStays` only. `NothingLost`,
  `AcknowledgedIsCovered` and `ChainTellsTheTruth` share the inductive invariant
  `StoreInv`: none of the three is inductive alone, since what a worker will sign or
  acknowledge depends on how much of its batch is stored (`WorkerInv`) and a late row on
  what its writer had stored (`LateInv`). `NoInnocentBlamed` assumes nothing about
  workers or keys. Its invariant `RaceInv` says that every row carries the tag of some key
  over its own fields (`SelfSigned`), that what a worker or a late row read was and stays
  the hash of a row of the table or the genesis hash (`ReadFrom`), and that a row not
  linked to the one before is in `raced`; the row a verifier blames is then raced, or signed with
  another key. `NothingInvented` is the converse of `NothingLost`: an event that waits,
  is held, stored or dead-lettered was sent (`OnlySent`), and a dead letter was
  unprocessable or delivered `MaxDeliveries` times (`DeadLettersEarned`).
- `AuditLoggerProofs`: `TypeCorrect`, and `OkMeansQueued`, `CopiesAreAnswers` and
  `RefusalsExplained` from `LoggerInv`, which adds that only admitted
  parameters reach a write, that the id being written is unused, and that a best-effort
  request that is still active has nothing in the queue. `RefusalsExplained` holds for
  every field length.
- `AuditPipelineProofs` reuses the theorems about the halves. `ImplementsLogger` and
  `ImplementsConsumer` show that the pipeline's specification implies that of
  `AuditLogger` and of `AuditConsumer` under the renaming; for the latter, the ids in
  use are those of the calls made (`IdInv`), so that each write is of an event.
  `TypeCorrect` and `ChainTellsTheTruth` then follow from the theorems of the same
  names. `RowHoldsFields` and `SchemaAccepts` hold for every combination of enumerated
  values: names are unique per field and none is empty, so a value survives the message
  (`RoundTrip`), and parameters stand in the order of the columns (`BoundInOrder`).
  `NothingRefused` and `StoredIsLogged` carry that to the pipeline.
  `DeadLettersExplained` joins the halves: a dead letter was unprocessable or delivered
  `MaxDeliveries` times (`NothingInvented`), what is in the queue has the fields its
  logger wrote (`SentInv`), and of those `RefusalsExplained` speaks. `ImplementsLog` is
  the refinement: the initial states map to the initial state of `AuditLog`, and every
  step to one of its steps or to none. A write that puts a message into the queue is
  `Write` whether or not the caller is told; an acknowledgement or a dead letter is
  `Settle`, of an event that was written since nothing is invented; everything else,
  calls, redeliveries, digests, crashes and rotations, changes nothing the promise
  speaks of.
- `RetentionSweepProofs`: `TypeCorrect`; `DeletedStaysDeleted`, `SweepIsComplete` and
  `NothingDeletedEarly` from an invariant that ties each cutoff, each deleted event and
  `swept` to the clock: what lies behind a cutoff is older than anything the queue may
  still deliver.
- `Iso8601Proofs`: `FieldsInRange`, for every timestamp: the year of the era is between
  0 and 399 (`YearOfEra`), the month between 1 and 12, the day between 1 and 31, and no
  difference on the way is negative; `TypeCorrect` follows. `MatchesTheCalendar` needs
  no induction over the days: the invariant is that the calendar's date is
  `civil_from_days(day)`, and turning over keeps it (`CivilTomorrow`). For that, each
  day is given its place, era, century, four years, year and day of a year that begins
  in March (`EveryDayPlaced`); the code's divisions find that place although they divide
  by 1460 and 36524 and not by the true lengths (`YearFound`); the next day has the next
  place (`NextPlace`); the 29 February is where the leap years have it (`LeapDay`); and
  within the year the twelve months are looked at one by one. `TextOrder` compares the
  places of any two days, so it holds of any two timestamps, and `OrderAlwaysKept` of
  the steps of the run.
- `ChainVerifierProofs` also has `ExactlyTheIds`, which bounds the divergence
  `store_edits` finds. For any number of events and batches and a usable key, the check
  of README.md succeeds exactly when the ids stored are those digested: a deleted or
  inserted event is always noticed, a changed field never. It rests on the batch hash
  telling sets of ids apart (`SetHashValue`) and on every row being intact (`LogInv`).
- `SanitizeProofs` is about texts of any length, over any characters. `TypeCorrect`:
  every parser returns a position behind its first character and not beyond the text.
  `NothingIsLeft` is about `Out`, the text as it would be if the scan stopped here
  (output and unread input joined). `CleanInv` says that no scanner that has finished
  finds anything in `Out`, that the scanner at work finds nothing that begins in its
  output, and that the output ends in a placeholder (`Edge`), on whose brackets the rest
  depends: neither is a character of any pattern, so a pattern in the new text lies
  wholly before the placeholder or wholly behind it (`StretchBesides`, `Bracketed`), and
  was then in the old text (`IPv4Survives`, `EmailSurvives`, `DateSurvives`). The three
  lemmas are why one scanner cannot make work for another, and why IPv6 is not in the
  list: its neighbours may end in a bracket. The exception is the one the invariant
  names, `overran`: only then does a redaction remove a bracket. `MappedIsOne` adds
  `Unmixed`: what the IPv6 scanner has behind it holds no IPv4 address within an IPv6
  one. Its step is the hardest: an IPv6 address that a placeholder's neighbour could
  have completed or spoilt was an address before (`SameIPv6`, `NestedStays`), through
  the layers of `GroupsEnd`, one per group that may follow (`SameLayer`).
  `PatternsOnly` compares the scanners with `IsPattern`, which states the patterns of a
  whole text and knows no positions. What a redaction takes out is a stretch of the
  input, and the stretch has the shape: four octets (`QuadIsIPv4`), an address around
  its "@", inside the documented pattern or without a domain label (`EmailIsEmail`), a
  date (`DateIsBirthDate`), and for IPv6 at most eight groups and at most one "::"
  (`AddressIsIPv6`), counted through the layers of `GroupsEnd` (`LayerGroups`): a group
  more, a layer less, and behind a "::" no second one. For a local part, which is in the
  output already, `Carry` keeps where the output still ends as the input does; where
  it does not, the local part must begin with the domain of the address redacted last
  (`SharedDomain`), and what the pops take is the end of that address's placeholder or
  contains it (`OverrunTakes`). At the
  module's end, `DomainSeparation` is about `Privacy`: no tag is the beginning of another, so no two
  kinds of hash coincide, whatever the texts; a salt that `new` accepts is long enough
  and not all zeros.

`StoreInv`, `LoggerInv`, `RaceInv`, `OnlySent`, `DeadLettersEarned` and the statement of
`ExactlyTheIds` were model-checked on the run instances before they were proved.

Only model-checked: the liveness properties `EveryEventSettles`,
`ExpiredIsDeleted` and the liveness of `ImplementsAuditLog`: fairness and ENABLED are
out of the prover's reach.

## Not modelled

The consumer worker's own code, the retention job and Cloudflare's queue and D1
(external; modelled from how `src/` uses them); console output; the text of the JSON and
of error messages; HMAC and SHA-256 themselves; the random bits of a UUID; zeroisation;
the alias parser of `Severity`, which test builds alone have; CI and fuzz targets.
Compositions left out: retention beside the digest chain (it deletes covered events by
design, and the chain does not read `audit_events`).

## Plan

The modules planned are written, and every safety property a passing run checks is a
theorem. A part of `src/` that is added later gets a module beside these, a run and its
theorems in the same way.
