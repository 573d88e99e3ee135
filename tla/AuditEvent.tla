----------------------------- MODULE AuditEvent -----------------------------
(* What a producer may put into an audit event and what the consumer takes    *)
(* out of the queue: the checks of rust/src/sanitize.rs and rust/src/event.rs *)
(* on the byte length of every text field.  A text is its length; for the two *)
(* fields strip_pii rewrites, the length after it is given beside the length  *)
(* before it, and event_type also tells whether it starts with "[TOMBSTONE:". *)
(* Enumerated fields (severity, environment, ...) always fit and are left out. *)
EXTENDS Naturals

MAX_FIELD_LENGTH == 8192
MAX_DETAILS_LENGTH == 16384
MAX_EVENT_TYPE_LENGTH == 128
MAX_MESSAGE_LENGTH == 2048
HASH_LENGTH == 64             \* hex digits of an HMAC-SHA-256 tag
UUID_LENGTH == 32             \* hex digits generate_uuid_v4 returns
ISO8601_LENGTH == 24          \* characters format_iso8601 returns
TOMBSTONE_LENGTH == 11        \* bytes of "[TOMBSTONE:"

(* Fields that go from the parameters to the event as they are. *)
Copied == {"source_service", "event_type", "challenge_id", "request_id",
           "worker_version", "geo_country", "actor_id", "resource_type",
           "resource_id"}

(* Fields hashed on the way: the parameter's name for each field of the event. *)
HashedFrom == [client_ip_hash |-> "raw_ip", origin |-> "origin",
               user_agent_hash |-> "raw_user_agent"]
Hashed == {"client_ip_hash", "origin", "user_agent_hash"}

(* Fields that go through strip_pii. *)
Stripped == {"message", "details"}

ParamField == Copied \cup Stripped \cup {"raw_ip", "origin", "raw_user_agent"}
EventField == Copied \cup Stripped \cup Hashed
                     \cup {"event_id", "created_at", "queue_message_id"}

(* The parameters of log_event, with the logger's own source_service.          *)
(* strip_pii replaces text by placeholders and never empties a text.           *)
AuditParams == {p \in [length    : [ParamField -> Nat],
                       stripped  : [Stripped -> Nat],
                       tombstone : BOOLEAN] :
                   /\ p.tombstone => p.length["event_type"] >= TOMBSTONE_LENGTH
                   /\ \A f \in Stripped : p.length[f] = 0 <=> p.stripped[f] = 0}

AuditEvents == [EventField -> Nat]
----------------------------------------------------------------------------
(* The producer's side.                                                       *)

(* The severity check never fails: as_str returns 8 bytes at most. *)
validate_append_fields(p) ==
    /\ p.length["event_type"] \in 1..MAX_EVENT_TYPE_LENGTH
    /\ ~p.tombstone
    /\ p.length["message"] <= MAX_MESSAGE_LENGTH
    /\ p.length["details"] <= MAX_DETAILS_LENGTH

validate_secondary_fields(p) ==
    \A f \in {"raw_ip", "origin", "raw_user_agent", "challenge_id"} :
        p.length[f] <= MAX_FIELD_LENGTH

(* AuditEventBuilder::build refuses an empty field. *)
buildable(p) ==
    \A f \in {"event_type", "message", "source_service"} : p.length[f] > 0

(* Faulty variant: the builder's check alone. *)
AdmittedUnchecked(p) == buildable(p)

(* What log_event lets through to the sink. *)
Admitted(p) ==
    validate_append_fields(p) /\ validate_secondary_fields(p) /\ buildable(p)

(* An absent value is not hashed. *)
HashedLength(n) == IF n = 0 THEN 0 ELSE HASH_LENGTH

(* The length of field f of the event the builder makes of the parameters. *)
built(p, f) ==
    CASE f \in Copied -> p.length[f]
      [] f \in Stripped -> p.stripped[f]
      [] f \in Hashed -> HashedLength(p.length[HashedFrom[f]])
      [] f = "event_id" -> UUID_LENGTH
      [] f = "created_at" -> ISO8601_LENGTH
      [] f = "queue_message_id" -> 0

build(p) == [f \in EventField |-> built(p, f)]
----------------------------------------------------------------------------
(* The consumer's side.                                                       *)

Required == {"event_id", "source_service", "event_type", "message", "created_at"}

MaxLength(f) ==
    CASE f = "event_id" -> 64
      [] f = "source_service" -> 128
      [] f = "event_type" -> MAX_EVENT_TYPE_LENGTH
      [] f = "message" -> MAX_MESSAGE_LENGTH
      [] f = "details" -> MAX_DETAILS_LENGTH
      [] f = "request_id" -> 256
      [] f = "worker_version" -> 128
      [] f = "geo_country" -> 8
      [] f = "actor_id" -> 256
      [] f = "resource_type" -> 128
      [] f = "resource_id" -> 256
      [] f = "queue_message_id" -> 256
      [] f = "created_at" -> 32
      [] OTHER -> MAX_FIELD_LENGTH

(* The consumer stores an event that passes and dead-letters one that fails. *)
validate_field_lengths(event) ==
    /\ \A f \in Required : event[f] > 0
    /\ \A f \in EventField : event[f] <= MaxLength(f)
============================================================================
