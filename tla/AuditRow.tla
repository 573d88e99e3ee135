------------------------------ MODULE AuditRow ------------------------------
(* From an event to its row in audit_events: the enumerated fields and their   *)
(* names (rust/src/event.rs, severity.rs), the JSON the queue carries, the     *)
(* bind parameters and the columns they meet by position (consumer.rs), and    *)
(* what the CHECK constraints of schema.sql accept.  An enumerated value is    *)
(* the name of its variant; a text is the field it is the text of.  One field, *)
(* queue_message_id, is empty when the event is built and the consumer's to    *)
(* set after it has dequeued the message.                                      *)
EXTENDS Naturals, Sequences

(* An optional field without a value. *)
None == "None"

Severity == [Info |-> "info", Warning |-> "warning", Error |-> "error",
             Critical |-> "critical"]

Environment == [Production |-> "production", Sandbox |-> "sandbox"]

EventCategory == [Authentication |-> "AUTHENTICATION",
                  Authorization |-> "AUTHORIZATION",
                  KeyAccess |-> "KEY_ACCESS",
                  DataMutation |-> "DATA_MUTATION",
                  SessionLifecycle |-> "SESSION_LIFECYCLE",
                  CredentialIssuance |-> "CREDENTIAL_ISSUANCE",
                  Verification |-> "VERIFICATION",
                  AdminAction |-> "ADMIN_ACTION",
                  ExternalCall |-> "EXTERNAL_CALL",
                  SecurityEvent |-> "SECURITY_EVENT"]

ActorType == [User |-> "user", Service |-> "service", ApiKey |-> "api_key",
              System |-> "system"]

Outcome == [Success |-> "success", Failure |-> "failure", Denied |-> "denied",
            Error |-> "error"]

(* The names of each enumerated field's variants: as_str and serde's rename_all *)
(* agree on them.                                                              *)
Name == [severity |-> Severity, environment |-> Environment,
         event_category |-> EventCategory, actor_type |-> ActorType,
         outcome |-> Outcome]

Enumerated == DOMAIN Name
Optional == {"event_category", "actor_type", "outcome"}

Values(f) == DOMAIN Name[f] \cup (IF f \in Optional THEN {None} ELSE {})

(* What an event holds in its enumerated fields. *)
Class == {c \in [Enumerated -> UNION {Values(f) : f \in Enumerated}] :
             \A f \in Enumerated : c[f] \in Values(f)}

(* A value as a string of the JSON message, and as a bind parameter:           *)
(* option_enum_as_string and event_bind_params both write None as "".          *)
as_str(f, v) == IF v = None THEN "" ELSE Name[f][v]

(* The value the consumer reads from such a string. *)
deserialize(f, s) ==
    IF f \in Optional /\ s = "" THEN None
    ELSE CHOOSE v \in DOMAIN Name[f] : Name[f][v] = s

(* The message's enumerated fields after a trip through the queue. *)
Received(class) == [f \in Enumerated |-> deserialize(f, as_str(f, class[f]))]
----------------------------------------------------------------------------
(* The 23 columns of insert_sql. *)
insert_sql ==
    <<"event_id", "timestamp_ms", "source_service", "event_type", "severity",
      "client_ip_hash", "origin", "user_agent_hash", "challenge_id", "message",
      "details", "request_id", "environment", "worker_version", "geo_country",
      "event_category", "actor_id", "actor_type", "resource_type", "resource_id",
      "outcome", "queue_message_id", "created_at">>

Column == {insert_sql[n] : n \in 1..Len(insert_sql)}

(* What the field of an event is bound as, queue_message_id as it stands when  *)
(* the consumer binds it.                                                      *)
Bound(f, class) == IF f \in Enumerated THEN as_str(f, class[f]) ELSE f

(* Faulty variant: two parameters that stand side by side are swapped. *)
event_bind_params_swapped(class) ==
    [n \in 1..Len(insert_sql) |->
        Bound(CASE insert_sql[n] = "origin" -> "user_agent_hash"
                [] insert_sql[n] = "user_agent_hash" -> "origin"
                [] OTHER -> insert_sql[n], class)]

event_bind_params(class) ==
    LET bind(f) == Bound(f, class)
    IN  <<bind("event_id"), bind("timestamp_ms"), bind("source_service"),
          bind("event_type"), bind("severity"), bind("client_ip_hash"),
          bind("origin"), bind("user_agent_hash"), bind("challenge_id"),
          bind("message"), bind("details"), bind("request_id"),
          bind("environment"), bind("worker_version"), bind("geo_country"),
          bind("event_category"), bind("actor_id"), bind("actor_type"),
          bind("resource_type"), bind("resource_id"), bind("outcome"),
          bind("queue_message_id"), bind("created_at")>>

(* The row: each parameter in the column at its position. *)
Row(class) ==
    LET params == event_bind_params(class)
    IN  [c \in Column |->
            params[CHOOSE n \in 1..Len(insert_sql) : insert_sql[n] = c]]

(* The CHECK constraints: the strings each column takes. *)
Checked ==
    [severity       |-> {"info", "warning", "error", "critical"},
     environment    |-> {"production", "sandbox"},
     event_category |-> {"", "AUTHENTICATION", "AUTHORIZATION", "KEY_ACCESS",
                         "DATA_MUTATION", "SESSION_LIFECYCLE",
                         "CREDENTIAL_ISSUANCE", "VERIFICATION", "ADMIN_ACTION",
                         "EXTERNAL_CALL", "SECURITY_EVENT"},
     actor_type     |-> {"", "user", "service", "api_key", "system"},
     outcome        |-> {"", "success", "failure", "denied", "error"}]

(* Faulty variant: the constraints do not list the empty string. *)
AcceptedFilled(row) == \A c \in DOMAIN Checked : row[c] \in Checked[c] \ {""}

(* A row the constraints let in. *)
Accepted(row) == \A c \in DOMAIN Checked : row[c] \in Checked[c]
============================================================================
