------------------------ MODULE AuditPipelineProofs ------------------------
(* What becomes of the values of an event on its way into its row, for every   *)
(* combination of them, and what the whole pipeline inherits from its halves:  *)
(* it implements AuditLogger and AuditConsumer, whose theorems hold of it, and *)
(* from them that it keeps the promise of AuditLog.                            *)
EXTENDS AuditPipeline, FiniteSetTheorems, TLAPS

ConsumerProofs == INSTANCE AuditConsumerProofs WITH EventId <- Event

LoggerProofs == INSTANCE AuditLoggerProofs WITH pc <- call

(* A value is a variant of its field, or a missing optional value. *)
LEMMA ClassValues ==
    ASSUME NEW class \in Class
    PROVE  /\ class.severity \in DOMAIN Severity
           /\ class.environment \in DOMAIN Environment
           /\ class.event_category \in DOMAIN EventCategory \cup {None}
           /\ class.actor_type \in DOMAIN ActorType \cup {None}
           /\ class.outcome \in DOMAIN Outcome \cup {None}
  BY DEF Class, Values, Enumerated, Optional, Name

(* No two variants of an enumerated field share a name. *)
LEMMA NamesAreUnique ==
    /\ \A v, w \in DOMAIN Severity : Severity[v] = Severity[w] => v = w
    /\ \A v, w \in DOMAIN Environment : Environment[v] = Environment[w] => v = w
    /\ \A v, w \in DOMAIN EventCategory : EventCategory[v] = EventCategory[w] => v = w
    /\ \A v, w \in DOMAIN ActorType : ActorType[v] = ActorType[w] => v = w
    /\ \A v, w \in DOMAIN Outcome : Outcome[v] = Outcome[w] => v = w
<1>1. \A v, w \in DOMAIN Severity : Severity[v] = Severity[w] => v = w
  BY DEF Severity
<1>2. \A v, w \in DOMAIN Environment : Environment[v] = Environment[w] => v = w
  BY DEF Environment
<1>3. \A v, w \in DOMAIN EventCategory : EventCategory[v] = EventCategory[w] => v = w
  BY DEF EventCategory
<1>4. \A v, w \in DOMAIN ActorType : ActorType[v] = ActorType[w] => v = w
  BY DEF ActorType
<1>5. \A v, w \in DOMAIN Outcome : Outcome[v] = Outcome[w] => v = w
  BY DEF Outcome
<1> QED
  BY <1>1, <1>2, <1>3, <1>4, <1>5

(* The lists of the CHECK constraints name every variant. *)
LEMMA NamesAreListed ==
    /\ \A v \in DOMAIN Severity : Severity[v] \in Checked.severity
    /\ \A v \in DOMAIN Environment : Environment[v] \in Checked.environment
    /\ \A v \in DOMAIN EventCategory : EventCategory[v] \in Checked.event_category \ {""}
    /\ \A v \in DOMAIN ActorType : ActorType[v] \in Checked.actor_type \ {""}
    /\ \A v \in DOMAIN Outcome : Outcome[v] \in Checked.outcome \ {""}
<1>1. \A v \in DOMAIN Severity : Severity[v] \in Checked.severity
  BY DEF Severity, Checked
<1>2. \A v \in DOMAIN Environment : Environment[v] \in Checked.environment
  BY DEF Environment, Checked
<1>3. \A v \in DOMAIN EventCategory : EventCategory[v] \in Checked.event_category \ {""}
  <2> DEFINE names == {"AUTHENTICATION", "AUTHORIZATION", "KEY_ACCESS",
                       "DATA_MUTATION", "SESSION_LIFECYCLE", "CREDENTIAL_ISSUANCE",
                       "VERIFICATION", "ADMIN_ACTION", "EXTERNAL_CALL",
                       "SECURITY_EVENT"}
  <2>1. \A v \in DOMAIN EventCategory : EventCategory[v] \in names
    BY DEF EventCategory
  <2>2. \A s \in names : s # ""
    OBVIOUS
  <2>3. names \subseteq Checked.event_category
    BY DEF Checked
  <2> QED
    BY <2>1, <2>2, <2>3
<1>4. \A v \in DOMAIN ActorType : ActorType[v] \in Checked.actor_type \ {""}
  <2> DEFINE names == {"user", "service", "api_key", "system"}
  <2>1. \A v \in DOMAIN ActorType : ActorType[v] \in names
    BY DEF ActorType
  <2>2. \A s \in names : s # ""
    OBVIOUS
  <2>3. names \subseteq Checked.actor_type
    BY DEF Checked
  <2> QED
    BY <2>1, <2>2, <2>3
<1>5. \A v \in DOMAIN Outcome : Outcome[v] \in Checked.outcome \ {""}
  <2> DEFINE names == {"success", "failure", "denied", "error"}
  <2>1. \A v \in DOMAIN Outcome : Outcome[v] \in names
    BY DEF Outcome
  <2>2. \A s \in names : s # ""
    OBVIOUS
  <2>3. names \subseteq Checked.outcome
    BY DEF Checked
  <2> QED
    BY <2>1, <2>2, <2>3
<1> QED
  BY <1>1, <1>2, <1>3, <1>4, <1>5

(* The mark of a missing value is no variant's. *)
LEMMA NoneIsNoVariant ==
    /\ None \notin DOMAIN Severity /\ None \notin DOMAIN Environment
    /\ "" \in Checked.event_category /\ None \notin DOMAIN EventCategory
    /\ "" \in Checked.actor_type /\ None \notin DOMAIN ActorType
    /\ "" \in Checked.outcome /\ None \notin DOMAIN Outcome
<1>1. "" \in Checked.event_category /\ "" \in Checked.actor_type /\ "" \in Checked.outcome
  BY DEF Checked
<1>2. None \notin DOMAIN EventCategory
  BY DEF EventCategory, None
<1>3. None \notin DOMAIN ActorType
  BY DEF ActorType, None
<1>4. None \notin DOMAIN Outcome
  BY DEF Outcome, None
<1>5. None \notin DOMAIN Severity /\ None \notin DOMAIN Environment
  BY DEF Severity, Environment, None
<1> QED
  BY <1>1, <1>2, <1>3, <1>4, <1>5

(* What the table of names says of each field. *)
LEMMA FieldTable ==
    /\ Enumerated = {"severity", "environment", "event_category", "actor_type",
                     "outcome"}
    /\ DOMAIN Checked = Enumerated
    /\ Name["severity"] = Severity /\ Name["environment"] = Environment
    /\ Name["event_category"] = EventCategory /\ Name["actor_type"] = ActorType
    /\ Name["outcome"] = Outcome
<1>1. Enumerated = {"severity", "environment", "event_category", "actor_type",
                    "outcome"}
  BY DEF Enumerated, Name
<1>2. DOMAIN Checked = {"severity", "environment", "event_category", "actor_type",
                        "outcome"}
  BY DEF Checked
<1>3. /\ Name["severity"] = Severity /\ Name["environment"] = Environment
      /\ Name["event_category"] = EventCategory /\ Name["actor_type"] = ActorType
      /\ Name["outcome"] = Outcome
  BY DEF Name
<1> QED
  BY <1>1, <1>2, <1>3

(* The consumer reads back from the message what the producer logged: no two   *)
(* variants of a field share a name, and none is named "", which stands for a  *)
(* missing value.                                                             *)
LEMMA RoundTrip ==
    ASSUME NEW class \in Class, NEW f \in Enumerated
    PROVE  deserialize(f, as_str(f, class[f])) = class[f]
<1>1. class[f] \in DOMAIN Name[f] \/ (f \in Optional /\ class[f] = None)
  <2>1. class[f] \in Values(f)
    BY DEF Class
  <2> QED
    BY <2>1 DEF Values
<1>2. CASE f \in Optional /\ class[f] = None
  BY <1>2 DEF deserialize, as_str
<1>3. CASE class[f] \in DOMAIN Name[f]
  <2>1. \A v, w \in DOMAIN Name[f] : Name[f][v] = Name[f][w] => v = w
    BY FieldTable, NamesAreUnique
  <2>2. f \in Optional => class[f] # None /\ Name[f][class[f]] # ""
    <3> SUFFICES ASSUME f \in Optional
                 PROVE  class[f] # None /\ Name[f][class[f]] # ""
      OBVIOUS
    <3>1. f \in {"event_category", "actor_type", "outcome"}
      BY DEF Optional
    <3> QED
      BY <1>3, <3>1, FieldTable, NamesAreListed, NoneIsNoVariant
  <2>3. as_str(f, class[f]) = Name[f][class[f]]
    <3>1. f \notin Optional => class[f] # None
      BY <1>3, FieldTable, NoneIsNoVariant
    <3> QED
      BY <2>2, <3>1 DEF as_str
  <2>4. deserialize(f, Name[f][class[f]])
            = CHOOSE v \in DOMAIN Name[f] : Name[f][v] = Name[f][class[f]]
    BY <2>2 DEF deserialize
  <2> QED
    BY <1>3, <2>1, <2>3, <2>4
<1> QED
  BY <1>1, <1>2, <1>3

(* The consumer reads from the message the values the producer put there. *)
LEMMA ReceivedIsSent ==
    ASSUME NEW class \in Class
    PROVE  Received(class) = class
<1>1. class = [f \in Enumerated |-> class[f]]
  BY DEF Class
<1>2. \A f \in Enumerated : deserialize(f, as_str(f, class[f])) = class[f]
  BY RoundTrip
<1> QED
  BY <1>1, <1>2 DEF Received

(* Each parameter stands at the position of its own column. *)
LEMMA BoundInOrder ==
    ASSUME NEW class, NEW n \in 1..Len(insert_sql)
    PROVE  event_bind_params(class)[n] = Bound(insert_sql[n], class)
<1>1. Len(insert_sql) = 23
  BY DEF insert_sql
<1> DEFINE InOrder(k) == event_bind_params(class)[k] = Bound(insert_sql[k], class)
<1>2. InOrder(1) /\ InOrder(2) /\ InOrder(3) /\ InOrder(4)
  BY DEF insert_sql, event_bind_params
<1>3. InOrder(5) /\ InOrder(6) /\ InOrder(7) /\ InOrder(8)
  BY DEF insert_sql, event_bind_params
<1>4. InOrder(9) /\ InOrder(10) /\ InOrder(11) /\ InOrder(12)
  BY DEF insert_sql, event_bind_params
<1>5. InOrder(13) /\ InOrder(14) /\ InOrder(15) /\ InOrder(16)
  BY DEF insert_sql, event_bind_params
<1>6. InOrder(17) /\ InOrder(18) /\ InOrder(19) /\ InOrder(20)
  BY DEF insert_sql, event_bind_params
<1>7. InOrder(21) /\ InOrder(22) /\ InOrder(23)
  BY DEF insert_sql, event_bind_params
<1> HIDE DEF InOrder
<1>8. n \in 1..4 \/ n \in 5..8 \/ n \in 9..12 \/ n \in 13..16 \/ n \in 17..20 \/ n \in 21..23
  BY <1>1
<1>9. InOrder(n)
  <2>1. \A k \in 1..4 : InOrder(k)
    <3>1. \A k \in 1..4 : k = 1 \/ k = 2 \/ k = 3 \/ k = 4
      OBVIOUS
    <3> QED
      BY <1>2, <3>1
  <2>2. \A k \in 5..8 : InOrder(k)
    <3>1. \A k \in 5..8 : k = 5 \/ k = 6 \/ k = 7 \/ k = 8
      OBVIOUS
    <3> QED
      BY <1>3, <3>1
  <2>3. \A k \in 9..12 : InOrder(k)
    <3>1. \A k \in 9..12 : k = 9 \/ k = 10 \/ k = 11 \/ k = 12
      OBVIOUS
    <3> QED
      BY <1>4, <3>1
  <2>4. \A k \in 13..16 : InOrder(k)
    <3>1. \A k \in 13..16 : k = 13 \/ k = 14 \/ k = 15 \/ k = 16
      OBVIOUS
    <3> QED
      BY <1>5, <3>1
  <2>5. \A k \in 17..20 : InOrder(k)
    <3>1. \A k \in 17..20 : k = 17 \/ k = 18 \/ k = 19 \/ k = 20
      OBVIOUS
    <3> QED
      BY <1>6, <3>1
  <2>6. \A k \in 21..23 : InOrder(k)
    <3>1. \A k \in 21..23 : k = 21 \/ k = 22 \/ k = 23
      OBVIOUS
    <3> QED
      BY <1>7, <3>1
  <2> QED
    BY <1>8, <2>1, <2>2, <2>3, <2>4, <2>5, <2>6, Zenon
<1> QED
  BY <1>9 DEF InOrder

(* For every combination of values, every column of the row the consumer       *)
(* writes holds its own field of the event that was logged.                   *)
THEOREM RowHoldsFields ==
    ASSUME NEW class \in Class
    PROVE  Row(Received(class)) = [c \in Column |-> Bound(c, class)]
<1>1. ASSUME NEW c \in Column
      PROVE  Row(class)[c] = Bound(c, class)
  <2> DEFINE at == CHOOSE n \in 1..Len(insert_sql) : insert_sql[n] = c
  <2>1. \E n \in 1..Len(insert_sql) : insert_sql[n] = c
    BY DEF Column
  <2>2. at \in 1..Len(insert_sql) /\ insert_sql[at] = c
    BY <2>1
  <2>3. Row(class)[c] = event_bind_params(class)[at]
    BY DEF Row
  <2> QED
    BY <2>2, <2>3, BoundInOrder
<1>2. Row(class) = [c \in Column |-> Row(class)[c]]
  BY DEF Row
<1> QED
  BY <1>1, <1>2, ReceivedIsSent

(* No event is refused for its values: the CHECK constraints take every        *)
(* variant, and the empty string where a value may be missing.                *)
THEOREM SchemaAccepts ==
    ASSUME NEW class \in Class
    PROVE  Accepted(Row(Received(class)))
<1>1. ASSUME NEW c \in Enumerated
      PROVE  Row(Received(class))[c] = as_str(c, class[c])
  <2>1. c \in Column
    <3>1. \E n \in 1..23 : insert_sql[n] = c
      <4>1. /\ insert_sql[5] = "severity" /\ insert_sql[13] = "environment"
            /\ insert_sql[16] = "event_category" /\ insert_sql[18] = "actor_type"
            /\ insert_sql[21] = "outcome"
        BY DEF insert_sql
      <4> QED
        BY <4>1, FieldTable
    <3>2. Len(insert_sql) = 23
      BY DEF insert_sql
    <3> QED
      BY <3>1, <3>2 DEF Column
  <2> QED
    BY <2>1, RowHoldsFields DEF Bound
<1>2. ASSUME NEW c \in Enumerated
      PROVE  as_str(c, class[c]) \in Checked[c]
  <2>1. class[c] \in DOMAIN Name[c] \/ (c \in Optional /\ class[c] = None)
    <3>1. class[c] \in Values(c)
      BY DEF Class
    <3> QED
      BY <3>1 DEF Values
  <2>2. CASE c \in Optional /\ class[c] = None
    BY <2>2, NoneIsNoVariant DEF as_str, Optional
  <2>3. CASE class[c] \in DOMAIN Name[c]
    <3>1. Name[c][class[c]] \in Checked[c]
      BY <2>3, FieldTable, NamesAreListed
    <3>2. class[c] # None
      BY <2>3, FieldTable, NoneIsNoVariant
    <3> QED
      BY <3>1, <3>2 DEF as_str
  <2> QED
    BY <2>1, <2>2, <2>3
<1> QED
  BY <1>1, <1>2, FieldTable DEF Accepted

(* In the pipeline, no event that passes the consumer's checks is dropped by   *)
(* INSERT OR IGNORE for the values of its fields.                             *)
THEOREM NothingRefused == Refused = {}
<1>1. ASSUME NEW e \in Event
      PROVE  Accepted(StoredRow(e))
  <2>1. Submission[e.from].class \in Class
    BY PipelineAssumption DEF PipelineAssumption, Event
  <2> QED
    BY <2>1, SchemaAccepts DEF StoredRow
<1> QED
  BY <1>1 DEF Refused
----------------------------------------------------------------------------

(* There are finitely many events: each is a pair of an id and a request. *)
LEMMA FinitelyManyEvents == IsFiniteSet(Event)
<1> DEFINE pairs == Uuid \X Request
           f == [p \in pairs |-> [event_id |-> p[1], from |-> p[2]]]
<1>1. IsFiniteSet(pairs)
  BY PipelineAssumption, FS_Product DEF PipelineAssumption
<1>2. f \in Surjection(pairs, Event)
  <2>1. f \in [pairs -> Event]
    BY DEF Event
  <2>2. ASSUME NEW e \in Event PROVE \E p \in pairs : f[p] = e
    <3>1. <<e.event_id, e.from>> \in pairs
      BY DEF Event
    <3>2. f[<<e.event_id, e.from>>] = e
      BY <3>1 DEF Event
    <3> QED
      BY <3>1, <3>2
  <2> QED
    BY <2>1, <2>2 DEF Surjection
<1> QED
  BY <1>1, <1>2, FS_Surjection

(* What the consumer's theorems suppose holds of the pipeline's events. *)
LEMMA ConsumerApplies ==
    ConsumerProofs!ChainAssumption /\ ConsumerProofs!ConsumerAssumption
<1>1. ConsumerProofs!ChainAssumption
  BY PipelineAssumption, FinitelyManyEvents
     DEF PipelineAssumption, ConsumerProofs!ChainAssumption, IsFiniteSet,
         ConsumerProofs!IsFiniteSet, Consumer!Tag, ConsumerProofs!Tag,
         Consumer!HexText, ConsumerProofs!HexText, Consumer!Hash,
         ConsumerProofs!Hash, Consumer!BatchHash, ConsumerProofs!BatchHash
<1>2. ConsumerProofs!ConsumerAssumption
  BY PipelineAssumption, NothingRefused
     DEF PipelineAssumption, ConsumerProofs!ConsumerAssumption, Unprocessable
<1> QED
  BY <1>1, <1>2

(* AuditPipeline and this module each have an instance of the consumer; what   *)
(* the one defines is what the other defines, word for word.                   *)
LEMMA SameConsumer ==
    /\ Consumer!Init => ConsumerProofs!Init
    /\ Consumer!Handle => ConsumerProofs!Handle
    /\ \A e \in Event : Consumer!Send(e) => ConsumerProofs!Send(e)
<1>1. Consumer!Init => ConsumerProofs!Init
  BY Zenon DEF Consumer!Init, ConsumerProofs!Init
<1>2. Consumer!Handle => ConsumerProofs!Handle
  BY Zenon DEF
      Consumer!queueVars, ConsumerProofs!queueVars, Consumer!tableVars,
      ConsumerProofs!tableVars, Consumer!workerVars, ConsumerProofs!workerVars,
      Consumer!vars, ConsumerProofs!vars, Consumer!BatchesOf,
      ConsumerProofs!BatchesOf, Consumer!Delivered, ConsumerProofs!Delivered,
      Consumer!Release, ConsumerProofs!Release, Consumer!Retry,
      ConsumerProofs!Retry, Consumer!Goto, ConsumerProofs!Goto,
      Consumer!DigestRow, ConsumerProofs!DigestRow, Consumer!AppendDigest,
      ConsumerProofs!AppendDigest, Consumer!Processed,
      ConsumerProofs!Processed, Consumer!PreviousHash,
      ConsumerProofs!PreviousHash, Consumer!validate_digest_key,
      ConsumerProofs!validate_digest_key, Consumer!derive_key_id,
      ConsumerProofs!derive_key_id, Consumer!Multiplicity,
      ConsumerProofs!Multiplicity, Consumer!compute_batch_hash,
      ConsumerProofs!compute_batch_hash, Consumer!hmac, ConsumerProofs!hmac,
      Consumer!hex_encode, ConsumerProofs!hex_encode,
      Consumer!compute_digest_signature,
      ConsumerProofs!compute_digest_signature, Consumer!MIN_DIGEST_KEY_LENGTH,
      ConsumerProofs!MIN_DIGEST_KEY_LENGTH, Consumer!Range,
      ConsumerProofs!Range, Consumer!RemoveAt, ConsumerProofs!RemoveAt,
      Consumer!Cardinality, ConsumerProofs!Cardinality, Consumer!Duplicate,
      ConsumerProofs!Duplicate, Consumer!Receive, ConsumerProofs!Receive,
      Consumer!DeadLetter, ConsumerProofs!DeadLetter, Consumer!Validated,
      ConsumerProofs!Validated, Consumer!InsertEvent,
      ConsumerProofs!InsertEvent, Consumer!ReadHead, ConsumerProofs!ReadHead,
      Consumer!InsertDigest, ConsumerProofs!InsertDigest, Consumer!SignFails,
      ConsumerProofs!SignFails, Consumer!Ack, ConsumerProofs!Ack,
      Consumer!Work, ConsumerProofs!Work, Consumer!Crash, ConsumerProofs!Crash,
      Consumer!CrashInInsert, ConsumerProofs!CrashInInsert, Consumer!LandLate,
      ConsumerProofs!LandLate, Consumer!LoseLate, ConsumerProofs!LoseLate,
      Consumer!RotateKey, ConsumerProofs!RotateKey, Consumer!Handle,
      ConsumerProofs!Handle
<1>3. \A e \in Event : Consumer!Send(e) => ConsumerProofs!Send(e)
  BY DEF Consumer!Send, ConsumerProofs!Send,
      Consumer!tableVars, ConsumerProofs!tableVars, Consumer!workerVars,
      ConsumerProofs!workerVars
<1> QED
  BY <1>1, <1>2, <1>3

(* The same of the producer's checks and of the events it builds. *)
LEMMA SameEvents ==
    /\ Logger!AuditParams = LoggerProofs!AuditParams
    /\ Logger!Unchecked = LoggerProofs!Unchecked
    /\ Logger!Stripped = LoggerProofs!Stripped
    /\ \A p : /\ Logger!Admitted(p) <=> LoggerProofs!Admitted(p)
              /\ Logger!build(p) = LoggerProofs!build(p)
              /\ Logger!Excess(p) = LoggerProofs!Excess(p)
    /\ \A e : Logger!validate_field_lengths(e) <=> LoggerProofs!validate_field_lengths(e)
<1>1. /\ Logger!Copied = LoggerProofs!Copied
      /\ Logger!Stripped = LoggerProofs!Stripped
      /\ Logger!Hashed = LoggerProofs!Hashed
      /\ Logger!Unchecked = LoggerProofs!Unchecked
  BY DEF Logger!Copied, LoggerProofs!Copied, Logger!Stripped, LoggerProofs!Stripped,
         Logger!Hashed, LoggerProofs!Hashed, Logger!Unchecked, LoggerProofs!Unchecked
<1>2. /\ Logger!AuditParams = LoggerProofs!AuditParams
      /\ Logger!EventField = LoggerProofs!EventField
  BY <1>1
     DEF Logger!AuditParams, LoggerProofs!AuditParams, Logger!ParamField,
         LoggerProofs!ParamField, Logger!TOMBSTONE_LENGTH,
         LoggerProofs!TOMBSTONE_LENGTH, Logger!EventField, LoggerProofs!EventField
<1>3. \A p : Logger!Admitted(p) <=> LoggerProofs!Admitted(p)
  BY DEF
      Logger!Admitted, LoggerProofs!Admitted, Logger!validate_append_fields,
      LoggerProofs!validate_append_fields, Logger!validate_secondary_fields,
      LoggerProofs!validate_secondary_fields, Logger!buildable,
      LoggerProofs!buildable, Logger!MAX_FIELD_LENGTH,
      LoggerProofs!MAX_FIELD_LENGTH, Logger!MAX_DETAILS_LENGTH,
      LoggerProofs!MAX_DETAILS_LENGTH, Logger!MAX_EVENT_TYPE_LENGTH,
      LoggerProofs!MAX_EVENT_TYPE_LENGTH, Logger!MAX_MESSAGE_LENGTH,
      LoggerProofs!MAX_MESSAGE_LENGTH
<1>4. \A p : Logger!build(p) = LoggerProofs!build(p)
  BY <1>1, <1>2
     DEF Logger!build, LoggerProofs!build,
         Logger!built, LoggerProofs!built, Logger!HashedLength,
         LoggerProofs!HashedLength, Logger!HASH_LENGTH, LoggerProofs!HASH_LENGTH,
         Logger!UUID_LENGTH, LoggerProofs!UUID_LENGTH, Logger!ISO8601_LENGTH,
         LoggerProofs!ISO8601_LENGTH, Logger!HashedFrom, LoggerProofs!HashedFrom
<1>5. \A f : Logger!MaxLength(f) = LoggerProofs!MaxLength(f)
  BY DEF Logger!MaxLength, LoggerProofs!MaxLength, Logger!MAX_FIELD_LENGTH,
         LoggerProofs!MAX_FIELD_LENGTH, Logger!MAX_DETAILS_LENGTH,
         LoggerProofs!MAX_DETAILS_LENGTH, Logger!MAX_EVENT_TYPE_LENGTH,
         LoggerProofs!MAX_EVENT_TYPE_LENGTH, Logger!MAX_MESSAGE_LENGTH,
         LoggerProofs!MAX_MESSAGE_LENGTH
<1>6. \A p : Logger!Excess(p) = LoggerProofs!Excess(p)
  BY <1>2, <1>4, <1>5 DEF Logger!Excess, LoggerProofs!Excess
<1>7. \A e : Logger!validate_field_lengths(e) <=> LoggerProofs!validate_field_lengths(e)
  BY <1>2, <1>5 DEF Logger!validate_field_lengths, LoggerProofs!validate_field_lengths,
                    Logger!Required, LoggerProofs!Required
<1> QED
  BY <1>1, <1>2, <1>3, <1>4, <1>6, <1>7

(* The same of what the producer does. *)
LEMMA SameLogger ==
    /\ Logger!Init => LoggerProofs!Init
    /\ Logger!TypeOK <=> LoggerProofs!TypeOK
    /\ \A r \in Request :
          Logger!Reject(r) \/ Logger!RngFails(r) \/ Logger!Dispatch(r)
             \/ Logger!WriteOk(r) \/ Logger!WriteFails(r) \/ Logger!Abandon(r)
          => LoggerProofs!Step(r)
<1>1. Logger!Init => LoggerProofs!Init
  BY DEF Logger!Init, LoggerProofs!Init, Logger!NoId, LoggerProofs!NoId
<1>2. Logger!TypeOK <=> LoggerProofs!TypeOK
  BY DEF
      Logger!TypeOK, LoggerProofs!TypeOK, Logger!NoId, LoggerProofs!NoId,
      Logger!AuditEvents, LoggerProofs!AuditEvents, Logger!EventField, LoggerProofs!EventField,
      Logger!Copied, LoggerProofs!Copied, Logger!Stripped,
      LoggerProofs!Stripped, Logger!Hashed, LoggerProofs!Hashed
<1>3. \A p : Logger!Admitted(p) <=> LoggerProofs!Admitted(p)
  BY SameEvents
<1>4. \A r : Logger!Message(r) = LoggerProofs!Message(r)
  BY SameEvents DEF Logger!Message, LoggerProofs!Message
<1>5. ASSUME NEW r \in Request,
             Logger!Reject(r) \/ Logger!RngFails(r) \/ Logger!Dispatch(r)
      PROVE  LoggerProofs!Step(r)
  BY <1>3, <1>5
     DEF LoggerProofs!Step,
         Logger!Reject, LoggerProofs!Reject, Logger!RngFails,
         LoggerProofs!RngFails, Logger!Dispatch, LoggerProofs!Dispatch,
         Logger!Calls, LoggerProofs!Calls, Logger!Becomes,
         LoggerProofs!Becomes, Logger!settings, LoggerProofs!settings
<1>6. ASSUME NEW r \in Request,
             Logger!WriteOk(r) \/ Logger!WriteFails(r) \/ Logger!Abandon(r)
      PROVE  LoggerProofs!Step(r)
  BY <1>4, <1>6
     DEF LoggerProofs!Step,
         Logger!WriteOk, LoggerProofs!WriteOk, Logger!WriteFails,
         LoggerProofs!WriteFails, Logger!Abandon, LoggerProofs!Abandon,
         Logger!Becomes, LoggerProofs!Becomes, Logger!settings,
         LoggerProofs!settings
<1> QED
  BY <1>1, <1>2, <1>5, <1>6

(* What the producer's theorems suppose holds of the pipeline's requests. *)
LEMMA LoggerApplies == LoggerProofs!LoggerAssumption
  BY PipelineAssumption
     DEF PipelineAssumption, Params,
      Logger!AuditParams, LoggerProofs!AuditParams, Logger!ParamField,
      LoggerProofs!ParamField, Logger!Copied, LoggerProofs!Copied,
      Logger!Stripped, LoggerProofs!Stripped, Logger!TOMBSTONE_LENGTH,
      LoggerProofs!TOMBSTONE_LENGTH,
      LoggerProofs!LoggerAssumption

(* The pipeline does to the producer's variables only what AuditLogger does. *)
LEMMA ImplementsLogger == Spec => LoggerProofs!Spec
<1>1. Init => LoggerProofs!Init
  BY SameLogger DEF Init
<1>2. [Next]_vars => [LoggerProofs!Next]_(LoggerProofs!vars)
  <2> SUFFICES ASSUME [Next]_vars
               PROVE  LoggerProofs!Next \/ UNCHANGED LoggerProofs!vars
    OBVIOUS
  <2>1. ASSUME NEW r \in Request, Submit(r) \/ Finish(r)
        PROVE  LoggerProofs!Next
    BY <2>1, SameLogger DEF Submit, Finish, LoggerProofs!Next
  <2>2. CASE Consume \/ Quiet \/ UNCHANGED vars
    BY <2>2 DEF Consume, Quiet, vars, loggerVars, LoggerProofs!vars
  <2> QED
    BY <2>1, <2>2 DEF Next
<1> QED
  BY <1>1, <1>2, PTL DEF Spec, LoggerProofs!Spec

(* The producer's variables keep their types in the pipeline. *)
LEMMA LoggerTypes == Spec => []Logger!TypeOK
<1>1. LoggerProofs!Spec => []LoggerProofs!TypeOK
  BY LoggerApplies, LoggerProofs!TypeCorrect
<1>2. Logger!TypeOK <=> LoggerProofs!TypeOK
  BY SameLogger
<1> QED
  BY <1>1, <1>2, ImplementsLogger, PTL

(* The calls keep to their bound, and a write has the id of its event. *)
IdInv ==
    /\ calls \in Nat /\ calls <= MaxCalls
    /\ \A r \in Request : call[r] = "writing" => event_id[r] \in Uuid

LEMMA IdInvariant == Spec => []IdInv
<1> DEFINE Bounded == calls \in Nat /\ calls <= MaxCalls
<1>1. Init => Bounded
  BY PipelineAssumption DEF PipelineAssumption, Init
<1>2. Bounded /\ [Next]_vars => Bounded'
  BY PipelineAssumption
     DEF PipelineAssumption, Next, Submit, Finish, Consume, Quiet, vars, loggerVars
<1>3. Bounded /\ Logger!TypeOK => IdInv
  BY DEF IdInv, Logger!TypeOK
<1> QED
  BY <1>1, <1>2, <1>3, LoggerTypes, PTL DEF Spec

(* And to the queue, the consumer and the tables only what AuditConsumer does: *)
(* the message of a write is that of an event.                                *)
LEMMA ImplementsConsumer == Spec => ConsumerProofs!Spec
<1>1. Init => ConsumerProofs!Init
  BY SameConsumer DEF Init
<1>2. IdInv /\ [Next]_vars => [ConsumerProofs!Next]_(ConsumerProofs!vars)
  <2> SUFFICES ASSUME IdInv, [Next]_vars
               PROVE  ConsumerProofs!Next \/ UNCHANGED ConsumerProofs!vars
    OBVIOUS
  <2>1. CASE UNCHANGED consumerVars
    BY <2>1 DEF consumerVars, ConsumerProofs!vars, ConsumerProofs!queueVars,
                ConsumerProofs!tableVars, ConsumerProofs!workerVars
  <2>2. ASSUME NEW r \in Request, Finish(r), Consumer!Send(Writing(r))
        PROVE  ConsumerProofs!Next
    <3>1. call[r] = "writing"
      BY <2>2 DEF Finish, Logger!WriteOk, Logger!WriteFails, Logger!Abandon
    <3>2. Writing(r) \in Event
      BY <3>1 DEF IdInv, Writing, Event
    <3> QED
      BY <2>2, <3>2, SameConsumer DEF ConsumerProofs!Next
  <2>3. CASE Consume
    BY <2>3, SameConsumer DEF Consume, ConsumerProofs!Next
  <2> QED
    BY <2>1, <2>2, <2>3 DEF Next, Submit, Finish, Quiet, vars
<1> QED
  BY <1>1, <1>2, IdInvariant, PTL DEF Spec, ConsumerProofs!Spec

(* The types of both halves, and no more calls than the bound. *)
THEOREM TypeCorrect == Spec => []TypeOK
<1>1. ConsumerProofs!Spec => []ConsumerProofs!TypeOK
  BY ConsumerApplies, ConsumerProofs!TypeCorrect
<1>2. ConsumerProofs!TypeOK => Consumer!TypeOK
  BY DEF
      Consumer!TypeOK, ConsumerProofs!TypeOK, Consumer!DigestEntry,
      ConsumerProofs!DigestEntry, Consumer!Hash, ConsumerProofs!Hash,
      Consumer!BatchHash, ConsumerProofs!BatchHash, Consumer!Tag,
      ConsumerProofs!Tag, Consumer!HexText, ConsumerProofs!HexText,
      Consumer!LateRow, ConsumerProofs!LateRow
<1>3. Logger!TypeOK /\ Consumer!TypeOK /\ IdInv => TypeOK
  BY PipelineAssumption DEF PipelineAssumption, IdInv, TypeOK
<1> QED
  BY <1>1, <1>2, <1>3, ImplementsConsumer, LoggerTypes, IdInvariant, PTL

(* Of every deployment of the whole, whatever its requests log: the chain      *)
(* covers no event that is not stored.                                         *)
THEOREM ChainTellsTheTruth == Spec => []CoveredIsStored
<1>1. ConsumerProofs!Spec => []ConsumerProofs!CoveredIsStored
  BY ConsumerApplies, ConsumerProofs!ChainTellsTheTruth
<1>2. ConsumerProofs!CoveredIsStored => CoveredIsStored
  BY DEF CoveredIsStored, Consumer!CoveredIsStored, ConsumerProofs!CoveredIsStored,
         Consumer!Covered, ConsumerProofs!Covered
<1> QED
  BY <1>1, <1>2, ImplementsConsumer, PTL

(* Every stored row holds what its request logged. *)
THEOREM StoredIsLogged == Spec => []StoredAsLogged
<1>1. TypeOK => StoredAsLogged
  <2> SUFFICES ASSUME TypeOK, NEW e \in audit_events
               PROVE  StoredRow(e) = [c \in Column |->
                                          Bound(c, Submission[e.from].class)]
    BY DEF StoredAsLogged
  <2>1. e \in Event
    BY DEF TypeOK, Consumer!TypeOK
  <2>2. Submission[e.from].class \in Class
    BY <2>1, PipelineAssumption DEF PipelineAssumption, Event
  <2> QED
    BY <2>2, RowHoldsFields DEF StoredRow
<1> QED
  BY <1>1, TypeCorrect, PTL
----------------------------------------------------------------------------
(* Why an event is dead-lettered, and the promise of the whole.                *)

(* The two halves' inductive invariants hold in the pipeline. *)
LEMMA LoggerInvariant == Spec => []LoggerProofs!LoggerInv
<1>1. LoggerProofs!Spec => []LoggerProofs!LoggerInv
  BY LoggerApplies, LoggerProofs!LoggerInvariant
<1> QED
  BY <1>1, ImplementsLogger, PTL

LEMMA OriginInvariant == Spec => []ConsumerProofs!OriginInv
<1>1. ConsumerProofs!Spec => []ConsumerProofs!OriginInv
  BY ConsumerApplies, ConsumerProofs!NothingInvented
<1> QED
  BY <1>1, ImplementsConsumer, PTL

LEMMA ConsumerTypes == Spec => []ConsumerProofs!TypeOK
<1>1. ConsumerProofs!Spec => []ConsumerProofs!TypeOK
  BY ConsumerApplies, ConsumerProofs!TypeCorrect
<1> QED
  BY <1>1, ImplementsConsumer, PTL

(* The logger has its sink, a request logs its submission, and the queue takes *)
(* only what the producer admits.                                              *)
SentInv ==
    /\ sink
    /\ params = [r \in Request |-> Submission[r].params]
    /\ \A e \in Event : copies[e] > 0 => Logger!Admitted(Submission[e.from].params)

LEMMA SentInvariant == Spec => []SentInv
<1>1. Init => SentInv
  <2> SUFFICES ASSUME Init PROVE SentInv
    OBVIOUS
  <2>1. \A e \in Event : copies[e] = 0
    BY DEF Init, Consumer!Init
  <2> QED
    BY <2>1 DEF Init, SentInv
<1>2. SentInv /\ IdInv /\ LoggerProofs!LoggerInv /\ ConsumerProofs!TypeOK /\ [Next]_vars
          => SentInv'
  <2> SUFFICES ASSUME SentInv, IdInv, LoggerProofs!LoggerInv, ConsumerProofs!TypeOK,
                      [Next]_vars
               PROVE  SentInv'
    OBVIOUS
  <2>1. ASSUME NEW r \in Request, Submit(r)
        PROVE  SentInv'
    BY <2>1 DEF SentInv, Submit, consumerVars, Logger!Reject, Logger!RngFails,
                Logger!Dispatch, Logger!settings
  <2>2. ASSUME NEW r \in Request, Finish(r)
        PROVE  SentInv'
    <3>1. call[r] = "writing" /\ UNCHANGED <<sink, params>>
      BY <2>2 DEF Finish, Logger!WriteOk, Logger!WriteFails, Logger!Abandon,
                  Logger!settings
    <3>2. Logger!Admitted(Submission[r].params)
      <4>1. LoggerProofs!Admitted(params[r])
        BY <3>1 DEF LoggerProofs!LoggerInv, LoggerProofs!OnlyAdmitted
      <4> QED
        BY <4>1, SameEvents DEF SentInv
    <3>3. CASE UNCHANGED consumerVars
      BY <3>1, <3>3 DEF SentInv, consumerVars
    <3>4. CASE Consumer!Send(Writing(r))
      <4>1. copies' = [copies EXCEPT ![Writing(r)] = 1] /\ Writing(r).from = r
        BY <3>4 DEF Consumer!Send, Writing
      <4>2. \A e \in Event : e # Writing(r) => copies'[e] = copies[e]
        BY <4>1 DEF ConsumerProofs!TypeOK
      <4>3. \A e \in Event :
                copies'[e] > 0 => Logger!Admitted(Submission[e.from].params)
        BY <3>2, <4>1, <4>2 DEF SentInv
      <4> QED
        BY <3>1, <4>3 DEF SentInv
    <3> QED
      BY <2>2, <3>3, <3>4 DEF Finish
  <2>3. CASE Consume
    <3>1. ConsumerProofs!Handle
      BY <2>3, SameConsumer DEF Consume
    <3>2. \A e \in Event : copies'[e] > 0 => copies[e] > 0
      BY <3>1, ConsumerApplies, ConsumerProofs!HandleSettles
    <3> QED
      BY <2>3, <3>2 DEF SentInv, Consume, loggerVars
  <2>4. CASE Quiet \/ UNCHANGED vars
    BY <2>4 DEF SentInv, Quiet, vars, loggerVars, consumerVars
  <2> QED
    BY <2>1, <2>2, <2>3, <2>4 DEF Next
<1> QED
  BY <1>1, <1>2, IdInvariant, LoggerInvariant, ConsumerTypes, PTL DEF Spec

(* For every field length: what is dead-lettered before its last delivery got  *)
(* past the producer in a field it does not check, or in a text that strip_pii *)
(* made longer.                                                                *)
THEOREM DeadLettersExplained == Spec => []DeadLetterExplained
<1>1. ConsumerProofs!TypeOK /\ ConsumerProofs!OriginInv /\ SentInv => DeadLetterExplained
  <2> SUFFICES ASSUME ConsumerProofs!TypeOK, ConsumerProofs!OriginInv, SentInv,
                      NEW e \in audit_dlq, deliveries[e] # MaxDeliveries,
                      NEW p, p = Submission[e.from].params
               PROVE  \E f \in Logger!Excess(p) :
                          \/ f \in Logger!Unchecked
                          \/ f \in Logger!Stripped /\ p.stripped[f] > p.length[f]
    BY DEF DeadLetterExplained
  <2>1. e \in Event
    BY DEF ConsumerProofs!TypeOK
  <2>2. e \in Unprocessable
    BY DEF ConsumerProofs!OriginInv, ConsumerProofs!DeadLettersEarned
  <2>3. copies[e] > 0
    BY <2>1 DEF ConsumerProofs!OriginInv, ConsumerProofs!OnlySent,
                ConsumerProofs!Present
  <2>4. p \in Logger!AuditParams
    BY <2>1, PipelineAssumption DEF PipelineAssumption, Event
  <2>5. LoggerProofs!Admitted(p)
    BY <2>1, <2>3, SameEvents DEF SentInv
  <2>6. ~LoggerProofs!validate_field_lengths(LoggerProofs!build(p))
    BY <2>2, SameEvents DEF Unprocessable, Fields
  <2>7. \E f \in LoggerProofs!Excess(p) :
            \/ f \in LoggerProofs!Unchecked
            \/ f \in LoggerProofs!Stripped /\ p.stripped[f] > p.length[f]
    BY <2>4, <2>5, <2>6, SameEvents, LoggerApplies, LoggerProofs!AdmittedFits
  <2> QED
    BY <2>7, SameEvents
<1> QED
  BY <1>1, ConsumerTypes, OriginInvariant, SentInvariant, PTL
----------------------------------------------------------------------------
(* The pipeline implements AuditLog: the safety part of ImplementsAuditLog.    *)

Written == {e \in Event : copies[e] > 0}
Confirmed == {Writing(r) : r \in {q \in Request : call[q] = "ok"}}
SettledEvents == {e \in Event : Consumer!Settled(e)}

LEMMA SameSettled ==
    \A e \in Event : /\ Consumer!Settled(e) <=> ConsumerProofs!Settled(e)
                     /\ Consumer!Settled(e)' <=> ConsumerProofs!Settled(e)'
  BY DEF Consumer!Settled, ConsumerProofs!Settled, Consumer!Covered,
         ConsumerProofs!Covered

(* The events a request confirmed stay what they are unless it ends a call     *)
(* with Ok: only a request that is not over takes a step.                      *)
LEMMA ConfirmedStays ==
    ASSUME Logger!TypeOK, NEW r \in Request, call[r] # "ok",
           \A q \in Request \ {r} : call'[q] = call[q] /\ event_id'[q] = event_id[q]
    PROVE  /\ call'[r] # "ok" => Confirmed' = Confirmed
           /\ call'[r] = "ok" => Confirmed' = Confirmed \cup {Writing(r)'}
  BY DEF Confirmed, Writing

(* A call that ends before its write hands nothing over. *)
LEMMA SubmitStutters ==
    ASSUME Logger!TypeOK, SentInv, NEW r \in Request, Submit(r)
    PROVE  UNCHANGED <<Written, Confirmed, SettledEvents>>
<1>1. UNCHANGED <<Written, SettledEvents>>
  BY DEF Submit, consumerVars, Written, SettledEvents, Consumer!Settled,
         Consumer!Covered
<1>2. /\ call[r] = "idle"
      /\ \E s \in {"rejected", "discarded", "idle", "writing"} :
            call' = [call EXCEPT ![r] = s]
      /\ \A q \in Request \ {r} : event_id'[q] = event_id[q]
  <2>1. CASE Logger!Reject(r)
    BY <2>1 DEF Logger!Reject, Logger!Calls, Logger!Becomes
  <2>2. CASE Logger!RngFails(r)
    BY <2>2 DEF Logger!RngFails, Logger!Calls, Logger!Becomes
  <2>3. CASE Logger!Dispatch(r)
    BY <2>3 DEF Logger!Dispatch, Logger!Calls, Logger!Becomes, SentInv, Logger!TypeOK
  <2> QED
    BY <2>1, <2>2, <2>3 DEF Submit
<1>3. /\ call'[r] # "ok"
      /\ \A q \in Request \ {r} : call'[q] = call[q]
  BY <1>2 DEF Logger!TypeOK
<1>4. Confirmed' = Confirmed
  BY <1>2, <1>3, ConfirmedStays
<1> QED
  BY <1>1, <1>4

(* A write that ends hands its event over, or nothing; an Ok hands it over and *)
(* confirms it.                                                                *)
LEMMA FinishWrites ==
    ASSUME Logger!TypeOK, IdInv, LoggerProofs!LoggerInv, ConsumerProofs!TypeOK,
           NEW r \in Request, Finish(r)
    PROVE  Log!Write(Writing(r)) \/ UNCHANGED <<Written, Confirmed, SettledEvents>>
<1> DEFINE W == Writing(r)
<1>1. /\ call[r] = "writing" /\ W \in Event
      /\ UNCHANGED event_id
      /\ \E s \in {"ok", "discarded", "idle", "abandoned"} :
            /\ call' = [call EXCEPT ![r] = s]
            /\ s = "ok" => audit_queue' = audit_queue \cup {Logger!Message(r)}
  <2>1. call[r] = "writing"
    BY DEF Finish, Logger!WriteOk, Logger!WriteFails, Logger!Abandon
  <2>2. W \in Event
    BY <2>1 DEF IdInv, Writing, Event
  <2> QED
    BY <2>1, <2>2 DEF Finish, Logger!WriteOk, Logger!WriteFails, Logger!Abandon,
                      Logger!Becomes
<1>2. Logger!Message(r) \notin audit_queue
  <2>1. Logger!Message(r).event_id = event_id[r]
    BY DEF Logger!Message
  <2>2. \A m \in audit_queue : m.event_id # event_id[r]
    BY <1>1 DEF LoggerProofs!LoggerInv, LoggerProofs!FreshIds
  <2> QED
    BY <2>1, <2>2
<1>3. \A q \in Request \ {r} : call'[q] = call[q] /\ event_id'[q] = event_id[q]
  BY <1>1 DEF Logger!TypeOK
<1>4. /\ call'[r] # "ok" => Confirmed' = Confirmed
      /\ call'[r] = "ok" => Confirmed' = Confirmed \cup {W}
  <2>1. W' = W
    BY <1>1 DEF Writing
  <2> QED
    BY <1>1, <1>3, <2>1, ConfirmedStays
<1>5. CASE audit_queue' = audit_queue
  <2>1. call'[r] # "ok"
    BY <1>1, <1>2, <1>5 DEF Logger!TypeOK
  <2>2. UNCHANGED consumerVars
    BY <1>5 DEF Finish
  <2>3. UNCHANGED <<Written, SettledEvents>>
    BY <2>2 DEF consumerVars, Written, SettledEvents, Consumer!Settled, Consumer!Covered
  <2> QED
    BY <1>4, <2>1, <2>3
<1>6. CASE audit_queue' # audit_queue
  <2>1. Consumer!Send(W)
    BY <1>6 DEF Finish
  <2>2. W \notin Written /\ Written' = Written \cup {W}
    <3>1. copies[W] = 0 /\ copies' = [copies EXCEPT ![W] = 1]
      BY <2>1 DEF Consumer!Send
    <3>2. \A e \in Event : copies'[e] = IF e = W THEN 1 ELSE copies[e]
      BY <3>1 DEF ConsumerProofs!TypeOK
    <3> QED
      BY <1>1, <3>1, <3>2 DEF Written
  <2>3. SettledEvents' = SettledEvents
    BY <2>1 DEF Consumer!Send, Consumer!tableVars, SettledEvents, Consumer!Settled,
                Consumer!Covered
  <2>4. Confirmed' \in {Confirmed, Confirmed \cup {W}}
    BY <1>4
  <2> QED
    BY <2>2, <2>3, <2>4 DEF Log!Write, Written, Confirmed, SettledEvents
<1> QED
  BY <1>5, <1>6

(* The queue and the workers settle events that were handed over, for good. *)
LEMMA ConsumeSettles ==
    ASSUME ConsumerProofs!TypeOK, ConsumerProofs!OriginInv', Consume
    PROVE  Log!Settle
<1>1. ConsumerProofs!Handle /\ UNCHANGED <<call, event_id>>
  BY SameConsumer DEF Consume, loggerVars
<1>2. /\ \A e \in Event : ConsumerProofs!Settled(e) => ConsumerProofs!Settled(e)'
      /\ \A e \in Event : copies'[e] > 0 <=> copies[e] > 0
  BY <1>1, ConsumerApplies, ConsumerProofs!HandleSettles
<1>3. SettledEvents \subseteq SettledEvents'
  BY <1>2, SameSettled DEF SettledEvents
<1>4. \A e \in Event : ConsumerProofs!Settled(e)' => copies'[e] > 0
  BY DEF ConsumerProofs!OriginInv, ConsumerProofs!OnlySent, ConsumerProofs!Present,
         ConsumerProofs!Settled
<1>5. SettledEvents' \subseteq Written
  BY <1>2, <1>4, SameSettled DEF SettledEvents, Written
<1>6. Written' = Written
  BY <1>2 DEF Written
<1>7. Confirmed' = Confirmed
  BY <1>1 DEF Confirmed, Writing
<1> QED
  BY <1>3, <1>5, <1>6, <1>7 DEF Log!Settle, Written, Confirmed, SettledEvents

(* Every step of the pipeline is a step of AuditLog or none: an event is       *)
(* handed over once, an Ok stands for an event handed over, only such events   *)
(* are settled, and none is unsettled again.                                   *)
THEOREM ImplementsLog == Spec => Log!Spec
<1>1. Init => Log!Init
  <2> SUFFICES ASSUME Init PROVE Log!Init
    OBVIOUS
  <2>1. \A e \in Event : copies[e] = 0
    BY DEF Init, Consumer!Init
  <2>2. \A r \in Request : call[r] = "idle"
    BY DEF Init, Logger!Init
  <2>3. \A e \in Event : ~Consumer!Settled(e)
    BY DEF Init, Consumer!Init, Consumer!Settled
  <2> QED
    BY <2>1, <2>2, <2>3 DEF Log!Init
<1>2. /\ Logger!TypeOK /\ IdInv /\ SentInv /\ LoggerProofs!LoggerInv
      /\ ConsumerProofs!TypeOK /\ ConsumerProofs!OriginInv'
      /\ [Next]_vars
      => [Log!Next]_(Log!vars)
  <2> SUFFICES ASSUME Logger!TypeOK, IdInv, SentInv, LoggerProofs!LoggerInv,
                      ConsumerProofs!TypeOK, ConsumerProofs!OriginInv', [Next]_vars
               PROVE  Log!Next \/ UNCHANGED <<Written, Confirmed, SettledEvents>>
    BY DEF Log!vars, Written, Confirmed, SettledEvents
  <2>1. ASSUME NEW r \in Request, Submit(r)
        PROVE  UNCHANGED <<Written, Confirmed, SettledEvents>>
    BY <2>1, SubmitStutters
  <2>2. ASSUME NEW r \in Request, Finish(r)
        PROVE  Log!Next \/ UNCHANGED <<Written, Confirmed, SettledEvents>>
    <3>1. Writing(r) \in Event
      BY <2>2 DEF Finish, Logger!WriteOk, Logger!WriteFails, Logger!Abandon, IdInv,
                  Writing, Event
    <3>2. Log!Write(Writing(r)) \/ UNCHANGED <<Written, Confirmed, SettledEvents>>
      BY <2>2, FinishWrites
    <3>3. Log!Write(Writing(r)) => \E e \in Event : Log!Write(e)
      BY <3>1 DEF Log!Write
    <3> QED
      BY <3>2, <3>3 DEF Log!Next
  <2>3. CASE Consume
    BY <2>3, ConsumeSettles DEF Log!Next
  <2>4. CASE Quiet \/ UNCHANGED vars
    <3>1. UNCHANGED <<copies, audit_events, audit_digests, audit_dlq, call, event_id>>
      BY <2>4 DEF Quiet, vars, loggerVars, consumerVars
    <3>2. Written' = Written /\ Confirmed' = Confirmed
      BY <3>1 DEF Written, Confirmed, Writing
    <3>3. SettledEvents' = SettledEvents
      BY <3>1 DEF SettledEvents, Consumer!Settled, Consumer!Covered
    <3> QED
      BY <3>2, <3>3
  <2> QED
    BY <2>1, <2>2, <2>3, <2>4 DEF Next
<1> QED
  BY <1>1, <1>2, LoggerTypes, IdInvariant, SentInvariant, LoggerInvariant,
     ConsumerTypes, OriginInvariant, PTL DEF Spec, Log!Spec
============================================================================
