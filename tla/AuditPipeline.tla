--------------------------- MODULE AuditPipeline ---------------------------
(* provii-audit end to end: the requests of AuditLogger write to the queue     *)
(* that AuditConsumer's workers drain.  An event is known by its event_id and  *)
(* the request it came from, whose submission says what is in it; the consumer *)
(* reads the enumerated fields back from the message, checks the lengths and   *)
(* binds the fields to a row that the schema must accept.  A message enters    *)
(* the consumer's queue in the same step in which the logger's sink puts it    *)
(* there.                                                                     *)
EXTENDS AuditRow, FiniteSets

CONSTANTS
    Request,              \* requests, each with one thing to log
    Submission,           \* what each logs, and whether with best effort
    Uuid,                 \* the ids that may be drawn; enough for MaxCalls
    MaxAttempts,          \* bound: how often a request calls log_event
    MaxCalls,             \* bound: calls of log_event altogether
    Worker, MaxBatch, MaxDeliveries, MaxLate,        \* as in AuditConsumer
    MaxCopies,            \* bound, per event: copies the queue makes of its message
    Key, KeyLength, ZeroKey, KeyId, KeyIdOf, DIGEST_GENESIS_HASH, NotHex

VARIABLES
    sink, best_effort, params, call, event_id, drawn, attempts, failed,
    audit_queue,          \* AuditLogger's, with its pc as call
    calls,                \* calls of log_event so far
    copies, queue, deliveries, audit_events, audit_digests, audit_dlq, acked,
    digest_key, pc, batch, inserted, key, head, headAt, late, raced
                          \* AuditConsumer's

loggerVars == <<sink, best_effort, params, call, event_id, drawn, attempts, failed,
                audit_queue, calls>>
consumerVars == <<copies, queue, deliveries, audit_events, audit_digests, audit_dlq,
                  acked, digest_key, pc, batch, inserted, key, head, headAt, late,
                  raced>>
vars == <<loggerVars, consumerVars>>

Params == {Submission[r].params : r \in Request}

Logger == INSTANCE AuditLogger WITH pc <- call

(* An event that is or may be written: its id and where it comes from. *)
Event == [event_id : Uuid, from : Request]

Fields(e) == Logger!build(Submission[e.from].params)

(* The row the consumer makes of the message. *)
StoredRow(e) == Row(Received(Submission[e.from].class))

Unprocessable == {e \in Event : ~Logger!validate_field_lengths(Fields(e))}

Refused == {e \in Event : ~Accepted(StoredRow(e))}

Consumer == INSTANCE AuditConsumer WITH EventId <- Event

ASSUME PipelineAssumption ==
    /\ IsFiniteSet(Request) /\ IsFiniteSet(Uuid)
    /\ Submission \in [Request -> [params      : Logger!AuditParams,
                                   class       : Class,
                                   best_effort : BOOLEAN]]
    /\ MaxAttempts \in Nat \ {0}
    /\ MaxCalls \in Nat
    /\ MaxCopies \in [Event -> Nat \ {0}]
    /\ MaxBatch \in Nat \ {0}
    /\ MaxDeliveries \in Nat \ {0}
    /\ MaxLate \in Nat
    /\ KeyLength \in [Key -> Nat]
    /\ ZeroKey \subseteq Key
    /\ KeyIdOf \in [Key -> KeyId]
    /\ NotHex \notin Consumer!Tag \cup Consumer!HexText

Init ==
    /\ Logger!Init
    /\ Consumer!Init
    /\ calls = 0
    /\ sink = TRUE
    /\ params = [r \in Request |-> Submission[r].params]
    /\ best_effort = [r \in Request |-> Submission[r].best_effort]
----------------------------------------------------------------------------

(* The event a request is writing. *)
Writing(r) == [event_id |-> event_id[r], from |-> r]

(* A request calls log_event and gets as far as the await of sink.write. *)
Submit(r) ==
    /\ calls < MaxCalls
    /\ calls' = calls + 1
    /\ Logger!Reject(r) \/ Logger!RngFails(r) \/ Logger!Dispatch(r)
    /\ UNCHANGED consumerVars

(* The await ends, one way or another; the message is on the queue or is not. *)
Finish(r) ==
    /\ Logger!WriteOk(r) \/ Logger!WriteFails(r) \/ Logger!Abandon(r)
    /\ IF audit_queue' = audit_queue THEN UNCHANGED consumerVars
                                     ELSE Consumer!Send(Writing(r))
    /\ UNCHANGED calls

Consume == Consumer!Handle /\ UNCHANGED loggerVars

(* Nothing is under way, and no call is left within the bounds. *)
Quiet ==
    /\ \A r \in Request : /\ call[r] # "writing"
                          /\ call[r] = "idle" => \/ calls = MaxCalls
                                                 \/ attempts[r] = MaxAttempts
    /\ \A e \in Event : queue[e] = 0
    /\ \A w \in Worker : pc[w] = "idle"
    /\ late = {}
    /\ UNCHANGED vars

Next == (\E r \in Request : Submit(r) \/ Finish(r)) \/ Consume \/ Quiet

Spec == Init /\ [][Next]_vars

(* As for AuditConsumer: nothing makes a request call, or a write end. *)
FairSpec ==
    Spec /\ \A w \in Worker : WF_vars(Consumer!Work(w) /\ UNCHANGED loggerVars)
----------------------------------------------------------------------------

TypeOK ==
    /\ Logger!TypeOK
    /\ Consumer!TypeOK
    /\ calls \in 0..MaxCalls

(* The pipeline keeps AuditLog's promise: the queue takes the hand-over, Ok is *)
(* the confirmation, and an event is settled in the tables.                    *)
Log == INSTANCE AuditLog WITH
           written <- {e \in Event : copies[e] > 0},
           confirmed <- {Writing(r) : r \in {q \in Request : call[q] = "ok"}},
           settled <- {e \in Event : Consumer!Settled(e)}

(* Every step of the pipeline is a step of AuditLog or none, and every event   *)
(* the queue took, also one whose write was reported as failed or abandoned,   *)
(* is at last stored under a digest or dead-lettered.                          *)
ImplementsAuditLog == Log!LiveSpec

(* The digest chain vouches for no event whose row INSERT OR IGNORE dropped    *)
(* for breaking a CHECK constraint: the schema takes every value a request can *)
(* log, as the consumer binds it.                                              *)
CoveredIsStored == Consumer!CoveredIsStored

(* What is stored is what was logged: every column of a stored row holds the   *)
(* text of its own field, or the name of the value the request gave, although  *)
(* columns and parameters meet by position only and None travels as "".  (Its  *)
(* queue_message_id is not the request's: the consumer sets it.)               *)
StoredAsLogged ==
    \A e \in audit_events :
        LET class == Submission[e.from].class
        IN  StoredRow(e) = [c \in Column |-> Bound(c, class)]

(* An event is dead-lettered before its last delivery only for a field that    *)
(* log_event does not check, or for a text that strip_pii made longer: in all  *)
(* others what the producer admits, the consumer stores.                       *)
DeadLetterExplained ==
    \A e \in audit_dlq :
        LET p == Submission[e.from].params
        IN  \/ deliveries[e] = MaxDeliveries
            \/ \E f \in Logger!Excess(p) :
                  \/ f \in Logger!Unchecked
                  \/ f \in Logger!Stripped /\ p.stripped[f] > p.length[f]
============================================================================
