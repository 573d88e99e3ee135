---------------------------- MODULE AuditLogger ----------------------------
(* AuditLogger::log_event (rust/src/logger.rs) as its callers run it: requests *)
(* that share one logger and interleave where log_event awaits sink.write.    *)
(* Everything before that await is one step.  The queue behind the sink may   *)
(* take the message and answer, refuse it, or take it and lose the answer;    *)
(* log_event knows only whether write returned Ok.  A caller that gets an     *)
(* error may call again (a new call, so a new event_id), unless it used       *)
(* log_event_best_effort, which keeps the error from it.                      *)
(*                                                                            *)
(* An event_id is a random UUID v4, 122 random bits of getrandom.  The one     *)
(* thing assumed of the draw is that it never repeats: the model draws any id  *)
(* not drawn before.  What follows from a repeated id is outside the model.    *)
EXTENDS AuditEvent, FiniteSets

CONSTANTS
    Request,              \* requests, each with one thing to log
    Uuid,                 \* the ids that may be drawn; enough for every call
    Params,               \* the parameters they may log it with
    MaxAttempts           \* bound: how often a request calls log_event

ASSUME LoggerAssumption == /\ Params \subseteq AuditParams
                           /\ MaxAttempts \in Nat \ {0}

VARIABLES
    sink,                 \* whether the logger was given a sink
    best_effort,          \* per request: it calls log_event_best_effort
    params,               \* per request: what it logs
    pc,                   \* per request: "idle", "writing", or how it ended
    event_id,             \* per request: the id of the event it is writing
    drawn,                \* history: the ids drawn so far
    attempts,             \* history, per request: calls of log_event
    failed,               \* history, per request: calls that returned QueueError
    audit_queue           \* the messages the queue took, with their request

vars == <<sink, best_effort, params, pc, event_id, drawn, attempts, failed,
          audit_queue>>

NoId == "none"

settings == <<sink, best_effort, params>>

Init ==
    /\ sink \in BOOLEAN
    /\ best_effort \in [Request -> BOOLEAN]
    /\ params \in [Request -> Params]
    /\ pc = [r \in Request |-> "idle"]
    /\ event_id = [r \in Request |-> NoId]
    /\ drawn = {}
    /\ attempts = [r \in Request |-> 0]
    /\ failed = [r \in Request |-> 0]
    /\ audit_queue = {}
----------------------------------------------------------------------------

Calls(r) ==
    /\ pc[r] = "idle"
    /\ attempts[r] < MaxAttempts
    /\ attempts' = [attempts EXCEPT ![r] = @ + 1]

Becomes(r, state) == pc' = [pc EXCEPT ![r] = state]

(* A validation error, before anything is hashed, built or written; calling    *)
(* again with the same parameters changes nothing.                             *)
Reject(r) ==
    /\ Calls(r)
    /\ ~Admitted(params[r])
    /\ Becomes(r, "rejected")
    /\ UNCHANGED <<settings, event_id, drawn, failed, audit_queue>>

(* The platform has no random bytes for the event_id. *)
RngFails(r) ==
    /\ Calls(r)
    /\ Admitted(params[r])
    /\ Becomes(r, IF best_effort[r] THEN "discarded" ELSE "idle")
    /\ UNCHANGED <<settings, event_id, drawn, failed, audit_queue>>

(* The event is built, under a random id, and written if there is a sink. *)
Dispatch(r) ==
    /\ Calls(r)
    /\ Admitted(params[r])
    /\ \E id \in Uuid \ drawn :
          /\ drawn' = drawn \cup {id}
          /\ event_id' = [event_id EXCEPT ![r] = id]
    /\ Becomes(r, IF sink THEN "writing" ELSE "ok")
    /\ UNCHANGED <<settings, failed, audit_queue>>

(* Faulty variant: two fields of the message are swapped. *)
MessageSwapped(r) ==
    [event_id |-> r, from |-> event_id[r], event |-> build(params[r])]

Message(r) == [event_id |-> event_id[r], from |-> r, event |-> build(params[r])]

(* QueueAuditSink::write: the queue takes the message and says so. *)
WriteOk(r) ==
    /\ pc[r] = "writing"
    /\ audit_queue' = audit_queue \cup {Message(r)}
    /\ Becomes(r, "ok")
    /\ UNCHANGED <<settings, event_id, drawn, attempts, failed>>

(* Faulty variant: a write that failed is taken for one that succeeded. *)
WriteFailsUnseen(r) ==
    /\ pc[r] = "writing"
    /\ audit_queue' \in {audit_queue, audit_queue \cup {Message(r)}}
    /\ Becomes(r, "ok")
    /\ UNCHANGED <<settings, event_id, drawn, attempts, failed>>

(* Faulty variant: best effort keeps trying. *)
WriteFailsRetried(r) ==
    /\ pc[r] = "writing"
    /\ audit_queue' \in {audit_queue, audit_queue \cup {Message(r)}}
    /\ failed' = [failed EXCEPT ![r] = @ + 1]
    /\ Becomes(r, "idle")
    /\ UNCHANGED <<settings, event_id, drawn, attempts>>

(* write returns QueueError: the message was refused, or it was taken and the  *)
(* answer lost.                                                                *)
WriteFails(r) ==
    /\ pc[r] = "writing"
    /\ audit_queue' \in {audit_queue, audit_queue \cup {Message(r)}}
    /\ failed' = [failed EXCEPT ![r] = @ + 1]
    /\ Becomes(r, IF best_effort[r] THEN "discarded" ELSE "idle")
    /\ UNCHANGED <<settings, event_id, drawn, attempts>>

(* The runtime drops the request while it awaits the queue. *)
Abandon(r) ==
    /\ pc[r] = "writing"
    /\ audit_queue' \in {audit_queue, audit_queue \cup {Message(r)}}
    /\ Becomes(r, "abandoned")
    /\ UNCHANGED <<settings, event_id, drawn, attempts, failed>>

Step(r) == \/ Reject(r) \/ RngFails(r) \/ Dispatch(r)
           \/ WriteOk(r) \/ WriteFails(r) \/ Abandon(r)

(* Requests that are over, or that gave up calling. *)
Over == /\ \A r \in Request : \/ pc[r] \notin {"idle", "writing"}
                              \/ pc[r] = "idle" /\ attempts[r] = MaxAttempts
        /\ UNCHANGED vars

Next == (\E r \in Request : Step(r)) \/ Over

Spec == Init /\ [][Next]_vars
----------------------------------------------------------------------------

TypeOK ==
    /\ sink \in BOOLEAN
    /\ best_effort \in [Request -> BOOLEAN]
    /\ params \in [Request -> Params]
    /\ pc \in [Request -> {"idle", "writing", "ok", "rejected", "discarded",
                           "abandoned"}]
    /\ event_id \in [Request -> Uuid \cup {NoId}]
    /\ \A r \in Request : pc[r] = "writing" => event_id[r] \in Uuid
    /\ drawn \subseteq Uuid
    /\ attempts \in [Request -> 0..MaxAttempts]
    /\ failed \in [Request -> Nat]
    /\ audit_queue \subseteq [event_id : Uuid, from : Request, event : AuditEvents]

From(r) == {m \in audit_queue : m.from = r}

(* log_event returns Ok only for an event the queue holds, whatever its        *)
(* earlier calls met (a logger without a sink says Ok and keeps nothing).      *)
OkIsQueued ==
    \A r \in Request :
        pc[r] = "ok" => IF sink THEN \E m \in From(r) : m.event_id = event_id[r]
                                ELSE From(r) = {}

(* What a request logged is in the queue twice only if it was told of a        *)
(* failure and called again: each copy but the last one answers a call that    *)
(* returned QueueError.  Best effort queues one copy at most.                  *)
CopiesAnswerFailures ==
    \A r \in Request :
        /\ Cardinality(From(r)) <=
               IF pc[r] \in {"ok", "abandoned"} THEN failed[r] + 1 ELSE failed[r]
        /\ best_effort[r] => Cardinality(From(r)) <= 1

(* Fields log_event passes on without looking at their length. *)
Unchecked == {"source_service", "request_id", "worker_version", "geo_country",
              "actor_id", "resource_type", "resource_id"}

(* The fields for which an event of p exceeds the consumer's limit. *)
Excess(p) == {f \in EventField : build(p)[f] > MaxLength(f)}

(* The producer's checks are as strict as the consumer's on every field they   *)
(* look at: a queued event the consumer would dead-letter has an excess in a   *)
(* field log_event does not check, or in a text that strip_pii made longer.    *)
ExcessIsExplained ==
    \A m \in audit_queue :
        LET p == params[m.from]
        IN  ~validate_field_lengths(m.event) =>
                \E f \in Excess(p) : \/ f \in Unchecked
                                     \/ f \in Stripped /\ p.stripped[f] > p.length[f]

(* What sanitize.rs says of the producer (line 6): upper bounds on all append  *)
(* request fields are enforced before they reach the queue sink.               *)
AllFieldsBounded == \A m \in audit_queue : validate_field_lengths(m.event)
============================================================================
