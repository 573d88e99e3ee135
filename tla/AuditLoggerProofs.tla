-------------------------- MODULE AuditLoggerProofs --------------------------
(* log_event for any number of requests and calls and every field length: what *)
(* an Ok promises, how copies come about, and which events the consumer will    *)
(* refuse.                                                                      *)
EXTENDS AuditLogger, FiniteSetTheorems, TLAPS

(* Every field of the event the builder makes is a length. *)
LEMMA BuildType ==
    ASSUME NEW p \in AuditParams
    PROVE  /\ build(p) \in AuditEvents
           /\ p.length \in [ParamField -> Nat]
           /\ p.stripped \in [Stripped -> Nat]
           /\ \A f \in Stripped : p.length[f] = 0 <=> p.stripped[f] = 0
<1>1. /\ p.length \in [ParamField -> Nat]
      /\ p.stripped \in [Stripped -> Nat]
      /\ \A f \in Stripped : p.length[f] = 0 <=> p.stripped[f] = 0
  BY DEF AuditParams
<1>2. ASSUME NEW f \in EventField
      PROVE  build(p)[f] \in Nat
  <2>1. CASE f \in Copied
    <3>1. build(p)[f] = p.length[f]
      BY <2>1 DEF build, built, Copied, Stripped, Hashed
    <3> QED
      BY <1>1, <2>1, <3>1 DEF ParamField
  <2>2. CASE f \in Stripped
    <3>1. build(p)[f] = p.stripped[f]
      BY <2>2 DEF build, built, Copied, Stripped, Hashed, EventField
    <3> QED
      BY <1>1, <2>2, <3>1
  <2>3. CASE f \in Hashed
    <3>1. build(p)[f] = HashedLength(p.length[HashedFrom[f]])
      BY <2>3 DEF build, built, Copied, Stripped, Hashed, EventField
    <3>2. HashedFrom[f] \in ParamField
      BY <2>3 DEF Hashed, HashedFrom, ParamField
    <3> QED
      BY <1>1, <3>1, <3>2 DEF HashedLength, HASH_LENGTH
  <2>4. CASE f \in {"event_id", "created_at", "queue_message_id"}
    BY <2>4 DEF build, built, Copied, Stripped, Hashed, EventField, UUID_LENGTH, ISO8601_LENGTH
  <2> QED
    BY <2>1, <2>2, <2>3, <2>4 DEF EventField
<1>3. \A f \in EventField : built(p, f) \in Nat
  BY <1>2 DEF build
<1> QED
  BY <1>1, <1>3 DEF AuditEvents, build

(* The event of admitted parameters exceeds a limit only in a field log_event  *)
(* does not check, or in a text that grew; and no required field is empty.     *)
LEMMA AdmittedFits ==
    ASSUME NEW p \in AuditParams, Admitted(p), ~validate_field_lengths(build(p))
    PROVE  \E f \in Excess(p) : \/ f \in Unchecked
                                \/ f \in Stripped /\ p.stripped[f] > p.length[f]
<1>1. /\ build(p) \in AuditEvents
      /\ p.length \in [ParamField -> Nat]
      /\ p.stripped \in [Stripped -> Nat]
      /\ \A f \in Stripped : p.length[f] = 0 <=> p.stripped[f] = 0
  BY BuildType
<1>2. \A f \in Required : build(p)[f] > 0
  <2>1. build(p)["event_id"] = 32 /\ build(p)["created_at"] = 24
    BY DEF build, built, EventField, Copied, Stripped, Hashed, UUID_LENGTH, ISO8601_LENGTH
  <2>2. /\ build(p)["source_service"] = p.length["source_service"]
        /\ build(p)["event_type"] = p.length["event_type"]
        /\ build(p)["message"] = p.stripped["message"]
    BY DEF build, built, EventField, Copied, Stripped, Hashed
  <2>3. p.stripped["message"] \in Nat /\ p.stripped["message"] # 0
    BY <1>1 DEF Admitted, buildable, Stripped
  <2> QED
    BY <2>1, <2>2, <2>3 DEF Required, Admitted, buildable
<1>3. PICK f \in EventField : ~(build(p)[f] <= MaxLength(f))
  BY <1>2 DEF validate_field_lengths
<1>4. build(p)[f] \in Nat /\ MaxLength(f) \in Nat
  BY <1>1 DEF AuditEvents, MaxLength, MAX_EVENT_TYPE_LENGTH, MAX_MESSAGE_LENGTH,
              MAX_DETAILS_LENGTH, MAX_FIELD_LENGTH
<1>5. f \in Excess(p)
  BY <1>3, <1>4 DEF Excess
<1>6. CASE f \in Stripped
  <2>1. build(p)[f] = p.stripped[f]
    BY <1>6 DEF build, built, Copied, Stripped, Hashed, EventField
  <2>2. p.length[f] <= MaxLength(f) /\ p.length[f] \in Nat
    BY <1>1, <1>6 DEF Admitted, validate_append_fields, MaxLength, Stripped, ParamField
  <2> QED
    BY <1>3, <1>4, <1>5, <1>6, <2>1, <2>2
<1>7. CASE f \in Hashed
  <2>1. build(p)[f] = HashedLength(p.length[HashedFrom[f]])
    BY <1>7 DEF build, built, Copied, Stripped, Hashed, EventField
  <2>2. MaxLength(f) = 8192
    BY <1>7 DEF MaxLength, Hashed, MAX_FIELD_LENGTH
  <2> QED
    BY <1>3, <2>1, <2>2 DEF HashedLength, HASH_LENGTH
<1>8. CASE f \in Copied
  <2>1. build(p)[f] = p.length[f]
    BY <1>8 DEF build, built, Copied, Stripped, Hashed
  <2>2. CASE f = "event_type"
    BY <1>3, <2>1, <2>2 DEF Admitted, validate_append_fields, MaxLength
  <2>3. CASE f = "challenge_id"
    BY <1>3, <2>1, <2>3 DEF Admitted, validate_secondary_fields, MaxLength
  <2> QED
    BY <1>5, <1>8, <2>2, <2>3 DEF Copied, Unchecked
<1>9. CASE f \in {"event_id", "created_at", "queue_message_id"}
  BY <1>3, <1>9 DEF build, built, Copied, Stripped, Hashed, EventField, UUID_LENGTH,
                    ISO8601_LENGTH, MaxLength
<1> QED
  BY <1>3, <1>6, <1>7, <1>8, <1>9 DEF EventField
----------------------------------------------------------------------------

(* The logger's variables keep their types. *)
THEOREM TypeCorrect == Spec => []TypeOK
<1>1. Init => TypeOK
  BY LoggerAssumption DEF Init, TypeOK
<1>2. TypeOK /\ [Next]_vars => TypeOK'
  <2> SUFFICES ASSUME TypeOK, [Next]_vars PROVE TypeOK'
    OBVIOUS
  <2> USE LoggerAssumption DEF TypeOK
  <2>1. ASSUME NEW r \in Request, pc[r] = "writing"
        PROVE  /\ Message(r) \in [event_id : Uuid, from : Request, event : AuditEvents]
               /\ audit_queue \cup {Message(r)} \subseteq
                      [event_id : Uuid, from : Request, event : AuditEvents]
    <3>1. params[r] \in AuditParams
      OBVIOUS
    <3> QED
      BY <2>1, <3>1, BuildType DEF Message
  <2>2. ASSUME NEW r \in Request, Reject(r) PROVE TypeOK'
    BY <2>2 DEF Reject, Calls, Becomes, settings
  <2>3. ASSUME NEW r \in Request, RngFails(r) PROVE TypeOK'
    BY <2>3 DEF RngFails, Calls, Becomes, settings
  <2>4. ASSUME NEW r \in Request, Dispatch(r) PROVE TypeOK'
    BY <2>4 DEF Dispatch, Calls, Becomes, settings
  <2>5. ASSUME NEW r \in Request, WriteOk(r) PROVE TypeOK'
    BY <2>1, <2>5 DEF WriteOk, Becomes, settings
  <2>6. ASSUME NEW r \in Request, WriteFails(r) PROVE TypeOK'
    BY <2>1, <2>6 DEF WriteFails, Becomes, settings
  <2>7. ASSUME NEW r \in Request, Abandon(r) PROVE TypeOK'
    BY <2>1, <2>7 DEF Abandon, Becomes, settings
  <2>8. CASE UNCHANGED vars
    BY <2>8 DEF vars
  <2> QED
    BY <2>2, <2>3, <2>4, <2>5, <2>6, <2>7, <2>8 DEF Next, Step, Over
<1> QED
  BY <1>1, <1>2, PTL DEF Spec
----------------------------------------------------------------------------
(* The inductive invariant.                                                    *)

(* What is being written, and what was taken, passed the producer's checks and *)
(* is the event of its request's parameters.                                   *)
OnlyAdmitted ==
    /\ \A r \in Request : pc[r] = "writing" => sink /\ Admitted(params[r])
    /\ \A m \in audit_queue : /\ sink /\ Admitted(params[m.from])
                              /\ m.event = build(params[m.from])

(* The id being written is still unused, and no one else writes under it. *)
FreshIds ==
    /\ \A m \in audit_queue : m.event_id \in drawn
    /\ \A r \in Request :
          pc[r] = "writing" =>
                /\ event_id[r] \in drawn
                /\ \A m \in audit_queue : m.event_id # event_id[r]
                /\ \A q \in Request \ {r} :
                       pc[q] = "writing" => event_id[q] # event_id[r]

(* The copies of a request, with what its state adds to CopiesAnswerFailures. *)
Copies ==
    \A r \in Request :
        /\ IsFiniteSet(From(r))
        /\ best_effort[r] /\ pc[r] \in {"idle", "writing"} => From(r) = {}

LoggerInv ==
    /\ OnlyAdmitted /\ FreshIds /\ Copies
    /\ OkIsQueued /\ CopiesAnswerFailures

(* A step that leaves the queue alone and lets no request reach "writing".      *)
LEMMA NothingTaken ==
    ASSUME TypeOK, LoggerInv, NEW r \in Request, NEW s,
           s \in {"ok", "rejected", "discarded", "abandoned", "idle"},
           pc[r] \in {"idle", "writing"},
           s = "ok" => pc[r] = "idle" /\ ~sink,
           s = "idle" => ~best_effort[r] \/ pc[r] = "idle",
           Becomes(r, s), UNCHANGED <<settings, event_id, drawn, audit_queue>>,
           \A q \in Request : failed'[q] \in Nat /\ failed'[q] >= failed[q]
    PROVE  LoggerInv'
<1> USE DEF TypeOK
<1>1. /\ UNCHANGED <<sink, best_effort, params, event_id, drawn, audit_queue>>
      /\ pc' = [pc EXCEPT ![r] = s]
      /\ \A q \in Request : From(q)' = From(q)
      /\ s # "writing"
  BY DEF Becomes, settings, From
<1>2. OnlyAdmitted' /\ FreshIds'
  BY <1>1 DEF LoggerInv, OnlyAdmitted, FreshIds
<1>3. Copies'
  BY <1>1 DEF LoggerInv, Copies
<1>4. OkIsQueued'
  <2>1. s = "ok" => From(r) = {}
    BY DEF LoggerInv, OnlyAdmitted, From
  <2> QED
    BY <1>1, <2>1 DEF LoggerInv, OkIsQueued
<1>5. CopiesAnswerFailures'
  <2> SUFFICES ASSUME NEW q \in Request
               PROVE  /\ Cardinality(From(q)) <=
                            IF pc'[q] \in {"ok", "abandoned"}
                            THEN failed'[q] + 1 ELSE failed'[q]
                      /\ best_effort[q] => Cardinality(From(q)) <= 1
    BY <1>1 DEF CopiesAnswerFailures
  <2>1. Cardinality(From(q)) \in Nat
    BY FS_CardinalityType DEF LoggerInv, Copies
  <2>2. /\ Cardinality(From(q)) <= IF pc[q] \in {"ok", "abandoned"}
                                   THEN failed[q] + 1 ELSE failed[q]
        /\ best_effort[q] => Cardinality(From(q)) <= 1
    BY DEF LoggerInv, CopiesAnswerFailures
  <2>3. failed[q] \in Nat /\ failed'[q] \in Nat /\ failed'[q] >= failed[q]
    OBVIOUS
  <2>4. q = r => pc[q] \notin {"ok", "abandoned"}
    OBVIOUS
  <2>5. q # r => pc'[q] = pc[q]
    BY <1>1
  <2> QED
    BY <2>1, <2>2, <2>3, <2>4, <2>5
<1> QED
  BY <1>2, <1>3, <1>4, <1>5 DEF LoggerInv

(* A step in which the queue takes the message a request is writing. *)
LEMMA MessageTaken ==
    ASSUME TypeOK, LoggerInv, NEW r \in Request, NEW s,
           s \in {"ok", "discarded", "abandoned", "idle"},
           s = "idle" => ~best_effort[r],
           pc[r] = "writing", Becomes(r, s),
           audit_queue' = audit_queue \cup {Message(r)},
           UNCHANGED <<settings, event_id, drawn>>,
           failed' = IF s \in {"ok", "abandoned"} THEN failed
                     ELSE [failed EXCEPT ![r] = @ + 1]
    PROVE  LoggerInv'
<1> USE DEF TypeOK
<1> DEFINE m == Message(r)
<1>1. /\ UNCHANGED <<sink, best_effort, params, event_id, drawn>>
      /\ pc' = [pc EXCEPT ![r] = s]
      /\ s # "writing" /\ pc'[r] = s
      /\ \A q \in Request \ {r} : pc'[q] = pc[q]
  BY DEF Becomes, settings
<1>2. /\ m.event_id = event_id[r] /\ m.from = r
      /\ m.event = build(params[r])
  BY DEF Message
<1> HIDE DEF m
<1>3. audit_queue' = audit_queue \cup {m}
  BY DEF m
<1>4. m \notin audit_queue
  BY <1>2 DEF LoggerInv, FreshIds
<1>5. From(r)' = From(r) \cup {m} /\ \A q \in Request \ {r} : From(q)' = From(q)
  BY <1>2, <1>3 DEF From
<1>6. OnlyAdmitted'
  BY <1>1, <1>2, <1>3 DEF LoggerInv, OnlyAdmitted
<1>7. FreshIds'
  <2>1. \A n \in audit_queue' : n.event_id \in drawn'
    BY <1>1, <1>2, <1>3 DEF LoggerInv, FreshIds
  <2>2. ASSUME NEW q \in Request, pc'[q] = "writing"
        PROVE  /\ event_id'[q] \in drawn'
               /\ \A n \in audit_queue' : n.event_id # event_id'[q]
               /\ \A t \in Request \ {q} :
                      pc'[t] = "writing" => event_id'[t] # event_id'[q]
    <3>1. q # r /\ pc[q] = "writing"
      BY <1>1, <2>2
    <3>2. event_id[q] # event_id[r]
      BY <3>1 DEF LoggerInv, FreshIds
    <3>3. \A t \in Request : pc'[t] = "writing" => pc[t] = "writing"
      BY <1>1
    <3> QED
      BY <1>1, <1>2, <1>3, <3>1, <3>2, <3>3 DEF LoggerInv, FreshIds
  <2> QED
    BY <1>1, <2>1, <2>2 DEF LoggerInv, FreshIds
<1>9. OkIsQueued'
  <2>1. sink
    BY DEF LoggerInv, OnlyAdmitted
  <2>2. m \in From(r)' /\ m.event_id = event_id'[r]
    BY <1>1, <1>2, <1>5
  <2> QED
    BY <1>1, <1>5, <2>1, <2>2 DEF LoggerInv, OkIsQueued
<1>10. Copies'
  <2>1. \A q \in Request : IsFiniteSet(From(q))
    BY DEF LoggerInv, Copies
  <2>2. IsFiniteSet(From(r))
    BY <2>1
  <2>3. IsFiniteSet(From(r) \cup {m})
    BY <2>2, FS_AddElement
  <2>4. \A q \in Request : IsFiniteSet(From(q)')
    BY <1>5, <2>1, <2>3
  <2> QED
    BY <1>1, <1>5, <2>4 DEF LoggerInv, Copies
<1>11. CopiesAnswerFailures'
  <2>1. IsFiniteSet(From(r)) /\ m \notin From(r)
    BY <1>4 DEF LoggerInv, Copies, From
  <2>2. /\ Cardinality(From(r)') = Cardinality(From(r)) + 1
        /\ Cardinality(From(r)) \in Nat
    <3>1. Cardinality(From(r) \cup {m}) = Cardinality(From(r)) + 1
      BY <2>1, FS_AddElement
    <3>2. Cardinality(From(r)) \in Nat
      BY <2>1, FS_CardinalityType
    <3> QED
      BY <1>5, <3>1, <3>2
  <2>3. Cardinality(From(r)) <= failed[r] /\ failed[r] \in Nat
    BY DEF LoggerInv, CopiesAnswerFailures
  <2>4. best_effort[r] => Cardinality(From(r)') <= 1
    <3>1. best_effort[r] => From(r) = {}
      BY DEF LoggerInv, Copies
    <3>2. Cardinality({}) = 0
      BY FS_EmptySet
    <3>3. CASE best_effort[r]
      <4>1. Cardinality(From(r)) = 0
        BY <3>1, <3>2, <3>3
      <4> QED
        BY <2>2, <4>1
    <3> QED
      BY <3>3
  <2>5. Cardinality(From(r)') <= IF pc'[r] \in {"ok", "abandoned"}
                                 THEN failed'[r] + 1 ELSE failed'[r]
    BY <1>1, <2>2, <2>3
  <2>6. ASSUME NEW q \in Request \ {r}
        PROVE  failed'[q] = failed[q] /\ pc'[q] = pc[q] /\ From(q)' = From(q)
    BY <1>1, <1>5
  <2> QED
    BY <1>1, <2>4, <2>5, <2>6 DEF LoggerInv, CopiesAnswerFailures
<1> QED
  BY <1>6, <1>7, <1>9, <1>10, <1>11 DEF LoggerInv

(* An event built under an id not drawn before: it is written, or there is no  *)
(* sink.                                                                       *)
LEMMA Dispatched ==
    ASSUME TypeOK, LoggerInv, NEW r \in Request, Dispatch(r)
    PROVE  LoggerInv'
<1> USE DEF TypeOK
<1> PICK id \in Uuid \ drawn : /\ drawn' = drawn \cup {id}
                               /\ event_id' = [event_id EXCEPT ![r] = id]
  BY DEF Dispatch
<1>1. /\ UNCHANGED <<sink, best_effort, params, failed, audit_queue>>
      /\ pc[r] = "idle" /\ Admitted(params[r])
      /\ pc' = [pc EXCEPT ![r] = IF sink THEN "writing" ELSE "ok"]
      /\ \A q \in Request : From(q)' = From(q)
  BY DEF Dispatch, Calls, Becomes, settings, From
<1>2. OnlyAdmitted'
  BY <1>1 DEF LoggerInv, OnlyAdmitted
<1>3. FreshIds'
  <2>1. \A m \in audit_queue : m.event_id \in drawn
    BY DEF LoggerInv, FreshIds
  <2>2. /\ event_id'[r] = id
        /\ \A q \in Request \ {r} : event_id'[q] = event_id[q] /\ pc'[q] = pc[q]
    BY <1>1
  <2>3. \A q \in Request \ {r} : pc[q] = "writing" => event_id[q] \in drawn
    BY DEF LoggerInv, FreshIds
  <2>4. ASSUME NEW q \in Request, pc'[q] = "writing"
        PROVE  /\ event_id'[q] \in drawn'
               /\ \A m \in audit_queue' : m.event_id # event_id'[q]
               /\ \A t \in Request \ {q} :
                      pc'[t] = "writing" => event_id'[t] # event_id'[q]
    <3>1. CASE q = r
      BY <1>1, <2>1, <2>2, <2>3, <3>1
    <3>2. CASE q # r
      <4>1. pc[q] = "writing"
        BY <2>2, <2>4, <3>2
      <4>2. \A m \in audit_queue' : m.event_id # event_id'[q]
        BY <1>1, <2>2, <3>2, <4>1 DEF LoggerInv, FreshIds
      <4>3. event_id'[r] # event_id'[q]
        BY <2>2, <2>3, <3>2, <4>1
      <4>4. \A t \in Request \ {q, r} :
                pc'[t] = "writing" => event_id'[t] # event_id'[q]
        BY <2>2, <3>2, <4>1 DEF LoggerInv, FreshIds
      <4> QED
        BY <2>2, <2>3, <3>2, <4>1, <4>2, <4>3, <4>4
    <3> QED
      BY <3>1, <3>2
  <2> QED
    BY <1>1, <2>1, <2>4 DEF FreshIds
<1>4. Copies'
  <2>1. pc'[r] \in {"idle", "writing"} => pc[r] \in {"idle", "writing"}
    BY <1>1
  <2> QED
    BY <1>1, <2>1 DEF LoggerInv, Copies
<1>5. OkIsQueued'
  <2>1. ~sink => From(r) = {}
    BY DEF LoggerInv, OnlyAdmitted, From
  <2> QED
    BY <1>1, <2>1 DEF LoggerInv, OkIsQueued
<1>6. CopiesAnswerFailures'
  <2> SUFFICES ASSUME NEW q \in Request
               PROVE  /\ Cardinality(From(q)) <=
                            IF pc'[q] \in {"ok", "abandoned"}
                            THEN failed[q] + 1 ELSE failed[q]
                      /\ best_effort[q] => Cardinality(From(q)) <= 1
    BY <1>1 DEF CopiesAnswerFailures
  <2>1. Cardinality(From(q)) \in Nat /\ failed[q] \in Nat
    BY FS_CardinalityType DEF LoggerInv, Copies
  <2>2. /\ Cardinality(From(q)) <= IF pc[q] \in {"ok", "abandoned"}
                                   THEN failed[q] + 1 ELSE failed[q]
        /\ best_effort[q] => Cardinality(From(q)) <= 1
    BY DEF LoggerInv, CopiesAnswerFailures
  <2>3. pc[q] \in {"ok", "abandoned"} => pc'[q] \in {"ok", "abandoned"}
    BY <1>1
  <2> QED
    BY <2>1, <2>2, <2>3
<1> QED
  BY <1>2, <1>3, <1>4, <1>5, <1>6 DEF LoggerInv

(* Every step keeps LoggerInv. *)
LEMMA LoggerStep == TypeOK /\ LoggerInv /\ [Next]_vars => LoggerInv'
<1> SUFFICES ASSUME TypeOK, LoggerInv, [Next]_vars PROVE LoggerInv'
  OBVIOUS
<1> DEFINE NoneFails == \A q \in Request : failed'[q] \in Nat /\ failed'[q] >= failed[q]
<1>1. UNCHANGED failed => NoneFails
  BY DEF TypeOK
<1>2. ASSUME NEW r \in Request, Reject(r) PROVE LoggerInv'
  BY <1>1, <1>2, NothingTaken DEF Reject, Calls
<1>3. ASSUME NEW r \in Request, RngFails(r) PROVE LoggerInv'
  <2>1. CASE best_effort[r]
    BY <1>1, <1>3, <2>1, NothingTaken DEF RngFails, Calls
  <2>2. CASE ~best_effort[r]
    BY <1>1, <1>3, <2>2, NothingTaken DEF RngFails, Calls
  <2> QED
    BY <2>1, <2>2
<1>4. ASSUME NEW r \in Request, Dispatch(r) PROVE LoggerInv'
  BY <1>4, Dispatched
<1>5. ASSUME NEW r \in Request, WriteOk(r) PROVE LoggerInv'
  BY <1>5, MessageTaken DEF WriteOk
<1>6. ASSUME NEW r \in Request, WriteFails(r) PROVE LoggerInv'
  <2> DEFINE s == IF best_effort[r] THEN "discarded" ELSE "idle"
  <2>1. /\ s \in {"discarded", "idle"} /\ (s = "idle" => ~best_effort[r])
        /\ pc[r] = "writing" /\ Becomes(r, s)
        /\ failed' = [failed EXCEPT ![r] = @ + 1]
        /\ UNCHANGED <<settings, event_id, drawn>>
    BY <1>6 DEF WriteFails
  <2>2. NoneFails
    BY <2>1 DEF TypeOK
  <2> HIDE DEF s
  <2>3. CASE audit_queue' = audit_queue
    BY <2>1, <2>2, <2>3, NothingTaken
  <2>4. CASE audit_queue' = audit_queue \cup {Message(r)}
    BY <2>1, <2>4, MessageTaken
  <2> QED
    BY <1>6, <2>3, <2>4 DEF WriteFails
<1>7. ASSUME NEW r \in Request, Abandon(r) PROVE LoggerInv'
  <2>1. CASE audit_queue' = audit_queue
    BY <1>1, <1>7, <2>1, NothingTaken DEF Abandon
  <2>2. CASE audit_queue' = audit_queue \cup {Message(r)}
    BY <1>7, <2>2, MessageTaken DEF Abandon
  <2> QED
    BY <1>7, <2>1, <2>2 DEF Abandon
<1>8. CASE UNCHANGED vars
  BY <1>8 DEF vars, LoggerInv, OnlyAdmitted, FreshIds, Copies, OkIsQueued,
              CopiesAnswerFailures, From
<1> QED
  BY <1>2, <1>3, <1>4, <1>5, <1>6, <1>7, <1>8 DEF Next, Step, Over

(* The invariant holds in every reachable state. *)
LEMMA LoggerInvariant == Spec => []LoggerInv
<1>1. Init => LoggerInv
  <2> SUFFICES ASSUME Init PROVE LoggerInv
    OBVIOUS
  <2>1. \A r \in Request : From(r) = {}
    BY DEF Init, From
  <2>2. IsFiniteSet({}) /\ Cardinality({}) = 0
    BY FS_EmptySet
  <2>3. \A r \in Request : /\ pc[r] = "idle" /\ failed[r] = 0
    BY DEF Init
  <2>4. audit_queue = {}
    BY DEF Init
  <2> QED
    <3>1. OnlyAdmitted /\ FreshIds /\ OkIsQueued
      BY <2>1, <2>3, <2>4 DEF OnlyAdmitted, FreshIds, OkIsQueued
    <3>2. \A r \in Request : IsFiniteSet(From(r)) /\ Cardinality(From(r)) = 0
      BY <2>1, <2>2, Zenon
    <3>3. Copies
      BY <2>1, <3>2 DEF Copies
    <3>4. CopiesAnswerFailures
      BY <2>3, <3>2 DEF CopiesAnswerFailures
    <3> QED
      BY <3>1, <3>3, <3>4 DEF LoggerInv
<1> QED
  BY <1>1, LoggerStep, TypeCorrect, PTL DEF Spec

(* An Ok of log_event stands for an event the queue holds. *)
THEOREM OkMeansQueued == Spec => []OkIsQueued
  BY LoggerInvariant, PTL DEF LoggerInv

(* Nothing is queued twice without a failure that was reported, and best       *)
(* effort never queues twice.                                                  *)
THEOREM CopiesAreAnswers == Spec => []CopiesAnswerFailures
  BY LoggerInvariant, PTL DEF LoggerInv

(* For every field length: an event the consumer will refuse got past the      *)
(* producer in a field it does not check or in a text that strip_pii made      *)
(* longer.                                                                     *)
THEOREM RefusalsExplained == Spec => []ExcessIsExplained
<1>1. TypeOK /\ LoggerInv => ExcessIsExplained
  <2> SUFFICES ASSUME TypeOK, LoggerInv, NEW m \in audit_queue,
                      ~validate_field_lengths(m.event)
               PROVE  LET p == params[m.from]
                      IN  \E f \in Excess(p) :
                             \/ f \in Unchecked
                             \/ f \in Stripped /\ p.stripped[f] > p.length[f]
    BY DEF ExcessIsExplained
  <2>1. params[m.from] \in AuditParams
    BY LoggerAssumption DEF TypeOK
  <2>2. Admitted(params[m.from]) /\ m.event = build(params[m.from])
    BY DEF LoggerInv, OnlyAdmitted
  <2> QED
    BY <2>1, <2>2, AdmittedFits
<1> QED
  BY <1>1, TypeCorrect, LoggerInvariant, PTL
============================================================================
