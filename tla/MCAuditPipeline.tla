-------------------------- MODULE MCAuditPipeline --------------------------
(* Requests that differ in the enumerated values they log; one logs a          *)
(* request_id that is too long, one an event_type that is.                     *)
EXTENDS AuditPipeline

CONSTANTS r1, r2, r3, r4, u1, u2, k1

AuditEvent == INSTANCE AuditEvent

MCKeyLength == [k \in Key |-> 32]
MCZeroKey == {}
MCMaxCopies == [e \in Event |-> IF e = [event_id |-> u1, from |-> r1] THEN 2 ELSE 1]
MCKeyIdOf == [k \in Key |-> k]

Ordinary == [length    |-> [f \in AuditEvent!ParamField |-> 2],
             stripped  |-> [f \in AuditEvent!Stripped |-> 2],
             tombstone |-> FALSE]

Log1 == [params      |-> Ordinary,
         best_effort |-> FALSE,
         class       |-> [severity       |-> "Critical",
                          environment    |-> "Production",
                          event_category |-> "SecurityEvent",
                          actor_type     |-> "ApiKey",
                          outcome        |-> "Denied"]]

Log2 == [Log1 EXCEPT
            !.best_effort = TRUE,
            !.class = [severity       |-> "Info",
                       environment    |-> "Sandbox",
                       event_category |-> "KeyAccess",
                       actor_type     |-> None,
                       outcome        |-> None]]

MCSubmission == [r \in Request |->
    CASE r = r1 -> Log1
      [] r = r2 -> Log2
      [] r = r3 -> [Log1 EXCEPT !.params.length["request_id"] = 257]
      [] r = r4 -> [Log2 EXCEPT !.params.length["event_type"] = 129]]
============================================================================
