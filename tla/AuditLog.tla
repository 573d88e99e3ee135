------------------------------ MODULE AuditLog ------------------------------
(* What provii-audit promises of an event, without saying how: log_event hands *)
(* the event over to the log and may or may not be able to confirm that, and   *)
(* an event that was handed over is settled at last: stored under a digest, or *)
(* kept as a dead letter.  (rust/src/lib.rs, "Architecture"; schema.sql:98: the *)
(* dead letters are retained "instead of being silently lost".)               *)
CONSTANT Event                \* finitely many, in the bounds of a run

VARIABLES
    written,              \* events handed over
    confirmed,            \* those whose caller was told Ok
    settled               \* those stored and covered by a digest, or dead letters

vars == <<written, confirmed, settled>>

Init == written = {} /\ confirmed = {} /\ settled = {}

(* An event is handed over once, and confirmed then or never. *)
Write(e) ==
    /\ e \notin written
    /\ written' = written \cup {e}
    /\ confirmed' \in {confirmed, confirmed \cup {e}}
    /\ UNCHANGED settled

(* Some of the events handed over are settled, for good. *)
Settle ==
    /\ settled \subseteq settled' /\ settled' \subseteq written
    /\ UNCHANGED <<written, confirmed>>

Next == (\E e \in Event : Write(e)) \/ Settle

(* Every event handed over is settled at last: with finitely many events and   *)
(* with sets that only grow, this is written ~> settled for each of them.      *)
AllSettle == <>[](written = settled)

Spec == Init /\ [][Next]_vars

LiveSpec == Spec /\ AllSettle
============================================================================
