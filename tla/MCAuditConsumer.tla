-------------------------- MODULE MCAuditConsumer --------------------------
(* Small instances of AuditConsumer: keys of 32 bytes are usable, the key     *)
(* named short has 31 bytes.  Key ids are distinct.  The events of Copied may  *)
(* be queued twice, the others once.                                          *)
EXTENDS AuditConsumer

CONSTANTS short, Copied

MCKeyLength == [k \in Key |-> IF k = short THEN 31 ELSE 32]
MCZeroKey == {}
MCMaxCopies == [e \in EventId |-> IF e \in Copied THEN 2 ELSE 1]
MCKeyIdOf == [k \in Key |-> k]

(* Safety runs only: workers, and events that are not singled out, are alike. *)
Symmetry == Permutations(Worker) \cup Permutations(EventId \ Unprocessable)
============================================================================
