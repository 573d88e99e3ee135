--------------------------- MODULE MCAuditLogger ---------------------------
(* Requests that log ordinary parameters, or parameters in which one field is *)
(* as long as the consumer takes it, one byte longer, or empty; and texts of  *)
(* the greatest length that strip_pii leaves alone, shortens or lengthens.    *)
EXTENDS AuditLogger, TLC

Ordinary == [length    |-> [f \in ParamField |-> 2],
             stripped  |-> [f \in Stripped |-> 2],
             tombstone |-> FALSE]

(* The limit that some check puts on a parameter. *)
Limit(f) == IF f \in EventField THEN MaxLength(f) ELSE MAX_FIELD_LENGTH

OneField ==
    UNION {{[Ordinary EXCEPT !.length[f] = n] :
               n \in {Limit(f), Limit(f) + 1}} : f \in ParamField \ Stripped}

Empty == {[Ordinary EXCEPT !.length[f] = 0] : f \in {"source_service", "event_type", "origin"}}

(* A text of the greatest length with one "::" in it grows by 11 bytes, with   *)
(* one full IPv6 address it shrinks by 26.                                     *)
OneText ==
    UNION {{[Ordinary EXCEPT !.length[f] = n[1], !.stripped[f] = n[2]] :
               n \in {<<0, 0>>, <<Limit(f) + 1, Limit(f) + 1>>,
                      <<Limit(f), Limit(f)>>, <<Limit(f), Limit(f) + 11>>,
                      <<Limit(f), Limit(f) - 26>>}} : f \in Stripped}

Tombstone == [Ordinary EXCEPT !.length["event_type"] = 20, !.tombstone = TRUE]

MCParams == {Ordinary, Tombstone} \cup OneField \cup OneText \cup Empty

Symmetry == Permutations(Request) \cup Permutations(Uuid)
============================================================================
