--------------------------- MODULE RetentionSweep ---------------------------
(* The paced retention DELETE (retention_delete_sql, rust/src/consumer.rs)     *)
(* beside the consumer's INSERT OR IGNORE: a sweep fixes its cutoff, then runs *)
(* the DELETE again and again until a run removes fewer rows than its cap, or  *)
(* the budget of the invocation is used up, or the invocation dies.  Sweeps    *)
(* may overlap.  The rows are audit_events, with their timestamp_ms.           *)
EXTENDS Naturals, FiniteSets

CONSTANTS
    Event,                \* events, named by their event_id
    Sweep,                \* invocations of the retention job that may overlap
    RETENTION_BATCH_SIZE, \* ?2 of the DELETE: rows a run removes at most
    Budget,               \* runs of the DELETE in one invocation
    RetentionPeriod,      \* age beyond which a row is deleted (90 days)
    QueueLife,            \* how long the queue may deliver a message again
    MaxTime,              \* bound: the clock stops there
    MaxAborts             \* bound: invocations that die

ASSUME SweepAssumption == /\ RETENTION_BATCH_SIZE \in Nat \ {0}
                          /\ Budget \in Nat \ {0}
                          /\ RetentionPeriod \in Nat
                          /\ QueueLife \in 0..RetentionPeriod
                          /\ MaxTime \in Nat
                          /\ MaxAborts \in Nat

VARIABLES
    now,                  \* the clock
    logged,               \* the events producers have logged
    timestamp_ms,         \* per logged event: when that was
    audit_events,         \* table: the events stored
    pc,                   \* per sweep: "idle" or "sweeping"
    cutoff,               \* per sweep: ?1 of its DELETE
    budget,               \* per sweep: runs it has left
    aborts,               \* invocations that died so far
    swept,                \* history: the newest cutoff of a completed sweep
    purged                \* history: the events that retention deleted

vars == <<now, logged, timestamp_ms, audit_events, pc, cutoff, budget, aborts,
          swept, purged>>

sweepVars == <<pc, cutoff, budget>>

Init ==
    /\ now = 0
    /\ logged = {}
    /\ timestamp_ms = [e \in Event |-> 0]
    /\ audit_events = {}
    /\ pc = [s \in Sweep |-> "idle"]
    /\ cutoff = [s \in Sweep |-> 0]
    /\ budget = [s \in Sweep |-> 0]
    /\ aborts = 0
    /\ swept = 0
    /\ purged = {}
----------------------------------------------------------------------------

Tick ==
    /\ now < MaxTime
    /\ now' = now + 1
    /\ UNCHANGED <<logged, timestamp_ms, audit_events, sweepVars, aborts, swept, purged>>

(* A producer logs an event and stamps it. *)
Log(e) ==
    /\ e \notin logged
    /\ logged' = logged \cup {e}
    /\ timestamp_ms' = [timestamp_ms EXCEPT ![e] = now]
    /\ UNCHANGED <<now, audit_events, sweepVars, aborts, swept, purged>>

(* The queue delivers it, for the first time or again, and the consumer runs   *)
(* INSERT OR IGNORE.                                                           *)
InsertEvent(e) ==
    /\ e \in logged
    /\ now - timestamp_ms[e] <= QueueLife
    /\ audit_events' = audit_events \cup {e}
    /\ UNCHANGED <<now, logged, timestamp_ms, sweepVars, aborts, swept, purged>>

(* The job is invoked and computes its cutoff. *)
StartSweep(s) ==
    /\ pc[s] = "idle"
    /\ now >= RetentionPeriod
    /\ pc' = [pc EXCEPT ![s] = "sweeping"]
    /\ cutoff' = [cutoff EXCEPT ![s] = now - RetentionPeriod]
    /\ budget' = [budget EXCEPT ![s] = Budget]
    /\ UNCHANGED <<now, logged, timestamp_ms, audit_events, aborts, swept, purged>>

(* Faulty variant: the cutoff itself is deleted too. *)
ExpiredInclusive(s) == {e \in audit_events : timestamp_ms[e] <= cutoff[s]}

(* WHERE timestamp_ms < ?1 *)
Expired(s) == {e \in audit_events : timestamp_ms[e] < cutoff[s]}

(* Faulty variant: a run may take fewer rows than its limit, which the loop     *)
(* takes for the end.                                                          *)
LimitedLoose(rows) ==
    {D \in SUBSET rows : Cardinality(D) <= RETENTION_BATCH_SIZE}

(* LIMIT ?2: the rows a run may take. *)
Limited(rows) ==
    {D \in SUBSET rows : \/ Cardinality(D) = RETENTION_BATCH_SIZE
                         \/ D = rows /\ Cardinality(D) < RETENTION_BATCH_SIZE}

(* The invocation is over. *)
Stop(s) ==
    /\ pc' = [pc EXCEPT ![s] = "idle"]
    /\ cutoff' = [cutoff EXCEPT ![s] = 0]
    /\ budget' = [budget EXCEPT ![s] = 0]

Continue(s) ==
    /\ budget' = [budget EXCEPT ![s] = @ - 1]
    /\ UNCHANGED <<pc, cutoff>>

Remove(D) == audit_events' = audit_events \ D /\ purged' = purged \cup D

(* Faulty variant: the budget does not end the sweep. *)
FullRunForever(s) ==
    /\ pc[s] = "sweeping"
    /\ \E D \in Limited(Expired(s)) : Cardinality(D) = RETENTION_BATCH_SIZE /\ Remove(D)
    /\ Continue(s)
    /\ UNCHANGED <<now, logged, timestamp_ms, aborts, swept>>

(* A run of the DELETE that removes as many rows as it may is followed by      *)
(* another while the budget lasts.                                             *)
FullRun(s) ==
    /\ pc[s] = "sweeping"
    /\ \E D \in Limited(Expired(s)) : Cardinality(D) = RETENTION_BATCH_SIZE /\ Remove(D)
    /\ IF budget[s] > 1 THEN Continue(s) ELSE Stop(s)
    /\ UNCHANGED <<now, logged, timestamp_ms, aborts, swept>>

(* One that removes fewer ends the sweep. *)
ShortRun(s) ==
    /\ pc[s] = "sweeping"
    /\ \E D \in Limited(Expired(s)) : Cardinality(D) < RETENTION_BATCH_SIZE /\ Remove(D)
    /\ swept' = IF cutoff[s] > swept THEN cutoff[s] ELSE swept
    /\ Stop(s)
    /\ UNCHANGED <<now, logged, timestamp_ms, aborts>>

(* The invocation dies between two runs. *)
Abort(s) ==
    /\ pc[s] = "sweeping"
    /\ aborts < MaxAborts
    /\ aborts' = aborts + 1
    /\ Stop(s)
    /\ UNCHANGED <<now, logged, timestamp_ms, audit_events, swept, purged>>

DeleteRun(s) == FullRun(s) \/ ShortRun(s)

Next ==
    \/ Tick
    \/ \E e \in Event : Log(e) \/ InsertEvent(e)
    \/ \E s \in Sweep : StartSweep(s) \/ DeleteRun(s) \/ Abort(s)

Spec == Init /\ [][Next]_vars

(* The job is scheduled again and again and, if it does not die, goes on; time *)
(* passes.  Nothing makes a producer log or the queue deliver.                 *)
FairSpec == /\ Spec
            /\ WF_vars(Tick)
            /\ \A s \in Sweep : WF_vars(StartSweep(s)) /\ WF_vars(DeleteRun(s))
----------------------------------------------------------------------------

TypeOK ==
    /\ now \in 0..MaxTime
    /\ logged \subseteq Event
    /\ timestamp_ms \in [Event -> 0..MaxTime]
    /\ audit_events \subseteq logged
    /\ pc \in [Sweep -> {"idle", "sweeping"}]
    /\ cutoff \in [Sweep -> 0..MaxTime]
    /\ budget \in [Sweep -> 0..Budget]
    /\ aborts \in 0..MaxAborts
    /\ swept \in 0..MaxTime
    /\ purged \subseteq logged

(* An event that retention deleted never comes back, however often the queue   *)
(* delivers it: INSERT OR IGNORE forgets an event_id with its row, so this     *)
(* rests on the row outliving the message.                                     *)
PurgedStaysAway == audit_events \cap purged = {}

(* A sweep that ended with a short run removed every expired row, and none     *)
(* appears behind it: not one a slower sweep with an older cutoff left, nor    *)
(* one that a late delivery inserted after the last run (consumer.rs:131, "a   *)
(* full sweep removes the same rows").                                         *)
NothingBehindSweep == \A e \in audit_events : timestamp_ms[e] >= swept

(* Retention never deletes a row before its time, with a cutoff that may be    *)
(* older than the clock and with sweeps that overlap ("those strictly older    *)
(* than the cutoff, never more").                                              *)
NoEarlyDelete ==
    [][\A e \in audit_events \ audit_events' : now - timestamp_ms[e] > RetentionPeriod]_vars

(* Every row that is old enough is at last deleted, although a run takes only  *)
(* RETENTION_BATCH_SIZE rows and an invocation only Budget runs.               *)
ExpiredIsDeleted ==
    \A e \in Event :
        e \in audit_events /\ timestamp_ms[e] + RetentionPeriod < now
            ~> e \notin audit_events
============================================================================
