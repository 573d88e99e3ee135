------------------------ MODULE RetentionSweepProofs ------------------------
(* The retention sweep is safe for every number of sweeps and events, every    *)
(* cap and every budget: no row goes early, none comes back, and none is       *)
(* behind a completed sweep.  All of it rests on QueueLife <= RetentionPeriod. *)
EXTENDS RetentionSweep, TLAPS

(* Cutoffs are a retention period old, and so are deleted rows; a row that     *)
(* the queue still may deliver is younger than any of them.                    *)
AgeInv ==
    /\ \A s \in Sweep : pc[s] = "sweeping" => cutoff[s] + RetentionPeriod <= now
    /\ swept > 0 => swept + RetentionPeriod <= now
    /\ \A e \in logged : timestamp_ms[e] <= now
    /\ \A e \in purged : timestamp_ms[e] + RetentionPeriod < now

SweepInv == TypeOK /\ AgeInv /\ PurgedStaysAway /\ NothingBehindSweep

(* Where the deleted rows come from: a run of the DELETE, whose cutoff they    *)
(* are older than.                                                             *)
LEMMA RunDeletesOld ==
    ASSUME SweepInv, NEW s \in Sweep, pc[s] = "sweeping",
           NEW D \in Limited(Expired(s))
    PROVE  /\ D \subseteq audit_events
           /\ \A e \in D : timestamp_ms[e] + RetentionPeriod < now
<1>1. D \subseteq Expired(s)
  BY DEF Limited
<1>2. cutoff[s] \in Nat /\ now \in Nat /\ cutoff[s] + RetentionPeriod <= now
  BY DEF SweepInv, TypeOK, AgeInv
<1>3. \A e \in audit_events : timestamp_ms[e] \in Nat
  BY DEF SweepInv, TypeOK
<1> QED
  BY <1>1, <1>2, <1>3, SweepAssumption DEF Expired

(* A run of the DELETE keeps the invariant, whether it is full or short.       *)
LEMMA DeleteKeepsAge ==
    ASSUME SweepInv, NEW s \in Sweep, pc[s] = "sweeping",
           NEW D \in Limited(Expired(s)), Remove(D),
           UNCHANGED <<now, logged, timestamp_ms>>
    PROVE  /\ audit_events' \subseteq logged' /\ purged' \subseteq logged'
           /\ PurgedStaysAway'
           /\ \A e \in purged' : timestamp_ms'[e] + RetentionPeriod < now'
<1>1. D \subseteq audit_events /\ \A e \in D : timestamp_ms[e] + RetentionPeriod < now
  BY RunDeletesOld
<1> QED
  BY <1>1 DEF SweepInv, TypeOK, AgeInv, PurgedStaysAway, Remove

LEMMA SweepStep == SweepInv /\ [Next]_vars => SweepInv'
<1> SUFFICES ASSUME SweepInv, [Next]_vars
             PROVE  SweepInv'
  OBVIOUS
<1> USE DEF sweepVars
<1>1. CASE Tick
  <2>1. now' = now + 1 /\ now \in Nat /\ now' \in 0..MaxTime
    BY <1>1, SweepAssumption DEF Tick, SweepInv, TypeOK
  <2>2. UNCHANGED <<logged, timestamp_ms, audit_events, pc, cutoff, budget, aborts,
                    swept, purged>>
    BY <1>1 DEF Tick
  <2>3. AgeInv'
    BY <2>1, <2>2, SweepAssumption DEF SweepInv, TypeOK, AgeInv
  <2> QED
    BY <2>1, <2>2, <2>3 DEF SweepInv, TypeOK, PurgedStaysAway, NothingBehindSweep
<1>2. ASSUME NEW e \in Event, Log(e)
      PROVE  SweepInv'
  <2>1. /\ e \notin logged
        /\ logged' = logged \cup {e}
        /\ timestamp_ms' = [timestamp_ms EXCEPT ![e] = now]
        /\ UNCHANGED <<now, audit_events, pc, cutoff, budget, aborts, swept, purged>>
    BY <1>2 DEF Log
  <2>2. TypeOK'
    BY <2>1 DEF SweepInv, TypeOK
  <2>3. \A d \in logged : timestamp_ms'[d] = timestamp_ms[d]
    BY <2>1 DEF SweepInv, TypeOK
  <2>4. timestamp_ms'[e] = now /\ now \in Nat
    BY <2>1 DEF SweepInv, TypeOK
  <2>5. AgeInv'
    BY <2>1, <2>3, <2>4 DEF SweepInv, TypeOK, AgeInv
  <2>6. PurgedStaysAway' /\ NothingBehindSweep'
    BY <2>1, <2>3 DEF SweepInv, TypeOK, PurgedStaysAway, NothingBehindSweep
  <2> QED
    BY <2>2, <2>5, <2>6 DEF SweepInv
<1>3. ASSUME NEW e \in Event, InsertEvent(e)
      PROVE  SweepInv'
  <2>1. /\ e \in logged
        /\ now - timestamp_ms[e] <= QueueLife
        /\ audit_events' = audit_events \cup {e}
        /\ UNCHANGED <<now, logged, timestamp_ms, pc, cutoff, budget, aborts, swept,
                       purged>>
    BY <1>3 DEF InsertEvent
  <2>2. timestamp_ms[e] \in Nat /\ now \in Nat /\ swept \in Nat
    BY DEF SweepInv, TypeOK
  <2>3. TypeOK' /\ AgeInv'
    BY <2>1 DEF SweepInv, TypeOK, AgeInv
  <2>4. e \notin purged
    BY <2>1, <2>2, SweepAssumption DEF SweepInv, AgeInv
  <2>5. timestamp_ms[e] >= swept
    BY <2>1, <2>2, SweepAssumption DEF SweepInv, AgeInv
  <2> QED
    BY <2>1, <2>3, <2>4, <2>5 DEF SweepInv, PurgedStaysAway, NothingBehindSweep
<1>4. ASSUME NEW s \in Sweep, StartSweep(s)
      PROVE  SweepInv'
  <2>1. now \in 0..MaxTime /\ now >= RetentionPeriod
        /\ now - RetentionPeriod \in 0..MaxTime
        /\ now - RetentionPeriod + RetentionPeriod = now
    BY <1>4, SweepAssumption DEF StartSweep, SweepInv, TypeOK
  <2>2. TypeOK'
    BY <1>4, <2>1, SweepAssumption DEF StartSweep, SweepInv, TypeOK
  <2>3. AgeInv'
    BY <1>4, <2>1 DEF StartSweep, SweepInv, TypeOK, AgeInv
  <2> QED
    BY <1>4, <2>2, <2>3 DEF StartSweep, SweepInv, PurgedStaysAway, NothingBehindSweep
<1>5. ASSUME NEW s \in Sweep, Stop(s)
      PROVE  /\ pc' \in [Sweep -> {"idle", "sweeping"}]
             /\ cutoff' \in [Sweep -> 0..MaxTime]
             /\ budget' \in [Sweep -> 0..Budget]
             /\ \A t \in Sweep : pc'[t] = "sweeping" =>
                    pc[t] = "sweeping" /\ cutoff'[t] = cutoff[t]
  BY <1>5, SweepAssumption DEF Stop, SweepInv, TypeOK
<1>6. ASSUME NEW s \in Sweep, FullRun(s)
      PROVE  SweepInv'
  <2>1. PICK D \in Limited(Expired(s)) : Remove(D)
    BY <1>6 DEF FullRun
  <2>2. pc[s] = "sweeping" /\ UNCHANGED <<now, logged, timestamp_ms, aborts, swept>>
    BY <1>6 DEF FullRun
  <2>3. /\ audit_events' \subseteq logged' /\ purged' \subseteq logged'
        /\ PurgedStaysAway'
        /\ \A e \in purged' : timestamp_ms'[e] + RetentionPeriod < now'
    BY <2>1, <2>2, DeleteKeepsAge
  <2>4. NothingBehindSweep'
    BY <2>1, <2>2 DEF Remove, SweepInv, NothingBehindSweep
  <2>5. /\ pc' \in [Sweep -> {"idle", "sweeping"}]
        /\ cutoff' \in [Sweep -> 0..MaxTime]
        /\ budget' \in [Sweep -> 0..Budget]
        /\ \A t \in Sweep : pc'[t] = "sweeping" =>
               pc[t] = "sweeping" /\ cutoff'[t] = cutoff[t]
    <3>1. CASE budget[s] > 1
      <4>1. budget[s] \in 0..Budget /\ budget[s] - 1 \in 0..Budget
        BY <3>1, SweepAssumption DEF SweepInv, TypeOK
      <4> QED
        BY <1>6, <3>1, <4>1 DEF FullRun, Continue, SweepInv, TypeOK
    <3>2. CASE ~(budget[s] > 1)
      BY <1>5, <1>6, <3>2 DEF FullRun
    <3> QED
      BY <3>1, <3>2
  <2> QED
    BY <2>2, <2>3, <2>4, <2>5 DEF SweepInv, TypeOK, AgeInv
<1>7. ASSUME NEW s \in Sweep, ShortRun(s)
      PROVE  SweepInv'
  <2>1. PICK D \in Limited(Expired(s)) :
            Cardinality(D) < RETENTION_BATCH_SIZE /\ Remove(D)
    BY <1>7 DEF ShortRun
  <2>2. /\ pc[s] = "sweeping"
        /\ swept' = IF cutoff[s] > swept THEN cutoff[s] ELSE swept
        /\ Stop(s)
        /\ UNCHANGED <<now, logged, timestamp_ms, aborts>>
    BY <1>7 DEF ShortRun
  <2>3. /\ audit_events' \subseteq logged' /\ purged' \subseteq logged'
        /\ PurgedStaysAway'
        /\ \A e \in purged' : timestamp_ms'[e] + RetentionPeriod < now'
    BY <2>1, <2>2, DeleteKeepsAge
  <2>4. D = Expired(s)
    <3>1. Cardinality(D) # RETENTION_BATCH_SIZE
      BY <2>1, SweepAssumption
    <3> QED
      BY <2>1, <3>1 DEF Limited
  <2>5. \A e \in audit_events' : e \in audit_events /\ timestamp_ms[e] >= cutoff[s]
    <3>1. \A e \in audit_events : timestamp_ms[e] \in Nat
      BY DEF SweepInv, TypeOK
    <3>2. cutoff[s] \in Nat
      BY DEF SweepInv, TypeOK
    <3> QED
      BY <2>1, <2>4, <3>1, <3>2 DEF Remove, Expired
  <2>6. NothingBehindSweep'
    BY <2>2, <2>5 DEF SweepInv, NothingBehindSweep
  <2>7. swept' \in 0..MaxTime /\ (swept' > 0 => swept' + RetentionPeriod <= now')
    BY <2>2 DEF SweepInv, TypeOK, AgeInv
  <2> QED
    BY <1>5, <2>2, <2>3, <2>6, <2>7 DEF SweepInv, TypeOK, AgeInv
<1>8. ASSUME NEW s \in Sweep, Abort(s)
      PROVE  SweepInv'
  <2>1. /\ Stop(s) /\ aborts < MaxAborts /\ aborts' = aborts + 1
        /\ UNCHANGED <<now, logged, timestamp_ms, audit_events, swept, purged>>
    BY <1>8 DEF Abort
  <2>2. aborts' \in 0..MaxAborts
    BY <2>1, SweepAssumption DEF SweepInv, TypeOK
  <2> QED
    BY <1>5, <2>1, <2>2 DEF SweepInv, TypeOK, AgeInv, PurgedStaysAway,
                            NothingBehindSweep
<1>9. CASE UNCHANGED vars
  BY <1>9 DEF vars, SweepInv, TypeOK, AgeInv, PurgedStaysAway, NothingBehindSweep
<1> QED
  BY <1>1, <1>2, <1>3, <1>4, <1>6, <1>7, <1>8, <1>9 DEF Next, DeleteRun

(* The inductive invariant holds in every reachable state. *)
LEMMA SweepInvariant == Spec => []SweepInv
<1>1. Init => SweepInv
  BY SweepAssumption DEF Init, SweepInv, TypeOK, AgeInv, PurgedStaysAway,
                         NothingBehindSweep
<1> QED
  BY <1>1, SweepStep, PTL DEF Spec

(* The variables of the retention job keep their types. *)
THEOREM TypeCorrect == Spec => []TypeOK
  BY SweepInvariant, PTL DEF SweepInv

(* An event that retention deleted never comes back, as long as the queue      *)
(* forgets a message before retention deletes its row.                         *)
THEOREM DeletedStaysDeleted == Spec => []PurgedStaysAway
  BY SweepInvariant, PTL DEF SweepInv

(* Behind a sweep that ended with a short run there is no older row, ever.     *)
THEOREM SweepIsComplete == Spec => []NothingBehindSweep
  BY SweepInvariant, PTL DEF SweepInv

(* No row is deleted before it is RetentionPeriod old. *)
THEOREM NothingDeletedEarly == Spec => NoEarlyDelete
<1> DEFINE Early == \A e \in audit_events \ audit_events' :
                        now - timestamp_ms[e] > RetentionPeriod
<1>1. SweepInv /\ [Next]_vars => [Early]_vars
  <2> SUFFICES ASSUME SweepInv, Next
               PROVE  Early
    OBVIOUS
  <2>1. ASSUME audit_events \subseteq audit_events'
        PROVE  Early
    BY <2>1
  <2>2. ASSUME NEW s \in Sweep, DeleteRun(s)
        PROVE  Early
    <3>1. PICK D \in Limited(Expired(s)) : Remove(D)
      BY <2>2 DEF DeleteRun, FullRun, ShortRun
    <3>2. \A e \in D : timestamp_ms[e] + RetentionPeriod < now
      BY <2>2, RunDeletesOld DEF DeleteRun, FullRun, ShortRun
    <3>3. \A e \in audit_events : timestamp_ms[e] \in Nat /\ now \in Nat
      BY DEF SweepInv, TypeOK
    <3> QED
      BY <3>1, <3>2, <3>3, SweepAssumption DEF Remove
  <2> QED
    BY <2>1, <2>2 DEF Next, Tick, Log, InsertEvent, StartSweep, Abort
<1> QED
  BY <1>1, SweepInvariant, PTL DEF Spec, NoEarlyDelete
============================================================================
