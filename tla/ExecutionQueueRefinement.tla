---------------------- MODULE ExecutionQueueRefinement ----------------------
(***************************************************************************)
(* ExecutionQueue implements ExecutionLifecycle: the rows of a migrated    *)
(* database are an initial state of the abstract lifecycle, and every      *)
(* transaction, and every tick of the database clock, is one of its steps  *)
(* or leaves it unchanged.  The mapping reads each row as Get reports it.  *)
(***************************************************************************)
EXTENDS ExecutionQueueProofs

(* The abstract view of one row at time t.                                 *)
Reserves(r) == r.worker_id # NoWorker /\ ~r.capacity_released

(* Two rows that look alike from above.                                    *)
LooksAlike(r, t, s, u) ==
    /\ PhaseOf(s, u) = PhaseOf(r, t)
    /\ s.worker_id = r.worker_id
    /\ s.result = r.result
    /\ Reserves(s) <=> Reserves(r)

(* What PhaseOf says, in terms of the columns.                             *)
LEMMA PhaseFacts ==
    ASSUME NEW r, RowOK(r), NEW t \in Nat
    PROVE  /\ PhaseOf(r, t) \in Lifecycle!Phases
           /\ PhaseOf(r, t) = "absent" <=> r.state = "absent"
           /\ PhaseOf(r, t) = "queued" <=> r.state = "queued"
           /\ PhaseOf(r, t) = "active" <=> r.state \in Active /\ r.recovery_until > t
           /\ PhaseOf(r, t) = "completed" <=> r.state = "completed"
           /\ PhaseOf(r, t) = "lost" <=>
                \/ r.state = "worker_lost"
                \/ r.state \in Active /\ r.recovery_until <= t
<1>1. r.state \in States /\ r.recovery_until \in Nat /\ r.lease_expires_at \in Nat
  BY DEF RowOK, ExecutionRow
<1> QED
  BY <1>1 DEF PhaseOf, ObservedState, Lifecycle!Phases, States, Active, Terminal

(* The abstract lifecycle's consistency of one Execution, from its row.    *)
LEMMA RowConsistent ==
    ASSUME NEW r, RowOK(r), NEW t \in Nat
    PROVE  /\ PhaseOf(r, t) \in {"absent", "queued"} =>
                r.worker_id = NoWorker /\ r.result = NoResult /\ ~Reserves(r)
           /\ PhaseOf(r, t) = "active" =>
                r.worker_id \in Workers /\ r.result = NoResult /\ Reserves(r)
           /\ PhaseOf(r, t) = "lost" => r.worker_id \in Workers /\ r.result = NoResult
           /\ PhaseOf(r, t) = "completed" => r.worker_id \in Workers /\ r.result \in Results
<1>1. /\ r.worker_id \in Workers \union {NoWorker} /\ r.result \in Results \union {NoResult}
      /\ OwnedState(r) /\ (r.capacity_released => r.state \in Terminal)
  BY DEF RowOK, ExecutionRow, RowChecks
<1>2. r.state \in {"absent", "queued"} => r.worker_id = NoWorker /\ r.result = NoResult
  BY <1>1 DEF OwnedState, Active
<1>3. r.state \in Active \union {"worker_lost"} => r.worker_id \in Workers /\ r.result = NoResult
  BY <1>1 DEF OwnedState, Active
<1>4. r.state = "completed" => r.worker_id \in Workers /\ r.result \in Results
  BY <1>1 DEF OwnedState, Active
<1>5. r.state \in Active => Reserves(r)
  BY <1>1, <1>3, NullAssumption DEF Reserves, Active, Terminal
<1> QED
  BY <1>2, <1>3, <1>4, <1>5, PhaseFacts DEF Reserves

(* Values of the abstract variables, row by row.                           *)
LEMMA MapFacts ==
    ASSUME TableInv
    PROVE  \A e \in Executions :
             /\ phaseMap[e] = PhaseOf(executions[e], now)
             /\ holderMap[e] = executions[e].worker_id
             /\ outcomeMap[e] = executions[e].result
             /\ reservedMap[e] = Reserves(executions[e])
  BY DEF phaseMap, holderMap, outcomeMap, reservedMap, Reserves

(* A migrated database is an initial state of the lifecycle.               *)
LEMMA LifecycleInit == Init => Lifecycle!Init
<1> SUFFICES ASSUME Init PROVE Lifecycle!Init
  OBVIOUS
<1>1. TableInv
  BY InitTable
<1>2. now \in Nat
  BY <1>1 DEF TableInv, TypeOK
<1>3. \A e \in Executions : RowOK(executions[e])
  BY <1>1 DEF TableInv
<1>4. phaseMap \in [Executions -> Lifecycle!Phases]
  BY <1>2, <1>3, PhaseFacts DEF phaseMap
<1>5. /\ holderMap \in [Executions -> Workers \union {NoWorker}]
      /\ outcomeMap \in [Executions -> Results \union {NoResult}]
  BY <1>3 DEF holderMap, outcomeMap, RowOK, ExecutionRow
<1>6. reservedMap \in [Executions -> BOOLEAN]
  BY DEF reservedMap
<1>7. limitMap \in [Workers -> Nat]
  BY <1>1, LimitAssumption DEF limitMap, TableInv, TypeOK, WorkerRow
<1>8. ASSUME NEW e \in Executions
      PROVE  Lifecycle!Consistent(e)
  <2>1. PhaseOf(executions[e], now) \in Lifecycle!Phases
    BY <1>2, <1>3, PhaseFacts
  <2> QED
    BY <1>1, <1>2, <1>3, <2>1, MapFacts, RowConsistent
    DEF Lifecycle!Consistent, Lifecycle!Phases
<1> QED
  BY <1>4, <1>5, <1>6, <1>7, <1>8 DEF Lifecycle!Init

(* A step in which every row looks alike before and after, and no capacity *)
(* changes, is a stutter of the lifecycle.                                 *)
LEMMA LifecycleStutter ==
    ASSUME \A e \in Executions : LooksAlike(executions[e], now, executions'[e], now'),
           UNCHANGED limitMap
    PROVE  UNCHANGED Lifecycle!lifecycleVars
  BY DEF LooksAlike, Reserves, phaseMap, holderMap, outcomeMap, reservedMap,
         Lifecycle!lifecycleVars

(* The steps of a Worker that the lifecycle does not see: binding,         *)
(* renewing, sweeping.                                                     *)
LEMMA QuietRows ==
    ASSUME NEW r, NEW s, RowOK(r), now \in Nat \ {0},
           \/ s = r
           \/ \E x \in Sandboxes : s = [r EXCEPT !.sandbox_id = x]
           \/ (\E b \in BOOLEAN : Renewable(r, b)) /\ s = RenewedRow(r)
           \/ Due(r) /\ s = SweptRow(r)
    PROVE  LooksAlike(r, now, s, now)
<1>0. r \in ExecutionRow
  BY DEF RowOK
<1>1. CASE s = r
  BY <1>1 DEF LooksAlike
<1>2. CASE \E x \in Sandboxes : s = [r EXCEPT !.sandbox_id = x]
  BY <1>0, <1>2 DEF LooksAlike, PhaseOf, ObservedState, Reserves, ExecutionRow
<1>3. CASE (\E b \in BOOLEAN : Renewable(r, b)) /\ s = RenewedRow(r)
  <2>1. PICK b \in BOOLEAN : Renewable(r, b)
    BY <1>3
  <2>2. r.state \in Active /\ r.recovery_until > now
    <3>1. r.state \in Active => r.recovery_until > r.lease_expires_at
      BY DEF RowOK, RowChecks, OwnedState, RecoveryDeadline, Active
    <3> QED
      BY <1>0, <2>1, <3>1 DEF Renewable, Active, ExecutionRow
  <2>3. PhaseOf(r, now) = "active"
    BY <2>2, PhaseFacts
  <2>4. RowOK(s)
    BY <1>3, <2>1, RenewedRowOK
  <2>5. /\ s.state = "leased" /\ s.recovery_until = now + LeaseDuration + RecoveryWindow
        /\ s.worker_id = r.worker_id /\ s.result = r.result
        /\ s.capacity_released = r.capacity_released
    BY <1>0, <1>3 DEF RenewedRow, ExecutionRow
  <2>6. s.recovery_until > now
    BY <2>5, DurationAssumption
  <2>7. PhaseOf(s, now) = "active"
    BY <2>4, <2>5, <2>6, PhaseFacts DEF Active
  <2> QED
    BY <2>3, <2>5, <2>7 DEF LooksAlike, Reserves
<1>4. CASE Due(r) /\ s = SweptRow(r)
  <2>1. /\ s.worker_id = r.worker_id /\ s.result = r.result
        /\ s.capacity_released = r.capacity_released /\ s.recovery_until = r.recovery_until
        /\ s.state = IF r.recovery_until <= now THEN "worker_lost" ELSE "recovering"
    BY <1>0, <1>4 DEF SweptRow, ExecutionRow
  <2>2. RowOK(s)
    BY <1>4, SweptRowOK
  <2>3. r.state \in Active
    BY <1>4 DEF Due, Active
  <2>4. PhaseOf(s, now) = PhaseOf(r, now)
    <3>1. CASE r.recovery_until <= now
      BY <2>1, <2>2, <2>3, <3>1, PhaseFacts
    <3>2. CASE r.recovery_until > now
      BY <1>0, <2>1, <2>2, <2>3, <3>2, PhaseFacts DEF Active, ExecutionRow
    <3> QED
      BY <1>0, <3>1, <3>2 DEF ExecutionRow
  <2> QED
    BY <2>1, <2>4 DEF LooksAlike, Reserves
<1> QED
  BY <1>1, <1>2, <1>3, <1>4

-----------------------------------------------------------------------------
(* The abstract variables after a step that replaces one row.              *)
LEMMA OneRowView ==
    ASSUME TableInv, NEW e \in Executions, NEW row, Update(e, row),
           UNCHANGED <<worker_nodes, now>>
    PROVE  /\ phaseMap' = [phaseMap EXCEPT ![e] = PhaseOf(row, now)]
           /\ holderMap' = [holderMap EXCEPT ![e] = row.worker_id]
           /\ outcomeMap' = [outcomeMap EXCEPT ![e] = row.result]
           /\ reservedMap' = [reservedMap EXCEPT ![e] = Reserves(row)]
           /\ limitMap' = limitMap
<1>1. \A x \in Executions : executions'[x] = IF x = e THEN row ELSE executions[x]
  BY DEF Update, TableInv, TypeOK
<1>2. phaseMap' = [x \in Executions |-> PhaseOf(executions'[x], now)]
  BY DEF phaseMap
<1>3. holderMap' = [x \in Executions |-> executions'[x].worker_id]
  BY DEF holderMap
<1>4. outcomeMap' = [x \in Executions |-> executions'[x].result]
  BY DEF outcomeMap
<1>5. reservedMap' = [x \in Executions |-> Reserves(executions'[x])]
  BY DEF reservedMap, Reserves
<1>6. reservedMap = [x \in Executions |-> Reserves(executions[x])]
  BY DEF reservedMap, Reserves
<1>7. phaseMap' = [phaseMap EXCEPT ![e] = PhaseOf(row, now)]
  BY <1>1, <1>2 DEF phaseMap
<1>8. /\ holderMap' = [holderMap EXCEPT ![e] = row.worker_id]
      /\ outcomeMap' = [outcomeMap EXCEPT ![e] = row.result]
  BY <1>1, <1>3, <1>4 DEF holderMap, outcomeMap
<1>9. reservedMap' = [reservedMap EXCEPT ![e] = Reserves(row)]
  BY <1>1, <1>5, <1>6
<1> QED
  BY <1>7, <1>8, <1>9 DEF limitMap

(* Replacing a column by the value it has changes nothing.                 *)
LEMMA SameColumns ==
    ASSUME TableInv, NEW e \in Executions
    PROVE  /\ phaseMap = [phaseMap EXCEPT ![e] = PhaseOf(executions[e], now)]
           /\ holderMap = [holderMap EXCEPT ![e] = executions[e].worker_id]
           /\ outcomeMap = [outcomeMap EXCEPT ![e] = executions[e].result]
           /\ reservedMap = [reservedMap EXCEPT ![e] = Reserves(executions[e])]
  BY DEF phaseMap, holderMap, outcomeMap, reservedMap, Reserves

(* Admission is Submit.                                                    *)
LEMMA EnqueueRefines ==
    ASSUME TableInv, NEW e \in Executions, Enqueue(e)
    PROVE  Lifecycle!Submit(e)
<1> DEFINE r == executions[e]
           q == [r EXCEPT !.state = "queued", !.queued_order = Cardinality(Rows) + 1]
<1>1. RowOK(r) /\ r \in ExecutionRow /\ now \in Nat
  BY RowFacts
<1>2. r.state = "absent" /\ Update(e, q) /\ UNCHANGED <<worker_nodes, now>>
  BY DEF Enqueue
<1>3. /\ q.state = "queued" /\ q.worker_id = r.worker_id /\ q.result = r.result
      /\ q.capacity_released = r.capacity_released
  BY <1>1 DEF ExecutionRow
<1>4. PhaseOf(q, now) = "queued" /\ Reserves(q) = Reserves(r)
  BY <1>3 DEF PhaseOf, ObservedState, Reserves, Active
<1>5. phaseMap[e] = "absent"
  BY <1>1, <1>2, PhaseFacts, MapFacts
<1> HIDE DEF q
<1>6. /\ phaseMap' = [phaseMap EXCEPT ![e] = "queued"]
      /\ holderMap' = [holderMap EXCEPT ![e] = r.worker_id]
      /\ outcomeMap' = [outcomeMap EXCEPT ![e] = r.result]
      /\ reservedMap' = [reservedMap EXCEPT ![e] = Reserves(r)]
      /\ limitMap' = limitMap
  BY <1>2, <1>3, <1>4, OneRowView
<1> QED
  BY <1>5, <1>6, SameColumns DEF Lifecycle!Submit

(* A claim is Grant: the capacity check of the store is the abstract one.  *)
LEMMA ClaimRefines ==
    ASSUME TableInv, NEW token \in Tokens, NEW e \in Executions, Claim(token, e)
    PROVE  Lifecycle!Grant(token.worker, e)
<1> DEFINE r == executions[e]
           w == token.worker
           q == ClaimedRow(r, w)
<1>1. RowOK(r) /\ r \in ExecutionRow /\ now \in Nat \ {0} /\ w \in Workers /\ w # NoWorker
  BY RowFacts, NullAssumption DEF Tokens
<1>2. r.state = "queued" /\ Update(e, q) /\ UNCHANGED <<worker_nodes, now>>
  BY DEF Claim, NextInQueue
<1>3. RowOK(q)
  BY <1>1, <1>2, ClaimedRowOK
<1>4. /\ q.state = "leased" /\ q.worker_id = w /\ q.result = r.result
      /\ q.capacity_released = r.capacity_released
      /\ q.recovery_until = now + LeaseDuration + RecoveryWindow
  BY <1>1 DEF ClaimedRow, ExecutionRow
<1>5. q.recovery_until > now /\ q.state \in Active
  BY <1>1, <1>4, DurationAssumption DEF Active
<1>6. PhaseOf(q, now) = "active" /\ Reserves(q) = TRUE
  BY <1>1, <1>3, <1>5, PhaseFacts, RowConsistent
<1>7. phaseMap[e] = "queued"
  BY <1>1, <1>2, PhaseFacts, MapFacts
<1>8. Lifecycle!Reservations(w) = Occupied(w) /\ limitMap[w] = worker_nodes[w].sandbox_capacity
  BY <1>1, MapFacts DEF Lifecycle!Reservations, Occupied, Reserves, limitMap
<1>9. Lifecycle!Cardinality(Occupied(w)) < worker_nodes[w].sandbox_capacity
  <2>1. Lifecycle!Cardinality(Occupied(w)) = Cardinality(Occupied(w))
    BY DEF Lifecycle!Cardinality, Cardinality
  <2> QED
    BY <2>1 DEF Claim, HasCapacity
<1> HIDE DEF q
<1>10. /\ phaseMap' = [phaseMap EXCEPT ![e] = "active"]
       /\ holderMap' = [holderMap EXCEPT ![e] = w]
       /\ outcomeMap' = [outcomeMap EXCEPT ![e] = r.result]
       /\ reservedMap' = [reservedMap EXCEPT ![e] = TRUE]
       /\ limitMap' = limitMap
  BY <1>2, <1>4, <1>6, OneRowView
<1> QED
  BY <1>7, <1>8, <1>9, <1>10, SameColumns DEF Lifecycle!Grant

(* A first completion is Finish; a confirmed one changes nothing.          *)
LEMMA CompleteRefines ==
    ASSUME TableInv, NEW token \in Tokens, NEW e \in Executions,
           NEW g, NEW result \in Results, Complete(token, e, g, result)
    PROVE  Lifecycle!Finish(e, result) \/ UNCHANGED <<executions, worker_nodes, now>>
<1> DEFINE r == executions[e]
           q == [r EXCEPT !.state = "completed", !.result = result]
<1>1. RowOK(r) /\ r \in ExecutionRow /\ now \in Nat
  BY RowFacts
<1>2. CASE CurrentLease(r) /\ Update(e, q)
  <2>1. r.state \in Active /\ r.recovery_until > now
    BY <1>1, <1>2
    DEF CurrentLease, RowOK, RowChecks, OwnedState, RecoveryDeadline, Active, ExecutionRow, Null
  <2>2. phaseMap[e] = "active"
    BY <1>1, <2>1, PhaseFacts, MapFacts
  <2>3. /\ q.state = "completed" /\ q.worker_id = r.worker_id /\ q.result = result
        /\ q.capacity_released = r.capacity_released
    BY <1>1 DEF ExecutionRow
  <2>4. PhaseOf(q, now) = "completed" /\ Reserves(q) = Reserves(r)
    BY <2>3 DEF PhaseOf, ObservedState, Reserves, Active
  <2>5. UNCHANGED <<worker_nodes, now>>
    BY DEF Complete
  <2> HIDE DEF q
  <2>6. /\ phaseMap' = [phaseMap EXCEPT ![e] = "completed"]
        /\ holderMap' = [holderMap EXCEPT ![e] = r.worker_id]
        /\ outcomeMap' = [outcomeMap EXCEPT ![e] = result]
        /\ reservedMap' = [reservedMap EXCEPT ![e] = Reserves(r)]
        /\ limitMap' = limitMap
    BY <1>2, <2>3, <2>4, <2>5, OneRowView
  <2> QED
    BY <2>2, <2>6, SameColumns DEF Lifecycle!Finish
<1>3. CASE UNCHANGED executions
  BY <1>3 DEF Complete
<1> QED
  BY <1>2, <1>3 DEF Complete

(* A step that releases the reserved rows in S, settling what was active,  *)
(* and leaves the other rows alone, is Free(S).                            *)
LEMMA FreeView ==
    ASSUME TableInv, NEW S \in SUBSET Executions, UNCHANGED <<worker_nodes, now>>,
           \A x \in Executions \ S : executions'[x] = executions[x],
           \A x \in S :
             /\ Reserves(executions[x])
             /\ executions'[x] \in {ReleasedRow(executions[x]), CleanedRow(executions[x])}
    PROVE  Lifecycle!Free(S)
<1>0. now \in Nat /\ \A x \in Executions : RowOK(executions[x]) /\ executions[x] \in ExecutionRow
  BY DEF TableInv, TypeOK
<1>1. ASSUME NEW x \in S
      PROVE  /\ PhaseOf(executions'[x], now) =
                  IF PhaseOf(executions[x], now) = "active" THEN "lost" ELSE PhaseOf(executions[x], now)
             /\ executions'[x].worker_id = executions[x].worker_id
             /\ executions'[x].result = executions[x].result
             /\ ~Reserves(executions'[x])
  <2> DEFINE r == executions[x]
             s == executions'[x]
  <2>1. RowOK(r) /\ r \in ExecutionRow /\ s \in {ReleasedRow(r), CleanedRow(r)}
    BY <1>0, <1>1
  <2> HIDE DEF r, s
  <2>2. /\ s.worker_id = r.worker_id /\ s.result = r.result /\ s.capacity_released
        /\ s.state = IF r.state \in Active THEN "worker_lost" ELSE r.state
    BY <2>1 DEF ReleasedRow, CleanedRow, Settled, ExecutionRow
  <2>3. PhaseOf(s, now) = IF PhaseOf(r, now) = "active" THEN "lost" ELSE PhaseOf(r, now)
    <3>1. CASE r.state \in Active
      <4>1. PhaseOf(s, now) = "lost"
        BY <2>2, <3>1 DEF PhaseOf, ObservedState, Active
      <4>2. PhaseOf(r, now) \in {"active", "lost"}
        BY <1>0, <2>1, <3>1 DEF PhaseOf, ObservedState, Active, ExecutionRow
      <4> QED
        BY <4>1, <4>2
    <3>2. CASE r.state \notin Active
      <4>1. PhaseOf(s, now) = PhaseOf(r, now)
        BY <2>2, <3>2 DEF PhaseOf, ObservedState, Active
      <4>2. PhaseOf(r, now) # "active"
        BY <1>0, <2>1, <3>2, PhaseFacts
      <4> QED
        BY <4>1, <4>2
    <3> QED
      BY <3>1, <3>2
  <2> QED
    BY <2>2, <2>3 DEF Reserves, r, s
<1>2. phaseMap' = [x \in Executions |-> IF x \in S /\ phaseMap[x] = "active"
                                       THEN "lost" ELSE phaseMap[x]]
  <2>1. phaseMap' = [x \in Executions |-> PhaseOf(executions'[x], now)]
    BY DEF phaseMap
  <2> QED
    BY <1>1, <2>1, MapFacts
<1>3. reservedMap' = [x \in Executions |-> IF x \in S THEN FALSE ELSE reservedMap[x]]
  <2>1. reservedMap' = [x \in Executions |-> Reserves(executions'[x])]
    BY DEF reservedMap, Reserves
  <2>2. \A x \in S : Reserves(executions'[x]) = FALSE
    BY <1>1 DEF Reserves
  <2>3. \A x \in Executions \ S : Reserves(executions'[x]) = reservedMap[x]
    BY MapFacts
  <2>4. \A x \in Executions :
          Reserves(executions'[x]) = IF x \in S THEN FALSE ELSE reservedMap[x]
    BY <2>2, <2>3
  <2> QED
    BY <2>1, <2>4
<1>4. holderMap' = holderMap /\ outcomeMap' = outcomeMap /\ limitMap' = limitMap
  BY <1>1 DEF holderMap, outcomeMap, limitMap
<1>5. \A x \in S : reservedMap[x]
  BY MapFacts
<1> QED
  BY <1>2, <1>3, <1>4, <1>5 DEF Lifecycle!Free

(* A release is Free of one reservation; a repeated release is a stutter.  *)
LEMMA ReleaseRefines ==
    ASSUME TableInv, NEW token \in Tokens, NEW e \in Executions, NEW g, Release(token, e, g)
    PROVE  Lifecycle!Free({e}) \/ UNCHANGED <<executions, worker_nodes, now>>
<1> DEFINE r == executions[e]
<1>1. /\ RowOK(r) /\ r \in ExecutionRow /\ Update(e, ReleasedRow(r))
      /\ UNCHANGED <<worker_nodes, now>> /\ r.worker_id # NoWorker
      /\ executions \in [Executions -> ExecutionRow]
  BY RowFacts, NullAssumption DEF Release, Owns, Tokens, TableInv, TypeOK
<1>2. CASE r.capacity_released
  <2>1. r.state \notin Active
    BY <1>1, <1>2 DEF RowOK, Terminal, Active
  <2>2. ReleasedRow(r) = r
    BY <1>1, <1>2, <2>1 DEF ReleasedRow, Settled, ExecutionRow
  <2> QED
    BY <1>1, <2>2 DEF Update
<1>3. CASE ~r.capacity_released
  <2>1. Reserves(r) /\ executions'[e] = ReleasedRow(r)
    BY <1>1, <1>3 DEF Reserves, Update
  <2>2. \A x \in Executions \ {e} : executions'[x] = executions[x]
    BY <1>1 DEF Update
  <2> QED
    BY <1>1, <2>1, <2>2, FreeView
<1> QED
  BY <1>2, <1>3

(* The Operator's cleanup frees all legacy reservations of a Worker.       *)
LEMMA CleanupRefines ==
    ASSUME TableInv, NEW w \in Workers, ConfirmLegacyCleanup(w)
    PROVE  \E S \in SUBSET Executions : Lifecycle!Free(S)
<1> DEFINE S == {e \in Executions : executions[e].worker_id = w /\ executions[e].cleanup_unknown}
<1>1. ASSUME NEW x \in S
      PROVE  Reserves(executions[x]) /\ executions'[x] = CleanedRow(executions[x])
  <2>1. RowOK(executions[x]) /\ x \in Executions
    BY RowFacts
  <2>2. Reserves(executions[x])
    BY <1>1, <2>1 DEF RowOK, RowChecks, UnknownCleanup, Reserves
  <2> QED
    BY <1>1, <2>2 DEF ConfirmLegacyCleanup
<1>2. \A x \in Executions \ S : executions'[x] = executions[x]
  BY DEF ConfirmLegacyCleanup
<1>3. S \in SUBSET Executions /\ UNCHANGED <<worker_nodes, now>>
  BY DEF ConfirmLegacyCleanup
<1> HIDE DEF S
<1> QED
  BY <1>1, <1>2, <1>3, FreeView

(* The clock loses the Executions whose recovery deadline it reaches.      *)
LEMMA TickRefines ==
    ASSUME TableInv, Tick
    PROVE  \E S \in SUBSET Executions : Lifecycle!Lose(S)
<1> DEFINE S == {e \in Executions : phaseMap[e] = "active" /\ phaseMap'[e] # "active"}
<1>1. now \in Nat /\ now' = now + 1 /\ UNCHANGED <<executions, worker_nodes>>
  BY DEF Tick, TableInv, TypeOK
<1>2. phaseMap' = [e \in Executions |-> PhaseOf(executions[e], now + 1)]
  BY <1>1 DEF phaseMap
<1>3. ASSUME NEW e \in Executions
      PROVE  phaseMap'[e] = IF e \in S THEN "lost" ELSE phaseMap[e]
  <2>1. RowOK(executions[e]) /\ executions[e] \in ExecutionRow
    BY RowFacts
  <2>2. phaseMap[e] = PhaseOf(executions[e], now) /\ phaseMap'[e] = PhaseOf(executions[e], now + 1)
    BY <1>2, MapFacts
  <2> QED
    BY <1>1, <2>1, <2>2 DEF PhaseOf, ObservedState, Active, ExecutionRow
<1>4. phaseMap' = [e \in Executions |-> IF e \in S THEN "lost" ELSE phaseMap[e]]
  BY <1>2, <1>3
<1>5. UNCHANGED <<holderMap, outcomeMap, reservedMap, limitMap>>
  BY <1>1 DEF holderMap, outcomeMap, reservedMap, limitMap
<1>6. S \in SUBSET Executions /\ \A e \in S : phaseMap[e] = "active"
  OBVIOUS
<1> HIDE DEF S
<1> QED
  BY <1>4, <1>5, <1>6 DEF Lifecycle!Lose

(* A step that changes Worker rows only resizes one Worker, or nothing.    *)
LEMMA NodeRefines ==
    ASSUME TableInv, [Next]_vars, NEW w \in Workers, UNCHANGED <<executions, now>>,
           \A v \in Workers \ {w} : worker_nodes'[v] = worker_nodes[v]
    PROVE  Lifecycle!Resize(w) \/ UNCHANGED Lifecycle!lifecycleVars
<1>1. UNCHANGED <<phaseMap, holderMap, outcomeMap, reservedMap>>
  BY DEF phaseMap, holderMap, outcomeMap, reservedMap
<1>2. limitMap' = [v \in Workers |-> worker_nodes'[v].sandbox_capacity]
  BY DEF limitMap
<1>3. CASE worker_nodes'[w].sandbox_capacity = worker_nodes[w].sandbox_capacity
  <2>1. limitMap' = limitMap
    BY <1>2, <1>3 DEF limitMap
  <2> QED
    BY <1>1, <2>1 DEF Lifecycle!lifecycleVars
<1>4. CASE Occupied(w) = {} /\ worker_nodes'[w].sandbox_capacity \in Nat
  <2>1. Lifecycle!Reservations(w) = {}
    BY <1>4, MapFacts DEF Lifecycle!Reservations, Occupied, Reserves
  <2>2. limitMap'[w] \in Nat /\ limitMap' = [limitMap EXCEPT ![w] = limitMap'[w]]
    BY <1>2, <1>4 DEF limitMap
  <2> QED
    BY <1>1, <2>1, <2>2 DEF Lifecycle!Resize
<1> QED
  BY <1>3, <1>4, CapacityStep

(* Every step of the store is a step of the lifecycle or a stutter.        *)
LEMMA LifecycleNext ==
    ASSUME TableInv, [Next]_vars
    PROVE  [Lifecycle!Next]_(Lifecycle!lifecycleVars)
<1>0. /\ now \in Nat \ {0} /\ executions \in [Executions -> ExecutionRow]
      /\ worker_nodes \in [Workers -> WorkerRow]
      /\ \A e \in Executions : RowOK(executions[e])
  BY DEF TableInv, TypeOK
<1>1. CASE UNCHANGED <<executions, worker_nodes, now>>
  BY <1>1 DEF phaseMap, holderMap, outcomeMap, reservedMap, limitMap, Lifecycle!lifecycleVars
<1>2. ASSUME NEW e \in Executions, Enqueue(e)
      PROVE  Lifecycle!Next
  BY <1>2, EnqueueRefines DEF Lifecycle!Next
<1>3. ASSUME NEW token \in Tokens, NEW e \in Executions, WorkerRequest(token, e)
      PROVE  [Lifecycle!Next]_(Lifecycle!lifecycleVars)
  <2>1. CASE Claim(token, e)
    <3>1. token.worker \in Workers
      BY DEF Tokens
    <3> QED
      BY <2>1, <3>1, ClaimRefines DEF Lifecycle!Next
  <2>2. ASSUME NEW row, Update(e, row), UNCHANGED <<worker_nodes, now>>,
               LooksAlike(executions[e], now, row, now)
        PROVE  UNCHANGED Lifecycle!lifecycleVars
    <3>1. ASSUME NEW x \in Executions
          PROVE  LooksAlike(executions[x], now, executions'[x], now')
      BY <1>0, <2>2 DEF Update, LooksAlike
    <3>2. UNCHANGED limitMap
      BY <2>2 DEF limitMap
    <3> QED
      BY <3>1, <3>2, LifecycleStutter
  <2>3. ASSUME NEW g \in 1..MaxGeneration, NEW s \in Sandboxes, BindSandbox(token, e, g, s)
        PROVE  UNCHANGED Lifecycle!lifecycleVars
    <3> DEFINE q == [executions[e] EXCEPT !.sandbox_id = s]
    <3>1. LooksAlike(executions[e], now, q, now)
      BY <1>0, QuietRows
    <3> HIDE DEF q
    <3> QED
      BY <2>2, <2>3, <3>1 DEF BindSandbox, q
  <2>4. ASSUME NEW g \in 1..MaxGeneration, NEW s \in Sandboxes, NEW b \in BOOLEAN,
               renew(token, e, g, s, b)
        PROVE  UNCHANGED Lifecycle!lifecycleVars
    <3>1. LooksAlike(executions[e], now, RenewedRow(executions[e]), now)
      BY <1>0, <2>4, QuietRows DEF renew
    <3> QED
      BY <2>2, <2>4, <3>1 DEF renew
  <2>5. ASSUME NEW g \in 1..MaxGeneration, NEW result \in Results, Complete(token, e, g, result)
        PROVE  [Lifecycle!Next]_(Lifecycle!lifecycleVars)
    BY <1>1, <2>5, CompleteRefines DEF Lifecycle!Next
  <2>6. ASSUME NEW g \in 1..MaxGeneration, Release(token, e, g)
        PROVE  [Lifecycle!Next]_(Lifecycle!lifecycleVars)
    BY <1>1, <2>6, ReleaseRefines DEF Lifecycle!Next
  <2> QED
    BY <1>3, <2>1, <2>3, <2>4, <2>5, <2>6 DEF WorkerRequest, Heartbeat, Recover
<1>4. ASSUME NEW S \in SUBSET Executions, SweepRecovery(S)
      PROVE  UNCHANGED Lifecycle!lifecycleVars
  <2>1. ASSUME NEW x \in Executions
        PROVE  LooksAlike(executions[x], now, executions'[x], now')
    <3>1. now' = now /\ (executions'[x] = executions[x] \/
                          (Due(executions[x]) /\ executions'[x] = SweptRow(executions[x])))
      BY <1>4 DEF SweepRecovery
    <3> QED
      BY <1>0, <3>1, QuietRows
  <2>2. UNCHANGED limitMap
    BY <1>4 DEF SweepRecovery, limitMap
  <2> QED
    BY <2>1, <2>2, LifecycleStutter
<1>5. ASSUME NEW w \in Workers, Operator(w)
      PROVE  [Lifecycle!Next]_(Lifecycle!lifecycleVars)
  <2>1. CASE ConfirmLegacyCleanup(w)
    BY <2>1, CleanupRefines DEF Lifecycle!Next
  <2>2. CASE \/ \E ttl \in CredentialTTLs : Provision(w, ttl) \/ Rotate(w, ttl)
             \/ Revoke(w)
    <3>1. /\ UNCHANGED <<executions, now>>
          /\ \A v \in Workers \ {w} : worker_nodes'[v] = worker_nodes[v]
      BY <1>0, <2>2 DEF Provision, Rotate, Revoke
    <3> QED
      BY <3>1, NodeRefines DEF Lifecycle!Next
  <2> QED
    BY <1>5, <2>1, <2>2 DEF Operator
<1>6. ASSUME NEW token \in Tokens, NEW capacity \in 0..(MaxCapacity + 1),
             ConfigureCapacity(token, capacity)
      PROVE  [Lifecycle!Next]_(Lifecycle!lifecycleVars)
  <2>1. /\ UNCHANGED <<executions, now>> /\ token.worker \in Workers
        /\ \A v \in Workers \ {token.worker} : worker_nodes'[v] = worker_nodes[v]
    BY <1>0, <1>6 DEF ConfigureCapacity, Tokens
  <2> QED
    BY <2>1, NodeRefines DEF Lifecycle!Next
<1>7. CASE Tick
  BY <1>7, TickRefines DEF Lifecycle!Next
<1> QED
  BY <1>1, <1>2, <1>3, <1>4, <1>5, <1>6, <1>7 DEF Next, vars

(* The durable queue implements the abstract lifecycle for any number of   *)
(* Workers and Executions: one grant per Execution, within the Worker's    *)
(* capacity, one outcome, lost at its deadline or by its release.          *)
THEOREM QueueImplementsLifecycle == Spec => ImplementsLifecycle
<1>1. TableInv /\ [Next]_vars => [Lifecycle!Next]_(Lifecycle!lifecycleVars)
  BY LifecycleNext
<1> QED
  BY <1>1, LifecycleInit, TableInvariant, PTL
  DEF Spec, ImplementsLifecycle, Lifecycle!Spec
=============================================================================
