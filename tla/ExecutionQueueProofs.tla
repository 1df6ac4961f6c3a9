------------------------ MODULE ExecutionQueueProofs ------------------------
(***************************************************************************)
(* Proofs about ExecutionQueue, for every set of Workers, Executions,      *)
(* Sandboxes and results and every choice of durations and limits.         *)
(*                                                                         *)
(* The argument is about rows.  RowOK holds of a row by itself; one lemma  *)
(* per row operator shows that the UPDATE it models preserves RowOK under  *)
(* the WHERE clause that guards it; a step of Next then changes one row,   *)
(* or a set of rows, through such an operator.                             *)
(***************************************************************************)
EXTENDS ExecutionQueue, FiniteSetTheorems, TLAPS

(* A row on its own: its columns' types, the CHECK constraints, and        *)
(* released only when terminal.                                            *)
RowOK(r) ==
    /\ r \in ExecutionRow
    /\ RowChecks(r)
    /\ r.capacity_released => r.state \in Terminal

(* The deadlines of a row that can still be renewed, at time t.            *)
RowBounded(r, t) ==
    r.state \in Active /\ ~r.cleanup_unknown =>
        /\ r.lease_expires_at <= t + LeaseDuration
        /\ r.recovery_until <= t + LeaseDuration + RecoveryWindow

(* A row and the set of results accepted for it.                           *)
RowAccepted(r, a) == a = IF r.state = "completed" THEN {r.result} ELSE {}

(* The inductive invariant of the tables.                                  *)
TableInv ==
    /\ TypeOK
    /\ \A e \in Executions :
        /\ RowOK(executions[e])
        /\ RowBounded(executions[e], now)
        /\ RowAccepted(executions[e], accepted[e])
        /\ executions[e].worker_id # NoWorker => Provisioned(executions[e].worker_id)

-----------------------------------------------------------------------------
(* What each row operator does to RowOK.                                   *)

(* A claim of a queued row by a Worker leaves a well-formed leased row.    *)
LEMMA ClaimedRowOK ==
    ASSUME NEW r, RowOK(r), r.state = "queued", NEW w \in Workers, now \in Nat \ {0}
    PROVE  RowOK(ClaimedRow(r, w)) /\ RowBounded(ClaimedRow(r, w), now)
<1> DEFINE q == ClaimedRow(r, w)
<1>1. /\ now + LeaseDuration \in Nat \ {0}
      /\ now + LeaseDuration + RecoveryWindow \in Nat
      /\ now + LeaseDuration + RecoveryWindow > now + LeaseDuration
  BY DurationAssumption
<1>2. /\ q.state = "leased" /\ q.worker_id = w /\ q.generation = r.generation + 1
      /\ q.lease_expires_at = now + LeaseDuration
      /\ q.recovery_until = now + LeaseDuration + RecoveryWindow
      /\ q.result = r.result /\ q.sandbox_id = r.sandbox_id
      /\ q.capacity_released = r.capacity_released
      /\ q.cleanup_unknown = r.cleanup_unknown
  BY DEF ClaimedRow, RowOK, ExecutionRow
<1>3. q \in ExecutionRow
  <2>1. r.generation + 1 \in Nat /\ "leased" \in States
    BY DEF RowOK, ExecutionRow, States, Active
  <2> QED
    BY <1>1, <2>1 DEF ClaimedRow, RowOK, ExecutionRow
<1>4. /\ r.worker_id = NoWorker /\ r.generation = 0 /\ r.result = NoResult
      /\ ~r.capacity_released /\ ~r.cleanup_unknown
  BY DEF RowOK, RowChecks, OwnedState, UnknownCleanup, CapacityRequiresOwner, Active
<1>5. RowChecks(q)
  BY <1>1, <1>2, <1>4, NullAssumption
  DEF RowChecks, OwnedState, RecoveryDeadline, UnknownCleanup,
      CapacityRequiresOwner, Terminal, Active, Null
<1>6. RowBounded(q, now)
  BY <1>1, <1>2 DEF RowBounded
<1> QED
  BY <1>2, <1>3, <1>4, <1>5, <1>6 DEF RowOK

(* Binding a Sandbox to a bindable row keeps the row well formed: it is    *)
(* here that Bindable has to refuse a row whose cleanup is unknown.        *)
LEMMA BoundRowOK ==
    ASSUME NEW r, RowOK(r), NEW s \in Sandboxes, Bindable(r, s)
    PROVE  RowOK([r EXCEPT !.sandbox_id = s])
  BY DEF RowOK, ExecutionRow, RowChecks, OwnedState, RecoveryDeadline, UnknownCleanup,
      CapacityRequiresOwner, Bindable, States, Terminal, Active, Null

(* A renewal, by heartbeat or by recovery, of a bound row.                 *)
LEMMA RenewedRowOK ==
    ASSUME NEW r, RowOK(r), NEW b \in BOOLEAN, Renewable(r, b), now \in Nat \ {0}
    PROVE  RowOK(RenewedRow(r)) /\ RowBounded(RenewedRow(r), now)
<1> DEFINE q == RenewedRow(r)
<1>1. /\ now + LeaseDuration \in Nat \ {0}
      /\ now + LeaseDuration + RecoveryWindow \in Nat
      /\ now + LeaseDuration + RecoveryWindow > now + LeaseDuration
  BY DurationAssumption
<1>2. /\ q.state = "leased" /\ q.worker_id = r.worker_id /\ q.generation = r.generation
      /\ q.lease_expires_at = now + LeaseDuration
      /\ q.recovery_until = now + LeaseDuration + RecoveryWindow
      /\ q.result = r.result /\ q.sandbox_id = r.sandbox_id
      /\ q.capacity_released = r.capacity_released
      /\ q.cleanup_unknown = r.cleanup_unknown
  BY DEF RenewedRow, RowOK, ExecutionRow
<1>3. q \in ExecutionRow
  BY <1>1 DEF RenewedRow, RowOK, ExecutionRow, States, Active
<1>4. r.state \in Active /\ ~r.capacity_released
  BY DEF Renewable, Active
<1>5. RowChecks(q)
  BY <1>1, <1>2, <1>4
  DEF RowOK, RowChecks, OwnedState, RecoveryDeadline, UnknownCleanup,
      CapacityRequiresOwner, ExecutionRow, Terminal, Active, Null
<1>6. RowBounded(q, now)
  BY <1>1, <1>2 DEF RowBounded
<1> QED
  BY <1>2, <1>3, <1>4, <1>5, <1>6 DEF RowOK

(* A first result on a current lease.                                      *)
LEMMA CompletedRowOK ==
    ASSUME NEW r, RowOK(r), CurrentLease(r), NEW result \in Results
    PROVE  RowOK([r EXCEPT !.state = "completed", !.result = result])
  BY NullAssumption
  DEF RowOK, ExecutionRow, RowChecks, OwnedState, RecoveryDeadline, UnknownCleanup,
      CapacityRequiresOwner, CurrentLease, States, Terminal, Active, Null

(* A release of an owned row, and the Operator's cleanup of a legacy row.  *)
LEMMA ReleasedRowOK ==
    ASSUME NEW r, RowOK(r), r.worker_id # NoWorker
    PROVE  /\ ~r.cleanup_unknown => RowOK(ReleasedRow(r))
           /\ RowOK(CleanedRow(r))
  BY DEF RowOK, ExecutionRow, RowChecks, OwnedState, RecoveryDeadline, UnknownCleanup,
      CapacityRequiresOwner, ReleasedRow, CleanedRow, Settled, States, Terminal, Active, Null

(* The sweep of a due row.                                                 *)
LEMMA SweptRowOK ==
    ASSUME NEW r, RowOK(r), Due(r)
    PROVE  RowOK(SweptRow(r))
  BY DEF RowOK, ExecutionRow, RowChecks, OwnedState, RecoveryDeadline, UnknownCleanup,
      CapacityRequiresOwner, Due, SweptRow, States, Terminal, Active, Null

-----------------------------------------------------------------------------
(* How one step carries the row facts to the table.                        *)

(* A step that replaces one row by a good row keeps the table good.        *)
LEMMA UpdatePreserves ==
    ASSUME TableInv,
           NEW e \in Executions, NEW row, NEW a \in SUBSET Results,
           RowOK(row), RowBounded(row, now), RowAccepted(row, a),
           row.worker_id # NoWorker => Provisioned(row.worker_id),
           Update(e, row), accepted' = [accepted EXCEPT ![e] = a],
           UNCHANGED <<worker_nodes, now>>
    PROVE  TableInv'
<1>1. \A x \in Executions :
        /\ executions'[x] = IF x = e THEN row ELSE executions[x]
        /\ accepted'[x] = IF x = e THEN a ELSE accepted[x]
  BY DEF TableInv, TypeOK, Update
<1>2. TypeOK'
  <2>1. executions' \in [Executions -> ExecutionRow]
    BY DEF TableInv, TypeOK, Update, RowOK
  <2>2. accepted' \in [Executions -> SUBSET Results]
    BY DEF TableInv, TypeOK
  <2> QED
    BY <2>1, <2>2 DEF TableInv, TypeOK
<1>3. ASSUME NEW x \in Executions
      PROVE  /\ RowOK(executions'[x])
             /\ RowBounded(executions'[x], now')
             /\ RowAccepted(executions'[x], accepted'[x])
             /\ executions'[x].worker_id # NoWorker => Provisioned(executions'[x].worker_id)
  <2>1. CASE x = e
    BY <1>1, <2>1, now' = now
  <2>2. CASE x # e
    BY <1>1, <2>2, now' = now DEF TableInv
  <2> QED
    BY <2>1, <2>2
<1>4. \A w : Provisioned(w)' <=> Provisioned(w)
  BY DEF Provisioned
<1> QED
  BY <1>2, <1>3, <1>4 DEF TableInv

(* Issuing or revoking credentials and changing a capacity leave the       *)
(* Executions alone and never unprovision a Worker.                        *)
LEMMA NodePreserves ==
    ASSUME TableInv, UNCHANGED <<executions, accepted, now>>,
           NEW w \in Workers, NEW node \in WorkerRow,
           Provisioned(w) => node.credential_generation > 0,
           worker_nodes' = [worker_nodes EXCEPT ![w] = node]
    PROVE  TableInv'
<1>1. TypeOK'
  BY DEF TableInv, TypeOK
<1>2. \A x \in Workers : Provisioned(x) => Provisioned(x)'
  BY DEF TableInv, TypeOK, Provisioned
<1>3. \A e \in Executions : executions[e].worker_id \in Workers \union {NoWorker}
  BY DEF TableInv, TypeOK, ExecutionRow
<1> QED
  BY <1>1, <1>2, <1>3 DEF TableInv

(* s is r with its deadlines, owner and result left alone, and active or   *)
(* completed only if r was.                                                *)
KeepsRow(r, s) ==
    /\ s.state \in Active => r.state \in Active /\ s.cleanup_unknown = r.cleanup_unknown
    /\ s.state = "completed" <=> r.state = "completed"
    /\ s.worker_id = r.worker_id
    /\ s.result = r.result
    /\ s.lease_expires_at = r.lease_expires_at
    /\ s.recovery_until = r.recovery_until

(* A step that rewrites a set of rows in that way, as the sweep and the    *)
(* legacy cleanup do, keeps the table good.                                *)
LEMMA RowsPreserve ==
    ASSUME TableInv, NEW S \in SUBSET Executions, NEW f,
           executions' = [e \in Executions |-> IF e \in S THEN f[e] ELSE executions[e]],
           UNCHANGED <<worker_nodes, accepted, now>>,
           \A e \in S : RowOK(f[e]) /\ KeepsRow(executions[e], f[e])
    PROVE  TableInv'
<1>1. \A x \in Executions : executions'[x] = IF x \in S THEN f[x] ELSE executions[x]
  OBVIOUS
<1>2. TypeOK'
  BY <1>1 DEF TableInv, TypeOK, RowOK
<1>3. ASSUME NEW x \in Executions
      PROVE  /\ RowOK(executions'[x])
             /\ RowBounded(executions'[x], now')
             /\ RowAccepted(executions'[x], accepted'[x])
             /\ executions'[x].worker_id # NoWorker => Provisioned(executions'[x].worker_id)
  <2>1. CASE x \in S
    BY <1>1, <2>1 DEF TableInv, RowBounded, RowAccepted, KeepsRow
  <2>2. CASE x \notin S
    BY <1>1, <2>2 DEF TableInv
  <2> QED
    BY <2>1, <2>2
<1>4. \A w : Provisioned(w)' <=> Provisioned(w)
  BY DEF Provisioned
<1> QED
  BY <1>2, <1>3, <1>4 DEF TableInv

-----------------------------------------------------------------------------
(* The rows migration 0005 leaves, on a database whose Workers may or may  *)
(* not be provisioned, satisfy the invariant.                              *)
LEMMA InitTable == Init => TableInv
<1> SUFFICES ASSUME Init PROVE TableInv
  OBVIOUS
<1>1. now = 1
  BY DEF Init
<1>2. worker_nodes \in [Workers -> WorkerRow]
  <2>1. AbsentNode \in WorkerRow
    BY LimitAssumption DEF AbsentNode, WorkerRow, Null
  <2>2. \A ttl \in CredentialTTLs : IssuedNode(ttl, 1, DefaultCapacity) \in WorkerRow
    BY <1>1, DurationAssumption, LimitAssumption DEF IssuedNode, WorkerRow
  <2> QED
    BY <2>1, <2>2 DEF Init
<1>3. ASSUME NEW e \in Executions
      PROVE  /\ RowOK(executions[e])
             /\ RowBounded(executions[e], now)
             /\ executions[e].worker_id # NoWorker => Provisioned(executions[e].worker_id)
             /\ executions[e].result \in Results <=> executions[e].state = "completed"
  <2>1. CASE executions[e] = AbsentRow
    BY <2>1, NullAssumption
    DEF AbsentRow, RowOK, RowBounded, ExecutionRow, RowChecks, OwnedState, RecoveryDeadline,
        UnknownCleanup, CapacityRequiresOwner, States, Active, Terminal, Null
  <2>2. ASSUME NEW w \in {x \in Workers : Provisioned(x)}, NEW lease \in LegacyLeases,
               NEW result \in Results \union {NoResult}, NEW released \in BOOLEAN,
               executions[e] = MigratedRow(w, lease, result, released)
        PROVE  /\ RowOK(executions[e])
               /\ RowBounded(executions[e], now)
               /\ executions[e].worker_id # NoWorker => Provisioned(executions[e].worker_id)
               /\ executions[e].result \in Results <=> executions[e].state = "completed"
    <3> DEFINE q == MigratedRow(w, lease, result, released)
    <3>1. /\ lease \in Nat \ {0} /\ lease + LegacyWindow \in Nat
          /\ lease + LegacyWindow > lease
      BY DurationAssumption
    <3>2. /\ q.worker_id = w /\ q.generation = 1 /\ q.result = result
          /\ q.lease_expires_at = lease /\ q.recovery_until = lease + LegacyWindow
          /\ q.sandbox_id = NoSandbox /\ q.queued_order = 0
          /\ q.capacity_released = released /\ q.cleanup_unknown = ~released
          /\ q.state = IF result # NoResult THEN "completed"
                       ELSE IF released THEN "worker_lost" ELSE "leased"
      BY DEF MigratedRow, AbsentRow
    <3>3. q \in ExecutionRow
      BY <3>1 DEF MigratedRow, AbsentRow, ExecutionRow, States, Active, Terminal
    <3>4. RowChecks(q) /\ (q.capacity_released => q.state \in Terminal)
      <4>1. w # NoWorker
        BY NullAssumption
      <4>2. OwnedState(q)
        <5>1. CASE result # NoResult
          BY <3>1, <3>2, <4>1, <5>1 DEF OwnedState, Active, Null
        <5>2. CASE result = NoResult
          <6>1. q.state \in Active \union {"worker_lost"}
            BY <3>2, <5>2 DEF Active
          <6> QED
            BY <3>1, <3>2, <4>1, <5>2, <6>1 DEF OwnedState, Active, Null
        <5> QED
          BY <5>1, <5>2
      <4>3. RecoveryDeadline(q)
        BY <3>1, <3>2 DEF RecoveryDeadline, Null
      <4>4. UnknownCleanup(q) /\ CapacityRequiresOwner(q)
        BY <3>2, <4>1 DEF UnknownCleanup, CapacityRequiresOwner
      <4>5. q.capacity_released => q.state \in Terminal
        BY <3>2 DEF Terminal
      <4> QED
        BY <4>2, <4>3, <4>4, <4>5 DEF RowChecks
    <3>5. RowBounded(q, now)
      BY <3>2 DEF RowBounded, Active
    <3>6. q.result \in Results <=> q.state = "completed"
      BY <3>2, NullAssumption
    <3> QED
      BY <2>2, <3>2, <3>3, <3>4, <3>5, <3>6 DEF RowOK
  <2> QED
    BY <2>1, <2>2 DEF Init, MigratedRows
<1>4. executions \in [Executions -> ExecutionRow]
  BY <1>3 DEF Init, RowOK
<1>5. accepted \in [Executions -> SUBSET Results]
  BY <1>3, <1>4, NullAssumption DEF Init, ExecutionRow
<1>6. \A e \in Executions : RowAccepted(executions[e], accepted[e])
  BY <1>3, <1>4, NullAssumption DEF Init, ExecutionRow, RowAccepted
<1> QED
  BY <1>1, <1>2, <1>3, <1>4, <1>5, <1>6 DEF TableInv, TypeOK

-----------------------------------------------------------------------------
(* One lemma per kind of step: each keeps the invariant.                   *)

(* The facts about one row of the table, with what a step that keeps the   *)
(* accepted results has to know about them.                                *)
LEMMA RowFacts ==
    ASSUME TableInv, NEW e \in Executions
    PROVE  /\ RowOK(executions[e])
           /\ executions[e] \in ExecutionRow
           /\ RowBounded(executions[e], now)
           /\ RowAccepted(executions[e], accepted[e])
           /\ accepted[e] \in SUBSET Results
           /\ accepted = [accepted EXCEPT ![e] = accepted[e]]
           /\ executions[e].worker_id # NoWorker => Provisioned(executions[e].worker_id)
           /\ now \in Nat \ {0}
  BY DEF TableInv, TypeOK

(* Credentials are issued, rotated and revoked.                            *)
LEMMA OperatorTable ==
    ASSUME TableInv, NEW w \in Workers, Operator(w)
    PROVE  TableInv'
<1>1. now \in Nat /\ worker_nodes \in [Workers -> WorkerRow]
  BY DEF TableInv, TypeOK
<1>2. ASSUME NEW ttl \in CredentialTTLs, Provision(w, ttl)
      PROVE  TableInv'
  <2>1. IssuedNode(ttl, 1, DefaultCapacity) \in WorkerRow
    BY <1>1, DurationAssumption, LimitAssumption DEF IssuedNode, WorkerRow
  <2> QED
    BY <1>2, <2>1, NodePreserves DEF Provision, IssuedNode
<1>3. ASSUME NEW ttl \in CredentialTTLs, Rotate(w, ttl)
      PROVE  TableInv'
  <2> DEFINE node == IssuedNode(ttl, worker_nodes[w].credential_generation + 1,
                                worker_nodes[w].sandbox_capacity)
  <2>1. node \in WorkerRow /\ node.credential_generation > 0
    BY <1>1, DurationAssumption DEF IssuedNode, WorkerRow
  <2>2. worker_nodes' = [worker_nodes EXCEPT ![w] = node]
    BY <1>3 DEF Rotate
  <2> QED
    BY <1>3, <2>1, <2>2, NodePreserves DEF Rotate
<1>4. ASSUME Revoke(w)
      PROVE  TableInv'
  <2> DEFINE node == [worker_nodes[w] EXCEPT !.revoked = TRUE]
  <2>1. node \in WorkerRow /\ node.credential_generation = worker_nodes[w].credential_generation
    BY <1>1 DEF WorkerRow
  <2>2. worker_nodes' = [worker_nodes EXCEPT ![w] = node]
    BY <1>4 DEF Revoke
  <2> QED
    BY <1>4, <2>1, <2>2, NodePreserves DEF Revoke, Provisioned
<1>5. ASSUME ConfirmLegacyCleanup(w)
      PROVE  TableInv'
  <2> DEFINE S == {e \in Executions : executions[e].worker_id = w
                                       /\ executions[e].cleanup_unknown}
             f == [e \in Executions |-> CleanedRow(executions[e])]
  <2>1. executions' = [e \in Executions |-> IF e \in S THEN f[e] ELSE executions[e]]
    BY <1>5 DEF ConfirmLegacyCleanup
  <2>2. ASSUME NEW e \in S
        PROVE  RowOK(f[e]) /\ KeepsRow(executions[e], f[e])
    <3>1. executions[e] \in ExecutionRow /\ RowOK(executions[e]) /\ executions[e].worker_id # NoWorker
      BY RowFacts, NullAssumption
    <3>2. RowOK(f[e])
      BY <3>1, ReleasedRowOK
    <3> QED
      BY <3>1, <3>2 DEF CleanedRow, Settled, ExecutionRow, Active, KeepsRow
  <2>3. UNCHANGED <<worker_nodes, accepted, now>>
    BY <1>5 DEF ConfirmLegacyCleanup
  <2>4. S \in SUBSET Executions
    OBVIOUS
  <2> HIDE DEF S, f
  <2> QED
    BY <2>1, <2>2, <2>3, <2>4, RowsPreserve
<1> QED
  BY <1>2, <1>3, <1>4, <1>5 DEF Operator

(* The requests of a Worker: each replaces one row under its guard.        *)
LEMMA WorkerRequestTable ==
    ASSUME TableInv, NEW token \in Tokens, NEW e \in Executions, WorkerRequest(token, e)
    PROVE  TableInv'
<1> DEFINE r == executions[e]
<1>0. /\ RowOK(r) /\ r \in ExecutionRow /\ RowBounded(r, now) /\ RowAccepted(r, accepted[e])
      /\ accepted[e] \in SUBSET Results /\ accepted = [accepted EXCEPT ![e] = accepted[e]]
      /\ r.worker_id # NoWorker => Provisioned(r.worker_id)
      /\ now \in Nat \ {0} /\ token.worker \in Workers /\ token.generation > 0
  BY RowFacts DEF Tokens
<1>1. ASSUME Claim(token, e)
      PROVE  TableInv'
  <2> DEFINE q == ClaimedRow(r, token.worker)
  <2>1. r.state = "queued" /\ Update(e, q) /\ UNCHANGED <<worker_nodes, accepted, now>>
    BY <1>1 DEF Claim, NextInQueue
  <2>2. RowOK(q) /\ RowBounded(q, now)
    BY <1>0, <2>1, ClaimedRowOK
  <2>3. q.worker_id = token.worker /\ q.state = "leased"
    BY <1>0 DEF ClaimedRow, ExecutionRow
  <2>4. Provisioned(token.worker)
    BY <1>0, <1>1 DEF Claim, AuthenticateTx, Provisioned
  <2>5. RowAccepted(q, accepted[e])
    BY <1>0, <2>1, <2>3 DEF RowAccepted
  <2> HIDE DEF q
  <2> QED
    BY <1>0, <2>1, <2>2, <2>3, <2>4, <2>5, UpdatePreserves
<1>2. ASSUME NEW g \in 1..MaxGeneration, NEW s \in Sandboxes, BindSandbox(token, e, g, s)
      PROVE  TableInv'
  <2> DEFINE q == [r EXCEPT !.sandbox_id = s]
  <2>1. Bindable(r, s) /\ Update(e, q) /\ UNCHANGED <<worker_nodes, accepted, now>>
    BY <1>2 DEF BindSandbox
  <2>2. RowOK(q)
    BY <1>0, <2>1, BoundRowOK
  <2>3. /\ q.worker_id = r.worker_id /\ q.state = r.state /\ q.result = r.result
        /\ q.cleanup_unknown = r.cleanup_unknown
        /\ q.lease_expires_at = r.lease_expires_at /\ q.recovery_until = r.recovery_until
    BY <1>0 DEF ExecutionRow
  <2>4. RowAccepted(q, accepted[e]) /\ RowBounded(q, now)
    BY <1>0, <2>3 DEF RowAccepted, RowBounded
  <2> HIDE DEF q
  <2> QED
    BY <1>0, <2>1, <2>2, <2>3, <2>4, UpdatePreserves
<1>3. ASSUME NEW g \in 1..MaxGeneration, NEW s \in Sandboxes, NEW b \in BOOLEAN,
             renew(token, e, g, s, b)
      PROVE  TableInv'
  <2> DEFINE q == RenewedRow(r)
  <2>1. Renewable(r, b) /\ Update(e, q) /\ UNCHANGED <<worker_nodes, accepted, now>>
    BY <1>3 DEF renew
  <2>2. RowOK(q) /\ RowBounded(q, now)
    BY <1>0, <2>1, RenewedRowOK
  <2>3. q.worker_id = r.worker_id /\ q.state = "leased" /\ r.state # "completed"
    BY <1>0, <2>1 DEF RenewedRow, ExecutionRow, Renewable, Active
  <2>4. RowAccepted(q, accepted[e])
    BY <1>0, <2>3 DEF RowAccepted
  <2> HIDE DEF q
  <2> QED
    BY <1>0, <2>1, <2>2, <2>3, <2>4, UpdatePreserves
<1>4. ASSUME NEW g \in 1..MaxGeneration, NEW result \in Results, Complete(token, e, g, result)
      PROVE  TableInv'
  <2> DEFINE a == accepted[e] \union {result}
  <2>1. /\ accepted' = [accepted EXCEPT ![e] = a] /\ a \in SUBSET Results
        /\ UNCHANGED <<worker_nodes, now>>
    BY <1>0, <1>4 DEF Complete
  <2>2. CASE CurrentLease(r) /\ Update(e, [r EXCEPT !.state = "completed", !.result = result])
    <3> DEFINE q == [r EXCEPT !.state = "completed", !.result = result]
    <3>1. RowOK(q)
      BY <1>0, <2>2, CompletedRowOK
    <3>2. q.state = "completed" /\ q.result = result /\ q.worker_id = r.worker_id
      BY <1>0 DEF ExecutionRow
    <3>3. r.state # "completed"
      BY <2>2 DEF CurrentLease
    <3>4. RowAccepted(q, a) /\ RowBounded(q, now)
      BY <1>0, <3>2, <3>3 DEF RowAccepted, RowBounded, Active
    <3>5. Update(e, q)
      BY <2>2
    <3> HIDE DEF q, a
    <3> QED
      BY <1>0, <2>1, <3>1, <3>2, <3>4, <3>5, UpdatePreserves
  <2>3. CASE SameResult(r, result) /\ UNCHANGED executions
    <3>1. RowAccepted(r, a)
      BY <1>0, <2>3 DEF SameResult, RowAccepted
    <3>2. Update(e, r)
      BY <2>3 DEF Update, TableInv, TypeOK
    <3> HIDE DEF r, a
    <3> QED
      BY <1>0, <2>1, <3>1, <3>2, UpdatePreserves
  <2> QED
    BY <1>4, <2>2, <2>3 DEF Complete
<1>5. ASSUME NEW g \in 1..MaxGeneration, Release(token, e, g)
      PROVE  TableInv'
  <2> DEFINE q == ReleasedRow(r)
  <2>1. /\ r.worker_id # NoWorker /\ ~r.cleanup_unknown /\ Update(e, q)
        /\ UNCHANGED <<worker_nodes, accepted, now>>
    BY <1>0, <1>5, NullAssumption DEF Release, Owns
  <2>2. RowOK(q)
    BY <1>0, <2>1, ReleasedRowOK
  <2>3. /\ q.worker_id = r.worker_id /\ q.result = r.result /\ q.state \notin Active
        /\ q.state = "completed" <=> r.state = "completed"
    BY <1>0 DEF ReleasedRow, Settled, ExecutionRow, Active
  <2>4. RowAccepted(q, accepted[e]) /\ RowBounded(q, now)
    BY <1>0, <2>3 DEF RowAccepted, RowBounded
  <2> HIDE DEF q
  <2> QED
    BY <1>0, <2>1, <2>2, <2>3, <2>4, UpdatePreserves
<1> QED
  BY <1>1, <1>2, <1>3, <1>4, <1>5 DEF WorkerRequest, Heartbeat, Recover

(* Admission, capacity changes, the sweep and the clock.                   *)
LEMMA SystemTable ==
    ASSUME TableInv,
           \/ \E e \in Executions : Enqueue(e)
           \/ \E token \in Tokens, capacity \in 0..(MaxCapacity + 1) :
                 ConfigureCapacity(token, capacity)
           \/ \E S \in SUBSET Executions : SweepRecovery(S)
           \/ Tick
    PROVE  TableInv'
<1>1. ASSUME NEW e \in Executions, Enqueue(e)
      PROVE  TableInv'
  <2> DEFINE r == executions[e]
             q == [r EXCEPT !.state = "queued", !.queued_order = Cardinality(Rows) + 1]
  <2>1. /\ RowOK(r) /\ r \in ExecutionRow /\ RowAccepted(r, accepted[e])
        /\ accepted[e] \in SUBSET Results /\ accepted = [accepted EXCEPT ![e] = accepted[e]]
    BY RowFacts
  <2>2. r.state = "absent" /\ Update(e, q) /\ UNCHANGED <<worker_nodes, accepted, now>>
    BY <1>1 DEF Enqueue
  <2>3. Cardinality(Rows) + 1 \in Nat
    <3>1. Rows \subseteq Executions
      BY DEF Rows
    <3> QED
      BY <3>1, FiniteAssumption, FS_Subset, FS_CardinalityType
  <2>4. /\ q.state = "queued" /\ q.worker_id = NoWorker /\ q.generation = 0
        /\ q.lease_expires_at = Null /\ q.recovery_until = Null /\ q.result = NoResult
        /\ ~q.cleanup_unknown /\ ~q.capacity_released
    <3>1. /\ r.worker_id = NoWorker /\ r.generation = 0
          /\ r.lease_expires_at = Null /\ r.recovery_until = Null /\ r.result = NoResult
          /\ ~r.cleanup_unknown /\ ~r.capacity_released
      BY <2>1, <2>2 DEF RowOK, RowChecks, OwnedState, RecoveryDeadline,
          UnknownCleanup, CapacityRequiresOwner, Null, Active
    <3> QED
      BY <2>1, <3>1 DEF ExecutionRow
  <2>5. q \in ExecutionRow
    BY <2>1, <2>3 DEF ExecutionRow, States
  <2>6. RowOK(q) /\ RowBounded(q, now) /\ RowAccepted(q, accepted[e])
    BY <2>1, <2>2, <2>4, <2>5
    DEF RowOK, RowBounded, RowAccepted, RowChecks, OwnedState, RecoveryDeadline,
        UnknownCleanup, CapacityRequiresOwner, Active, Null
  <2> HIDE DEF q
  <2> QED
    BY <2>1, <2>2, <2>4, <2>6, UpdatePreserves
<1>2. ASSUME NEW token \in Tokens, NEW capacity \in 0..(MaxCapacity + 1),
             ConfigureCapacity(token, capacity)
      PROVE  TableInv'
  <2> DEFINE w == token.worker
             node == [worker_nodes[w] EXCEPT !.sandbox_capacity = capacity]
  <2>1. w \in Workers /\ worker_nodes \in [Workers -> WorkerRow]
    BY DEF Tokens, TableInv, TypeOK
  <2>2. node \in WorkerRow /\ node.credential_generation = worker_nodes[w].credential_generation
    <3>1. capacity \in 0..MaxCapacity
      BY <1>2, LimitAssumption DEF ConfigureCapacity
    <3> QED
      BY <2>1, <3>1 DEF WorkerRow
  <2>3. worker_nodes' = [worker_nodes EXCEPT ![w] = node] /\ UNCHANGED <<executions, accepted, now>>
    BY <1>2 DEF ConfigureCapacity
  <2> HIDE DEF node, w
  <2> QED
    BY <2>1, <2>2, <2>3, NodePreserves DEF Provisioned
<1>3. ASSUME NEW S \in SUBSET Executions, SweepRecovery(S)
      PROVE  TableInv'
  <2> DEFINE f == [e \in Executions |-> SweptRow(executions[e])]
  <2>1. /\ executions' = [e \in Executions |-> IF e \in S THEN f[e] ELSE executions[e]]
        /\ UNCHANGED <<worker_nodes, accepted, now>>
    BY <1>3 DEF SweepRecovery
  <2>2. ASSUME NEW e \in S
        PROVE  RowOK(f[e]) /\ KeepsRow(executions[e], f[e])
    <3>1. executions[e] \in ExecutionRow /\ RowOK(executions[e]) /\ Due(executions[e])
      BY <1>3, RowFacts DEF SweepRecovery
    <3>2. RowOK(f[e])
      BY <3>1, SweptRowOK
    <3> QED
      BY <3>1, <3>2 DEF SweptRow, Due, ExecutionRow, Active, KeepsRow
  <2> HIDE DEF f
  <2> QED
    BY <2>1, <2>2, RowsPreserve
<1>4. ASSUME Tick
      PROVE  TableInv'
  <2>1. now' = now + 1 /\ now \in Nat \ {0} /\ UNCHANGED <<executions, worker_nodes, accepted>>
    BY <1>4 DEF Tick, TableInv, TypeOK
  <2>2. \A e \in Executions : RowBounded(executions[e], now)'
    BY <2>1, DurationAssumption DEF TableInv, TypeOK, RowBounded, ExecutionRow
  <2> QED
    BY <2>1, <2>2 DEF TableInv, TypeOK, Provisioned
<1> QED
  BY <1>1, <1>2, <1>3, <1>4

(* Every step keeps the invariant.                                         *)
LEMMA NextTable == TableInv /\ [Next]_vars => TableInv'
<1> SUFFICES ASSUME TableInv, [Next]_vars PROVE TableInv'
  OBVIOUS
<1>1. CASE UNCHANGED vars
  BY <1>1 DEF vars, TableInv, TypeOK, Provisioned
<1>2. ASSUME NEW w \in Workers, Operator(w)
      PROVE  TableInv'
  BY <1>2, OperatorTable
<1>3. ASSUME NEW token \in Tokens, NEW e \in Executions, WorkerRequest(token, e)
      PROVE  TableInv'
  BY <1>3, WorkerRequestTable
<1>4. CASE \/ \E e \in Executions : Enqueue(e)
           \/ \E token \in Tokens, capacity \in 0..(MaxCapacity + 1) :
                 ConfigureCapacity(token, capacity)
           \/ \E S \in SUBSET Executions : SweepRecovery(S)
           \/ Tick
  BY <1>4, SystemTable
<1> QED
  BY <1>1, <1>2, <1>3, <1>4 DEF Next

(* The tables satisfy the inductive invariant in every reachable state.    *)
LEMMA TableInvariant == Spec => []TableInv
  BY InitTable, NextTable, PTL DEF Spec

(* Type correctness of both tables, the accepted results and the clock.    *)
THEOREM TypeCorrect == Spec => []TypeOK
<1>1. TableInv => TypeOK
  BY DEF TableInv
<1> QED
  BY <1>1, TableInvariant, PTL

(* No operation of the store, in any order, by any number of Workers, ever *)
(* writes a row that a CHECK constraint or the foreign key refuses, and    *)
(* only a settled Execution gives its capacity back.                       *)
THEOREM SchemaSafe == Spec => []SchemaChecks
<1>1. TableInv => SchemaChecks
  BY DEF TableInv, SchemaChecks, RowOK
<1> QED
  BY <1>1, TableInvariant, PTL

(* Renewals never accumulate authority beyond one lease and one window.    *)
THEOREM AuthoritySafe == Spec => []BoundedAuthority
<1>1. TableInv => BoundedAuthority
  BY DEF TableInv, BoundedAuthority, RowBounded
<1> QED
  BY <1>1, TableInvariant, PTL

(* One result is accepted per Execution, and it is the one stored.         *)
THEOREM ResultSafe == Spec => []AcceptedIsStored
<1>1. TableInv => AcceptedIsStored
  BY DEF TableInv, AcceptedIsStored, RowAccepted
<1> QED
  BY <1>1, TableInvariant, PTL

-----------------------------------------------------------------------------
(* What any step may do to one row r, and on whose authority: the common   *)
(* ground of the action properties and of the refinement.                  *)

RowStep(r, s) ==
    \/ s = r
    \/ r.state = "absent" /\ \E n \in Nat : s = [r EXCEPT !.state = "queued", !.queued_order = n]
    \/ r.state = "queued" /\ \E w \in Workers : Authorized(w) /\ s = ClaimedRow(r, w)
    \/ /\ r.worker_id \in Workers /\ Authorized(r.worker_id)
       /\ \/ \E x \in Sandboxes : Bindable(r, x) /\ s = [r EXCEPT !.sandbox_id = x]
          \/ \E b \in BOOLEAN :
                r.sandbox_id # NoSandbox /\ Renewable(r, b) /\ s = RenewedRow(r)
          \/ \E x \in Results :
                CurrentLease(r) /\ s = [r EXCEPT !.state = "completed", !.result = x]
          \/ ~r.cleanup_unknown /\ s = ReleasedRow(r)
    \/ Due(r) /\ s = SweptRow(r)
    \/ r.worker_id \in Workers /\ r.cleanup_unknown /\ s = CleanedRow(r)

(* A token authenticates only for a Worker whose credential is good.       *)
LEMMA TokenAuthorizes ==
    ASSUME TypeOK, NEW token \in Tokens, AuthenticateTx(token)
    PROVE  token.worker \in Workers /\ Authorized(token.worker)
  BY DEF Tokens, AuthenticateTx, Authorized, Provisioned

(* Every step does one of these things to each row, and a row changes only *)
(* in a step that leaves the clock and the Workers alone.                  *)
LEMMA StepOfRow ==
    ASSUME TableInv, [Next]_vars, NEW x \in Executions
    PROVE  /\ RowStep(executions[x], executions'[x])
           /\ executions'[x] # executions[x] => UNCHANGED <<worker_nodes, now>>
<1>0. TypeOK /\ RowOK(executions[x]) /\ now \in Nat
  BY RowFacts DEF TableInv, TypeOK
<1>1. CASE UNCHANGED executions
  BY <1>1 DEF RowStep
<1>2. ASSUME NEW e \in Executions, Enqueue(e)
      PROVE  /\ RowStep(executions[x], executions'[x])
             /\ UNCHANGED <<worker_nodes, now>>
  <2>1. Cardinality(Rows) + 1 \in Nat
    <3>1. Rows \subseteq Executions
      BY DEF Rows
    <3> QED
      BY <3>1, FiniteAssumption, FS_Subset, FS_CardinalityType
  <2>2. CASE x = e
    <3>1. /\ executions[x].state = "absent"
          /\ executions'[x] = [executions[x] EXCEPT !.state = "queued",
                                                   !.queued_order = Cardinality(Rows) + 1]
      BY <1>0, <1>2, <2>2 DEF Enqueue, Update, TypeOK
    <3> QED
      BY <1>2, <2>1, <3>1 DEF RowStep, Enqueue
  <2>3. CASE x # e
    BY <1>0, <1>2, <2>3 DEF RowStep, Enqueue, Update, TypeOK
  <2> QED
    BY <2>2, <2>3
<1>3. ASSUME NEW token \in Tokens, NEW e \in Executions, WorkerRequest(token, e)
      PROVE  /\ RowStep(executions[x], executions'[x])
             /\ UNCHANGED <<worker_nodes, now>>
  <2>1. ASSUME NEW row, Update(e, row), x # e
        PROVE  RowStep(executions[x], executions'[x])
    BY <1>0, <2>1 DEF Update, RowStep, TypeOK
  <2>2. ASSUME NEW row, Update(e, row), x = e
        PROVE  executions'[x] = row
    BY <1>0, <2>2 DEF Update, TypeOK
  <2>3. CASE Claim(token, e)
    BY <1>0, <2>1, <2>2, <2>3, TokenAuthorizes DEF Claim, NextInQueue, RowStep
  <2>4. ASSUME NEW g \in 1..MaxGeneration, NEW s \in Sandboxes, BindSandbox(token, e, g, s)
        PROVE  /\ RowStep(executions[x], executions'[x])
               /\ UNCHANGED <<worker_nodes, now>>
    <3>1. /\ Authorized(executions[e].worker_id) /\ executions[e].worker_id \in Workers
          /\ Bindable(executions[e], s)
          /\ Update(e, [executions[e] EXCEPT !.sandbox_id = s])
          /\ UNCHANGED <<worker_nodes, now>>
      BY <1>0, <2>4, TokenAuthorizes DEF BindSandbox, Owns
    <3>2. CASE x = e
      BY <2>2, <3>1, <3>2 DEF RowStep
    <3> QED
      BY <2>1, <3>1, <3>2
  <2>5. ASSUME NEW g \in 1..MaxGeneration, NEW s \in Sandboxes, NEW b \in BOOLEAN,
               renew(token, e, g, s, b)
        PROVE  /\ RowStep(executions[x], executions'[x])
               /\ UNCHANGED <<worker_nodes, now>>
    <3>1. /\ Authorized(executions[e].worker_id) /\ executions[e].worker_id \in Workers
          /\ executions[e].sandbox_id # NoSandbox /\ Renewable(executions[e], b)
          /\ Update(e, RenewedRow(executions[e]))
          /\ UNCHANGED <<worker_nodes, now>>
      BY <1>0, <2>5, TokenAuthorizes, NullAssumption DEF renew, Owns
    <3>2. CASE x = e
      BY <2>2, <3>1, <3>2 DEF RowStep
    <3> QED
      BY <2>1, <3>1, <3>2
  <2>6. ASSUME NEW g \in 1..MaxGeneration, NEW result \in Results, Complete(token, e, g, result)
        PROVE  /\ RowStep(executions[x], executions'[x])
               /\ UNCHANGED <<worker_nodes, now>>
    <3>1. /\ Authorized(executions[e].worker_id) /\ executions[e].worker_id \in Workers
          /\ UNCHANGED <<worker_nodes, now>>
      BY <1>0, <2>6, TokenAuthorizes DEF Complete, Owns
    <3> DEFINE q == [executions[e] EXCEPT !.state = "completed", !.result = result]
    <3>2. CASE CurrentLease(executions[e]) /\ Update(e, q)
      <4>1. CASE x = e
        <5>1. executions'[x] = q
          BY <2>2, <3>2, <4>1
        <5> QED
          BY <3>1, <3>2, <4>1, <5>1 DEF RowStep
      <4> QED
        BY <2>1, <3>1, <3>2, <4>1
    <3>3. CASE UNCHANGED executions
      BY <1>1, <3>1, <3>3
    <3> QED
      BY <2>6, <3>2, <3>3 DEF Complete
  <2>7. ASSUME NEW g \in 1..MaxGeneration, Release(token, e, g)
        PROVE  /\ RowStep(executions[x], executions'[x])
               /\ UNCHANGED <<worker_nodes, now>>
    <3>1. /\ Authorized(executions[e].worker_id) /\ executions[e].worker_id \in Workers
          /\ ~executions[e].cleanup_unknown
          /\ Update(e, ReleasedRow(executions[e]))
          /\ UNCHANGED <<worker_nodes, now>>
      BY <1>0, <2>7, TokenAuthorizes DEF Release, Owns
    <3>2. CASE x = e
      BY <2>2, <3>1, <3>2 DEF RowStep
    <3> QED
      BY <2>1, <3>1, <3>2
  <2> QED
    BY <1>3, <2>3, <2>4, <2>5, <2>6, <2>7 DEF WorkerRequest, Heartbeat, Recover, Claim
<1>4. ASSUME NEW S \in SUBSET Executions, SweepRecovery(S)
      PROVE  /\ RowStep(executions[x], executions'[x])
             /\ UNCHANGED <<worker_nodes, now>>
  BY <1>4 DEF SweepRecovery, RowStep
<1>5. ASSUME NEW w \in Workers, ConfirmLegacyCleanup(w)
      PROVE  /\ RowStep(executions[x], executions'[x])
             /\ UNCHANGED <<worker_nodes, now>>
  BY <1>5 DEF ConfirmLegacyCleanup, RowStep
<1> QED
  BY <1>1, <1>2, <1>3, <1>4, <1>5
  DEF Next, Operator, Provision, Rotate, Revoke, ConfigureCapacity, Tick, vars

(* The clock never goes back.                                              *)
LEMMA ClockForward ==
    ASSUME TableInv, [Next]_vars
    PROVE  now \in Nat /\ now' \in Nat /\ now' >= now
<1>1. now \in Nat
  BY DEF TableInv, TypeOK
<1>2. ASSUME NEW w \in Workers, Operator(w)
      PROVE  now' = now
  BY <1>2 DEF Operator, Provision, Rotate, Revoke, ConfirmLegacyCleanup
<1>3. ASSUME NEW token \in Tokens, NEW e \in Executions, WorkerRequest(token, e)
      PROVE  now' = now
  BY <1>3 DEF WorkerRequest, Claim, BindSandbox, Heartbeat, Recover, renew, Complete, Release
<1>4. now' = now \/ now' = now + 1
  BY <1>2, <1>3 DEF Next, Enqueue, ConfigureCapacity, SweepRecovery, Tick, vars
<1> QED
  BY <1>1, <1>4

(* At one instant, no operation takes a row out of a reported outcome: the *)
(* deadlines in every WHERE clause are no later than recovery_until.       *)
LEMMA RowStaysSettled ==
    ASSUME NEW r, NEW s, RowOK(r), RowStep(r, s), now \in Nat,
           ObservedState(r, now) \in Terminal
    PROVE  ObservedState(s, now) = ObservedState(r, now) /\ s.result = r.result
<1>1. r \in ExecutionRow /\ (r.lease_expires_at = Null \/ r.recovery_until > r.lease_expires_at)
  BY DEF RowOK, RowChecks, RecoveryDeadline
<1>2. r.state \in Terminal \/ (r.state \in Active /\ r.recovery_until <= now)
  BY DEF ObservedState, Active, Terminal
<1>3. r.state \in Active => r.lease_expires_at <= now
  BY <1>1, <1>2 DEF ExecutionRow, Terminal, Active, Null
<1>4. CASE r.state \in Terminal
  <2>1. \/ s = r
        \/ s = ReleasedRow(r)
        \/ s = CleanedRow(r)
    BY <1>4 DEF RowStep, Terminal, Active, Bindable, Renewable, CurrentLease, Due
  <2> QED
    BY <1>1, <1>4, <2>1
    DEF ReleasedRow, CleanedRow, Settled, ObservedState, ExecutionRow, Terminal, Active
<1>5. CASE r.state \in Active /\ r.recovery_until <= now
  <2>1. \/ s = r
        \/ s = ReleasedRow(r)
        \/ s = SweptRow(r)
        \/ s = CleanedRow(r)
    <3>1. ~(r.lease_expires_at > now) /\ ~(r.recovery_until > now)
      BY <1>1, <1>3, <1>5 DEF ExecutionRow
    <3>2. r.state # "absent" /\ r.state # "queued"
      BY <1>5 DEF Active
    <3> QED
      BY <3>1, <3>2 DEF RowStep, Bindable, Renewable, CurrentLease
  <2> QED
    BY <1>1, <1>5, <2>1
    DEF ReleasedRow, SweptRow, CleanedRow, Settled, ObservedState, ExecutionRow, Active
<1> QED
  BY <1>2, <1>4, <1>5

(* A reported outcome survives every step, of any actor and of the clock.  *)
THEOREM TerminalSafe == Spec => TerminalIsForever
<1>1. ASSUME TableInv, [Next]_vars, NEW e \in Executions
      PROVE  StaysSettled(e)
  <2>1. RowOK(executions[e]) /\ RowStep(executions[e], executions'[e]) /\ now \in Nat
    BY <1>1, RowFacts, StepOfRow
  <2>2. CASE now' = now
    BY <2>1, <2>2, RowStaysSettled DEF StaysSettled
  <2>3. CASE now' # now
    <3>1. executions'[e] = executions[e] /\ now' \in Nat /\ now' >= now
      BY <1>1, <2>3, StepOfRow, ClockForward
    <3>2. executions[e] \in ExecutionRow
      BY <2>1 DEF RowOK
    <3> QED
      BY <2>1, <3>1, <3>2 DEF StaysSettled, ObservedState, ExecutionRow, Active, Terminal
  <2> QED
    BY <2>2, <2>3
<1>2. TableInv /\ [Next]_vars => [\A e \in Executions : StaysSettled(e)]_vars
  BY <1>1
<1> QED
  BY <1>2, TableInvariant, PTL DEF Spec, TerminalIsForever

(* Execution rights and Sandbox bindings, once given, are never changed.   *)
THEOREM OwnershipSafe == Spec => OwnershipIsFinal
<1>1. ASSUME TableInv, [Next]_vars, NEW e \in Executions
      PROVE  KeepsOwner(e)
  <2> DEFINE r == executions[e]
             s == executions'[e]
  <2>1. RowOK(r) /\ r \in ExecutionRow /\ RowStep(r, s)
    BY <1>1, RowFacts, StepOfRow
  <2>2. r.state = "queued" => r.worker_id = NoWorker
    BY <2>1 DEF RowOK, RowChecks, OwnedState, Active
  <2> HIDE DEF r, s
  <2>3. /\ r.worker_id # NoWorker => s.worker_id = r.worker_id /\ s.generation = r.generation
        /\ r.sandbox_id # NoSandbox => s.sandbox_id = r.sandbox_id
    BY <2>1, <2>2
    DEF RowStep, ExecutionRow, ClaimedRow, Bindable, RenewedRow, ReleasedRow, SweptRow, CleanedRow
  <2> QED
    BY <2>3 DEF KeepsOwner, r, s
<1>2. TableInv /\ [Next]_vars => [\A e \in Executions : KeepsOwner(e)]_vars
  BY <1>1
<1> QED
  BY <1>2, TableInvariant, PTL DEF Spec, OwnershipIsFinal

(* Deadlines move only by renewal of a bound, unsettled Execution, forward. *)
THEOREM DeadlinesSafe == Spec => DeadlinesAreKept
<1>1. ASSUME TableInv, [Next]_vars, NEW e \in Executions
      PROVE  KeepsDeadlines(e)
  <2> DEFINE r == executions[e]
             s == executions'[e]
  <2>1. /\ RowOK(r) /\ r \in ExecutionRow /\ RowStep(r, s) /\ RowBounded(r, now)
        /\ now \in Nat \ {0}
    BY <1>1, RowFacts, StepOfRow
  <2>2. /\ r.state = "queued" => r.worker_id = NoWorker
        /\ r.sandbox_id # NoSandbox => ~r.cleanup_unknown
        /\ r.state \in Active => r.recovery_until > r.lease_expires_at
    BY <2>1 DEF RowOK, RowChecks, OwnedState, UnknownCleanup, RecoveryDeadline, Active
  <2> HIDE DEF r, s
  <2>3. ASSUME NEW b \in BOOLEAN, r.sandbox_id # NoSandbox, Renewable(r, b), s = RenewedRow(r)
        PROVE  /\ r.sandbox_id # NoSandbox /\ ~r.cleanup_unknown
               /\ ObservedState(r, now) \in Active
               /\ s.lease_expires_at >= r.lease_expires_at
               /\ s.recovery_until >= r.recovery_until
    <3>1. r.state \in Active /\ r.recovery_until > now
      BY <2>1, <2>2, <2>3 DEF Renewable, Active, ExecutionRow
    <3>2. ObservedState(r, now) \in Active
      BY <2>1, <3>1 DEF ObservedState, Active, ExecutionRow
    <3>3. /\ s.lease_expires_at = now + LeaseDuration
          /\ s.recovery_until = now + LeaseDuration + RecoveryWindow
      BY <2>1, <2>3 DEF RenewedRow, ExecutionRow
    <3>4. /\ r.lease_expires_at <= now + LeaseDuration
          /\ r.recovery_until <= now + LeaseDuration + RecoveryWindow
      BY <2>1, <2>2, <2>3, <3>1 DEF RowBounded
    <3> QED
      BY <2>1, <2>2, <2>3, <3>2, <3>3, <3>4, DurationAssumption DEF ExecutionRow
  <2>4. \/ r.worker_id = NoWorker
        \/ s.lease_expires_at = r.lease_expires_at /\ s.recovery_until = r.recovery_until
        \/ \E b \in BOOLEAN : r.sandbox_id # NoSandbox /\ Renewable(r, b) /\ s = RenewedRow(r)
    BY <2>1, <2>2
    DEF RowStep, ExecutionRow, ReleasedRow, SweptRow, CleanedRow
  <2> QED
    BY <2>3, <2>4 DEF KeepsDeadlines, r, s
<1>2. TableInv /\ [Next]_vars => [\A e \in Executions : KeepsDeadlines(e)]_vars
  BY <1>1
<1> QED
  BY <1>2, TableInvariant, PTL DEF Spec, DeadlinesAreKept

(* Without a good credential a Worker changes none of its Executions.      *)
THEOREM RevocationSafe == Spec => RevokedIsPowerless
<1>1. ASSUME TableInv, [Next]_vars, NEW e \in Executions
      PROVE  NeedsAuthority(e)
  <2> DEFINE r == executions[e]
             s == executions'[e]
  <2>1. RowOK(r) /\ r \in ExecutionRow /\ RowStep(r, s)
    BY <1>1, RowFacts, StepOfRow
  <2> HIDE DEF r, s
  <2>2. CASE r.state = "queued" /\ \E w \in Workers : Authorized(w) /\ s = ClaimedRow(r, w)
    <3>1. PICK w \in Workers : Authorized(w) /\ s = ClaimedRow(r, w)
      BY <2>2
    <3>2. s.worker_id = w
      BY <2>1, <3>1 DEF ClaimedRow, ExecutionRow
    <3> QED
      BY <3>1, <3>2 DEF NeedsAuthority, s
  <2>3. CASE /\ r.worker_id \in Workers /\ Authorized(r.worker_id)
             /\ \/ \E x \in Sandboxes : Bindable(r, x) /\ s = [r EXCEPT !.sandbox_id = x]
                \/ \E b \in BOOLEAN :
                      r.sandbox_id # NoSandbox /\ Renewable(r, b) /\ s = RenewedRow(r)
                \/ \E x \in Results :
                      CurrentLease(r) /\ s = [r EXCEPT !.state = "completed", !.result = x]
                \/ ~r.cleanup_unknown /\ s = ReleasedRow(r)
    <3>1. s.worker_id = r.worker_id
      BY <2>1, <2>3 DEF RenewedRow, ReleasedRow, ExecutionRow
    <3> QED
      BY <2>3, <3>1 DEF NeedsAuthority, s
  <2>4. CASE \/ s = r
             \/ \E n \in Nat : s = [r EXCEPT !.state = "queued", !.queued_order = n]
             \/ Due(r) /\ s = SweptRow(r)
             \/ r.worker_id \in Workers /\ r.cleanup_unknown /\ s = CleanedRow(r)
    <3>1. /\ s.worker_id = r.worker_id /\ s.generation = r.generation
          /\ s.result = r.result /\ s.sandbox_id = r.sandbox_id
          /\ s.lease_expires_at = r.lease_expires_at
          /\ s.recovery_until = r.recovery_until
          /\ s.capacity_released = r.capacity_released \/ r.cleanup_unknown
      BY <2>1, <2>4 DEF SweptRow, CleanedRow, ExecutionRow
    <3> QED
      BY <3>1 DEF NeedsAuthority, r, s
  <2> QED
    BY <2>1, <2>2, <2>3, <2>4 DEF RowStep
<1>2. TableInv /\ [Next]_vars => [\A e \in Executions : NeedsAuthority(e)]_vars
  BY <1>1
<1> QED
  BY <1>2, TableInvariant, PTL DEF Spec, RevokedIsPowerless

-----------------------------------------------------------------------------
(* Occupancy.  Only Claim adds a reservation, one at a time and below the  *)
(* capacity; a capacity changes only while nothing is reserved; a row that *)
(* stays reserved stays a legacy row if it was one.                        *)

(* A step that is not a claim gives no Execution to a Worker.              *)
LEMMA OnlyClaimGrants ==
    ASSUME TableInv, [Next]_vars, NEW x \in Executions,
           executions[x].worker_id = NoWorker,
           \A token \in Tokens, e \in Executions : ~Claim(token, e)
    PROVE  executions'[x].worker_id = NoWorker
<1>0. executions \in [Executions -> ExecutionRow] /\ executions[x] \in ExecutionRow
  BY DEF TableInv, TypeOK
<1>1. CASE UNCHANGED executions
  BY <1>1
<1>2. ASSUME NEW e \in Executions, Enqueue(e)
      PROVE  executions'[x].worker_id = NoWorker
  BY <1>0, <1>2 DEF Enqueue, Update, ExecutionRow
<1>3. ASSUME NEW token \in Tokens, NEW e \in Executions, WorkerRequest(token, e)
      PROVE  executions'[x].worker_id = NoWorker
  <2>1. token.worker \in Workers /\ token.worker # NoWorker
    BY NullAssumption DEF Tokens
  <2>2. \E g \in 1..MaxGeneration : Owns(token, e, g)
    BY <1>3 DEF WorkerRequest, BindSandbox, Heartbeat, Recover, renew, Complete, Release
  <2>3. x # e
    BY <2>1, <2>2 DEF Owns
  <2>4. \/ UNCHANGED executions
        \/ \E row : Update(e, row)
    BY <1>3 DEF WorkerRequest, BindSandbox, Heartbeat, Recover, renew, Complete, Release
  <2> QED
    BY <1>0, <2>3, <2>4 DEF Update
<1>4. ASSUME NEW S \in SUBSET Executions, SweepRecovery(S)
      PROVE  executions'[x].worker_id = NoWorker
  BY <1>0, <1>4 DEF SweepRecovery, SweptRow, ExecutionRow
<1>5. ASSUME NEW w \in Workers, ConfirmLegacyCleanup(w)
      PROVE  executions'[x].worker_id = NoWorker
  BY <1>0, <1>5 DEF ConfirmLegacyCleanup, CleanedRow, ExecutionRow
<1> QED
  BY <1>1, <1>2, <1>3, <1>4, <1>5
  DEF Next, Operator, Provision, Rotate, Revoke, ConfigureCapacity, Tick, vars

(* A reservation that survives a step was there before, unless the step    *)
(* claimed it, and it is as legacy as it was.                              *)
LEMMA ReservationStep ==
    ASSUME TableInv, [Next]_vars, NEW w \in Workers, NEW x \in Executions,
           executions'[x].worker_id = w, ~executions'[x].capacity_released,
           executions[x].worker_id # NoWorker
    PROVE  /\ x \in Occupied(w)
           /\ executions[x].cleanup_unknown => executions'[x].cleanup_unknown
<1> DEFINE r == executions[x]
           s == executions'[x]
<1>1. RowOK(r) /\ r \in ExecutionRow /\ RowStep(r, s)
  BY RowFacts, StepOfRow
<1>2. r.state # "queued" /\ r.state # "absent"
  BY <1>1 DEF RowOK, RowChecks, OwnedState, Active
<1> HIDE DEF r, s
<1>3. /\ s.worker_id = r.worker_id
      /\ ~s.capacity_released => ~r.capacity_released /\ s.cleanup_unknown = r.cleanup_unknown
  BY <1>1, <1>2
  DEF RowStep, ExecutionRow, Bindable, Renewable, CurrentLease, Due, RenewedRow, ReleasedRow,
      SweptRow, CleanedRow
<1> QED
  BY <1>3 DEF Occupied, r, s

(* A Worker's capacity changes only while it has no reservation.           *)
LEMMA CapacityStep ==
    ASSUME TableInv, [Next]_vars, NEW w \in Workers
    PROVE  \/ worker_nodes'[w].sandbox_capacity = worker_nodes[w].sandbox_capacity
           \/ Occupied(w) = {} /\ UNCHANGED executions /\ worker_nodes'[w].sandbox_capacity \in Nat
<1>0. worker_nodes \in [Workers -> WorkerRow]
  BY DEF TableInv, TypeOK
<1>1. CASE UNCHANGED worker_nodes
  BY <1>1
<1>2. ASSUME NEW v \in Workers, NEW ttl \in CredentialTTLs, Provision(v, ttl)
      PROVE  \/ worker_nodes'[w].sandbox_capacity = worker_nodes[w].sandbox_capacity
             \/ Occupied(w) = {} /\ UNCHANGED executions /\ worker_nodes'[w].sandbox_capacity \in Nat
  <2>1. CASE w = v
    <3>1. Occupied(w) = {}
      BY <1>2, <2>1, NullAssumption DEF Provision, Occupied, TableInv
    <3>2. worker_nodes'[w].sandbox_capacity = DefaultCapacity
      BY <1>0, <1>2, <2>1 DEF Provision, IssuedNode
    <3> QED
      BY <1>2, <3>1, <3>2, LimitAssumption DEF Provision
  <2>2. CASE w # v
    BY <1>0, <1>2, <2>2 DEF Provision
  <2> QED
    BY <2>1, <2>2
<1>3. ASSUME NEW v \in Workers, NEW ttl \in CredentialTTLs, Rotate(v, ttl)
      PROVE  worker_nodes'[w].sandbox_capacity = worker_nodes[w].sandbox_capacity
  BY <1>0, <1>3 DEF Rotate, IssuedNode
<1>4. ASSUME NEW v \in Workers, Revoke(v)
      PROVE  worker_nodes'[w].sandbox_capacity = worker_nodes[w].sandbox_capacity
  BY <1>0, <1>4 DEF Revoke, WorkerRow
<1>5. ASSUME NEW token \in Tokens, NEW capacity \in 0..(MaxCapacity + 1),
             ConfigureCapacity(token, capacity)
      PROVE  \/ worker_nodes'[w].sandbox_capacity = worker_nodes[w].sandbox_capacity
             \/ Occupied(w) = {} /\ UNCHANGED executions /\ worker_nodes'[w].sandbox_capacity \in Nat
  <2>1. CASE w = token.worker
    <3>1. worker_nodes'[w].sandbox_capacity = capacity /\ capacity \in Nat
      BY <1>0, <1>5, <2>1, LimitAssumption DEF ConfigureCapacity, WorkerRow
    <3> QED
      BY <1>5, <2>1, <3>1 DEF ConfigureCapacity
  <2>2. CASE w # token.worker
    BY <1>0, <1>5, <2>2 DEF ConfigureCapacity
  <2> QED
    BY <2>1, <2>2
<1>6. ASSUME NEW token \in Tokens, NEW e \in Executions, WorkerRequest(token, e)
      PROVE  UNCHANGED worker_nodes
  BY <1>6 DEF WorkerRequest, Claim, BindSandbox, Heartbeat, Recover, renew, Complete, Release
<1> QED
  BY <1>1, <1>2, <1>3, <1>4, <1>5, <1>6
  DEF Next, Operator, ConfirmLegacyCleanup, Enqueue, SweepRecovery, Tick, vars

(* The reservations of a Worker form a finite set.                         *)
LEMMA OccupiedFinite ==
    ASSUME NEW w
    PROVE  IsFiniteSet(Occupied(w)) /\ Cardinality(Occupied(w)) \in Nat
<1>1. Occupied(w) \subseteq Executions
  BY DEF Occupied
<1> QED
  BY <1>1, FiniteAssumption, FS_Subset, FS_CardinalityType

(* OccupancyBound is inductive once the table is known to be good.         *)
LEMMA OccupancyStep ==
    ASSUME TableInv, OccupancyBound, [Next]_vars
    PROVE  OccupancyBound'
<1> SUFFICES ASSUME NEW w \in Workers
             PROVE  \/ Cardinality(Occupied(w)') <= worker_nodes'[w].sandbox_capacity
                    \/ \A e \in Occupied(w)' : executions'[e].cleanup_unknown
  BY DEF OccupancyBound
<1> DEFINE capacity == worker_nodes[w].sandbox_capacity
<1>0. capacity \in Nat
  BY LimitAssumption DEF TableInv, TypeOK, WorkerRow
<1>1. Occupied(w)' = {e \in Executions : executions'[e].worker_id = w
                                        /\ ~executions'[e].capacity_released}
  BY DEF Occupied
<1>2. IsFiniteSet(Occupied(w)) /\ Cardinality(Occupied(w)) \in Nat
  BY OccupiedFinite
<1>3. CASE Occupied(w) = {} /\ UNCHANGED executions /\ worker_nodes'[w].sandbox_capacity \in Nat
  <2>1. Occupied(w)' = {}
    BY <1>3 DEF Occupied
  <2> QED
    BY <2>1
<1>4. CASE worker_nodes'[w].sandbox_capacity = capacity /\ Occupied(w)' \subseteq Occupied(w)
  <2>1. Cardinality(Occupied(w)') <= Cardinality(Occupied(w)) /\ Cardinality(Occupied(w)') \in Nat
    BY <1>2, <1>4, FS_Subset, FS_CardinalityType
  <2>2. CASE Cardinality(Occupied(w)) <= capacity
    BY <1>0, <1>2, <1>4, <2>1, <2>2
  <2>3. CASE \A e \in Occupied(w) : executions[e].cleanup_unknown
    <3>1. ASSUME NEW e \in Occupied(w)'
          PROVE  executions'[e].cleanup_unknown
      <4>1. /\ e \in Executions /\ e \in Occupied(w) /\ executions[e].worker_id # NoWorker
            /\ executions'[e].worker_id = w /\ ~executions'[e].capacity_released
        BY <1>1, <1>4, <3>1, NullAssumption DEF Occupied
      <4> QED
        BY <2>3, <4>1, ReservationStep
    <3> QED
      BY <3>1
  <2> QED
    BY <2>2, <2>3 DEF OccupancyBound
<1>5. CASE \A token \in Tokens, e \in Executions : ~Claim(token, e)
  <2>1. Occupied(w)' \subseteq Occupied(w)
    BY <1>1, <1>5, OnlyClaimGrants, ReservationStep, NullAssumption
  <2> QED
    BY <1>3, <1>4, <2>1, CapacityStep
<1>6. ASSUME NEW token \in Tokens, NEW e \in Executions, Claim(token, e)
      PROVE  \/ Cardinality(Occupied(w)') <= worker_nodes'[w].sandbox_capacity
             \/ \A x \in Occupied(w)' : executions'[x].cleanup_unknown
  <2>1. /\ \A x \in Executions : x # e => executions'[x] = executions[x]
        /\ executions'[e].worker_id = token.worker
        /\ worker_nodes' = worker_nodes
    BY <1>6 DEF Claim, Update, ClaimedRow, TableInv, TypeOK, ExecutionRow
  <2>2. CASE w = token.worker
    <3>1. Cardinality(Occupied(w)) < capacity
      BY <1>6, <2>2 DEF Claim, HasCapacity
    <3>2. Occupied(w)' \subseteq Occupied(w) \union {e}
      BY <1>1, <2>1 DEF Occupied
    <3>3. /\ IsFiniteSet(Occupied(w) \union {e})
          /\ Cardinality(Occupied(w) \union {e}) <= Cardinality(Occupied(w)) + 1
          /\ Cardinality(Occupied(w) \union {e}) \in Nat
      <4>1. Cardinality(Occupied(w) \union {e}) =
              IF e \in Occupied(w) THEN Cardinality(Occupied(w)) ELSE Cardinality(Occupied(w)) + 1
        BY <1>2, FS_AddElement
      <4>2. IsFiniteSet(Occupied(w) \union {e})
        BY <1>2, FS_AddElement
      <4> QED
        BY <1>2, <4>1, <4>2
    <3>4. /\ Cardinality(Occupied(w)') <= Cardinality(Occupied(w) \union {e})
          /\ Cardinality(Occupied(w)') \in Nat
      BY <3>2, <3>3, FS_Subset, FS_CardinalityType
    <3> QED
      BY <1>0, <1>2, <2>1, <3>1, <3>3, <3>4
  <2>3. CASE w # token.worker
    <3>1. Occupied(w)' \subseteq Occupied(w)
      BY <1>1, <2>1, <2>3 DEF Occupied
    <3> QED
      BY <1>4, <2>1, <3>1
  <2> QED
    BY <2>2, <2>3
<1> QED
  BY <1>5, <1>6

(* Before the first step every reservation is a legacy row.                *)
LEMMA OccupancyInit == Init => OccupancyBound
<1> SUFFICES ASSUME Init, NEW w \in Workers, NEW e \in Occupied(w)
             PROVE  executions[e].cleanup_unknown
  BY DEF OccupancyBound
<1>1. e \in Executions /\ executions[e].worker_id = w /\ ~executions[e].capacity_released
  BY DEF Occupied
<1>2. executions[e] # AbsentRow
  BY <1>1, NullAssumption DEF AbsentRow
<1>3. PICK v \in Workers, lease \in LegacyLeases, result \in Results \union {NoResult},
           released \in BOOLEAN : executions[e] = MigratedRow(v, lease, result, released)
  BY <1>1, <1>2 DEF Init, MigratedRows
<1>4. executions[e].capacity_released = released /\ executions[e].cleanup_unknown = ~released
  BY <1>3 DEF MigratedRow, AbsentRow
<1> QED
  BY <1>1, <1>4

(* No Worker is ever given more Sandboxes than its capacity: for any       *)
(* number of Workers and Executions and any interleaving of claims,        *)
(* releases and capacity changes, only pre-migration rows can exceed it.   *)
THEOREM OccupancySafe == Spec => []OccupancyBound
<1>1. TableInv /\ OccupancyBound /\ [Next]_vars => OccupancyBound'
  BY OccupancyStep
<1> QED
  BY <1>1, OccupancyInit, TableInvariant, PTL DEF Spec
=============================================================================
