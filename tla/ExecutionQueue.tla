--------------------------- MODULE ExecutionQueue ---------------------------
(***************************************************************************)
(* The durable Execution queue of the Control Plane: the two PostgreSQL    *)
(* tables control_plane.executions and control_plane.worker_nodes          *)
(* (internal/migrations/sql/0002..0005) and the transactions that change   *)
(* them (internal/executionqueue, internal/workercredential).              *)
(*                                                                         *)
(* One action is one committed transaction.  Every Worker operation        *)
(* authenticates inside its transaction and keeps that Worker's row locked *)
(* until it commits (AuthenticateTx), so operations of one Worker are      *)
(* serial and a transaction that aborts, or that finds its guard false,    *)
(* changes nothing.  A lost HTTPS answer is an operation that is repeated. *)
(* The database clock is now; a transaction reads it once here.            *)
(*                                                                         *)
(* Left out of the rows: agent_run_id (one to one with id by its UNIQUE    *)
(* constraint), the workload bytes, created_at.  A credential's SHA-256    *)
(* digest is the pair (Worker, credential_generation): rotation replaces   *)
(* the digest and increments the generation in the same UPDATE.            *)
(***************************************************************************)
EXTENDS Integers, FiniteSets

CONSTANTS
    Workers,            \* Worker ids
    Executions,         \* Execution ids
    Sandboxes,          \* Sandbox ids a Worker may mint
    Results,            \* canonical JSON results that pass validResult
    NoWorker,           \* worker_id IS NULL
    NoSandbox,          \* sandbox_id = ''
    NoResult,           \* result IS NULL
    LeaseDuration,      \* Store.leaseDuration, in ticks
    RecoveryWindow,     \* Store.recoveryWindow, in ticks
    LegacyWindow,       \* the 30 seconds of migration 0005, in ticks
    LegacyLeases,       \* lease deadlines of the rows migration 0005 found
    CredentialTTLs,     \* lifetimes an Operator gives a credential, in ticks
    DefaultCapacity,    \* DEFAULT of sandbox_capacity in migration 0004
    MaxCapacity,        \* upper CHECK of sandbox_capacity
    SweepLimit,         \* LIMIT of the recovery sweep
    MaxCredentials,     \* bound: credential generations issued per Worker
    MaxGeneration,      \* bound: lease generations a request may name
    MaxTime             \* bound: the clock stops here

ASSUME NullAssumption ==
    NoWorker \notin Workers /\ NoSandbox \notin Sandboxes /\ NoResult \notin Results

ASSUME FiniteAssumption == IsFiniteSet(Executions) /\ IsFiniteSet(Workers)

ASSUME DurationAssumption ==
    /\ LeaseDuration \in Nat \ {0}
    /\ RecoveryWindow \in Nat \ {0}
    /\ LegacyWindow \in Nat \ {0}
    /\ LegacyLeases \subseteq Nat \ {0}
    /\ CredentialTTLs \subseteq Nat \ {0}

ASSUME LimitAssumption ==
    /\ MaxCapacity \in Nat /\ DefaultCapacity \in 1..MaxCapacity
    /\ SweepLimit \in Nat \ {0}
    /\ MaxCredentials \in Nat /\ MaxGeneration \in Nat /\ MaxTime \in Nat

VARIABLES
    executions,     \* the rows of control_plane.executions
    worker_nodes,   \* the rows of control_plane.worker_nodes
    accepted,       \* results for which Complete has answered success
    now             \* clock_timestamp()

vars == <<executions, worker_nodes, accepted, now>>

-----------------------------------------------------------------------------
(* Rows.  An id with no row has state "absent".  Time 0 is a NULL          *)
(* timestamp (results.go reads it as the epoch); the clock starts at 1.    *)

Null == 0

Terminal == {"worker_lost", "completed"}
Active == {"leased", "recovering"}
States == {"absent", "queued"} \union Active \union Terminal

ExecutionRow ==
    [state : States,
     worker_id : Workers \union {NoWorker},
     generation : Nat,
     lease_expires_at : Nat,
     recovery_until : Nat,
     result : Results \union {NoResult},
     sandbox_id : Sandboxes \union {NoSandbox},
     capacity_released : BOOLEAN,
     cleanup_unknown : BOOLEAN,
     queued_order : Nat]

WorkerRow ==
    [credential_generation : Nat,   \* 0: the Worker has no row
     expires_at : Nat,
     revoked : BOOLEAN,
     sandbox_capacity : 0..MaxCapacity]

AbsentRow ==
    [state |-> "absent", worker_id |-> NoWorker, generation |-> 0,
     lease_expires_at |-> Null, recovery_until |-> Null, result |-> NoResult,
     sandbox_id |-> NoSandbox, capacity_released |-> FALSE,
     cleanup_unknown |-> FALSE, queued_order |-> 0]

(* The rows migration 0005 leaves behind: an owned row keeps its lease,    *)
(* gets a recovery deadline from it, and is marked cleanup_unknown unless  *)
(* its capacity was released; a leased row already released is lost.       *)
(* Its queued_order is never read again and stays 0 here.                  *)
MigratedRow(w, lease, result, released) ==
    [AbsentRow EXCEPT
        !.state = IF result # NoResult THEN "completed"
                  ELSE IF released THEN "worker_lost" ELSE "leased",
        !.worker_id = w, !.generation = 1,
        !.lease_expires_at = lease, !.recovery_until = lease + LegacyWindow,
        !.result = result, !.capacity_released = released,
        !.cleanup_unknown = ~released]

MigratedRows(W) ==
    {AbsentRow} \union
    {MigratedRow(w, lease, result, released) :
        w \in W, lease \in LegacyLeases,
        result \in Results \union {NoResult}, released \in BOOLEAN}

AbsentNode ==
    [credential_generation |-> 0, expires_at |-> Null,
     revoked |-> FALSE, sandbox_capacity |-> 0]

IssuedNode(ttl, generation, capacity) ==
    [credential_generation |-> generation, expires_at |-> now + ttl,
     revoked |-> FALSE, sandbox_capacity |-> capacity]

Provisioned(w) == worker_nodes[w].credential_generation > 0

(* Get and Outstanding report a passed deadline before the sweep stores it. *)
ObservedState(r, t) ==
    IF r.state \in Active /\ r.recovery_until <= t THEN "worker_lost"
    ELSE IF r.state = "leased" /\ r.lease_expires_at <= t THEN "recovering"
    ELSE r.state

(* Reservations a Worker has not yet confirmed clean.                      *)
Occupied(w) ==
    {e \in Executions : executions[e].worker_id = w /\ ~executions[e].capacity_released}

Init ==
    /\ now = 1
    /\ worker_nodes \in
          [Workers -> {AbsentNode} \union
                      {IssuedNode(ttl, 1, DefaultCapacity) : ttl \in CredentialTTLs}]
    /\ executions \in
          [Executions -> MigratedRows({w \in Workers : Provisioned(w)})]
    /\ accepted = [e \in Executions |-> {executions[e].result} \ {NoResult}]

-----------------------------------------------------------------------------
(* internal/workercredential: issuing and checking Worker credentials.     *)

Tokens == [worker : Workers, generation : 1..MaxCredentials]

(* The first credential of a Worker inserts its row.                       *)
Provision(w, ttl) ==
    /\ ~Provisioned(w)
    /\ worker_nodes' = [worker_nodes EXCEPT ![w] = IssuedNode(ttl, 1, DefaultCapacity)]
    /\ UNCHANGED <<executions, accepted, now>>

(* Rotation replaces the digest and clears an expiry or a revocation.      *)
Rotate(w, ttl) ==
    /\ Provisioned(w)
    /\ worker_nodes[w].credential_generation < MaxCredentials
    /\ worker_nodes' = [worker_nodes EXCEPT ![w] =
                            IssuedNode(ttl, @.credential_generation + 1, @.sandbox_capacity)]
    /\ UNCHANGED <<executions, accepted, now>>

Revoke(w) ==
    /\ Provisioned(w)
    /\ worker_nodes' = [worker_nodes EXCEPT ![w].revoked = TRUE]
    /\ UNCHANGED <<executions, accepted, now>>

AuthenticateIgnoringRevocation(token) ==
    /\ worker_nodes[token.worker].credential_generation = token.generation
    /\ worker_nodes[token.worker].expires_at > now

(* A row with this digest, not revoked, not expired at the database clock. *)
AuthenticateTx(token) ==
    /\ worker_nodes[token.worker].credential_generation = token.generation
    /\ ~worker_nodes[token.worker].revoked
    /\ worker_nodes[token.worker].expires_at > now

-----------------------------------------------------------------------------
(* internal/executionqueue: one operator per UPDATE, one action per        *)
(* transaction.  A request names the lease generation it was granted.      *)

(* BOUND: a deadline is granted only if the clock can still reach it.  The *)
(* code renews a lease without end; no property may lean on this bound.    *)
WithinHorizon == now + LeaseDuration + RecoveryWindow <= MaxTime

(* executions' is executions with the row of e replaced by row.            *)
Update(e, row) == executions' = [executions EXCEPT ![e] = row]

(* The lease e is held by this Worker under this generation.               *)
Owns(token, e, generation) ==
    /\ executions[e].worker_id = token.worker
    /\ executions[e].generation = generation

Rows == {e \in Executions : executions[e].state # "absent"}

Enqueue(e) ==
    /\ executions[e].state = "absent"
    /\ Update(e, [executions[e] EXCEPT !.state = "queued",
                                       !.queued_order = Cardinality(Rows) + 1])
    /\ UNCHANGED <<worker_nodes, accepted, now>>

HasCapacityOffByOne(w) ==
    Cardinality(Occupied(w)) <= worker_nodes[w].sandbox_capacity

HasCapacity(w) == Cardinality(Occupied(w)) < worker_nodes[w].sandbox_capacity

Ahead(e) ==
    {x \in Executions : /\ executions[x].state = "queued"
                        /\ executions[x].queued_order < executions[e].queued_order}

(* The head of the queue, SKIP LOCKED: every transaction that locks a      *)
(* queued row also holds the lock of its Worker's row, so at most one      *)
(* earlier row per other Worker can be passed over.                        *)
NextInQueue(w, e) ==
    /\ executions[e].state = "queued"
    /\ Cardinality(Ahead(e)) <= Cardinality(Workers \ {w})

ClaimedRow(r, w) ==
    [r EXCEPT !.state = "leased", !.worker_id = w, !.generation = @ + 1,
              !.lease_expires_at = now + LeaseDuration,
              !.recovery_until = now + LeaseDuration + RecoveryWindow]

Claim(token, e) ==
    /\ AuthenticateTx(token)
    /\ HasCapacity(token.worker)
    /\ NextInQueue(token.worker, e)
    /\ WithinHorizon
    /\ Update(e, ClaimedRow(executions[e], token.worker))
    /\ UNCHANGED <<worker_nodes, accepted, now>>

BindableIgnoringLegacy(r, sandbox) ==
    /\ r.state = "leased" /\ ~r.capacity_released
    /\ r.lease_expires_at > now
    /\ r.sandbox_id \in {NoSandbox, sandbox}

BindableAgain(r, sandbox) ==
    /\ r.state = "leased" /\ ~r.capacity_released /\ ~r.cleanup_unknown
    /\ r.lease_expires_at > now

Bindable(r, sandbox) ==
    /\ r.state = "leased" /\ ~r.capacity_released /\ ~r.cleanup_unknown
    /\ r.lease_expires_at > now
    /\ r.sandbox_id \in {NoSandbox, sandbox}

BindSandbox(token, e, generation, sandbox) ==
    /\ AuthenticateTx(token)
    /\ Owns(token, e, generation)
    /\ Bindable(executions[e], sandbox)
    /\ Update(e, [executions[e] EXCEPT !.sandbox_id = sandbox])
    /\ UNCHANGED <<worker_nodes, accepted, now>>

RenewableAfterDeadline(r, recovering) ==
    /\ ~r.capacity_released
    /\ \/ ~recovering /\ r.state = "leased" /\ r.lease_expires_at > now
       \/ recovering /\ r.state \in Active

(* Heartbeat needs a current lease, Recover an open recovery window.       *)
Renewable(r, recovering) ==
    /\ ~r.capacity_released
    /\ \/ ~recovering /\ r.state = "leased" /\ r.lease_expires_at > now
       \/ recovering /\ r.state \in Active /\ r.recovery_until > now

RenewedFromOldDeadline(r) ==
    [r EXCEPT !.state = "leased",
              !.lease_expires_at = @ + LeaseDuration,
              !.recovery_until = @ + LeaseDuration]

RenewedRow(r) ==
    [r EXCEPT !.state = "leased",
              !.lease_expires_at = now + LeaseDuration,
              !.recovery_until = now + LeaseDuration + RecoveryWindow]

(* On a completed Execution renew only reports the outcome.                *)
renew(token, e, generation, sandbox, recovering) ==
    /\ AuthenticateTx(token)
    /\ Owns(token, e, generation)
    /\ executions[e].sandbox_id = sandbox
    /\ Renewable(executions[e], recovering)
    /\ WithinHorizon
    /\ Update(e, RenewedRow(executions[e]))
    /\ UNCHANGED <<worker_nodes, accepted, now>>

Heartbeat(token, e, generation, sandbox) ==
    renew(token, e, generation, sandbox, FALSE)

Recover(token, e, generation, sandbox) ==
    renew(token, e, generation, sandbox, TRUE)

AnyCompletedAcknowledged(r, result) == r.state = "completed"

(* Only the very result that is stored is acknowledged again.              *)
SameResult(r, result) == r.state = "completed" /\ r.result = result

(* A current lease; Validate asks for it before a report is read.          *)
CurrentLease(r) ==
    r.state = "leased" /\ ~r.capacity_released /\ r.lease_expires_at > now

(* Complete stores the first result and confirms an identical report.      *)
Complete(token, e, generation, result) ==
    /\ AuthenticateTx(token)
    /\ Owns(token, e, generation)
    /\ \/ /\ CurrentLease(executions[e])
          /\ Update(e, [executions[e] EXCEPT !.state = "completed", !.result = result])
       \/ /\ SameResult(executions[e], result)
          /\ UNCHANGED executions
    /\ accepted' = [accepted EXCEPT ![e] = @ \union {result}]
    /\ UNCHANGED <<worker_nodes, now>>

(* Cleanup ends an Execution that has not settled.                         *)
Settled(r) == IF r.state \in Active THEN "worker_lost" ELSE r.state

ReleasedRow(r) == [r EXCEPT !.capacity_released = TRUE, !.state = Settled(r)]

Release(token, e, generation) ==
    /\ AuthenticateTx(token)
    /\ Owns(token, e, generation)
    /\ ~executions[e].cleanup_unknown
    /\ Update(e, ReleasedRow(executions[e]))
    /\ UNCHANGED <<worker_nodes, accepted, now>>

ConfiguredWhileOccupied(token, capacity) ==
    /\ AuthenticateTx(token)
    /\ capacity \in 1..MaxCapacity
    /\ worker_nodes' = [worker_nodes EXCEPT ![token.worker].sandbox_capacity = capacity]
    /\ UNCHANGED <<executions, accepted, now>>

ConfiguredBeyondLimit(token, capacity) ==
    /\ AuthenticateTx(token)
    /\ capacity = worker_nodes[token.worker].sandbox_capacity \/ Occupied(token.worker) = {}
    /\ worker_nodes' = [worker_nodes EXCEPT ![token.worker].sandbox_capacity = capacity]
    /\ UNCHANGED <<executions, accepted, now>>

ConfigureCapacity(token, capacity) ==
    /\ AuthenticateTx(token)
    /\ capacity \in 1..MaxCapacity
    /\ capacity = worker_nodes[token.worker].sandbox_capacity \/ Occupied(token.worker) = {}
    /\ worker_nodes' = [worker_nodes EXCEPT ![token.worker].sandbox_capacity = capacity]
    /\ UNCHANGED <<executions, accepted, now>>

DueOnlyWhenLeased(r) == r.state = "leased" /\ r.lease_expires_at <= now

Due(r) ==
    \/ r.state = "leased" /\ r.lease_expires_at <= now
    \/ r.state = "recovering" /\ r.recovery_until <= now

SweptWithNewWindow(r) ==
    [r EXCEPT !.state = IF @ = "recovering" THEN "worker_lost" ELSE "recovering",
              !.recovery_until = IF r.state = "leased" THEN now + RecoveryWindow ELSE @]

SweptRow(r) ==
    [r EXCEPT !.state = IF r.recovery_until <= now THEN "worker_lost" ELSE "recovering"]

(* One batch of the background sweep.  SKIP LOCKED lets any concurrently   *)
(* locked row escape it, so any non-empty set of due rows may be the batch. *)
SweepRecovery(S) ==
    /\ S # {} /\ S \subseteq {e \in Executions : Due(executions[e])}
    /\ Cardinality(S) <= SweepLimit
    /\ executions' = [e \in Executions |->
                         IF e \in S THEN SweptRow(executions[e]) ELSE executions[e]]
    /\ UNCHANGED <<worker_nodes, accepted, now>>

CleanedRow(r) ==
    [r EXCEPT !.capacity_released = TRUE, !.cleanup_unknown = FALSE, !.state = Settled(r)]

(* The Platform Operator vouches for the rows of a revoked Worker whose    *)
(* Sandbox identity was never stored.                                      *)
ConfirmLegacyCleanup(w) ==
    /\ Provisioned(w) /\ worker_nodes[w].revoked
    /\ executions' = [e \in Executions |->
                         IF executions[e].worker_id = w /\ executions[e].cleanup_unknown
                         THEN CleanedRow(executions[e]) ELSE executions[e]]
    /\ UNCHANGED <<worker_nodes, accepted, now>>

(* BOUND: the clock runs up to MaxTime.                                    *)
Tick ==
    /\ now < MaxTime
    /\ now' = now + 1
    /\ UNCHANGED <<executions, worker_nodes, accepted>>

Operator(w) ==
    \/ \E ttl \in CredentialTTLs : Provision(w, ttl) \/ Rotate(w, ttl)
    \/ Revoke(w)
    \/ ConfirmLegacyCleanup(w)

WorkerRequest(token, e) ==
    \/ Claim(token, e)
    \/ \E generation \in 1..MaxGeneration :
          \/ \E sandbox \in Sandboxes :
                \/ BindSandbox(token, e, generation, sandbox)
                \/ Heartbeat(token, e, generation, sandbox)
                \/ Recover(token, e, generation, sandbox)
          \/ \E result \in Results : Complete(token, e, generation, result)
          \/ Release(token, e, generation)

Next ==
    \/ \E w \in Workers : Operator(w)
    \/ \E e \in Executions : Enqueue(e)
    \/ \E token \in Tokens :
          \/ \E e \in Executions : WorkerRequest(token, e)
          \/ \E capacity \in 0..(MaxCapacity + 1) : ConfigureCapacity(token, capacity)
    \/ \E S \in SUBSET Executions : SweepRecovery(S)
    \/ Tick

Spec == Init /\ [][Next]_vars

(* The Control Plane repeats the sweep on a ticker for as long as it runs, *)
(* and a lock on a row is held for one transaction only, so a row that     *)
(* stays due is swept; time passes.  Nothing is assumed of any Worker.     *)
SweepOf(e) == \E S \in SUBSET Executions : e \in S /\ SweepRecovery(S)

FairSpec == Spec /\ WF_vars(Tick) /\ \A e \in Executions : WF_vars(SweepOf(e))

-----------------------------------------------------------------------------
(* Properties.                                                             *)

(* Every row keeps the columns and ranges of its table, and the capacity   *)
(* of a Worker stays within the CHECK of migration 0004.                   *)
TypeOK ==
    /\ executions \in [Executions -> ExecutionRow]
    /\ worker_nodes \in [Workers -> WorkerRow]
    /\ accepted \in [Executions -> SUBSET Results]
    /\ now \in Nat \ {0}

(* executions_owned_state of migration 0005.                               *)
OwnedState(r) ==
    CASE r.state \in {"absent", "queued"} ->
            r.worker_id = NoWorker /\ r.generation = 0
            /\ r.lease_expires_at = Null /\ r.result = NoResult
      [] r.state \in Active \union {"worker_lost"} ->
            r.worker_id # NoWorker /\ r.generation > 0
            /\ r.lease_expires_at # Null /\ r.result = NoResult
      [] r.state = "completed" ->
            r.worker_id # NoWorker /\ r.generation > 0
            /\ r.lease_expires_at # Null /\ r.result # NoResult

(* executions_recovery_deadline of migration 0005.                         *)
RecoveryDeadline(r) ==
    IF r.lease_expires_at = Null THEN r.recovery_until = Null
    ELSE r.recovery_until > r.lease_expires_at

(* executions_unknown_cleanup of migration 0005.                           *)
UnknownCleanup(r) ==
    r.cleanup_unknown =>
        r.worker_id # NoWorker /\ ~r.capacity_released /\ r.sandbox_id = NoSandbox

(* executions_capacity_requires_owner of migration 0004.                   *)
CapacityRequiresOwner(r) == r.capacity_released => r.worker_id # NoWorker

RowChecks(r) ==
    OwnedState(r) /\ RecoveryDeadline(r) /\ UnknownCleanup(r) /\ CapacityRequiresOwner(r)

(* No statement of the store can ever fail on a CHECK or on the foreign    *)
(* key of control_plane.executions, and capacity is given back only by an  *)
(* Execution that can never run again: the statements write several        *)
(* columns each and none repeats the constraints in its WHERE clause, so   *)
(* this depends on what all the other statements left behind.              *)
SchemaChecks ==
    \A e \in Executions :
        /\ RowChecks(executions[e])
        /\ executions[e].worker_id # NoWorker => Provisioned(executions[e].worker_id)
        /\ executions[e].capacity_released => executions[e].state \in Terminal

(* A Worker never holds more reservations than its capacity, whatever      *)
(* order claims, completions, losses, releases and capacity changes come   *)
(* in; only rows inherited from before the migration can exceed it.        *)
OccupancyBound ==
    \A w \in Workers :
        \/ Cardinality(Occupied(w)) <= worker_nodes[w].sandbox_capacity
        \/ \A e \in Occupied(w) : executions[e].cleanup_unknown

(* A Worker that falls silent loses its rights within one lease, and the   *)
(* Execution is lost within one lease and one recovery window, counted     *)
(* from now: no sequence of renewals accumulates authority.                *)
BoundedAuthority ==
    \A e \in Executions :
        executions[e].state \in Active /\ ~executions[e].cleanup_unknown =>
            /\ executions[e].lease_expires_at <= now + LeaseDuration
            /\ executions[e].recovery_until <= now + LeaseDuration + RecoveryWindow

(* Complete answers success for one result per Execution, ever, and that   *)
(* result is the one stored: a retry after a lost answer is confirmed, a   *)
(* different report never is.                                              *)
AcceptedIsStored ==
    \A e \in Executions :
        accepted[e] =
            IF executions[e].state = "completed" THEN {executions[e].result} ELSE {}

(* What a step may do to an Execution that is reported as settled.         *)
StaysSettled(e) ==
    LET before == ObservedState(executions[e], now)
        after == ObservedState(executions'[e], now')
    IN  before \in Terminal =>
            after = before /\ executions'[e].result = executions[e].result

(* Once Get or Outstanding has reported worker_lost or completed, no       *)
(* operation and no passing of time makes any later report differ, even    *)
(* while the sweep has not stored the loss yet.                            *)
TerminalIsForever == [][\A e \in Executions : StaysSettled(e)]_vars

KeepsOwner(e) ==
    /\ executions[e].worker_id # NoWorker =>
          /\ executions'[e].worker_id = executions[e].worker_id
          /\ executions'[e].generation = executions[e].generation
    /\ executions[e].sandbox_id # NoSandbox =>
          executions'[e].sandbox_id = executions[e].sandbox_id

(* Execution rights are granted once: an owned Execution never changes its *)
(* Worker or generation and never returns to the queue, and a bound        *)
(* Sandbox is never rebound, whatever is retried.                          *)
OwnershipIsFinal == [][\A e \in Executions : KeepsOwner(e)]_vars

KeepsDeadlines(e) ==
    LET r == executions[e]
        s == executions'[e]
    IN  \/ r.worker_id = NoWorker
        \/ s.lease_expires_at = r.lease_expires_at /\ s.recovery_until = r.recovery_until
        \/ /\ r.sandbox_id # NoSandbox /\ ~r.cleanup_unknown
           /\ ObservedState(r, now) \in Active
           /\ s.lease_expires_at >= r.lease_expires_at
           /\ s.recovery_until >= r.recovery_until

(* Sweeps, releases, completions and an upgrade of the Control Plane keep  *)
(* the deadlines stored with a lease; only the Worker's own renewal of a   *)
(* bound Execution that is not lost moves them, and only forward.          *)
DeadlinesAreKept == [][\A e \in Executions : KeepsDeadlines(e)]_vars

Authorized(w) ==
    Provisioned(w) /\ ~worker_nodes[w].revoked /\ worker_nodes[w].expires_at > now

NeedsAuthority(e) ==
    LET r == executions[e]
        s == executions'[e]
    IN  s.worker_id # NoWorker /\ ~Authorized(s.worker_id) =>
            /\ s.worker_id = r.worker_id /\ s.generation = r.generation
            /\ s.result = r.result /\ s.sandbox_id = r.sandbox_id
            /\ s.lease_expires_at = r.lease_expires_at
            /\ s.recovery_until = r.recovery_until
            /\ s.capacity_released = r.capacity_released \/ r.cleanup_unknown

(* While a Worker's credential is revoked or expired, no step claims for   *)
(* it, binds, renews, completes or releases one of its Executions; what    *)
(* remains is the sweep and the Operator's own legacy cleanup.             *)
RevokedIsPowerless == [][\A e \in Executions : NeedsAuthority(e)]_vars

(* The deadlines that the clock can reach, of claims, renewals and the     *)
(* rows of migration 0005.                                                 *)
Deadlines ==
    ({granted + LeaseDuration + RecoveryWindow : granted \in 1..MaxTime}
        \union {lease + LegacyWindow : lease \in LegacyLeases}) \intersect 1..MaxTime

(* Every lease settles durably unless its Worker renews it: nothing caps   *)
(* the renewals, but whatever deadline they have left, either another one  *)
(* moves it forward or the sweep alone, with nobody polling, drives the    *)
(* Execution through recovering to worker_lost.  So the lease of a Worker  *)
(* that fell silent or lost its credential does not stay open.             *)
EveryLeaseSettles ==
    \A e \in Executions, deadline \in Deadlines :
        executions[e].state \in Active /\ executions[e].recovery_until = deadline
            ~> \/ executions[e].state \in Terminal
               \/ executions[e].recovery_until > deadline

(* The tables seen through Get: the abstract lifecycle of each Execution.  *)
PhaseOf(r, t) ==
    LET observed == ObservedState(r, t)
    IN  IF observed \in Active THEN "active"
        ELSE IF observed = "worker_lost" THEN "lost" ELSE observed

phaseMap == [e \in Executions |-> PhaseOf(executions[e], now)]
holderMap == [e \in Executions |-> executions[e].worker_id]
outcomeMap == [e \in Executions |-> executions[e].result]
reservedMap == [e \in Executions |-> executions[e].worker_id # NoWorker
                                       /\ ~executions[e].capacity_released]
limitMap == [w \in Workers |-> worker_nodes[w].sandbox_capacity]

Lifecycle == INSTANCE ExecutionLifecycle WITH
    phase <- phaseMap, holder <- holderMap, outcome <- outcomeMap,
    reserved <- reservedMap, limit <- limitMap

(* The store implements the abstract lifecycle, with the passing of a      *)
(* deadline, not the later sweep, as the moment an Execution is lost.      *)
ImplementsLifecycle == Lifecycle!Spec
=============================================================================
