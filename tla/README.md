# Verification of the Sandbox platform

TLA+ models of the platform in this repository: a Control Plane that keeps a durable
queue of Executions, Workers that lease them, and a privileged Sandbox Supervisor on
each Worker's machine that runs them. TLC checks the models on small instances
(`*.cfg`), TLAPS proves every safety property of the passing runs for every value of the constants.
`PROJECT.json` lists components, runs, mutants, hazards, theorems and, under `map`,
the source lines of every definition.

    tlc -workers 2 -config queue_contention.cfg MCExecutionQueue
    tlapm ExecutionQueueProofs.tla

## 1. Inventory

| Component | State it keeps | Operations | Correct when |
|---|---|---|---|
| Execution queue (`internal/executionqueue`, `migrations/sql/0003..0005`) | `control_plane.executions`: state, owner, generation, deadlines, result, Sandbox, `capacity_released`, `cleanup_unknown` | Enqueue, Claim, BindSandbox, Heartbeat, Recover, Complete, Release, ConfigureCapacity, SweepRecovery, ConfirmLegacyCleanup; Get, Outstanding, Validate read | an Execution has one owner and one outcome, capacity is never exceeded, a reported loss is final, no CHECK constraint is ever hit |
| Worker credentials (`internal/workercredential`) | `control_plane.worker_nodes`: digest, generation, expiry, revocation | Provision, Rotate, Revoke, AuthenticateTx | a Worker without a good credential changes nothing |
| Recovery sweep (`cmd/control-plane`) | a ticker | SweepRecovery, repeated | every lease that is not renewed settles |
| Worker API (`internal/workerapi`) | 64 request tokens, one report token | HTTPS routes over the queue, long poll | a lost answer is harmless |
| Worker node (`internal/worker`, `cmd/worker`) | slots, `active`, `unsafe`, a lease monitor per claim | RunOnce, maintainLease, heartbeatLoop, waitForAuthority, cleanup, reconcileTerminals | work stops before the queue declares it lost; no Sandbox is orphaned; results are genuine |
| Sandbox Supervisor (`internal/sandboxsupervisor`) | `active`, `retired`, directories, result slots and bytes, one operation per connection | create, execute, destroy, inspect, read a result, wait, teardown, shutdown | Destroy is complete, identity ranges are disjoint, results are exact and immutable |
| Sandbox Init (`init_linux.go`, ...) | two pipes to the Supervisor, SIGCHLD, the children it adopts | start, run, reap; the launch gate; one waiter for all children; draining | nothing runs outside its cgroup, nothing of one Execution reaches the next, exit statuses are the main process's, every Execution ends |
| Resource isolation (cgroups, seccomp, storage, privileges) | the Execution's cgroup and its event counters | create, attach, kill and wait, count, remove | as for Init; the rest is sequences of kernel calls |
| Output extraction (`extraction_linux.go`) | none | bounded reads of Sandbox files | it runs alone in the Sandbox, and its bytes are charged |
| Profile bundles (`internal/profilebundle`) | the Bundle file; the store's `.staging` and `sha256` directories | Build; Install by stage, sync, rename, compare, roll back | the store shows whole, approved trees only, also after a crash; what Build makes installs and runs |
| System call policy (`internal/systemcallpolicy`) | none | validate, compile to BPF | the filter decides as the policy reads |
| Schema migrations (`internal/migrations`) | schema history, advisory lock | load, lock, bootstrap, compare, apply, `--status` | history is the schema, releases are never mixed, what is confirmed is applied |
| Operator commands, runtime lab | none | wiring, a teaching tool | not modelled |

**Interaction.** A Worker reaches the queue through HTTPS; each request is one
transaction, and its answer may be lost after it committed. A Worker reaches its
Supervisor through a Unix socket, one connection per request; closing the connection
is the only way to cancel, and the Supervisor learns of it asynchronously. The Worker,
the queue and the Supervisor share no memory: what ties them together is the row of
the Execution, the Sandbox id bound to it, and time.

**What is hard.** Heartbeats, recovery, completion, release and the sweep race at
deadlines. Answers arrive late, so the Worker must count time from the start of its
requests. A restarted Worker knows nothing but the inventory of the queue. Inside the
Supervisor, Init's death, a client's hang-up, Destroy and shutdown meet in goroutines
that wait for each other. Between the Supervisor and Init, signals are coalesced, processes
leave their cgroup before they can be reaped, and a deadline can strike at every message.
Installers race, fail and crash between rename and sync. A migration's client and its
session on the server part ways. `PROJECT.json` lists each hazard at its line.

## 2. Modules

| Module | Models | Used by |
|---|---|---|
| `ExecutionLifecycle` | abstract specification of the queue: no clock, no leases | refinement target |
| `ExecutionQueue` | queue, credentials, sweep | `MCExecutionQueue`, `WorkerNode` |
| `ExecutionQueueProofs`, `ExecutionQueueRefinement` | theorems about the queue, and that it implements `ExecutionLifecycle` | `WorkerNodeProofs` |
| `SandboxSupervisor` | the Supervisor's goroutines | `MCSandboxSupervisor` |
| `WorkerNode` | a Worker, composed with `ExecutionQueue` | `MCWorkerNode` |
| `InitHandshake` | one Sandbox: handler, Init, the Workload's processes, the cgroup | `MCInitHandshake` |
| `SystemCallPolicy` | pure: validity, compiler, the kernel's filter machine, meaning | `ProfileInstall` |
| `ProfileRootFS` | pure: Build's and the installer's rules for a root filesystem | `ProfileInstall` |
| `ProfileInstall` | Build, installers, the store, crashes, the choice of a filter | `MCProfileInstall` |
| `MigrationRunner` | `agentctl migrate` and its sessions on the server | `MCMigrationRunner` |
| `SystemCallPolicyProofs` | that the compiler of policies is right | `ProfileInstallProofs` |
| `SandboxSupervisorProofs`, `WorkerNodeProofs`, `InitHandshakeProofs`, `ProfileInstallProofs`, `MigrationRunnerProofs` | theorems about the module each is named after | |

### ExecutionQueue

`executions` and `worker_nodes` are the two tables, `now` is `clock_timestamp()`,
`accepted` records which results Complete has acknowledged. One action is one committed
transaction: AuthenticateTx locks the Worker's row until commit, so requests of one
Worker are serial; an aborted transaction, or one whose WHERE clause finds nothing, is
a stuttering step. Repeating a request, after a lost answer or otherwise, is possible
in every state. A token is a Worker and a credential generation, since rotation
replaces the digest and increments the generation together. The initial states include
every table that migration 0005 can leave behind.

### SandboxSupervisor

An *operation* is one control connection. A Sandbox is named by the operation that
created it, because the code compares `*createdSandbox` pointers and an id can be
created twice. One action is one critical section of `creator.mu`, `results.mu` or
`operation.mu`, or the return from one blocking wait. Kernel and file-system calls
succeed or fail nondeterministically. The AfterFunc that propagates a hang-up
(`CancelOwned`), the death of Init (`InitExits`, `KillInit`) and the goroutine that
waits for it (`Wait`) are processes of their own.

### WorkerNode

`slots[k]` is the RunOnce of one goroutine, `monitors[k]` its lease monitor with the
heartbeat loop and the watchdog, `node` the shared `active`, `unsafe` and context,
`supervised` what the Worker relies on of the Supervisor (requested, holding
resources, gone; client connected or hung up), `strays` the requests whose caller has
given up and which may still commit. The commit and the receipt of Claim, Heartbeat and
Recover are separate steps. `Restart` ends the process at any point and starts it with
an empty memory. The tables change only through the actions of `ExecutionQueue`.

### InitHandshake

Opens what `SandboxSupervisor` has as `RunComplete` and `RunIncomplete`. `handler` is
`creator.execute` with the reader goroutine of `waitBudgetedExecution`, `init` is
`RunInit`, `requests` and `responses` are the pipes (the first together with the channel
behind it), `processes` the process table of the namespace, `cgroup` and `events` the
Execution's cgroup and the budget's counters. An action is what happens between two
messages, waits or kernel events. The kernel is the adverse one: a killed process
dies when it likes, leaves the cgroup first, becomes a zombie later, and only then are
its children given to Init; SIGCHLD is pending, then buffered once, then dropped.
The counters belong to the budget's cgroup, which holds Init too and outlives the
Executions: an event is the Workload's, while it runs, or Init's, at any time, and Init
may die of it. The handler reads them twice, `before` and `after`; at `counted` the second
reading is made, and the reason follows from the two whatever the counters do meanwhile.
`history` records what happened since the Execution began (an event of either kind, one
that its own Workload met, an exit in hand before the deadline); no action reads it, and
`ResultIsGenuine` holds the result against it.
`Fail`, `WaitFails`, `InitFails` and `Cancel` let every call, timer and context strike.

### SystemCallPolicy, ProfileRootFS

Pure operators without state. `compileInstructions` emits the program with its labels
and patches its jumps as the code does, `Decision` is the kernel's machine, and `Allows`
is the meaning of a policy over whole unsigned numbers, the reference. Words have
`WordBits` bits instead of 32, and a value is two words. `ProfileRootFS` has Build's view of the
root filesystem (`BuildAccepts`, by names) and the installer's (`extractRootFS`, by
making files), with `Resolve` as what the kernel finds at a path.

### ProfileInstall

`final` is what `sha256/<digest>` names, `staged` the staging directories, `tree` and
`data` what each tree holds and which of its files are synced, `disk` the last committed
metadata, and `source`, `output` and `approved` the Bundle before Build, at its output name and
as the operator approves it. `Crash` returns the names to `disk` and the files to what
was synced. The journal is ordered: a commit takes everything before it, as ext4 and XFS
do. The code needs that: `ensureStoreDirectory` never syncs the store's root, so on a
filesystem that orders nothing a first installation could be lost with its directory.

### MigrationRunner

A run is a client (`pc`, `version`) and a session on the server (`session`,
`transaction`). The client gives up, is killed or loses its connection at any point; the
session goes on until it notices, and carries out a commit that was sent. `schema` is the
sequence of files whose SQL is committed, which the code cannot see; `history` is the
table it relies on.

## 3. Runs

| Run | Instance | Shows |
|---|---|---|
| `queue_contention` | 2 Workers, 2 Executions, fresh and migrated tables, clock to 4 | types, CHECK constraints, capacity, released rows are settled, refinement of `ExecutionLifecycle` |
| `queue_leases` | 1 Worker with 2 credentials, 2 Executions, Sandboxes, results, clock to 5, fair clock and sweep | authority never accumulates; outcomes, ownership, deadlines are final; revoked means powerless; whatever deadline the renewals have left, it is renewed again or the sweep settles the lease |
| `supervisor_requests` | 4 connections, 3 at a time, 1 id, 2 Executions, 1 identity range, 2 slots, 3 bytes | Destroy is complete; a Sandbox is cancelled only for a cause; what was not delivered is torn down; the result store is exact and bounded; results are immutable, run once, and survive |
| `supervisor_identities` | 3 connections, 2 ids that clients may retry, 2 ranges | live Inits share no id and no range; a retired id stays dead |
| `supervisor_liveness` | 3 connections, fair goroutines | every request ends, shutdown drains |
| `supervisor_recreate` | 4 connections, ids retried | **violated**: see finding 1 |
| `node_authority` | 1 slot, 2 Executions, 2 Sandboxes, 1 stray request, 1 restart, clock to 3 | the watchdog never outlives the database's deadline; stored results are genuine; no Sandbox is orphaned; the active set is exact |
| `node_slots` | 2 slots, 1 Execution, fresh and migrated tables, fair timers and goroutines | reconciliation never cleans up what another slot works on; every claimed Execution ends even if the Control Plane is silent |
| `node_overtaken` | 1 slot | **violated**: see finding 2 |
| `handshake` | 2 Executions, a main process and a descendant, 1 event of each kind, fair handler | nothing runs uncharged; nothing is left between Executions; outputs are read alone; no wake-up is lost; a result has the main process's own status and the reason that the counters, the Workload's own events and the deadline give; every Execution ends |
| `install` | 2 installers, 1 crash, the root filesystems, policies and calls of `MCProfileInstall` | the store shows whole, approved trees; what Install reports is true: success is durable, failure leaves nothing; what Build makes installs, and runs if its links go up only first; the filter is the policy |
| `migrations` | 2 runs over 4 sources, fair deadline and cancellation | history is the schema; releases are not mixed; confirmed is applied; `--status` is settled; the lock is released, unless a killed client or a broken connection leaves its SQL running |

Every property of a passing run has a mutant in `PROJECT.json`: a plausible bug in one
definition under which TLC finds that property violated.

**Bounds.** `MaxTime` stops the clock. With a lease and a window of one tick each, 4
ticks are a claim, an expiry, a loss and a tick after it; 5 add one renewal. Two
Workers, Executions and credentials are what the races need: an owner and a rival, the
row that is next and the one behind it, the token before and after a rotation.
`MaxGeneration` lets a request name one generation too many. For the Supervisor, three
or four one-shot connections are a creation, a use, a Destroy and a rival; its limits
(connections, slots, bytes, identity ranges) are set so low that they are met.
`MaxStrays` and `MaxRestarts` are 1. In the handshake, two Executions are one that leaves
something behind and one that would meet it, and a descendant is an orphan, a daemon or
a child; one event of each kind in two Executions falls into either, or between them, and is the
Workload's or Init's. `MCProfileInstall` lists inputs that clash, nest,
loop, escape or use a reserved name, policies with every operator at the edges of both words
(words of 4 bits) and the calls around them; a third installer would only repeat the second's
part. Two migration runs are a run and its rival or successor; the safety properties were
also checked with three. Runs of the queue check for deadlock; the others
do not, because a Supervisor without clients, and a Worker that has stopped, are
legitimately idle. Symmetry is used only in runs without liveness properties.

**Fairness.** Queue: time passes, and a row that stays due is swept, because
`cmd/control-plane` repeats the sweep on a ticker, oldest lease first, and a row
lock lasts one transaction. Supervisor: its own goroutines run, a process whose context
is done is killed (`exec.CommandContext`), and waits on Init and the kernel have
deadlines in the code; clients and living Inits owe nothing. Worker: time passes, the
watchdog timer fires, RunOnce takes the steps it can or meets one of its deadlines
(`ReportTimeout`, `CleanupTimeout`, the Supervisor's limits); the Control Plane and the
heartbeats owe nothing. Handshake: the handler and its reader run, the deadline's timer
fires, and the kernel ends a namespace whose Init was killed; every other wait of the
handler has a deadline in the code. Init and the Workload owe nothing. Migrations: the
command's deadline ends a run, a cancel request arrives if the context ended (the watcher of
`migrate.go:57` acts on nothing else), and PostgreSQL ends an idle session whose client is
gone. How long SQL runs is open: a client that was killed, or whose connection broke before its
context ended, exits without asking for a cancel, and while its SQL runs the lock stays; the
property excepts exactly that.
The code caps no renewal, so a Worker that goes on sending heartbeats keeps its lease;
`EveryLeaseSettles` therefore asks of each deadline that it is moved forward or that the
Execution is settled, and does not lean on the end of the clock.

## 4. Proofs

One module per component holds its theorems. An inductive invariant is shown to hold
initially and to be kept by every action, one lemma per action or kind of step; each
property is then a consequence of it. `PROJECT.json` lists the results.

### ExecutionQueue

`ExecutionQueueProofs` proves, from the assumptions named in `ExecutionQueue` (null
values are not values, Workers and Executions are finite, durations are positive, the
default capacity is within its CHECK):

* `TypeCorrect`, `SchemaSafe`, `AuthoritySafe`, `ResultSafe`. None of
  these is inductive alone: that a result was accepted only if stored needs the
  `executions_owned_state` CHECK, that CHECK needs the shape of every row, and so on.
  The inductive invariant is `TableInv`: `TypeOK`, and for every row its consistency
  (`RowOK`), its bound on deadlines (`RowBounded`), its accepted results
  (`RowAccepted`) and a provisioned owner. One lemma per row transformation
  (`ClaimedRowOK` ... `SweptRowOK`) shows that a rewritten row is good again;
  `UpdatePreserves` and `RowsPreserve` lift that to the table.
* `TerminalSafe`, `OwnershipSafe`, `DeadlinesSafe`, `RevocationSafe`: action
  properties. `StepOfRow` reduces every step of `Next` to what it can do to one row;
  each property then follows from that row's step under `TableInv`.
* `OccupancySafe`: capacity, by a cardinality argument on top of `TableInv`: only Claim
  adds a reservation, it adds one, and a capacity is changed only while nothing is
  reserved. Rows from before migration 0005 are counted apart, as the code admits them.

`ExecutionQueueRefinement` proves `QueueImplementsLifecycle`: initial states map to
initial states and every step to an abstract step or a stutter. The mapping reads the
state as Get reports it, so an Execution is lost when its recovery deadline passes:
`Tick` is the abstract loss, and the sweep that later stores it is a stutter.

### MigrationRunner

`MigrationRunnerProofs`, for any number of runs and any sources (assumed: a source is a
sequence of entries with the three fields). `RunnerInv` says that at most one session
holds the lock, that a transaction is open only under it, and that whoever has one open
has compared the whole schema with its own files. So the only commit that can happen next
extends the schema by the next file of a source that agrees with everything before it.
`HistoryIsSchema` and `ConfirmedIsApplied` do not say who may commit, which is why they
are not inductive: a client that gave up leaves a session whose commit still arrives, and
`RunOK` is what ties the two. `StatusIsSettled`, an action property, follows from the lock.

### SystemCallPolicy

`SystemCallPolicyProofs` proves `CompilerIsRight`: for every policy that `Parse` accepts and
every call, the kernel's machine on the compiled program returns what `Allows` says, for any
word width, instruction limit and table of system calls (assumed: words have at least two
bits, different names have different numbers, none of them an x32 number).

* *What is written stays.* `Grows` and `Completes` say that an operation of the assembler only
  adds instructions, labels and jumps, so a jump in the finished program goes where its
  label was marked in the end. `Visits` and `Reaches` are what a run of the finished program
  does from a line; each operation (`condition`, `HighWord`, `LowWord`, `Argument`, `Name`, `Rule`)
  has a lemma of that form, and the program is their composition.
* *Two words are one number.* The high word decides unless it is equal; `not-equal`,
  the orders and `masked-equal` are split as the code splits them.
* *Loops.* Rules, names and arguments are recursive functions over an interval. Induction is
  done with a set of numbers (`Induction`, from a least counterexample), first to show that
  such a function exists and then what it computes.
* *The first rule that names a call decides.* `Allows` lets any rule do so. That is the same
  because a valid policy has each name in one rule (`OneRule`): the order that `validate`
  demands is what this rests on.

### ProfileInstall

`ProfileInstallProofs`, for any installers, sources and number of crashes (assumed:
`None` is no digest, installer or result, and policies, calls and locks have the types of
their decoders: `PolicyAssumption`, `LockAssumption`).

*The store.* The journal holds a second copy of it, so `InstallInv` states what holds of
the final name twice, of memory and of `disk`; a crash then only exchanges one for
the other. Of an installer it records what its stage has made and synced (`StageOK`) and,
once it answered, on what its answer rests (`ResultOK`): its own rename that the journal
has, or one that its maker may still withdraw. `FilterIsThePolicy` is that the filter is the
approved one, and `CompilerIsRight`.

*What Build makes.* `BuiltInstalls` needs of the installers only `BuildInv`, on top of
`InstallInv`: what Build published passed its own checks, and no copy of it was rejected.
The rest is about paths, for root filesystems of any size and depth:

1. `BuildEntriesAreClosed`: what Build's checks let pass is a `Closed` set of entries: names
   are unique, relative and not above one another, links stay inside, everything fits.
2. `SortedArchiveExists`: such a set can be put in the order of its names (each entry at its
   rank), so `buildRootFS` has an archive to choose.
3. `SortedArchiveUnpacks`: unpacked in that order, a closed set meets none of the installer's
   refusals and leaves exactly its own files, links and directories.
4. `ChainIsInstalled`: the names that Build follows from the entrypoint are those that
   the installer's `Lstat` loop follows, so the installer agrees.
5. `ChainRuns`: the kernel's walk, segment by segment, reaches each entry of that chain
   in turn (`LinkRuns`), within `ResolveLimit` steps: up to the link's directory, and down
   through directories that are there. This needs links that go up only first (`Plain`).

The hypothesis `Plain` was found by the proof: Build and the installer resolve a link with
`path.Clean`, by its text, so a target like `missing/../python3`, or one that comes back up from
below another link, passes both although a kernel cannot follow it (section 5).

### InitHandshake

`InitHandshakeProofs`, for any set of descendants and any number of Executions and events
(assumed: the names of processes are distinct). `HandshakeInv` has three threads. While
Init serves, the two pipes hold at most one frame, and which one follows from where
handler and Init are. The processes form a forest below Init: each has a rank
smaller than its parent's, so an Init without children has seen the last process, by a
minimal element of a well-founded order; this is what `CleanBetween` rests on, since a process
may be dead, outside its cgroup and not yet reaped. And any SIGKILL the main process could
have died of has a cause that the terminal reason will name, unless the Execution will not
complete; without it `ResultIsGenuine` is not inductive. Init's own events may follow the
second reading, so the cause is sought in `after` once it is made. A second invariant,
`HistoryOK`, is carried on top: nothing of the Workload runs once the counters are read for
the second time, so whatever it met is in that reading, and the deadline fires only while the exit is
still to come.

### SandboxSupervisor

`SandboxSupervisorProofs`, for any finite sets of connections and ids and any budgets.
`SupervisorInv` fits together the registry, the execution mutexes, the result slots and
the place of every handler: a Sandbox is registered until its teardown is over, whoever
holds its mutex keeps it registered, the holder has the slot it reserved, and the mutex of
a Sandbox that is done is never taken again, so what Destroy removed does not come back.
That `reservedBytes` is exact is a fact about a sum over the slots; how the sum changes
when one slot does is proved from a least counterexample (`LeastNumber`). `OneResult` and
`ResultsSurvive` are proved under the hypothesis `~RetryIds`, no client creates an id
twice, which the Worker guarantees with ids of 128 random bits; without it
`ResultsSurvive` is false (finding 1). `FreshInv` is what the hypothesis adds.

### WorkerNode

`WorkerNodeProofs`, for any number of slots, Executions, Sandboxes, strays and restarts
(assumed: the Worker is one of the Workers, it has a slot and no more than the capacity
limit, and a first credential and a first lease exist). Each step is first reduced to a *move*
(`NodeMove`), which says only what matters of it; the invariant `NodeInv` is then built in
layers, each inductive given those below.

1. `ShapeInv`: what the place of a slot says of its fields, and the parameters of
   requests. `NodeImplementsQueue` follows: the tables go through a behaviour of
   `ExecutionQueue`, and every theorem about the queue holds of the composition.
2. `OwnerInv`: slots and strays name rows of this Worker only; an inventory, however old,
   lists rows that are settled for good; the active set is exact; no two slots own
   the same Execution. `NodeTypeOK` and `ReconcileIsExclusive` follow.
3. `TimerInv`: an answer that was granted lies within the row's deadline, because the
   deadline was computed after the request started and never moves back; hence
   `WatchdogInTime`.
4. `PairInv`: whoever names the Sandbox of an Execution (row, slot or stray) names
   the same one, and no other Execution has it.
5. `LifeInv`: how far the Sandbox of a slot has come, that one in use is bound to
   some row, and that a Complete on its way carries the result of a run that ended; hence
   `CompletedIsGenuine`.
6. `ReleaseInv`: Release is sent, or committed, only for an Execution to which no slot will
   give a Sandbox any more and whose Sandbox nobody uses: it is gone, or its client has
   hung up. This is stable under every move, a creation overtaken by its Destroy
   included, and gives `NoOrphan`.

### Only model-checked

Liveness under fairness (`EveryLeaseSettles`, `EveryRequestEnds`, `EveryRunEnds`,
`EveryExecutionEnds`, `LockIsReleased`), which is out of the prover's reach. The inductive
invariants were checked by TLC on the instances of the runs before they were proved. What the
library's induction theorems cannot do here, an induction over an operator, is done with sets
of numbers and recursive functions instead.

## 5. Findings

1. `supervisor_recreate`, `ResultsSurvive`. `destroy` waits for the Sandbox it found
   and then calls `results.removeSandbox(id)` by id (`lifecycle_linux.go:99`). If that
   Sandbox was a creation that failed and rolled back, its id is free again, and the
   results of a new Sandbox of that id are removed. A Worker never retries an id, so
   only other clients can meet this; with fresh ids the property holds
   (`supervisor_requests`).
2. `node_overtaken`, `ReleasedIsClean`. A Worker that gives up on a creation sends
   Destroy at once. If the creation has not reserved its id yet, Destroy finds nothing
   and answers success, Release commits, and the creation then takes its resources
   until the Supervisor notices the hang-up. `NoOrphan` and `DeliveryDecides`
   show that the overlap is temporary.

Three limits of Install are visible in the model and are not violations of what the docs
promise. A success by comparison (`install_linux.go:158`) rests on another installer's
rename, which that one may still withdraw: `ReportIsTrue` says exactly when. A
rollback is not synced, so a crash can bring back an identity whose installer reported
failure; it is whole (`FinalIsWhole`). And both sides resolve the links of an entrypoint by
their text (`build.go:396-423`, `install_linux.go:763`: `path.Clean`), while the kernel walks
every segment: an entrypoint that links to `missing/../python3` is built and installed although
nothing can run it. `BuiltInstalls` therefore promises a running entrypoint only of
Bundles whose links go up only before they go down (`Plain`); that they install is promised
of all.

## 6. Not modelled

Framing, JSON and token syntax, TLS, tar headers and credential files (data); namespaces, mounts,
capabilities, quotas and file-system checks (kernel calls without state of their own, whose
failure is an outcome in `SandboxSupervisor` and `InitHandshake`); flag parsing and wiring; health checks,
which only read; the runtime lab. A crash of the Supervisor is not modelled: the
code keeps nothing durable and does not reconcile what a crash leaves behind. The database
is assumed to be serializable per Worker row as described above; a transaction reads
the clock once in the model, several times within milliseconds in the code.

## 7. Plan

Every safety property of the passing runs is proved. What is left, in this order:

1. An abstract specification of a Sandbox as a Worker sees it, which `WorkerNode`'s
   `supervised` follows and `SandboxSupervisor` implements, so that the theorems of the two
   modules meet.
2. Action properties worth stating of the node: that a Sandbox id is never reused, and
   that nothing starts to run for an Execution that was reported lost.
3. A meaning for a policy's JSON (repeated members, aliases), for which `scanJSONValue` exists.

A model worth adding: the transactions of the queue at the grain of statements and row
locks, refining `ExecutionQueue`, for what a Get sees while a commit is slow.
