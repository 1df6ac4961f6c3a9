-------------------------- MODULE SandboxSupervisor --------------------------
(***************************************************************************)
(* The privileged Sandbox Supervisor (internal/sandboxsupervisor): the     *)
(* goroutines that serve control connections, create Sandboxes, run        *)
(* Executions in them, wait for their Init and tear them down, and the     *)
(* store of retained Execution Results.                                    *)
(*                                                                         *)
(* An operation is one control connection with one request.  A Sandbox     *)
(* (a createdSandbox in the code) is named by the operation that created   *)
(* it, so two creations of one Sandbox id are two Sandboxes: the code      *)
(* compares pointers.  One action is one critical section of creator.mu,   *)
(* results.mu or operation.mu, or one blocking wait; what a goroutine does *)
(* to its own locals is joined to the critical section before it.          *)
(*                                                                         *)
(* A step that may fail for reasons outside the process (cgroups, pipes,   *)
(* clone, directory removal, socket writes) has both outcomes.  Namespaces,*)
(* mounts, seccomp and the bytes of a result are left out: a result is     *)
(* named by the operation that produced it.                                *)
(***************************************************************************)
EXTENDS Integers, FiniteSets, FiniteSetsExt

CONSTANTS
    Operations,         \* control connections, each used once
    SandboxIds,
    ExecutionIds,
    Nobody,             \* a nil pointer, an absent parameter
    Kinds,              \* the requests clients make
    RetryIds,           \* whether clients create an id again (else ids are fresh)
    PathCounts,         \* numbers of output paths an Execution declares
    IdentityBlocks,     \* SubIDCount / sandboxIdentityCount
    MaxConnections,     \* maximumConcurrentControlConnections
    MaxResults,         \* maximumRetainedExecutionResults
    MaxResultBytes,     \* maximumRetainedOutputBytes
    OutputBytes,        \* budget.StdoutBytes + budget.StderrBytes
    FileBytes, ExecutionBytes, SandboxBytes    \* budget.Extraction

ASSUME NobodyAssumption == Nobody \notin Operations \union SandboxIds \union ExecutionIds

ASSUME SetAssumption ==
    /\ IsFiniteSet(Operations) /\ IsFiniteSet(SandboxIds) /\ IsFiniteSet(ExecutionIds)
    /\ Kinds \subseteq {"create", "execute", "destroy", "inspect", "read"}
    /\ RetryIds \in BOOLEAN
    /\ PathCounts \subseteq Nat

ASSUME BudgetAssumption ==
    /\ IdentityBlocks \in Nat \ {0}
    /\ MaxConnections \in Nat \ {0}
    /\ MaxResults \in Nat /\ MaxResultBytes \in Nat
    /\ OutputBytes \in Nat /\ FileBytes \in Nat
    /\ ExecutionBytes \in Nat /\ SandboxBytes \in Nat

VARIABLES
    operations,     \* one control operation per connection
    sandboxes,      \* one createdSandbox per creating operation
    active,         \* creator.active: id -> Sandbox
    retired,        \* creator.retired
    directories,    \* ids that name a directory under the Sandbox root
    slots,          \* creator.results.slots
    reservedBytes,  \* creator.results.reservedBytes
    closed          \* creator.ctx is cancelled: the Supervisor shuts down

vars == <<operations, sandboxes, active, retired, directories, slots, reservedBytes, closed>>
registry == <<active, retired, directories>>
results == <<slots, reservedBytes>>

-----------------------------------------------------------------------------
Pointers == Operations \union {Nobody}
References == SandboxIds \X ExecutionIds

Operation ==
    [pc : {"idle", "request", "start", "ready", "unwind", "reserve", "begin", "run",
           "await", "finish", "drain", "respond", "linger", "closed"},
     kind : {"none"} \union Kinds,
     id : SandboxIds \union {Nobody}, execution : ExecutionIds \union {Nobody},
     paths : Nat,
     sandbox : Pointers,        \* the Sandbox the handler works on
     owns : BOOLEAN,            \* operation.sandbox is set
     armed : BOOLEAN,           \* stopCancellation would still stop something
     cancelled : BOOLEAN,       \* operation.ctx
     ran : BOOLEAN,             \* the workload was handed to Init
     snapshot : Pointers,       \* the result produced or read
     extracted : Nat,           \* bytes of its extracted outputs
     code : {"none", "ok", "error"},    \* every ErrorCode is "error"
     delivered : BOOLEAN]       \* kept where complete looks at it

Sandbox ==
    [identityOffset : 0..(IdentityBlocks - 1),
     cancelled : BOOLEAN,       \* sandbox.ctx
     process : {"none", "alive", "dead"},
     published : BOOLEAN,       \* sandbox.process # nil, the wait goroutine runs
     terminating : BOOLEAN, exited : BOOLEAN, done : BOOLEAN, cleanupErr : BOOLEAN,
     execution : Pointers,      \* holder of the execution mutex
     extractedBytes : Nat]

Slot ==
    [by : Pointers,             \* the operation that reserved it
     reserved : Nat, extraction : Nat, published : BOOLEAN]

NoSlot == [by |-> Nobody, reserved |-> 0, extraction |-> 0, published |-> FALSE]

NewSandbox(offset) ==
    [identityOffset |-> offset, cancelled |-> FALSE, process |-> "none",
     published |-> FALSE, terminating |-> FALSE, exited |-> FALSE, done |-> FALSE,
     cleanupErr |-> FALSE, execution |-> Nobody, extractedBytes |-> 0]

Init ==
    /\ operations = [o \in Operations |->
          [pc |-> "idle", kind |-> "none", id |-> Nobody,
           execution |-> Nobody, paths |-> 0, sandbox |-> Nobody,
           owns |-> FALSE, armed |-> FALSE, cancelled |-> FALSE, ran |-> FALSE,
           snapshot |-> Nobody, extracted |-> 0, code |-> "none", delivered |-> FALSE]]
    /\ sandboxes = [o \in Operations |-> NewSandbox(0)]
    /\ active = [id \in SandboxIds |-> Nobody]
    /\ retired = {}
    /\ directories \in SUBSET SandboxIds    \* leftovers of an earlier Supervisor
    /\ slots = [ref \in References |-> NoSlot]
    /\ reservedBytes = 0
    /\ closed = FALSE

IdOf(o) == operations[o].id
Target(o) == operations[o].sandbox
At(o, pc, kind) == operations[o].pc = pc /\ operations[o].kind = kind
RefOf(o) == <<operations[o].id, operations[o].execution>>

(* operation.ctx and sandbox.ctx are children of creator.ctx.              *)
Abandoned(o) == operations[o].cancelled \/ closed
StoppedAlone(b) == sandboxes[b].cancelled
Stopped(b) == sandboxes[b].cancelled \/ closed

Outcome(succeeds) == IF succeeds THEN "ok" ELSE "error"

(* The operation, when its handler is left with this answer.               *)
Answered(o, code) == [operations EXCEPT ![o].pc = "respond", ![o].code = code]

-----------------------------------------------------------------------------
(* Serve and handle: connections, abandonment, delivery.                   *)

Serving == {o \in Operations : operations[o].pc \notin {"idle", "closed"}}

Used(id) == \E o \in Operations : operations[o].kind = "create" /\ IdOf(o) = id

Accept(o, kind, id, execution, paths) ==
    /\ operations[o].pc = "idle" /\ ~closed
    /\ Cardinality(Serving) < MaxConnections
    /\ kind = "create" => RetryIds \/ ~Used(id)
    /\ operations' = [operations EXCEPT
          ![o].pc = "request", ![o].kind = kind, ![o].id = id,
          ![o].execution = execution, ![o].paths = paths]
    /\ UNCHANGED <<sandboxes, registry, results, closed>>

(* All connection slots are taken: the connection is closed unanswered.    *)
Drop(o) ==
    /\ operations[o].pc = "idle" /\ ~closed
    /\ Cardinality(Serving) >= MaxConnections
    /\ operations' = [operations EXCEPT ![o].pc = "closed", ![o].code = "error"]
    /\ UNCHANGED <<sandboxes, registry, results, closed>>

(* Malformed requests, bad references, missing Profiles or attachments,    *)
(* and a Mkdir that fails although the name is free.                       *)
Reject(o) ==
    /\ operations[o].pc = "request"
    /\ operations' = Answered(o, "error")
    /\ UNCHANGED <<sandboxes, registry, results, closed>>

(* The client closes its connection, or sends more bytes, before the       *)
(* answer.  For the other requests only the failed delivery matters.       *)
Abandon(o) ==
    /\ operations[o].pc \notin {"idle", "linger", "closed"}
    /\ operations[o].kind \in {"create", "execute"}
    /\ ~operations[o].cancelled
    /\ operations' = [operations EXCEPT ![o].cancelled = TRUE]
    /\ UNCHANGED <<sandboxes, registry, results, closed>>

(* The AfterFunc that own registered, in its own goroutine.                *)
CancelOwned(o) ==
    /\ operations[o].armed /\ operations[o].cancelled
    /\ operations' = [operations EXCEPT ![o].armed = FALSE]
    /\ sandboxes' = [sandboxes EXCEPT ![Target(o)].cancelled = TRUE]
    /\ UNCHANGED <<registry, results, closed>>

(* complete gives an undelivered or abandoned Sandbox up.                  *)
Cancels(o, sent) == operations[o].owns /\ (~sent \/ Abandoned(o))

CompletedStillArmed(o, sent) ==
    [operations[o] EXCEPT
        !.delivered = sent /\ operations[o].owns, !.cancelled = TRUE,
        !.pc = IF Cancels(o, sent) THEN "linger" ELSE "closed"]

(* complete disarms the AfterFunc before it cancels operation.ctx.         *)
Completed(o, sent) ==
    [operations[o] EXCEPT
        !.delivered = sent /\ operations[o].owns, !.armed = FALSE, !.cancelled = TRUE,
        !.pc = IF Cancels(o, sent) THEN "linger" ELSE "closed"]

(* The response write, serialized with disconnect handling, and complete.  *)
Respond(o, sent) ==
    /\ operations[o].pc = "respond"
    /\ sent => ~Abandoned(o)
    /\ operations' = [operations EXCEPT ![o] = Completed(o, sent)]
    /\ sandboxes' = IF Cancels(o, sent)
                    THEN [sandboxes EXCEPT ![Target(o)].cancelled = TRUE]
                    ELSE sandboxes
    /\ UNCHANGED <<registry, results, closed>>

Linger(o) ==
    /\ operations[o].pc = "linger"
    /\ sandboxes[Target(o)].done
    /\ operations' = [operations EXCEPT ![o].pc = "closed"]
    /\ UNCHANGED <<sandboxes, registry, results, closed>>

(* Serve's context ends: creator.ctx and every context below it with it.   *)
Shutdown ==
    /\ ~closed
    /\ closed' = TRUE
    /\ UNCHANGED <<operations, sandboxes, registry, results>>

-----------------------------------------------------------------------------
(* release: cgroups, runtime directory, registration.  A failure keeps the *)
(* Sandbox registered with its identity range.                             *)

release(b, retire, clean) ==
    /\ active' = IF clean THEN [active EXCEPT ![IdOf(b)] = Nobody] ELSE active
    /\ retired' = IF clean /\ retire THEN retired \union {IdOf(b)} ELSE retired
    /\ directories' = IF clean THEN directories \ {IdOf(b)} ELSE directories

OffsetsNotTerminating ==
    {sandboxes[active[id]].identityOffset :
        id \in {i \in SandboxIds : active[i] # Nobody /\ ~sandboxes[active[i]].terminating}}

UsedOffsets ==
    {sandboxes[active[id]].identityOffset : id \in {i \in SandboxIds : active[i] # Nobody}}
FreeOffsets == (0..(IdentityBlocks - 1)) \ UsedOffsets

(* Open, neither active nor retired, an identity range left, Mkdir works.  *)
CanReserve(id) ==
    /\ ~closed
    /\ active[id] = Nobody /\ id \notin retired
    /\ FreeOffsets # {}
    /\ id \notin directories

(* create: reserve the id and the lowest free identity range, make the     *)
(* directory, and take cancellation rights.                                *)
Reserve(o) ==
    /\ At(o, "request", "create")
    /\ CanReserve(IdOf(o))
    /\ active' = [active EXCEPT ![IdOf(o)] = o]
    /\ directories' = directories \union {IdOf(o)}
    /\ sandboxes' = [sandboxes EXCEPT ![o] = NewSandbox(Min(FreeOffsets))]
    /\ operations' = [operations EXCEPT ![o].pc = "start", ![o].sandbox = o,
                                        ![o].owns = TRUE, ![o].armed = TRUE]
    /\ UNCHANGED <<retired, results, closed>>

ReserveRefused(o) ==
    /\ At(o, "request", "create")
    /\ ~CanReserve(IdOf(o))
    /\ operations' = Answered(o, "error")
    /\ UNCHANGED <<sandboxes, registry, results, closed>>

(* exec.CommandContext starts nothing once its context is done.            *)
StartInit(o) ==
    /\ operations[o].pc = "start"
    /\ ~Stopped(o)
    /\ sandboxes' = [sandboxes EXCEPT ![o].process = "alive"]
    /\ operations' = [operations EXCEPT ![o].pc = "ready"]
    /\ UNCHANGED <<registry, results, closed>>

(* No cgroup, no pipe, no process; or no readiness byte within 3 seconds.  *)
CreateFails(o) ==
    /\ operations[o].pc \in {"start", "ready"}
    /\ sandboxes' = [sandboxes EXCEPT ![o].process = IF @ = "none" THEN @ ELSE "dead"]
    /\ operations' = [operations EXCEPT ![o].pc = "unwind", ![o].code = "error"]
    /\ UNCHANGED <<registry, results, closed>>

(* The readiness byte may outlive the Init that wrote it.                  *)
Transfer(o) ==
    /\ operations[o].pc = "ready"
    /\ sandboxes' = [sandboxes EXCEPT ![o].published = TRUE]
    /\ operations' = Answered(o, "ok")
    /\ UNCHANGED <<registry, results, closed>>

(* The deferred cleanup of a creation that was not transferred.            *)
Unwind(o, clean) ==
    /\ operations[o].pc = "unwind"
    /\ release(o, FALSE, clean)
    /\ sandboxes' = [sandboxes EXCEPT ![o].cancelled = TRUE, ![o].cleanupErr = ~clean,
                                      ![o].exited = TRUE, ![o].done = TRUE]
    /\ operations' = [operations EXCEPT ![o].pc = "respond"]
    /\ UNCHANGED <<results, closed>>

-----------------------------------------------------------------------------
(* Init processes and the goroutine that waits for one.                    *)

InitExits(b) ==
    /\ sandboxes[b].process = "alive" /\ ~Stopped(b)
    /\ sandboxes' = [sandboxes EXCEPT ![b].process = "dead"]
    /\ UNCHANGED <<operations, registry, results, closed>>

(* CommandContext kills Init when sandbox.ctx is done.                     *)
KillInit(b) ==
    /\ sandboxes[b].process = "alive" /\ Stopped(b)
    /\ sandboxes' = [sandboxes EXCEPT ![b].process = "dead"]
    /\ UNCHANGED <<operations, registry, results, closed>>

(* command.Wait returns.                                                   *)
Reaped(b) ==
    /\ sandboxes[b].published /\ sandboxes[b].process = "dead" /\ ~sandboxes[b].exited
    /\ sandboxes' = [sandboxes EXCEPT ![b].cancelled = TRUE, ![b].terminating = TRUE,
                                      ![b].exited = TRUE]
    /\ UNCHANGED <<operations, registry, results, closed>>

TeardownWithoutLock(b, clean) ==
    /\ sandboxes[b].published /\ sandboxes[b].exited /\ ~sandboxes[b].done
    /\ release(b, TRUE, clean)
    /\ sandboxes' = [sandboxes EXCEPT ![b].cleanupErr = ~clean, ![b].done = TRUE]
    /\ UNCHANGED <<operations, results, closed>>

(* An in-flight Execution ends before the Sandbox is released.             *)
Teardown(b, clean) ==
    /\ sandboxes[b].published /\ sandboxes[b].exited /\ ~sandboxes[b].done
    /\ sandboxes[b].execution = Nobody
    /\ release(b, TRUE, clean)
    /\ sandboxes' = [sandboxes EXCEPT ![b].cleanupErr = ~clean, ![b].done = TRUE]
    /\ UNCHANGED <<operations, results, closed>>

-----------------------------------------------------------------------------
(* execute.                                                                *)

Usable(b) ==
    /\ b # Nobody
    /\ sandboxes[b].published /\ ~sandboxes[b].terminating /\ ~Stopped(b)

AcquireExecution(o) ==
    LET b == active[IdOf(o)]
    IN  /\ At(o, "request", "execute")
        /\ Usable(b) /\ sandboxes[b].execution = Nobody
        /\ sandboxes' = [sandboxes EXCEPT ![b].execution = o]
        /\ operations' = [operations EXCEPT ![o].pc = "reserve", ![o].sandbox = b]
        /\ UNCHANGED <<registry, results, closed>>

ExecuteRefused(o) ==
    LET b == active[IdOf(o)]
    IN  /\ At(o, "request", "execute")
        /\ ~(Usable(b) /\ sandboxes[b].execution = Nobody)
        /\ operations' = Answered(o, "error")      \* sandbox_busy, sandbox_not_found
        /\ UNCHANGED <<sandboxes, registry, results, closed>>

allowance(paths, used) ==
    Min({ExecutionBytes, SandboxBytes - used, paths * FileBytes})

Retained == {ref \in References : slots[ref] # NoSlot}
BytesOf(R) == MapThenSumSet(LAMBDA ref : slots[ref].reserved, R)

Fits(bytes) ==
    Cardinality(Retained) < MaxResults /\ bytes <= MaxResultBytes - reservedBytes

(* Reserve a result slot before any code runs or any right is taken.       *)
ReserveResult(o) ==
    LET extraction == allowance(operations[o].paths, sandboxes[Target(o)].extractedBytes)
        bytes == OutputBytes + extraction
    IN  /\ operations[o].pc = "reserve"
        /\ slots[RefOf(o)] = NoSlot
        /\ Fits(bytes)
        /\ slots' = [slots EXCEPT ![RefOf(o)] =
                        [by |-> o, reserved |-> bytes, extraction |-> extraction,
                         published |-> FALSE]]
        /\ reservedBytes' = reservedBytes + bytes
        /\ operations' = [operations EXCEPT ![o].pc = "begin", ![o].owns = TRUE,
                                            ![o].armed = TRUE]
        /\ UNCHANGED <<sandboxes, registry, closed>>

ResultRefused(o) ==
    LET bytes == OutputBytes + allowance(operations[o].paths,
                                         sandboxes[Target(o)].extractedBytes)
    IN  /\ operations[o].pc = "reserve"
        /\ slots[RefOf(o)] # NoSlot \/ ~Fits(bytes)
        /\ operations' = Answered(o, "error")
        /\ sandboxes' = [sandboxes EXCEPT ![Target(o)].execution = Nobody]
        /\ UNCHANGED <<registry, results, closed>>

BeginExecution(o) ==
    /\ operations[o].pc = "begin"
    /\ operations' = IF sandboxes[Target(o)].exited
                     THEN [operations EXCEPT ![o].pc = "finish", ![o].code = "error"]
                     ELSE [operations EXCEPT ![o].pc = "run", ![o].ran = TRUE]
    /\ UNCHANGED <<sandboxes, registry, results, closed>>

(* The whole handshake with Init succeeded.                                *)
RunComplete(o, bytes) ==
    /\ operations[o].pc = "run"
    /\ bytes \in 0..allowance(operations[o].paths, sandboxes[Target(o)].extractedBytes)
    /\ sandboxes' = [sandboxes EXCEPT ![Target(o)].extractedBytes = @ + bytes]
    /\ operations' = [operations EXCEPT ![o].pc = "finish", ![o].snapshot = o,
                                        ![o].extracted = bytes, ![o].code = "ok"]
    /\ UNCHANGED <<registry, results, closed>>

RunFailsAlone(o, evidence) ==
    /\ operations[o].pc = "run"
    /\ sandboxes' = sandboxes
    /\ operations' = [operations EXCEPT ![o].pc = "finish",
                                        ![o].snapshot = IF evidence THEN o ELSE Nobody,
                                        ![o].code = Outcome(evidence)]
    /\ UNCHANGED <<registry, results, closed>>

(* An uncertain handshake or failed cleanup: with evidence of an exhausted *)
(* budget there is a result without output; Init is killed either way.     *)
RunIncomplete(o, evidence) ==
    /\ operations[o].pc = "run"
    /\ sandboxes' = [sandboxes EXCEPT ![Target(o)].process = "dead"]
    /\ operations' = [operations EXCEPT ![o].pc = "await",
                                        ![o].snapshot = IF evidence THEN o ELSE Nobody,
                                        ![o].code = Outcome(evidence)]
    /\ UNCHANGED <<registry, results, closed>>

AwaitExit(o) ==
    /\ operations[o].pc = "await"
    /\ sandboxes[Target(o)].exited
    /\ operations' = [operations EXCEPT ![o].pc = "finish"]
    /\ UNCHANGED <<sandboxes, registry, results, closed>>

FinishedSlotKeepingUnused(slot, extracted) ==
    [slot EXCEPT !.published = TRUE, !.extraction = 0]

(* Publication returns the part of the extraction allowance not used.      *)
FinishedSlot(slot, extracted) ==
    [slot EXCEPT !.published = TRUE, !.extraction = 0,
                 !.reserved = @ - (slot.extraction - extracted)]

(* results.finish: a reservation that was removed meanwhile stays removed. *)
finish(ref, snapshot, extracted) ==
    /\ slots' = IF slots[ref] = NoSlot \/ snapshot = Nobody
                THEN [slots EXCEPT ![ref] = NoSlot]
                ELSE [slots EXCEPT ![ref] = FinishedSlot(@, extracted)]
    /\ reservedBytes' =
          IF slots[ref] = NoSlot THEN reservedBytes
          ELSE IF snapshot = Nobody THEN reservedBytes - slots[ref].reserved
          ELSE reservedBytes - (slots[ref].extraction - extracted)

(* The deferred finish, then the deferred unlock.                          *)
Finish(o) ==
    /\ operations[o].pc = "finish"
    /\ finish(RefOf(o), operations[o].snapshot, operations[o].extracted)
    /\ sandboxes' = [sandboxes EXCEPT ![Target(o)].execution = Nobody]
    /\ operations' = [operations EXCEPT ![o].pc = "respond"]
    /\ UNCHANGED <<registry, closed>>

-----------------------------------------------------------------------------
(* destroy, inspect and getExecutionResult.                                *)

removeSandbox(id) ==
    LET gone == {ref \in Retained : ref[1] = id}
    IN  /\ slots' = [ref \in References |-> IF ref \in gone THEN NoSlot ELSE slots[ref]]
        /\ reservedBytes' = reservedBytes - BytesOf(gone)

DestroyAbsent(o) ==
    /\ At(o, "request", "destroy")
    /\ active[IdOf(o)] = Nobody
    /\ removeSandbox(IdOf(o))
    /\ operations' = Answered(o, "ok")
    /\ UNCHANGED <<sandboxes, registry, closed>>

DestroyRemovingFirst(o) ==
    LET b == active[IdOf(o)]
    IN  /\ At(o, "request", "destroy")
        /\ b # Nobody
        /\ removeSandbox(IdOf(o))
        /\ sandboxes' = [sandboxes EXCEPT ![b].terminating = TRUE, ![b].cancelled = TRUE]
        /\ operations' = [operations EXCEPT ![o].pc = "drain", ![o].sandbox = b]
        /\ UNCHANGED <<registry, closed>>

DestroyPresent(o) ==
    LET b == active[IdOf(o)]
    IN  /\ At(o, "request", "destroy")
        /\ b # Nobody
        /\ sandboxes' = [sandboxes EXCEPT ![b].terminating = TRUE, ![b].cancelled = TRUE]
        /\ operations' = [operations EXCEPT ![o].pc = "drain", ![o].sandbox = b]
        /\ UNCHANGED <<registry, results, closed>>

(* After done: retry a failed cleanup, and report success only without one. *)
DestroyDrained(o, clean) ==
    LET b == Target(o)
        retry == active[IdOf(o)] = b /\ sandboxes[b].cleanupErr
        failed == sandboxes[b].cleanupErr /\ ~(retry /\ clean)
    IN  /\ operations[o].pc = "drain"
        /\ sandboxes[b].done
        /\ IF retry THEN release(b, TRUE, clean) ELSE UNCHANGED registry
        /\ sandboxes' = [sandboxes EXCEPT ![b].cleanupErr = failed]
        /\ IF failed THEN UNCHANGED results ELSE removeSandbox(IdOf(o))
        /\ operations' = Answered(o, Outcome(~failed))
        /\ UNCHANGED closed

(* Signal 0 also reaches an Init that has exited but was not yet reaped.   *)
Inspectable(b) == Usable(b) /\ ~sandboxes[b].exited /\ ~sandboxes[b].cleanupErr

Inspect(o) ==
    LET b == active[IdOf(o)]
    IN  /\ At(o, "request", "inspect")
        /\ operations' = Answered(o, Outcome(Inspectable(b)))
        /\ UNCHANGED <<sandboxes, registry, results, closed>>

GetExecutionResult(o) ==
    LET slot == slots[RefOf(o)]
    IN  /\ At(o, "request", "read")
        /\ operations' =
              [Answered(o, Outcome(slot.published))
                EXCEPT ![o].snapshot = IF slot.published THEN slot.by ELSE Nobody]
        /\ UNCHANGED <<sandboxes, registry, results, closed>>

-----------------------------------------------------------------------------
(* What the goroutine of a handler does next, on its own.                  *)
Handle(o) ==
    \/ Reject(o)
    \/ Reserve(o) \/ ReserveRefused(o) \/ StartInit(o) \/ CreateFails(o) \/ Transfer(o)
    \/ AcquireExecution(o) \/ ExecuteRefused(o) \/ ReserveResult(o) \/ ResultRefused(o)
    \/ BeginExecution(o) \/ AwaitExit(o) \/ Finish(o)
    \/ \E bytes \in 0..ExecutionBytes : RunComplete(o, bytes)
    \/ DestroyAbsent(o) \/ DestroyPresent(o) \/ Inspect(o) \/ GetExecutionResult(o)
    \/ \E outcome \in BOOLEAN :
          \/ Unwind(o, outcome) \/ RunIncomplete(o, outcome)
          \/ DestroyDrained(o, outcome) \/ Respond(o, outcome)
    \/ Linger(o)

(* What the goroutines and the process of a Sandbox do.                    *)
Wait(b) == Reaped(b) \/ \E clean \in BOOLEAN : Teardown(b, clean)

Client(o) ==
    \/ \E kind \in Kinds, id \in SandboxIds :
          \E x \in IF kind \in {"execute", "read"} THEN ExecutionIds ELSE {Nobody},
             n \in IF kind = "execute" THEN PathCounts ELSE {0} :
                Accept(o, kind, id, x, n)
    \/ Drop(o)
    \/ Abandon(o)

Next ==
    \/ \E o \in Operations : Client(o) \/ Handle(o) \/ CancelOwned(o)
    \/ \E b \in Operations : InitExits(b) \/ KillInit(b) \/ Wait(b)
    \/ Shutdown

Spec == Init /\ [][Next]_vars

(* Goroutines that can run do run, and a process whose context is done is  *)
(* killed; every blocking operation on Init or the kernel is bounded by a  *)
(* deadline in the code.  Clients, and Inits that live on, owe nothing.    *)
FairSpec ==
    /\ Spec
    /\ \A o \in Operations : WF_vars(Handle(o)) /\ WF_vars(CancelOwned(o))
    /\ \A b \in Operations : WF_vars(KillInit(b)) /\ WF_vars(Wait(b))
-----------------------------------------------------------------------------
(* Properties.                                                             *)

(* The maps, result slots and per-connection state keep their types, and   *)
(* the result store its accounts: whatever order reservations,             *)
(* publications, failures and removals come in, the reservation counter is *)
(* the sum of the slots, never below zero and never past the bound, and    *)
(* extraction never passes the allowance of its Sandbox.                   *)
TypesAndReservations ==
    /\ operations \in [Operations -> Operation]
    /\ sandboxes \in [Operations -> Sandbox]
    /\ active \in [SandboxIds -> Pointers]
    /\ retired \subseteq SandboxIds /\ directories \subseteq SandboxIds
    /\ slots \in [References -> Slot]
    /\ closed \in BOOLEAN
    /\ reservedBytes = BytesOf(Retained) /\ reservedBytes \in 0..MaxResultBytes
    /\ Cardinality(Retained) <= MaxResults
    /\ \A b \in Operations : sandboxes[b].extractedBytes <= SandboxBytes

Live == {b \in Operations : sandboxes[b].process = "alive"}

(* Two Inits that live at the same time never share a Sandbox id or a      *)
(* range of subordinate UIDs and GIDs, and each is registered: an identity *)
(* is free for reuse only once the processes that had it are gone.  An id  *)
(* whose Init was up is never created again (creation_linux.go, reserve).  *)
IdentitiesDisjoint ==
    /\ \A b \in Live : active[IdOf(b)] = b
    /\ \A b, c \in Live :
          b # c => sandboxes[b].identityOffset # sandboxes[c].identityOffset
    /\ \A id \in retired : active[id] = Nobody

(* A destroy that answers success has waited for its Sandbox: Init is      *)
(* gone, no Execution is in flight, the registration is released and no    *)
(* result of that Sandbox is or will be retained.                          *)
DestroyIsComplete ==
    \A o \in Operations :
        operations[o].kind = "destroy" /\ operations[o].code = "ok" /\ Target(o) # Nobody =>
            /\ sandboxes[Target(o)].process # "alive"
            /\ sandboxes[Target(o)].execution = Nobody
            /\ active[IdOf(o)] # Target(o)
            /\ \A ref \in Retained : Target(slots[ref].by) # Target(o)

Causes(b) ==
    {o \in Operations :
        /\ operations[o].owns /\ Target(o) = b
        /\ IF operations[o].pc \in {"linger", "closed"}
           THEN ~operations[o].delivered ELSE operations[o].cancelled}

(* The delivery of its answer decides whether a Sandbox lives on           *)
(* (lifecycle_linux.go, complete).  It is cancelled only by a destroy, by  *)
(* the loss of its Init, by its own failed creation, or by an operation    *)
(* that had acquired it and was abandoned or not delivered: refused, busy  *)
(* and reading clients, and clients that hang up after their answer, never *)
(* cancel it.  And nobody is left with a Sandbox it does not know of: when *)
(* the handler of an undelivered creation or Execution returns, its        *)
(* Sandbox has been torn down.                                             *)
DeliveryDecides ==
    /\ \A b \in Operations :
          sandboxes[b].cancelled =>
              sandboxes[b].terminating \/ sandboxes[b].done \/ closed \/ Causes(b) # {}
    /\ \A o \in Operations :
          operations[o].pc = "closed" /\ operations[o].owns /\ ~operations[o].delivered =>
              sandboxes[Target(o)].done /\ sandboxes[Target(o)].process # "alive"

(* An Execution id is handed to an Init at most once per Sandbox id, even  *)
(* when the first run failed and its slot was given back.  Whoever is told *)
(* its result, by execute or by a later read, is told the same one, and a  *)
(* read shows it only after the Execution has ended.                       *)
OneResult ==
    /\ \A o, p \in Operations :
          operations[o].ran /\ operations[p].ran /\ RefOf(o) = RefOf(p) => o = p
    /\ \A o \in Operations :
          operations[o].kind = "read" /\ operations[o].code = "ok" =>
              /\ operations[operations[o].snapshot].code = "ok"
              /\ operations[operations[o].snapshot].pc \in {"respond", "linger", "closed"}
              /\ \A p \in Operations :
                    RefOf(p) = RefOf(o) /\ operations[p].code = "ok"
                    /\ operations[p].kind \in {"execute", "read"} =>
                        operations[p].snapshot = operations[o].snapshot

(* The result of an Execution that succeeded stays readable for as long as *)
(* the Sandbox it ran in is alive.                                         *)
ResultsSurvive ==
    \A o \in Operations :
        /\ operations[o].kind = "execute" /\ operations[o].code = "ok"
        /\ operations[o].pc \in {"respond", "linger", "closed"}
        /\ Target(o) \in Live
        => slots[RefOf(o)].by = o

(* Every request that is accepted is finished: no handler, waiter and      *)
(* destroyer ever wait for each other in a circle.  A shutdown drains      *)
(* every handler and leaves no Init behind.                                *)
EveryRequestEnds ==
    /\ \A o \in Operations : operations[o].pc = "request" ~> operations[o].pc = "closed"
    /\ closed ~> Live = {} /\ Serving = {}
                 /\ \A b \in Operations : sandboxes[b].published => sandboxes[b].done
=============================================================================
