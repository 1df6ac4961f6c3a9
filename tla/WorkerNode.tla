----------------------------- MODULE WorkerNode -----------------------------
(***************************************************************************)
(* A Worker (internal/worker) between the Execution queue and its Sandbox  *)
(* Supervisor: the slots that reconcile, claim, bind, create, execute,     *)
(* report and clean up, and the lease monitor of each claimed Execution    *)
(* with its heartbeat loop and its watchdog.                               *)
(*                                                                         *)
(* The tables and transactions are those of ExecutionQueue.  An HTTPS call *)
(* commits and is answered, is refused, or is unreachable: the caller then *)
(* sees a transport error and the request may still commit later, as one   *)
(* of the strays.  Where the delay of an answer matters (Claim, Heartbeat, *)
(* Recover) the commit and its receipt are two steps.                      *)
(*                                                                         *)
(* Of the Supervisor only what a Worker relies on is kept: a creation that *)
(* was sent but has not reserved its id yet, a Sandbox that holds          *)
(* resources, and one that is gone; see SandboxSupervisor for how.         *)
(***************************************************************************)
EXTENDS ExecutionQueue

CONSTANTS
    Me,             \* this Worker
    Slots,          \* config.Capacity goroutines
    NoExecution,
    MaxStrays,      \* bound: unanswered requests that may still commit
    MaxRestarts     \* bound: crashes and restarts of the Worker process

ASSUME NodeAssumption ==
    /\ Me \in Workers /\ NoExecution \notin Executions
    /\ IsFiniteSet(Slots) /\ Cardinality(Slots) \in 1..MaxCapacity
    /\ MaxStrays \in Nat /\ MaxRestarts \in Nat
    /\ MaxCredentials # 0 /\ MaxGeneration # 0    \* Token, first leases

VARIABLES
    slots,          \* the RunOnce call of each goroutine
    monitors,       \* its leaseMonitor
    node,           \* the Node: unsafe, active, and the context of Run
    supervised,     \* Sandboxes, as the Supervisor of this Worker has them
    strays          \* requests nobody waits for any more

nodeVars == <<slots, monitors, node, supervised, strays>>
allVars == <<vars, nodeVars>>

Token == [worker |-> Me, generation |-> 1]

Slot ==
    [pc : {"idle", "outstanding", "reconcile", "configure", "claim", "granted", "validate",
           "bind", "first", "create", "creating", "authority", "execute", "executing",
           "report", "stop", "destroy", "release", "stopped"},
     execution : Executions \union {NoExecution},
     sandbox : Sandboxes \union {NoSandbox},
     result : Results \union {NoResult},
     entries : SUBSET Executions,   \* of the Outstanding snapshot, those to act on
     failed : BOOLEAN]              \* returnedErr # nil

Monitor ==
    [beat : {"off", "wait", "heartbeat", "inspect", "recover", "leased", "completed", "done"},
     started : Nat,                 \* local time of the request in flight
     watchdog : Nat,                \* when it fires; 0 when stopped
     lost : BOOLEAN,                \* monitor.ctx was cancelled with a cause
     disconnected : BOOLEAN, completed : BOOLEAN]

Supervised ==
    [phase : {"unused", "minted", "requested", "held", "gone"},
     client : {"none", "connected", "hungup"},      \* of its create or execute
     run : {"no", "running", "ended"}]

Request ==
    [op : {"claim", "configure", "bind", "heartbeat", "recover", "complete", "release"},
     execution : Executions \union {NoExecution},
     sandbox : Sandboxes \union {NoSandbox},
     result : Results \union {NoResult}]

IdleSlot == [pc |-> "idle", execution |-> NoExecution, sandbox |-> NoSandbox,
             result |-> NoResult, entries |-> {}, failed |-> FALSE]
NoMonitor == [beat |-> "off", started |-> 0, watchdog |-> 0, lost |-> FALSE,
              disconnected |-> FALSE, completed |-> FALSE]

NodeInit ==
    /\ Init
    /\ slots = [k \in Slots |-> IdleSlot]
    /\ monitors = [k \in Slots |-> NoMonitor]
    /\ node = [unsafe |-> FALSE, active |-> {}, stopping |-> FALSE, restarts |-> 0]
    /\ supervised = [s \in Sandboxes |-> [phase |-> "unused", client |-> "none", run |-> "no"]]
    /\ strays = {}

-----------------------------------------------------------------------------
(* Calls.                                                                  *)

At(k, pc) == slots[k].pc = pc
Go(k, pc) == slots' = [slots EXCEPT ![k].pc = pc]
Cancelled(k) == node.stopping \/ monitors[k].lost
RequestOf(k, op) == [op |-> op, execution |-> slots[k].execution,
                     sandbox |-> slots[k].sandbox, result |-> slots[k].result]

(* The call failed in transport; its request may be on its way.            *)
Unanswered(R) ==
    \E S \in SUBSET R : Cardinality(S \union strays) <= MaxStrays /\ strays' = strays \union S

(* RunOnce returns an error and has claimed nothing.                       *)
Ended(k) ==
    /\ slots' = [slots EXCEPT ![k] = [IdleSlot EXCEPT !.pc = "stopped", !.failed = TRUE]]
    /\ node' = [node EXCEPT !.stopping = TRUE]

(* RunOnce returns after its Claim: the deferred stop and cleanup follow.  *)
Leave(k, failed) ==
    slots' = [slots EXCEPT ![k].pc = "stop", ![k].failed = failed]

-----------------------------------------------------------------------------
(* RunOnce up to the Claim.                                                *)

Begin(k) ==
    /\ At(k, "idle")
    /\ IF node.stopping \/ node.unsafe THEN Ended(k)
       ELSE Go(k, "outstanding") /\ UNCHANGED node
    /\ UNCHANGED <<vars, monitors, supervised, strays>>

(* The inventory, as observed by the database clock, without the entries   *)
(* the loop passes over: those that are neither terminal nor legacy.       *)
Outstanding(k) ==
    /\ At(k, "outstanding")
    /\ AuthenticateTx(Token)
    /\ slots' = [slots EXCEPT ![k].pc = "reconcile", ![k].entries =
                    {e \in Occupied(Me) : \/ executions[e].cleanup_unknown
                                          \/ ObservedState(executions[e], now) \in Terminal}]
    /\ UNCHANGED <<vars, monitors, node, supervised, strays>>

Oldest(E) == CHOOSE e \in E : \A x \in E : executions[e].queued_order <= executions[x].queued_order

Legacy(k) == \E e \in slots[k].entries :
                 e = Oldest(slots[k].entries) /\ executions[e].cleanup_unknown

(* The loop meets a row without a known Sandbox: the Node stops for good.  *)
LegacyFound(k) ==
    /\ At(k, "reconcile") /\ Legacy(k)
    /\ slots' = [slots EXCEPT ![k] = [IdleSlot EXCEPT !.pc = "stopped", !.failed = TRUE]]
    /\ node' = [node EXCEPT !.unsafe = TRUE, !.stopping = TRUE]
    /\ UNCHANGED <<vars, monitors, supervised, strays>>

ReconcileUnguarded(k) ==
    /\ At(k, "reconcile") /\ ~Legacy(k)
    /\ LET e == Oldest(slots[k].entries)
       IN  slots' = IF slots[k].entries = {} THEN [slots EXCEPT ![k].pc = "configure"]
                    ELSE [slots EXCEPT ![k].pc = "destroy", ![k].execution = e,
                                       ![k].sandbox = executions[e].sandbox_id]
    /\ UNCHANGED <<vars, monitors, node, supervised, strays>>

ReconcileWithoutSandbox(k) ==
    /\ At(k, "reconcile") /\ ~Legacy(k)
    /\ LET e == Oldest(slots[k].entries)
       IN  slots' =
             IF slots[k].entries = {} THEN [slots EXCEPT ![k].pc = "configure"]
             ELSE IF e \in node.active THEN [slots EXCEPT ![k].entries = @ \ {e}]
             ELSE [slots EXCEPT ![k].pc = "destroy", ![k].execution = e]
    /\ UNCHANGED <<vars, monitors, node, supervised, strays>>

(* Clean up after terminal Executions no slot of this process works on.    *)
(* The Sandbox of a terminal row is as it was in the snapshot.             *)
Reconcile(k) ==
    /\ At(k, "reconcile") /\ ~Legacy(k)
    /\ LET e == Oldest(slots[k].entries)
       IN  slots' =
             IF slots[k].entries = {} THEN [slots EXCEPT ![k].pc = "configure"]
             ELSE IF e \in node.active THEN [slots EXCEPT ![k].entries = @ \ {e}]
             ELSE [slots EXCEPT ![k].pc = "destroy", ![k].execution = e,
                                ![k].sandbox = executions[e].sandbox_id]
    /\ UNCHANGED <<vars, monitors, node, supervised, strays>>

Configure(k) ==
    /\ At(k, "configure")
    /\ ConfigureCapacity(Token, Cardinality(Slots))
    /\ Go(k, "claim")
    /\ UNCHANGED <<monitors, node, supervised, strays>>

(* Refused with 401, or 409 while reservations of another capacity remain. *)
Stopped(k) ==
    /\ \/ /\ At(k, "configure")
          /\ worker_nodes[Me].sandbox_capacity # Cardinality(Slots) /\ Occupied(Me) # {}
       \/ slots[k].pc \in {"outstanding", "configure", "claim"} /\ ~AuthenticateTx(Token)
    /\ Ended(k)
    /\ UNCHANGED <<vars, monitors, supervised, strays>>

ClaimCommits(k, e) ==
    /\ At(k, "claim")
    /\ Claim(Token, e)
    /\ slots' = [slots EXCEPT ![k].pc = "granted", ![k].execution = e]
    /\ UNCHANGED <<monitors, node, supervised, strays>>

(* Nothing to do, or no answer: the slot polls again.                      *)
PollAgain(k) ==
    /\ slots[k].pc \in {"outstanding", "configure", "claim", "granted"}
    /\ slots' = [slots EXCEPT ![k] = IdleSlot]
    /\ Unanswered(IF slots[k].pc \in {"configure", "claim"}
                  THEN {RequestOf(k, slots[k].pc)} ELSE {})
    /\ UNCHANGED <<vars, monitors, node, supervised>>

-----------------------------------------------------------------------------
(* RunOnce of a claimed Execution.                                         *)

Granted(k) ==
    /\ At(k, "granted")
    /\ node' = [node EXCEPT !.active = @ \union {slots[k].execution}]
    /\ Go(k, "validate")
    /\ UNCHANGED <<vars, monitors, supervised, strays>>

(* Validate, then mint a private Sandbox id of 128 random bits.            *)
Validate(k, s) ==
    /\ At(k, "validate")
    /\ AuthenticateTx(Token) /\ CurrentLease(executions[slots[k].execution])
    /\ supervised[s].phase = "unused"
    /\ supervised' = [supervised EXCEPT ![s].phase = "minted"]
    /\ slots' = [slots EXCEPT ![k].pc = "bind", ![k].sandbox = s]
    /\ UNCHANGED <<vars, monitors, node, strays>>

(* The first Validate is not repeated, whatever its error.                 *)
ValidateFails(k) ==
    /\ At(k, "validate")
    /\ Leave(k, TRUE)
    /\ UNCHANGED <<vars, monitors, node, supervised, strays>>

Bind(k) ==
    /\ At(k, "bind")
    /\ BindSandbox(Token, slots[k].execution, 1, slots[k].sandbox)
    /\ Go(k, "first")
    /\ monitors' = [monitors EXCEPT ![k].beat = "heartbeat", ![k].started = now]
    /\ UNCHANGED <<node, supervised, strays>>

(* Refused, cancelled, or repeated until ReportTimeout.                    *)
BindFails(k) ==
    /\ At(k, "bind")
    /\ Leave(k, TRUE)
    /\ Unanswered({RequestOf(k, "bind")})
    /\ UNCHANGED <<vars, monitors, node, supervised>>

BindAgain(k) ==
    /\ At(k, "bind")
    /\ Unanswered({RequestOf(k, "bind")})
    /\ UNCHANGED <<vars, slots, monitors, node, supervised>>

-----------------------------------------------------------------------------
(* The lease monitor: the first Heartbeat, the heartbeat loop, the         *)
(* watchdog.  An answer is a step of its own: it may come late.            *)

Beating(k) == monitors[k].beat \in {"heartbeat", "recover"}
Answer(k, beat) == monitors' = [monitors EXCEPT ![k].beat = beat]

BeatCommits(k) ==
    /\ Beating(k)
    /\ renew(Token, slots[k].execution, 1, slots[k].sandbox, monitors[k].beat = "recover")
    /\ Answer(k, "leased")
    /\ UNCHANGED <<slots, node, supervised, strays>>

(* renew finds the result already stored.                                  *)
BeatFindsResult(k) ==
    LET r == executions[slots[k].execution]
    IN  /\ Beating(k)
        /\ AuthenticateTx(Token) /\ r.state = "completed" /\ r.sandbox_id = slots[k].sandbox
        /\ Answer(k, "completed")
        /\ UNCHANGED <<vars, slots, node, supervised, strays>>

(* 409: neither completed nor renewable; a Heartbeat asks the Supervisor   *)
(* and then recovers, the first one and a Recover give up.                 *)
BeatConflicts(k) ==
    LET r == executions[slots[k].execution]
    IN  /\ Beating(k)
        /\ AuthenticateTx(Token) /\ r.state # "completed"
        /\ ~Renewable(r, monitors[k].beat = "recover")
        /\ IF At(k, "first") THEN Leave(k, TRUE) ELSE UNCHANGED slots
        /\ monitors' = [monitors EXCEPT
              ![k].beat = IF @ = "heartbeat" /\ ~At(k, "first") THEN "inspect" ELSE "done",
              ![k].disconnected = ~At(k, "first"),
              ![k].lost = @ \/ monitors[k].beat = "recover"]
        /\ UNCHANGED <<vars, node, supervised, strays>>

(* 401: no authority can be restored.                                      *)
BeatRefused(k) ==
    /\ Beating(k) /\ ~AuthenticateTx(Token)
    /\ IF At(k, "first") THEN Leave(k, TRUE) ELSE UNCHANGED slots
    /\ monitors' = [monitors EXCEPT ![k].beat = "done", ![k].lost = ~At(k, "first"),
                                    ![k].disconnected = ~At(k, "first")]
    /\ UNCHANGED <<vars, node, supervised, strays>>

(* No answer: the loop waits and beats again, the first one at once.       *)
BeatUnanswered(k) ==
    /\ Beating(k) \/ monitors[k].beat \in {"leased", "completed"}
    /\ Unanswered(IF Beating(k) THEN {RequestOf(k, monitors[k].beat)} ELSE {})
    /\ monitors' = IF At(k, "first")
                   THEN [monitors EXCEPT ![k].beat = "heartbeat", ![k].started = now]
                   ELSE [monitors EXCEPT ![k].beat = "wait", ![k].disconnected = TRUE]
    /\ UNCHANGED <<vars, slots, node, supervised>>

(* ReportTimeout passes, or Run is cancelled, before the first answer.     *)
FirstFails(k) ==
    /\ At(k, "first")
    /\ Leave(k, TRUE)
    /\ Unanswered(IF Beating(k) THEN {RequestOf(k, monitors[k].beat)} ELSE {})
    /\ Answer(k, "done")
    /\ UNCHANGED <<vars, node, supervised>>

WatchdogFromAnswer(k) == now + LeaseDuration + RecoveryWindow
WatchdogNeverSet(k) == 0

(* The window the database granted, counted from the start of the request. *)
WatchdogOf(k) == monitors[k].started + LeaseDuration + RecoveryWindow

(* The first answer arms the watchdog and starts the loop.                 *)
MaintainLease(k) ==
    /\ At(k, "first")
    /\ \/ /\ monitors[k].beat = "leased"
          /\ Go(k, "create")
          /\ monitors' = [monitors EXCEPT ![k].beat = "wait", ![k].watchdog = WatchdogOf(k)]
       \/ /\ monitors[k].beat = "completed"
          /\ Leave(k, TRUE)
          /\ Answer(k, "done")
    /\ UNCHANGED <<vars, node, supervised, strays>>

(* heartbeatLoop takes a later answer.                                     *)
BeatAnswered(k) ==
    /\ ~At(k, "first") /\ ~Cancelled(k)
    /\ \/ /\ monitors[k].beat = "leased"
          /\ monitors' = [monitors EXCEPT ![k].beat = "wait", ![k].watchdog = WatchdogOf(k),
                                          ![k].disconnected = FALSE]
       \/ /\ monitors[k].beat = "completed"
          /\ monitors' = [monitors EXCEPT ![k].beat = "done", ![k].watchdog = 0,
                                          ![k].completed = TRUE, ![k].disconnected = FALSE]
    /\ UNCHANGED <<vars, slots, node, supervised, strays>>

(* The delay has passed, or a failed report wakes the loop.                *)
Beat(k) ==
    /\ monitors[k].beat = "wait" /\ ~Cancelled(k)
    /\ monitors' = [monitors EXCEPT ![k].beat = "heartbeat", ![k].started = now]
    /\ UNCHANGED <<vars, slots, node, supervised, strays>>

(* InspectSandbox finds the original Sandbox, or the lease is given up.    *)
Inspect(k, found) ==
    /\ monitors[k].beat = "inspect" /\ ~Cancelled(k)
    /\ found => supervised[slots[k].sandbox].phase = "held"
    /\ monitors' = [monitors EXCEPT ![k].beat = IF found THEN "recover" ELSE "done",
                                    ![k].started = now, ![k].lost = ~found]
    /\ UNCHANGED <<vars, slots, node, supervised, strays>>

Watchdog(k) ==
    /\ monitors[k].watchdog # 0 /\ monitors[k].watchdog <= now
    /\ monitors' = [monitors EXCEPT ![k].watchdog = 0, ![k].lost = TRUE]
    /\ UNCHANGED <<vars, slots, node, supervised, strays>>

-----------------------------------------------------------------------------
(* Create, execute and report under the monitor's context.                 *)

Create(k) ==
    /\ At(k, "create") /\ ~Cancelled(k)
    /\ Go(k, "creating")
    /\ supervised' = [supervised EXCEPT ![slots[k].sandbox].phase = "requested",
                                        ![slots[k].sandbox].client = "connected"]
    /\ UNCHANGED <<vars, monitors, node, strays>>

Created(k) ==
    /\ At(k, "creating")
    /\ supervised[slots[k].sandbox].phase = "held"
    /\ Go(k, "authority")
    /\ supervised' = [supervised EXCEPT ![slots[k].sandbox].client = "none"]
    /\ UNCHANGED <<vars, monitors, node, strays>>

(* waitForAuthority: wait out a recovery, however long the lease is gone.  *)
WaitForAuthority(k) ==
    /\ At(k, "authority")
    /\ \/ /\ AuthenticateTx(Token) /\ CurrentLease(executions[slots[k].execution])
          /\ Go(k, "execute")
       \/ (~AuthenticateTx(Token) \/ Cancelled(k)) /\ Leave(k, TRUE)
    /\ UNCHANGED <<vars, monitors, node, supervised, strays>>

Execute(k) ==
    /\ At(k, "execute") /\ ~Cancelled(k)
    /\ supervised[slots[k].sandbox].phase = "held"
    /\ Go(k, "executing")
    /\ supervised' = [supervised EXCEPT ![slots[k].sandbox].run = "running",
                                        ![slots[k].sandbox].client = "connected"]
    /\ UNCHANGED <<vars, monitors, node, strays>>

(* A result; an exhausted budget may have cost the Sandbox its Init.       *)
Executed(k, result, intact) ==
    /\ At(k, "executing")
    /\ supervised[slots[k].sandbox].run = "running"
    /\ intact => supervised[slots[k].sandbox].phase = "held"
    /\ slots' = [slots EXCEPT ![k].pc = "report", ![k].result = result]
    /\ supervised' = [supervised EXCEPT ![slots[k].sandbox] =
                          [phase |-> IF intact THEN "held" ELSE "gone",
                           client |-> "none", run |-> "ended"]]
    /\ UNCHANGED <<vars, monitors, node, strays>>

(* A create or execute that was rejected, that failed, or that was not     *)
(* sent because the context is done.                                       *)
LocalFails(k) ==
    /\ \/ slots[k].pc \in {"create", "execute"} /\ Cancelled(k)
       \/ slots[k].pc \in {"execute", "creating", "executing"}
          /\ supervised[slots[k].sandbox].phase = "gone"
    /\ Leave(k, TRUE)
    /\ supervised' = [supervised EXCEPT ![slots[k].sandbox].client = "none"]
    /\ UNCHANGED <<vars, monitors, node, strays>>

HangUpReported(k, delivered) ==
    /\ slots[k].pc \in {"creating", "executing"}
    /\ delivered => At(k, "creating") /\ supervised[slots[k].sandbox].phase = "held"
    /\ IF At(k, "creating") THEN Leave(k, TRUE)
       ELSE \E result \in Results :
                slots' = [slots EXCEPT ![k].pc = "report", ![k].result = result]
    /\ supervised' = [supervised EXCEPT ![slots[k].sandbox].client =
                          IF delivered THEN "none" ELSE "hungup"]
    /\ UNCHANGED <<vars, monitors, node, strays>>

(* The context ends, or the connection breaks, while the Supervisor works: *)
(* it sees a hang-up unless it has just delivered its answer.              *)
HangUp(k, delivered) ==
    /\ slots[k].pc \in {"creating", "executing"}
    /\ delivered => At(k, "creating") /\ supervised[slots[k].sandbox].phase = "held"
    /\ Leave(k, TRUE)
    /\ supervised' = [supervised EXCEPT ![slots[k].sandbox].client =
                          IF delivered THEN "none" ELSE "hungup"]
    /\ UNCHANGED <<vars, monitors, node, strays>>

Report(k) ==
    /\ At(k, "report") /\ ~Cancelled(k)
    /\ Complete(Token, slots[k].execution, 1, slots[k].result)
    /\ Leave(k, slots[k].failed)
    /\ UNCHANGED <<monitors, node, supervised, strays>>

(* Transport errors and 5xx: note the outage and try again.  After 429, or *)
(* a conflict, the loop tries again and nothing has changed.               *)
ReportUnanswered(k) ==
    /\ At(k, "report") /\ ~Cancelled(k)
    /\ Unanswered({RequestOf(k, "complete")})
    /\ monitors' = [monitors EXCEPT ![k].disconnected = @ \/ ~monitors[k].completed]
    /\ UNCHANGED <<vars, slots, node, supervised>>

(* 401, a conflict after completion was confirmed, a spent budget (which   *)
(* runs only while the connection is healthy or completion is confirmed),  *)
(* or a context that is done.                                              *)
ReportFails(k) ==
    /\ At(k, "report")
    /\ \/ ~AuthenticateTx(Token) \/ Cancelled(k)
       \/ monitors[k].completed \/ ~monitors[k].disconnected
    /\ Leave(k, TRUE)
    /\ UNCHANGED <<vars, monitors, node, supervised, strays>>

(* The budget may also be spent by the part of an attempt that was healthy *)
(* before the connection was lost.                                         *)
BudgetSpent(k) ==
    /\ At(k, "report") /\ monitors[k].disconnected
    /\ Leave(k, TRUE)
    /\ UNCHANGED <<vars, monitors, node, supervised, strays>>

-----------------------------------------------------------------------------
(* monitor.stop and cleanup, which Reconcile uses as well.                 *)

Reconciling(k) == slots[k].entries # {}

(* Stops the loop, whose request may be on its way, and the watchdog.      *)
StopMonitor(k) ==
    /\ At(k, "stop")
    /\ slots' = [slots EXCEPT ![k].pc = "destroy", ![k].failed = @ \/ monitors[k].lost]
    /\ monitors' = [monitors EXCEPT ![k] = NoMonitor]
    /\ Unanswered(IF Beating(k) THEN {RequestOf(k, monitors[k].beat)} ELSE {})
    /\ UNCHANGED <<vars, node, supervised>>

(* Destroy answers success for a Sandbox it has torn down, and for an id   *)
(* that holds nothing: a creation that has not reserved it yet included.   *)
Destroy(k) ==
    LET s == slots[k].sandbox
    IN  /\ At(k, "destroy")
        /\ Go(k, "release")
        /\ supervised' = IF s # NoSandbox /\ supervised[s].phase = "held"
                         THEN [supervised EXCEPT ![s].phase = "gone"] ELSE supervised
        /\ UNCHANGED <<vars, monitors, node, strays>>

StillActive(k) == node.active

(* The active set once cleanup has returned; Reconcile does not touch it.  *)
Deactivated(k) == IF Reconciling(k) THEN node.active ELSE node.active \ {slots[k].execution}

(* RunOnce returns; an error stops the slot and cancels the others.        *)
Finished(k, failed) ==
    slots' = [slots EXCEPT ![k] =
                IF failed THEN [IdleSlot EXCEPT !.pc = "stopped", !.failed = TRUE] ELSE IdleSlot]

(* The reservation is confirmed clean.                                     *)
ReleaseSlot(k) ==
    /\ At(k, "release")
    /\ Release(Token, slots[k].execution, 1)
    /\ IF Reconciling(k)
       THEN /\ slots' = [slots EXCEPT ![k].pc = "reconcile",
                                      ![k].entries = @ \ {slots[k].execution},
                                      ![k].execution = NoExecution, ![k].sandbox = NoSandbox]
            /\ UNCHANGED node
       ELSE /\ Finished(k, slots[k].failed)
            /\ node' = [node EXCEPT !.active = Deactivated(k),
                                    !.stopping = @ \/ slots[k].failed]
    /\ UNCHANGED <<monitors, supervised, strays>>

ReleaseUnanswered(k) ==
    /\ At(k, "release")
    /\ Unanswered({RequestOf(k, "release")})
    /\ UNCHANGED <<vars, slots, monitors, node, supervised>>

(* Destroy fails, Release is refused, or CleanupTimeout passes.            *)
CleanupFails(k) ==
    /\ slots[k].pc \in {"destroy", "release"}
    /\ Finished(k, TRUE)
    /\ node' = [node EXCEPT !.unsafe = TRUE, !.stopping = TRUE,
                            !.active = Deactivated(k)]
    /\ UNCHANGED <<vars, monitors, supervised, strays>>

-----------------------------------------------------------------------------
(* The Supervisor, the network and the process.                            *)

(* A creation reserves its id and becomes ready, or fails.  Its client may *)
(* have hung up meanwhile.                                                 *)
SupervisorCreates(s, ready) ==
    /\ supervised[s].phase = "requested"
    /\ supervised' = [supervised EXCEPT ![s].phase = IF ready THEN "held" ELSE "gone"]
    /\ UNCHANGED <<vars, slots, monitors, node, strays>>

(* Init is lost, or the Supervisor gives up a Sandbox whose client hung up. *)
SupervisorTearsDown(s) ==
    /\ supervised[s].phase = "held"
    /\ supervised' = [supervised EXCEPT ![s].phase = "gone"]
    /\ UNCHANGED <<vars, slots, monitors, node, strays>>

(* A stray request reaches the Control Plane, or never does.               *)
StrayArrives(m) ==
    /\ m \in strays
    /\ strays' = strays \ {m}
    /\ CASE m.op = "claim" -> (\E e \in Executions : Claim(Token, e)) \/ UNCHANGED vars
         [] m.op = "configure" -> ConfigureCapacity(Token, Cardinality(Slots)) \/ UNCHANGED vars
         [] m.op = "bind" -> BindSandbox(Token, m.execution, 1, m.sandbox) \/ UNCHANGED vars
         [] m.op = "heartbeat" -> Heartbeat(Token, m.execution, 1, m.sandbox) \/ UNCHANGED vars
         [] m.op = "recover" -> Recover(Token, m.execution, 1, m.sandbox) \/ UNCHANGED vars
         [] m.op = "complete" -> Complete(Token, m.execution, 1, m.result) \/ UNCHANGED vars
         [] m.op = "release" -> Release(Token, m.execution, 1) \/ UNCHANGED vars
    /\ UNCHANGED <<slots, monitors, node, supervised>>

OpOf(pc) ==
    CASE pc = "report" -> "complete"
      [] pc \in {"configure", "claim", "bind", "release"} -> pc
      [] OTHER -> "none"

InFlight ==
    {RequestOf(k, OpOf(slots[k].pc)) : k \in {j \in Slots : OpOf(slots[j].pc) # "none"}}
    \union {RequestOf(k, monitors[k].beat) : k \in {j \in Slots : Beating(j)}}

(* The process ends at any point, with its connections, and is started     *)
(* again with an empty memory.  BOUND: MaxRestarts times.                  *)
Restart ==
    /\ node.restarts < MaxRestarts
    /\ node' = [unsafe |-> FALSE, active |-> {}, stopping |-> FALSE,
                restarts |-> node.restarts + 1]
    /\ slots' = [k \in Slots |-> IdleSlot]
    /\ monitors' = [k \in Slots |-> NoMonitor]
    /\ supervised' = [s \in Sandboxes |->
          IF supervised[s].client = "connected" THEN [supervised[s] EXCEPT !.client = "hungup"]
          ELSE supervised[s]]
    /\ Unanswered(InFlight)
    /\ UNCHANGED vars

(* SIGTERM.                                                                *)
Interrupt ==
    /\ ~node.stopping
    /\ node' = [node EXCEPT !.stopping = TRUE]
    /\ UNCHANGED <<vars, slots, monitors, supervised, strays>>

ControlPlane ==
    /\ \/ \E e \in Executions : Enqueue(e)
       \/ \E S \in SUBSET Executions : SweepRecovery(S)
       \/ Revoke(Me)
       \/ Tick
    /\ UNCHANGED nodeVars

(* What RunOnce does next, on its own or within a deadline of the code.    *)
Progress(k) ==
    \/ Begin(k) \/ Outstanding(k) \/ LegacyFound(k) \/ Reconcile(k) \/ Configure(k)
    \/ Stopped(k) \/ Granted(k)
    \/ \E s \in Sandboxes : Validate(k, s)
    \/ ValidateFails(k) \/ Bind(k) \/ BindFails(k) \/ MaintainLease(k) \/ FirstFails(k)
    \/ Create(k) \/ Created(k) \/ WaitForAuthority(k) \/ Execute(k)
    \/ \E result \in Results, intact \in BOOLEAN : Executed(k, result, intact)
    \/ LocalFails(k) \/ Report(k) \/ ReportFails(k)
    \/ StopMonitor(k) \/ Destroy(k) \/ ReleaseSlot(k) \/ CleanupFails(k)

(* What the queue, the network and the Supervisor may do to it.            *)
Disturbed(k) ==
    \/ \E e \in Executions : ClaimCommits(k, e)
    \/ PollAgain(k) \/ BindAgain(k) \/ ReportUnanswered(k) \/ ReleaseUnanswered(k)
    \/ BudgetSpent(k)
    \/ \E delivered \in BOOLEAN : HangUp(k, delivered)

HeartbeatStep(k) ==
    \/ Beat(k) \/ BeatCommits(k) \/ BeatFindsResult(k) \/ BeatConflicts(k) \/ BeatRefused(k)
    \/ BeatUnanswered(k) \/ BeatAnswered(k) \/ \E found \in BOOLEAN : Inspect(k, found)

NodeNext ==
    \/ \E k \in Slots : Progress(k) \/ Disturbed(k) \/ HeartbeatStep(k) \/ Watchdog(k)
    \/ \E s \in Sandboxes :
          SupervisorTearsDown(s) \/ \E ready \in BOOLEAN : SupervisorCreates(s, ready)
    \/ \E m \in strays : StrayArrives(m)
    \/ Restart \/ Interrupt \/ ControlPlane

NodeSpec == NodeInit /\ [][NodeNext]_allVars

(* Timers fire, goroutines run, and every wait of RunOnce has a deadline   *)
(* or ends with the context of the monitor: ReportTimeout, CleanupTimeout, *)
(* and the Supervisor's own limits on a creation and an Execution.         *)
(* Nothing is assumed of the Control Plane or of the heartbeats.           *)
NodeFairSpec ==
    /\ NodeSpec
    /\ WF_allVars(Tick /\ UNCHANGED nodeVars)
    /\ \A k \in Slots : WF_allVars(Progress(k)) /\ WF_allVars(Watchdog(k))
    /\ \A s \in Sandboxes : WF_allVars(\E ready \in BOOLEAN : SupervisorCreates(s, ready))

-----------------------------------------------------------------------------
(* Properties.                                                             *)

(* The slots that work on an Execution they have claimed.                  *)
Claimed == {k \in Slots : slots[k].execution # NoExecution /\ ~Reconciling(k)
                           /\ ~At(k, "granted")}

(* The variables keep their types, and the active set, which protects      *)
(* claimed work from reconciliation, is exactly the claimed Executions.    *)
NodeTypeOK ==
    /\ node.active = {slots[k].execution : k \in Claimed}
    /\ slots \in [Slots -> Slot] /\ monitors \in [Slots -> Monitor]
    /\ node \in [unsafe : BOOLEAN, active : SUBSET Executions, stopping : BOOLEAN,
                  restarts : 0..MaxRestarts]
    /\ supervised \in [Sandboxes -> Supervised]
    /\ strays \subseteq Request

(* The local watchdog is never set later than the moment the database      *)
(* declares the Execution lost, however late an answer arrived and         *)
(* whatever other request of this Worker committed meanwhile.              *)
WatchdogInTime ==
    \A k \in Slots :
        monitors[k].watchdog # 0 =>
            monitors[k].watchdog <= executions[slots[k].execution].recovery_until

BoundTo(s) == {e \in Executions : executions[e].sandbox_id = s}

(* A Sandbox that holds resources can always be found: an unreleased       *)
(* Execution is bound to it, so that even a Worker that lost its memory    *)
(* destroys it; otherwise its client has hung up, and the Supervisor       *)
(* itself tears it down.                                                   *)
NoOrphan ==
    \A s \in Sandboxes :
        supervised[s].phase = "held" =>
            \/ supervised[s].client = "hungup"
            \/ \E e \in BoundTo(s) :
                  executions[e].worker_id = Me /\ ~executions[e].capacity_released

Working == {"bind", "first", "create", "creating", "authority", "execute", "executing", "report"}

(* Reconciliation works from a stale inventory next to slots that claim    *)
(* and run: what it cleans up is never at work in another slot.            *)
ReconcileIsExclusive ==
    \A k, j \in Slots :
        /\ Reconciling(k) /\ slots[k].pc \in {"destroy", "release"}
        /\ slots[j].execution = slots[k].execution /\ ~Reconciling(j)
        => slots[j].pc \notin Working

(* A stored result was produced by a workload that ran to its end in the   *)
(* Sandbox bound to the Execution, whatever was lost, retried or restarted. *)
CompletedIsGenuine ==
    \A e \in Executions :
        executions[e].state = "completed" /\ executions[e].sandbox_id # NoSandbox =>
            supervised[executions[e].sandbox_id].run = "ended"

(* Every claimed Execution is given up or finished by its slot, even if    *)
(* the Control Plane never answers again: the watchdog ends the waits.     *)
EveryRunEnds ==
    \A k \in Slots : At(k, "validate") ~> slots[k].pc \in {"idle", "stopped"}

(* Release acknowledges that the Worker has finished Sandbox cleanup.      *)
ReleasedIsClean ==
    \A e \in Executions :
        executions[e].capacity_released /\ executions[e].sandbox_id # NoSandbox =>
            supervised[executions[e].sandbox_id].phase # "held"
=============================================================================
