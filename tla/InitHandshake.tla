---------------------------- MODULE InitHandshake ----------------------------
(***************************************************************************)
(* One Sandbox and the Executions run in it, one after another: the        *)
(* handler of the Supervisor that runs an Execution (execution_linux.go),  *)
(* Sandbox Init, which is process 1 of the Sandbox (init_linux.go), the    *)
(* launcher and the Workload's processes, and the cgroup that charges them *)
(* (cgroup_linux.go).                                                      *)
(*                                                                         *)
(* The handler and Init speak through two pipes.  An Execution is          *)
(*     start -> started -> run -> exited -> reap -> ready                  *)
(* with the launcher moved into the Execution's cgroup before run, and the *)
(* cgroup killed before reap.  Between run and exited the handler waits    *)
(* for its reader goroutine, the deadline, the Sandbox's context and the   *)
(* ticker that looks for exhausted budgets.                                *)
(*                                                                         *)
(* Kernel: a process that ends first leaves its cgroup and only then       *)
(* becomes a zombie, which is when its parent is told and its children are *)
(* given to Init.  The frames of a pipe, the bytes of an output and exit   *)
(* statuses are data: the status of a process that ended by itself is the  *)
(* process, and a frame is tagged with its Execution, which no action      *)
(* reads.  System calls and timers fail or fire at any time.               *)
(***************************************************************************)
EXTENDS Integers, Sequences

CONSTANTS
    Main,           \* the launcher, which becomes the Workload's main process
    Descendants,    \* processes the Workload may fork
    PID1,           \* Sandbox Init, as a parent
    MaxExecutions,  \* Executions asked of the Sandbox
    MaxEvents       \* the kernel's budget events of each kind

ASSUME ProcessAssumption ==
    /\ Main \notin Descendants
    /\ PID1 \notin Descendants \union {Main}
    /\ "sigkill" \notin Descendants \union {Main}
    /\ "none" \notin Descendants \union {Main}

ASSUME BoundAssumption == MaxExecutions \in Nat /\ MaxEvents \in Nat

VARIABLES
    handler,    \* the goroutine in creator.execute, and its reader goroutine
    init,       \* RunInit: what it waits for, and the status it collected
    requests,   \* the control pipe with readInitRequests' channel
    responses,  \* the response pipe
    sigchld,    \* SIGCHLD: pending in the runtime, buffered in the channel
    processes,  \* the process table of the Sandbox, without Init
    cgroup,     \* whether the Execution's cgroup directory exists
    events,     \* memory.events oom and pids.events max of the Sandbox
    cancelled,  \* the Sandbox's context is done
    execution,  \* number of the current or last Execution
    outcome,    \* what execute returned for it
    history     \* what happened since it began; no action reads it

vars == <<handler, init, requests, responses, sigchld, processes, cgroup,
          events, cancelled, execution, outcome, history>>
counters == <<events, history>>
kernelVars == <<sigchld, processes, counters>>
pipes == <<requests, responses>>

Process == Descendants \union {Main}

(* gated: the launcher before it reads the gate.  killed: SIGKILL is       *)
(* pending.  exiting: out of the cgroup, its parent not yet told.          *)
ProcessStates == {"absent", "gated", "running", "killed", "exiting", "zombie"}

ProcessEntry == [state: ProcessStates, parent: Process \union {PID1},
                 charged: BOOLEAN, status: Process \union {"sigkill", "none"}]

NoProcess == [state |-> "absent", parent |-> PID1, charged |-> FALSE, status |-> "none"]

NoEvents == [oom |-> 0, pids |-> 0]

Events == [oom: 0..MaxEvents, pids: 0..MaxEvents]

(* Since the last Execution began: a budget event of either kind, one that *)
(* its own Workload met, and the exit in hand before the deadline.         *)
History == {"oom", "pids", "ownOOM", "ownPids", "inTime"}

Reasons == {"exited", "timed_out", "memory_limit", "pids_limit"}

Outcome == [kind: {"none", "complete", "incomplete", "failed"}, reason: Reasons,
            code: Process \union {"sigkill", "none"}]

NoOutcome == [kind |-> "none", reason |-> "exited", code |-> "none"]

Handler == [pc: {"idle", "starting", "attaching", "releasing", "waiting", "terminating",
                 "joining", "killing", "counted", "reaping", "closing", "failing"},
            reader: {"none", "reading", "got", "failed"},
            before: Events, after: Events,
            terminated: BOOLEAN, timedOut: BOOLEAN, waitErr: BOOLEAN]

InitState == [pc: {"main", "gate", "polling", "asleep", "exited", "draining", "dying", "gone"},
              target: Process \union {"none"},
              code: Process \union {"sigkill", "none"}]

(* The handler, Init, both pipes, SIGCHLD, the process table and the       *)
(* counters keep their types, and only the three actions Init knows are    *)
(* ever sent to it.                                                        *)
TypeOK ==
    /\ handler \in Handler
    /\ init \in InitState
    /\ requests \in Seq([action: {"start", "run", "reap"}, execution: 1..MaxExecutions])
    /\ responses \in Seq([phase: {"started", "exited", "ready"},
                          execution: 1..MaxExecutions, code: Process \union {"sigkill", "none"}])
    /\ sigchld \in [pending: BOOLEAN, buffered: BOOLEAN]
    /\ processes \in [Process -> ProcessEntry]
    /\ cgroup \in BOOLEAN
    /\ events \in Events
    /\ cancelled \in BOOLEAN
    /\ execution \in 0..MaxExecutions
    /\ outcome \in Outcome
    /\ history \subseteq History

Init ==
    /\ handler = [pc |-> "idle", reader |-> "none", before |-> NoEvents, after |-> NoEvents,
                  terminated |-> FALSE, timedOut |-> FALSE, waitErr |-> FALSE]
    /\ init = [pc |-> "main", target |-> "none", code |-> "none"]
    /\ requests = <<>>
    /\ responses = <<>>
    /\ sigchld = [pending |-> FALSE, buffered |-> FALSE]
    /\ processes = [p \in Process |-> NoProcess]
    /\ cgroup = FALSE
    /\ events = NoEvents
    /\ cancelled = FALSE
    /\ execution = 0
    /\ outcome = NoOutcome
    /\ history = {}

-----------------------------------------------------------------------------
(* The process table.                                                      *)

Live(p) == processes[p].state \in {"gated", "running", "killed"}

(* cgroup.events reports populated 0.                                      *)
Unpopulated == \A p \in Process : processes[p].charged => ~Live(p)

ChildrenOf(q) == {p \in Process : processes[p].state # "absent" /\ processes[p].parent = q}

Zombies(q) == {p \in ChildrenOf(q) : processes[p].state = "zombie"}

(* cgroup.kill, and the OOM killer with memory.oom.group = 1: every member *)
(* gets SIGKILL, and a fork in progress does not escape.                   *)
KilledGroup ==
    [p \in Process |-> IF processes[p].charged /\ Live(p)
                       THEN [processes[p] EXCEPT !.state = "killed"] ELSE processes[p]]

(* cgroup.close: kill, wait until it is empty, remove.                     *)
RemoveCgroup == Unpopulated /\ cgroup' = FALSE

(* memory.events and pids.events of the budget's cgroup, which holds Init  *)
(* as well and outlives the Executions; the CPU counters only inform.      *)
resourceEvents == events

InitServes == init.pc \notin {"dying", "gone"}

-----------------------------------------------------------------------------
(* The handler.                                                            *)

(* A write fails once Init, the only reader, is gone: see Fail.            *)
sendInitRequest(action, x) ==
    /\ init.pc # "gone"
    /\ requests' = Append(requests, [action |-> action, execution |-> x])

receiveInitResponse(phase) ==
    /\ responses # <<>>
    /\ Head(responses).phase = phase
    /\ responses' = Tail(responses)

(* The deferred Kill of an Execution that did not complete.                *)
KillInit == init' = IF InitServes THEN [init EXCEPT !.pc = "dying"] ELSE init

GiveUpAlone(kind, reason) ==
    /\ handler' = [handler EXCEPT !.pc = "idle"]
    /\ outcome' = [kind |-> kind, reason |-> reason, code |-> "none"]
    /\ init' = init

(* An Execution ends without completing: PID 1 is killed and awaited.      *)
GiveUp(kind, reason) ==
    /\ handler' = [handler EXCEPT !.pc = "failing"]
    /\ outcome' = [kind |-> kind, reason |-> reason, code |-> "none"]
    /\ KillInit

(* Up to the start request: a fresh cgroup, memory.oom.group, the counters *)
(* before the Execution, and the transport deadline.                       *)
Begin ==
    /\ handler.pc = "idle"
    /\ execution < MaxExecutions
    /\ execution' = execution + 1
    /\ sendInitRequest("start", execution + 1)
    /\ handler' = [handler EXCEPT !.pc = "starting", !.before = resourceEvents,
                                  !.after = resourceEvents, !.terminated = FALSE,
                                  !.timedOut = FALSE, !.waitErr = FALSE]
    /\ cgroup' = TRUE
    /\ outcome' = NoOutcome
    /\ history' = {}
    /\ UNCHANGED <<init, responses, sigchld, processes, events, cancelled>>

(* One of those calls fails; a cgroup that exists stays with the Sandbox.  *)
BeginFails ==
    /\ handler.pc = "idle"
    /\ execution < MaxExecutions
    /\ init.pc # "gone"
    /\ execution' = execution + 1
    /\ \E made \in BOOLEAN : cgroup' = made
    /\ GiveUp("failed", "exited")
    /\ history' = {}
    /\ UNCHANGED <<pipes, sigchld, processes, events, cancelled>>

ReceiveStarted ==
    /\ handler.pc = "starting"
    /\ receiveInitResponse("started")
    /\ handler' = [handler EXCEPT !.pc = "attaching"]
    /\ UNCHANGED <<init, requests, kernelVars, cgroup, cancelled, execution, outcome>>

AttachIgnoringErrors ==
    /\ handler.pc = "attaching"
    /\ \E attached \in BOOLEAN : processes' = [processes EXCEPT ![Main].charged = attached]
    /\ handler' = [handler EXCEPT !.pc = "releasing"]
    /\ UNCHANGED <<init, pipes, sigchld, cgroup, counters, cancelled, execution, outcome>>

(* The launcher is a direct child of this Init, dead or alive.             *)
hostChildPID == Main \in ChildrenOf(PID1)

(* The launcher is found, written to cgroup.procs, and its OOM score reset.*)
Attach ==
    /\ handler.pc = "attaching"
    /\ hostChildPID
    /\ processes' = [processes EXCEPT ![Main].charged = TRUE]
    /\ handler' = [handler EXCEPT !.pc = "releasing"]
    /\ UNCHANGED <<init, pipes, sigchld, cgroup, counters, cancelled, execution, outcome>>

(* The read deadline is lifted, the Execution's deadline starts, run is    *)
(* sent and the reader goroutine starts.                                   *)
Release ==
    /\ handler.pc = "releasing"
    /\ sendInitRequest("run", execution)
    /\ handler' = [handler EXCEPT !.pc = "waiting", !.reader = "reading"]
    /\ UNCHANGED <<init, responses, kernelVars, cgroup, cancelled, execution, outcome>>

(* The reader goroutine of waitBudgetedExecution.                          *)
ReaderReceives ==
    /\ handler.reader = "reading"
    /\ responses # <<>>
    /\ responses' = Tail(responses)
    /\ handler' = [handler EXCEPT !.reader =
                      IF Head(responses).phase = "exited" THEN "got" ELSE "failed"]
    /\ history' = IF Head(responses).phase = "exited" /\ ~handler.timedOut
                  THEN history \union {"inTime"} ELSE history
    /\ UNCHANGED <<init, requests, sigchld, processes, events, cgroup, cancelled>>
    /\ UNCHANGED <<execution, outcome>>

DeadlineOnlyAfterTermination == handler.terminated

(* A read deadline is set: by terminate, or by the deferred join.          *)
ReadDeadlineSet == handler.terminated \/ handler.pc = "joining"

(* The reader meets the read deadline, or the end of the pipe.             *)
ReaderFails ==
    /\ handler.reader = "reading"
    /\ ReadDeadlineSet \/ (init.pc = "gone" /\ responses = <<>>)
    /\ handler' = [handler EXCEPT !.reader = "failed"]
    /\ UNCHANGED <<init, pipes, kernelVars, cgroup, cancelled, execution, outcome>>

(* waitBudgetedExecution has returned: the first half of killAndWait.      *)
StartKilling(h) ==
    /\ handler' = [h EXCEPT !.pc = "killing"]
    /\ processes' = KilledGroup
    /\ UNCHANGED <<init, pipes, sigchld, cgroup, counters, cancelled, execution, outcome>>

(* case err := <-exited, alone or preferred at the deadline.               *)
WaitReturns ==
    /\ handler.pc = "waiting"
    /\ handler.reader \in {"got", "failed"}
    /\ StartKilling([handler EXCEPT !.waitErr = (handler.reader = "failed"),
                                    !.reader = "none"])

(* terminate: a read deadline for the reader, and cgroup.kill.             *)
Terminate(h) ==
    /\ handler' = [h EXCEPT !.pc = "terminating", !.terminated = TRUE]
    /\ processes' = KilledGroup
    /\ UNCHANGED <<init, pipes, sigchld, cgroup, counters, cancelled, execution, outcome>>

(* case <-deadlineReached, with no exit observed yet.                      *)
DeadlineReached ==
    /\ handler.pc = "waiting"
    /\ ~handler.terminated
    /\ handler.reader = "reading"
    /\ Terminate([handler EXCEPT !.timedOut = TRUE])

Exhausted(before) ==
    \/ resourceEvents.oom > before.oom
    \/ resourceEvents.pids > before.pids

(* case <-ticker.C, with a budget event that was not there before.         *)
BudgetExhausted ==
    /\ handler.pc = "waiting"
    /\ ~handler.terminated
    /\ Exhausted(handler.before)
    /\ Terminate(handler)

Terminated ==
    /\ handler.pc = "terminating"
    /\ Unpopulated
    /\ handler' = [handler EXCEPT !.pc = "waiting"]
    /\ UNCHANGED <<init, pipes, kernelVars, cgroup, cancelled, execution, outcome>>

(* The context is done, the counters cannot be read, or the cgroup does    *)
(* not empty in time: the deferred join of the reader starts.              *)
WaitFails ==
    /\ \/ handler.pc = "waiting"
       \/ handler.pc = "terminating"
    /\ handler' = [handler EXCEPT !.pc = "joining", !.waitErr = TRUE]
    /\ UNCHANGED <<init, pipes, kernelVars, cgroup, cancelled, execution, outcome>>

Join ==
    /\ handler.pc = "joining"
    /\ handler.reader \in {"got", "failed"}
    /\ StartKilling([handler EXCEPT !.reader = "none"])

(* killAndWait returns, and the counters are read and compared: from here  *)
(* on the result is about these two readings, whatever happens meanwhile.  *)
Killed ==
    /\ handler.pc = "killing"
    /\ Unpopulated
    /\ handler' = [handler EXCEPT !.pc = "counted", !.after = resourceEvents]
    /\ UNCHANGED <<init, pipes, kernelVars, cgroup, cancelled, execution, outcome>>

since(before) ==
    [oom |-> handler.after.oom - before.oom, pids |-> handler.after.pids - before.pids]

usage == since(handler.before)

ReasonIgnoringPids ==
    IF usage.oom # 0 THEN "memory_limit" ELSE IF handler.timedOut THEN "timed_out" ELSE "exited"

(* The terminal reason.                                                    *)
Reason ==
    IF usage.oom # 0 THEN "memory_limit"
    ELSE IF usage.pids # 0 THEN "pids_limit"
    ELSE IF handler.timedOut THEN "timed_out"
    ELSE "exited"

(* incompleteResourceResult: evidence of a budget survives the loss of     *)
(* Init, an exit status does not.                                          *)
incompleteResourceResult == IF Reason = "exited" THEN "failed" ELSE "incomplete"

SendStop ==
    /\ handler.pc = "counted"
    /\ ~handler.waitErr
    /\ sendInitRequest("stop", execution)
    /\ handler' = [handler EXCEPT !.pc = "reaping"]
    /\ UNCHANGED <<init, responses, kernelVars, cgroup, cancelled, execution, outcome>>

SendReap ==
    /\ handler.pc = "counted"
    /\ ~handler.waitErr
    /\ sendInitRequest("reap", execution)
    /\ handler' = [handler EXCEPT !.pc = "reaping"]
    /\ UNCHANGED <<init, responses, kernelVars, cgroup, cancelled, execution, outcome>>

(* The wait had failed, or reap cannot be sent, or ready does not arrive.  *)
Incomplete ==
    /\ handler.pc \in {"counted", "reaping"}
    /\ GiveUp(incompleteResourceResult, Reason)
    /\ UNCHANGED <<pipes, kernelVars, cgroup, cancelled, execution>>

(* ready arrives; group.close starts with a kill.                          *)
ReceiveReady ==
    /\ handler.pc = "reaping"
    /\ receiveInitResponse("ready")
    /\ outcome' = [kind |-> "none", reason |-> Reason, code |-> Head(responses).code]
    /\ handler' = [handler EXCEPT !.pc = "closing"]
    /\ processes' = KilledGroup
    /\ UNCHANGED <<init, requests, sigchld, cgroup, counters, cancelled, execution>>

(* The cgroup is removed and the Execution is complete.                    *)
Complete ==
    /\ handler.pc = "closing"
    /\ RemoveCgroup
    /\ outcome' = [outcome EXCEPT !.kind = "complete"]
    /\ handler' = [handler EXCEPT !.pc = "idle"]
    /\ UNCHANGED <<init, pipes, kernelVars, cancelled, execution>>

(* A call, a transport deadline or a check of the outputs fails: no result.*)
Fail ==
    /\ handler.pc \in {"starting", "attaching", "releasing", "killing", "closing"}
    /\ GiveUp("failed", "exited")
    /\ UNCHANGED <<pipes, kernelVars, cgroup, cancelled, execution>>

(* <-sandbox.exited                                                        *)
InitIsGone ==
    /\ handler.pc = "failing"
    /\ init.pc = "gone"
    /\ handler' = [handler EXCEPT !.pc = "idle"]
    /\ UNCHANGED <<init, pipes, kernelVars, cgroup, cancelled, execution, outcome>>

(* The Sandbox's teardown closes what a failed Execution left behind.      *)
CloseTree ==
    /\ handler.pc = "idle"
    /\ init.pc = "gone"
    /\ cgroup
    /\ RemoveCgroup
    /\ UNCHANGED <<handler, init, pipes, kernelVars, cancelled, execution, outcome>>
-----------------------------------------------------------------------------
(* Sandbox Init.                                                           *)

writeInitResponse(phase, code) ==
    responses' = Append(responses, [phase |-> phase, execution |-> execution, code |-> code])

(* The next request, which must be the one that Init expects.              *)
requireInitAction(action) ==
    /\ requests # <<>>
    /\ Head(requests).action = action
    /\ requests' = Tail(requests)

InitDies == init' = [init EXCEPT !.pc = "dying"]

(* The launcher starts: a child of Init in Init's cgroup, blocked on its   *)
(* gate.                                                                   *)
StartWorkload ==
    /\ init.pc = "main"
    /\ requireInitAction("start")
    /\ processes' = [processes EXCEPT ![Main] = [NoProcess EXCEPT !.state = "gated"]]
    /\ writeInitResponse("started", "none")
    /\ init' = [init EXCEPT !.pc = "gate"]
    /\ UNCHANGED <<handler, sigchld, cgroup, counters, cancelled, execution, outcome>>

(* RunInit returns an error: an unexpected request, a pipe or a process    *)
(* that cannot be made, descendants or outputs that outlast their timers.  *)
InitFails ==
    /\ \/ init.pc \in {"main", "gate", "exited"} /\ requests # <<>>
       \/ init.pc = "asleep" /\ (init.target = "none" \/ requests # <<>>)
       \/ init.pc = "draining"
    /\ InitDies
    /\ UNCHANGED <<handler, pipes, kernelVars, cgroup, cancelled, execution, outcome>>

(* run: the gate is written, unless the launcher is gone and it breaks.    *)
OpenGate ==
    /\ init.pc = "gate"
    /\ requireInitAction("run")
    /\ processes[Main].state = "gated"
    /\ processes' = [processes EXCEPT ![Main].state = "running"]
    /\ init' = [init EXCEPT !.pc = "polling", !.target = Main]
    /\ UNCHANGED <<handler, responses, sigchld, cgroup, counters, cancelled, execution, outcome>>

(* reap: wait for every child.                                             *)
StartReaping ==
    /\ init.pc = "exited"
    /\ requireInitAction("reap")
    /\ init' = [init EXCEPT !.pc = "polling", !.target = "none"]
    /\ UNCHANGED <<handler, responses, kernelVars, cgroup, cancelled, execution, outcome>>

(* pid == mainPID                                                          *)
IsTarget(p) == p = init.target

(* Wait4(-1, WNOHANG) of waitInitChildren collects a zombie: the main      *)
(* process ends the first wait, an adopted child is only collected.        *)
Reap(p) ==
    /\ init.pc = "polling"
    /\ p \in Zombies(PID1)
    /\ processes' = [processes EXCEPT ![p] = NoProcess]
    /\ IF init.target # "none" /\ IsTarget(p)
       THEN /\ init' = [init EXCEPT !.pc = "exited", !.code = processes[p].status]
            /\ writeInitResponse("exited", processes[p].status)
       ELSE UNCHANGED <<init, responses>>
    /\ UNCHANGED <<handler, requests, sigchld, cgroup, counters, cancelled, execution, outcome>>

(* Wait4 finds nothing to collect: ECHILD ends the second wait, otherwise  *)
(* the loop blocks in its select.                                          *)
FindNothing ==
    /\ init.pc = "polling"
    /\ Zombies(PID1) = {}
    /\ init' = [init EXCEPT !.pc =
                   IF ChildrenOf(PID1) # {} THEN "asleep"
                   ELSE IF init.target = "none" THEN "draining" ELSE "dying"]
    /\ UNCHANGED <<handler, pipes, kernelVars, cgroup, cancelled, execution, outcome>>

(* case <-children                                                         *)
Wake ==
    /\ init.pc = "asleep"
    /\ sigchld.buffered
    /\ sigchld' = [sigchld EXCEPT !.buffered = FALSE]
    /\ init' = [init EXCEPT !.pc = "polling"]
    /\ UNCHANGED <<handler, pipes, processes, cgroup, counters, cancelled, execution, outcome>>

(* Both captures have met the end of their pipes, which every process that *)
(* is not ending still holds.                                              *)
OutputDrained == \A p \in Process : ~Live(p)

(* The declared outputs are read and ready is sent.                        *)
Drain ==
    /\ init.pc = "draining"
    /\ OutputDrained
    /\ writeInitResponse("ready", init.code)
    /\ init' = [init EXCEPT !.pc = "main"]
    /\ UNCHANGED <<handler, requests, kernelVars, cgroup, cancelled, execution, outcome>>

-----------------------------------------------------------------------------
(* The kernel and the Workload.                                            *)

DeliverUnbuffered ==
    /\ sigchld.pending
    /\ \E blocked \in BOOLEAN :
          sigchld' = [pending |-> FALSE, buffered |-> blocked /\ init.pc = "asleep"]
    /\ UNCHANGED <<handler, init, pipes, processes, cgroup, counters, cancelled, execution, outcome>>

(* The runtime puts a pending SIGCHLD into the channel of size one, or     *)
(* drops it when the channel is full.                                      *)
Deliver ==
    /\ sigchld.pending
    /\ sigchld' = [pending |-> FALSE, buffered |-> TRUE]
    /\ UNCHANGED <<handler, init, pipes, processes, cgroup, counters, cancelled, execution, outcome>>

(* A child is born into the cgroup of its parent.  A daemon is the child   *)
(* of a process that has ended already, so Init adopts it.                 *)
Fork(p, c) ==
    /\ processes[p].state = "running"
    /\ processes[c].state = "absent"
    /\ \E parent \in {p, PID1} :
          processes' = [processes EXCEPT ![c] =
              [state |-> "running", parent |-> parent, status |-> "none",
               charged |-> processes[p].charged]]
    /\ UNCHANGED <<handler, init, pipes, sigchld, cgroup, counters, cancelled, execution, outcome>>

(* The limits are the budget's, so Init can meet them too, whether or not  *)
(* a Workload runs, and may not survive it.                                *)
WorkloadRuns == \E p \in Process : processes[p].state = "running" /\ processes[p].charged

InitMeetsLimit == init.pc # "gone" /\ (init' = init \/ KillInit)

(* A fork, or a new thread, meets pids.max.                                *)
ForkRefused ==
    /\ events.pids < MaxEvents
    /\ events' = [events EXCEPT !.pids = @ + 1]
    /\ \/ /\ WorkloadRuns /\ init' = init
          /\ history' = history \union {"pids", "ownPids"}
       \/ /\ InitMeetsLimit
          /\ history' = history \union {"pids"}
    /\ UNCHANGED <<handler, pipes, sigchld, processes, cgroup, cancelled, execution, outcome>>

(* An allocation meets memory.max.  oom_score_adj spares Init and the      *)
(* gated launcher, so the victim is the Workload, all of it.               *)
OutOfMemory ==
    /\ events.oom < MaxEvents
    /\ events' = [events EXCEPT !.oom = @ + 1]
    /\ processes' = KilledGroup
    /\ \/ /\ WorkloadRuns /\ init' = init
          /\ history' = history \union {"oom", "ownOOM"}
       \/ /\ InitMeetsLimit
          /\ history' = history \union {"oom"}
    /\ UNCHANGED <<handler, pipes, sigchld, cgroup, cancelled, execution, outcome>>

(* A process ends: the launcher, if it cannot go on; a process of the      *)
(* Workload, when it likes; one with a pending SIGKILL, whatever it likes. *)
Exit(p) ==
    /\ Live(p)
    /\ processes' = [processes EXCEPT ![p].state = "exiting", ![p].status =
                        IF processes[p].state = "killed" THEN "sigkill" ELSE p]
    /\ UNCHANGED <<handler, init, pipes, sigchld, cgroup, counters, cancelled, execution, outcome>>

(* exit_notify: its children go to Init, its parent may collect it.        *)
Notify(p) ==
    /\ processes[p].state = "exiting"
    /\ processes' = [q \in Process |->
          IF q = p THEN [processes[p] EXCEPT !.state = "zombie"]
          ELSE IF q \in ChildrenOf(p) THEN [processes[q] EXCEPT !.parent = PID1]
          ELSE processes[q]]
    /\ sigchld' = IF processes[p].parent = PID1 \/ Zombies(p) # {}
                  THEN [sigchld EXCEPT !.pending = TRUE] ELSE sigchld
    /\ UNCHANGED <<handler, init, pipes, cgroup, counters, cancelled, execution, outcome>>

(* A process of the Workload waits for its own child.                      *)
Collect(p, c) ==
    /\ processes[p].state = "running"
    /\ c \in Zombies(p)
    /\ processes' = [processes EXCEPT ![c] = NoProcess]
    /\ UNCHANGED <<handler, init, pipes, sigchld, cgroup, counters, cancelled, execution, outcome>>

(* The Sandbox's context ends, and exec.CommandContext kills Init.         *)
Cancel ==
    /\ ~cancelled
    /\ cancelled' = TRUE
    /\ KillInit
    /\ UNCHANGED <<handler, pipes, kernelVars, cgroup, execution, outcome>>

(* The kernel ends a PID namespace with its Init: nothing of it is left    *)
(* when the Supervisor's wait returns.                                     *)
NamespaceEnds ==
    /\ init.pc = "dying"
    /\ init' = [init EXCEPT !.pc = "gone"]
    /\ processes' = [p \in Process |-> NoProcess]
    /\ UNCHANGED <<handler, pipes, sigchld, cgroup, counters, cancelled, execution, outcome>>

-----------------------------------------------------------------------------
Execute ==
    \/ Begin \/ BeginFails \/ ReceiveStarted \/ Attach \/ Release
    \/ ReaderReceives \/ ReaderFails
    \/ WaitReturns \/ DeadlineReached \/ BudgetExhausted \/ Terminated \/ WaitFails \/ Join
    \/ Killed \/ SendReap \/ Incomplete \/ ReceiveReady \/ Complete
    \/ Fail \/ InitIsGone \/ CloseTree

RunInit ==
    \/ StartWorkload \/ OpenGate \/ StartReaping \/ FindNothing \/ Wake \/ Drain
    \/ \E p \in Process : Reap(p)
    \/ InitFails

Workload ==
    \/ \E p \in Process, c \in Descendants : Fork(p, c) \/ Collect(p, c)
    \/ ForkRefused
    \/ OutOfMemory

Kernel ==
    \/ Deliver
    \/ NamespaceEnds
    \/ \E p \in Process : Exit(p) \/ Notify(p)

Next == Execute \/ RunInit \/ Workload \/ Kernel \/ Cancel

Spec == Init /\ [][Next]_vars

(* What the handler does when it can, and the timers of its waits: the     *)
(* transport deadlines and the three seconds of killAndWait.               *)
HandlerProgress ==
    \/ ReceiveStarted \/ Attach \/ Release \/ WaitReturns \/ Terminated \/ Join
    \/ Killed \/ SendReap \/ Incomplete \/ ReceiveReady \/ Complete \/ Fail \/ InitIsGone
    \/ handler.pc = "terminating" /\ WaitFails

(* The handler, its reader and the deadline's timer, and the kernel's      *)
(* teardown of a namespace.  Neither Init nor the Workload owes anything.  *)
FairSpec ==
    /\ Spec
    /\ WF_vars(HandlerProgress)
    /\ WF_vars(ReaderReceives \/ ReaderFails)
    /\ WF_vars(DeadlineReached)
    /\ WF_vars(NamespaceEnds)

-----------------------------------------------------------------------------
(* Properties.                                                             *)

(* Past the gate no process of the Workload is ever outside the            *)
(* Execution's cgroup, so that it is charged and the kill reaches it.      *)
WorkloadIsCharged ==
    \A p \in Process : processes[p].state \in {"running", "killed"} => processes[p].charged

(* Between two Executions of a Sandbox that still serves nothing of the    *)
(* earlier one is left: no process, not even a zombie, no frame on either  *)
(* pipe that the next handshake could take for its own, no cgroup.  And    *)
(* while trusted Init drains the outputs and reads the declared files, no  *)
(* process of the Workload exists that could change them.                  *)
CleanBetween ==
    /\ handler.pc = "idle" /\ InitServes =>
          /\ init.pc = "main"
          /\ requests = <<>> /\ responses = <<>>
          /\ \A p \in Process : processes[p].state = "absent"
          /\ ~cgroup /\ handler.reader = "none"
    /\ init.pc = "draining" => \A p \in Process : processes[p].state = "absent"

(* SIGCHLD is a hint that may be coalesced or dropped, yet Init never      *)
(* sleeps over a child it could collect.                                   *)
NoLostWakeup ==
    init.pc = "asleep" /\ Zombies(PID1) # {} => sigchld.pending \/ sigchld.buffered

(* A complete result carries the exit status of the main process and of no *)
(* other, and exited only if the main process ended by itself; without a   *)
(* status there is only evidence of a budget or of the deadline.  The      *)
(* reason names a budget exactly when its two readings differ, memory      *)
(* first, and they differ exactly when they should: an event of this       *)
(* Execution's own Workload is never missed, however late it came and      *)
(* whatever else is killed, and no event is reported that did not happen   *)
(* since this Execution began, Init's side of the budget included          *)
(* (docs/sandbox-supervisor-protocol-v1.md: "reread to capture events that *)
(* race with normal process exit").  Timed out is the deadline's doing,    *)
(* and never of an Execution whose exit the handler had in hand before.    *)
ResultIsGenuine ==
    /\ outcome.kind = "complete" =>
          /\ outcome.code \in {Main, "sigkill"}
          /\ outcome.reason = "exited" => outcome.code = Main
    /\ outcome.kind = "incomplete" => outcome.reason # "exited" /\ outcome.code = "none"
    /\ outcome.kind \in {"complete", "incomplete"} =>
          /\ outcome.reason = "memory_limit" <=> usage.oom > 0
          /\ outcome.reason = "pids_limit" <=> usage.oom = 0 /\ usage.pids > 0
          /\ "ownOOM" \in history => usage.oom > 0
          /\ "ownPids" \in history => usage.pids > 0
          /\ usage.oom > 0 => "oom" \in history
          /\ usage.pids > 0 => "pids" \in history
          /\ outcome.reason = "timed_out" => handler.timedOut /\ "inTime" \notin history

(* Every Execution ends, whatever the Workload and Init do: each wait of   *)
(* the handler has a deadline, and the deadline that kills the Workload    *)
(* does not cut off the handshake that follows.                            *)
EveryExecutionEnds == handler.pc # "idle" ~> handler.pc = "idle"

=============================================================================
