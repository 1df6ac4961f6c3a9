-------------------------- MODULE WorkerNodeProofs --------------------------
(***************************************************************************)
(* Proofs about WorkerNode, for any number of slots, Executions, Sandboxes *)
(* and strays.                                                             *)
(*                                                                         *)
(* Every step of the node is a step of the queue or leaves it alone, so    *)
(* what is proved of the queue holds here.  To each Execution belongs one  *)
(* Sandbox, whoever names it: the row, a slot or a stray.  A Release is    *)
(* sent only for an Execution whose Sandbox nobody will use again, and     *)
(* that keeps a Sandbox in use bound to an unreleased row.                 *)
(*                                                                         *)
(* The invariant is built in layers, each inductive given the ones below.  *)
(***************************************************************************)
EXTENDS WorkerNode, ExecutionQueueProofs, WellFoundedInduction

Vacant == {"idle", "outstanding", "reconcile", "configure", "claim", "stopped"}
Cleaning == {"destroy", "release"}
Watched == (Working \ {"bind"}) \union {"stop"}

NodeTypes ==
    /\ slots \in [Slots -> Slot] /\ monitors \in [Slots -> Monitor]
    /\ node \in [unsafe : BOOLEAN, active : SUBSET Executions, stopping : BOOLEAN,
                  restarts : 0..MaxRestarts]
    /\ supervised \in [Sandboxes -> Supervised]
    /\ strays \subseteq Request

-----------------------------------------------------------------------------
(* The row of e is reported as settled.                                    *)
Over(e) == ObservedState(executions[e], now) \in Terminal

(* Layer 1: what the place of a slot says of its other fields, and the     *)
(* parameters of a request.                                                *)

SlotShape(k) ==
    /\ slots[k].pc \in Vacant <=> slots[k].execution = NoExecution
    /\ slots[k].pc \in Vacant \union {"granted", "validate"} => slots[k].sandbox = NoSandbox
    /\ slots[k].pc \in Working => slots[k].sandbox # NoSandbox
    /\ slots[k].pc = "report" => slots[k].result # NoResult
    /\ slots[k].pc \notin Cleaning \union {"reconcile"} => slots[k].entries = {}

MonitorShape(k) ==
    /\ slots[k].pc \notin Watched => monitors[k] = NoMonitor
    /\ monitors[k] # NoMonitor => slots[k].sandbox # NoSandbox

StrayShape(m) ==
    /\ m.op \notin {"claim", "configure"} => m.execution # NoExecution
    /\ m.op \in {"bind", "heartbeat", "recover", "complete"} => m.sandbox # NoSandbox
    /\ m.op = "complete" => m.result # NoResult

ShapeInv ==
    /\ TableInv /\ NodeTypes
    /\ \A k \in Slots : SlotShape(k) /\ MonitorShape(k)
    /\ \A m \in strays : StrayShape(m)

-----------------------------------------------------------------------------
(* The requests a slot has under way.                                      *)
Ops(k) ==
    {op \in {"configure", "claim", "bind", "complete", "release"} : op = OpOf(slots[k].pc)}
    \union {op \in {"heartbeat", "recover"} : op = monitors[k].beat}

Others(k) ==
    \A j \in Slots : j # k => slots'[j] = slots[j] /\ monitors'[j] = monitors[j]

Sends(k) == strays' \subseteq strays \union {RequestOf(k, op) : op \in Ops(k)}

(* A request of a slot is well formed.                                     *)
LEMMA RequestShape ==
    ASSUME ShapeInv, NEW k \in Slots, NEW op \in Ops(k)
    PROVE  RequestOf(k, op) \in Request /\ StrayShape(RequestOf(k, op))
<1>0. slots[k] \in Slot /\ SlotShape(k) /\ MonitorShape(k)
  BY DEF ShapeInv, NodeTypes
<1>1. /\ op \in {"configure", "claim", "bind", "complete", "release", "heartbeat", "recover"}
      /\ op \in {"configure", "claim", "bind", "release"} => slots[k].pc = op
      /\ op = "complete" => slots[k].pc = "report"
      /\ op \in {"heartbeat", "recover"} => monitors[k].beat = op
  BY DEF Ops, OpOf
<1>2. op \in {"heartbeat", "recover"} => slots[k].pc \in Watched /\ slots[k].sandbox # NoSandbox
  BY <1>0, <1>1 DEF MonitorShape, NoMonitor
<1> QED
  BY <1>0, <1>1, <1>2
     DEF RequestOf, Request, Slot, StrayShape, SlotShape, Vacant, Working, Watched, Cleaning

(* What a step of one slot leaves of the first layer.                      *)
LEMMA ShapeStep ==
    ASSUME ShapeInv, NEW k \in Slots, Others(k), Sends(k), TableInv',
           slots' \in [Slots -> Slot], monitors' \in [Slots -> Monitor],
           node' \in [unsafe : BOOLEAN, active : SUBSET Executions, stopping : BOOLEAN,
                      restarts : 0..MaxRestarts],
           supervised' \in [Sandboxes -> Supervised],
           SlotShape(k)', MonitorShape(k)'
    PROVE  ShapeInv'
<1>1. strays' \subseteq Request /\ \A m \in strays' : StrayShape(m)
  BY RequestShape DEF Sends, ShapeInv, NodeTypes
<1>2. ASSUME NEW j \in Slots PROVE SlotShape(j)' /\ MonitorShape(j)'
  <2>1. CASE j = k
    BY <2>1
  <2>2. CASE j # k
    <3>1. SlotShape(j) /\ MonitorShape(j) /\ slots'[j] = slots[j] /\ monitors'[j] = monitors[j]
      BY <2>2 DEF ShapeInv, Others
    <3> QED
      BY <3>1 DEF SlotShape, MonitorShape
  <2> QED
    BY <2>1, <2>2
<1>3. \A m \in strays' : StrayShape(m)'
  BY <1>1 DEF StrayShape
<1> QED
  BY <1>1, <1>2, <1>3 DEF ShapeInv, NodeTypes

-----------------------------------------------------------------------------
(* What the node asks of the queue are steps of the queue.                 *)
LEMMA TokenIsGood == Token \in Tokens /\ 1 \in 1..MaxGeneration
  BY NodeAssumption, LimitAssumption DEF Token, Tokens

(* A request with the token of this Worker is a step of the queue.         *)
LEMMA AskQueue ==
    ASSUME NEW e \in Executions,
           \/ Claim(Token, e)
           \/ \E s \in Sandboxes : \/ BindSandbox(Token, e, 1, s)
                                   \/ \E recovering \in BOOLEAN : renew(Token, e, 1, s, recovering)
           \/ \E result \in Results : Complete(Token, e, 1, result)
           \/ Release(Token, e, 1)
    PROVE  Next
<1>1. WorkerRequest(Token, e)
  <2>1. ASSUME NEW s \in Sandboxes, NEW recovering \in BOOLEAN, renew(Token, e, 1, s, recovering)
        PROVE  Heartbeat(Token, e, 1, s) \/ Recover(Token, e, 1, s)
    BY <2>1 DEF Heartbeat, Recover
  <2> QED
    BY <2>1, TokenIsGood DEF WorkerRequest
<1> QED
  BY <1>1, TokenIsGood DEF Next

(* So is configuring its capacity.                                         *)
LEMMA AskCapacity == ConfigureCapacity(Token, Cardinality(Slots)) => Next
<1> SUFFICES ASSUME ConfigureCapacity(Token, Cardinality(Slots)) PROVE Next
  OBVIOUS
<1>1. Cardinality(Slots) \in 0..(MaxCapacity + 1)
  BY NodeAssumption, LimitAssumption
<1> QED
  BY <1>1, TokenIsGood DEF Next

(* What a slot works on.                                                   *)
LEMMA SlotFacts ==
    ASSUME ShapeInv, NEW k \in Slots
    PROVE  /\ slots[k] \in Slot /\ monitors[k] \in Monitor /\ SlotShape(k) /\ MonitorShape(k)
           /\ slots[k].execution \in Executions \union {NoExecution}
           /\ slots[k].sandbox \in Sandboxes \union {NoSandbox}
           /\ slots[k].result \in Results \union {NoResult}
           /\ slots[k].pc \notin Vacant => slots[k].execution \in Executions
           /\ slots[k].pc \in Working => slots[k].sandbox \in Sandboxes
           /\ slots[k].pc = "report" => slots[k].result \in Results
           /\ monitors[k].beat # "off" =>
                 slots[k].pc \in Watched /\ slots[k].sandbox \in Sandboxes
                 /\ slots[k].execution \in Executions
<1>1. slots[k] \in Slot /\ monitors[k] \in Monitor /\ SlotShape(k) /\ MonitorShape(k)
  BY DEF ShapeInv, NodeTypes
<1>2. /\ slots[k].execution \in Executions \union {NoExecution}
      /\ slots[k].sandbox \in Sandboxes \union {NoSandbox}
      /\ slots[k].result \in Results \union {NoResult}
  BY <1>1 DEF Slot
<1>3. monitors[k].beat # "off" => slots[k].pc \in Watched /\ slots[k].sandbox # NoSandbox
  BY <1>1 DEF MonitorShape, NoMonitor
<1>4. slots[k].pc \in Watched => slots[k].pc \notin Vacant
  BY DEF Watched, Working, Vacant
<1> QED
  BY <1>1, <1>2, <1>3, <1>4 DEF SlotShape

(* What a slot, its monitor or its watchdog does is a step of the queue.   *)
LEMMA SlotAsks ==
    ASSUME ShapeInv, NEW k \in Slots,
           Progress(k) \/ Disturbed(k) \/ HeartbeatStep(k) \/ Watchdog(k)
    PROVE  [Next]_vars
<1>1. CASE Configure(k)
  BY <1>1, AskCapacity DEF Configure
<1>2. CASE Bind(k)
  <2>1. BindSandbox(Token, slots[k].execution, 1, slots[k].sandbox)
        /\ slots[k].pc \in Working /\ slots[k].pc \notin Vacant
    BY <1>2 DEF Bind, At, Working, Vacant
  <2> QED
    BY <2>1, SlotFacts, AskQueue
<1>3. CASE BeatCommits(k)
  <2>1. PICK recovering \in BOOLEAN :
          renew(Token, slots[k].execution, 1, slots[k].sandbox, recovering)
    BY <1>3 DEF BeatCommits
  <2>2. monitors[k].beat # "off"
    BY <1>3 DEF BeatCommits, Beating
  <2> QED
    BY <2>1, <2>2, SlotFacts, AskQueue
<1>4. CASE Report(k)
  <2>1. Complete(Token, slots[k].execution, 1, slots[k].result)
        /\ slots[k].pc = "report" /\ slots[k].pc \notin Vacant
    BY <1>4 DEF Report, At, Vacant
  <2> QED
    BY <2>1, SlotFacts, AskQueue
<1>5. CASE ReleaseSlot(k)
  <2>1. Release(Token, slots[k].execution, 1) /\ slots[k].pc \notin Vacant
    BY <1>5 DEF ReleaseSlot, At, Vacant
  <2> QED
    BY <2>1, SlotFacts, AskQueue
<1>6. ASSUME NEW e \in Executions, ClaimCommits(k, e) PROVE [Next]_vars
  BY <1>6, AskQueue DEF ClaimCommits
<1>7. CASE \/ Begin(k) \/ Outstanding(k) \/ LegacyFound(k) \/ Reconcile(k) \/ Stopped(k)
           \/ Granted(k) \/ \E s \in Sandboxes : Validate(k, s)
           \/ ValidateFails(k) \/ BindFails(k) \/ MaintainLease(k) \/ FirstFails(k)
  BY <1>7 DEF Begin, Outstanding, LegacyFound, Reconcile, Stopped, Granted, Validate,
              ValidateFails, BindFails, MaintainLease, FirstFails
<1>8. CASE \/ Create(k) \/ Created(k) \/ WaitForAuthority(k) \/ Execute(k)
           \/ \E result \in Results, intact \in BOOLEAN : Executed(k, result, intact)
           \/ LocalFails(k) \/ ReportFails(k) \/ StopMonitor(k) \/ Destroy(k) \/ CleanupFails(k)
  BY <1>8 DEF Create, Created, WaitForAuthority, Execute, Executed, LocalFails, ReportFails,
              StopMonitor, Destroy, CleanupFails
<1>9. CASE \/ PollAgain(k) \/ BindAgain(k) \/ ReportUnanswered(k) \/ ReleaseUnanswered(k)
           \/ BudgetSpent(k) \/ \E delivered \in BOOLEAN : HangUp(k, delivered)
  BY <1>9 DEF PollAgain, BindAgain, ReportUnanswered, ReleaseUnanswered, BudgetSpent, HangUp
<1>10. CASE \/ Beat(k) \/ BeatFindsResult(k) \/ BeatConflicts(k) \/ BeatRefused(k)
            \/ BeatUnanswered(k) \/ BeatAnswered(k) \/ Watchdog(k)
            \/ \E found \in BOOLEAN : Inspect(k, found)
  BY <1>10
     DEF Beat, BeatFindsResult, BeatConflicts, BeatRefused, BeatUnanswered, BeatAnswered,
               Watchdog, Inspect
<1> QED
  BY <1>1, <1>2, <1>3, <1>4, <1>5, <1>6, <1>7, <1>8, <1>9, <1>10
     DEF Progress, Disturbed, HeartbeatStep

(* So is the arrival of a request nobody waits for any more.               *)
LEMMA StrayAsks ==
    ASSUME ShapeInv, NEW m \in strays, StrayArrives(m)
    PROVE  [Next]_vars
<1>1. m \in Request /\ StrayShape(m)
  BY DEF ShapeInv, NodeTypes
<1>2. /\ m.op \in {"claim", "configure", "bind", "heartbeat", "recover", "complete", "release"}
      /\ m.op \notin {"claim", "configure"} => m.execution \in Executions
      /\ m.op \in {"bind", "heartbeat", "recover", "complete"} => m.sandbox \in Sandboxes
      /\ m.op = "complete" => m.result \in Results
  BY <1>1 DEF Request, StrayShape
<1>3. CASE m.op = "claim"
  <2>1. (\E e \in Executions : Claim(Token, e)) \/ UNCHANGED vars
    BY <1>3 DEF StrayArrives
  <2> QED
    BY <2>1, AskQueue
<1>4. CASE m.op = "configure"
  <2>1. ConfigureCapacity(Token, Cardinality(Slots)) \/ UNCHANGED vars
    BY <1>4 DEF StrayArrives
  <2> QED
    BY <2>1, AskCapacity
<1>5. CASE m.op = "bind"
  <2>1. BindSandbox(Token, m.execution, 1, m.sandbox) \/ UNCHANGED vars
    BY <1>5 DEF StrayArrives
  <2> QED
    BY <1>2, <1>5, <2>1, AskQueue
<1>6. CASE m.op \in {"heartbeat", "recover"}
  <2>1. \/ renew(Token, m.execution, 1, m.sandbox, FALSE)
        \/ renew(Token, m.execution, 1, m.sandbox, TRUE) \/ UNCHANGED vars
    BY <1>6 DEF StrayArrives, Heartbeat, Recover
  <2> QED
    BY <1>2, <1>6, <2>1, AskQueue
<1>7. CASE m.op = "complete"
  <2>1. Complete(Token, m.execution, 1, m.result) \/ UNCHANGED vars
    BY <1>7 DEF StrayArrives
  <2> QED
    BY <1>2, <1>7, <2>1, AskQueue
<1>8. CASE m.op = "release"
  <2>1. Release(Token, m.execution, 1) \/ UNCHANGED vars
    BY <1>8 DEF StrayArrives
  <2> QED
    BY <1>2, <1>8, <2>1, AskQueue
<1> QED
  BY <1>2, <1>3, <1>4, <1>5, <1>6, <1>7, <1>8

(* Every step of the node is a step of the queue or leaves it alone.       *)
LEMMA NodeAsks ==
    ASSUME ShapeInv, [NodeNext]_allVars
    PROVE  [Next]_vars /\ TableInv'
<1>1. [Next]_vars
  <2>1. CASE \E s \in Sandboxes :
               SupervisorTearsDown(s) \/ \E ready \in BOOLEAN : SupervisorCreates(s, ready)
    BY <2>1 DEF SupervisorTearsDown, SupervisorCreates
  <2>2. CASE Restart \/ Interrupt \/ UNCHANGED allVars
    BY <2>2 DEF Restart, Interrupt, allVars
  <2>3. CASE ControlPlane
    BY <2>3, NodeAssumption DEF ControlPlane, Next, Operator
  <2> QED
    BY <2>1, <2>2, <2>3, SlotAsks, StrayAsks DEF NodeNext
<1> QED
  BY <1>1, NextTable DEF ShapeInv

-----------------------------------------------------------------------------
(* How a step of one slot looks from outside.                              *)
Pcs == Vacant \union {"granted", "validate", "stop"} \union Working \union Cleaning

Step(k) ==
    /\ Others(k) /\ Sends(k)
    /\ slots' \in [Slots -> Slot] /\ monitors' \in [Slots -> Monitor]
    /\ node' \in [unsafe : BOOLEAN, active : SUBSET Executions, stopping : BOOLEAN,
                   restarts : 0..MaxRestarts]
    /\ supervised' \in [Sandboxes -> Supervised]

(* The slot goes on with its Execution and Sandbox.                        *)
Stays(k) ==
    /\ slots'[k].execution = slots[k].execution /\ slots'[k].sandbox = slots[k].sandbox
    /\ slots'[k].entries = slots[k].entries
    /\ slots[k].pc \notin Vacant /\ slots'[k].pc \notin Vacant

(* Where a slot can give up without a word to the Supervisor.              *)
Leaving == {"validate", "bind", "first", "authority", "report"}

(* It does so without the Supervisor.                                      *)
Glides(k) ==
    /\ Stays(k) /\ supervised' = supervised /\ node'.active = node.active
    /\ slots'[k].result = slots[k].result
    /\ \/ slots'[k].pc = slots[k].pc
       \/ slots'[k].pc = "stop" /\ slots[k].pc \in Leaving
       \/ /\ slots[k].pc = "bind" /\ slots'[k].pc = "first"
          /\ executions'[slots[k].execution].sandbox_id = slots[k].sandbox
       \/ slots[k].pc = "first" /\ slots'[k].pc = "create"
       \/ slots[k].pc = "authority" /\ slots'[k].pc = "execute"
       \/ slots[k].pc = "stop" /\ slots'[k].pc = "destroy"

(* A slot that glides keeps its shape.                                     *)
LEMMA GlideShape ==
    ASSUME ShapeInv, TableInv', NEW k \in Slots, Step(k), Glides(k), MonitorShape(k)'
    PROVE  ShapeInv'
<1>1. SlotShape(k)
  BY SlotFacts
<1>2. SlotShape(k)'
  BY <1>1 DEF SlotShape, Glides, Stays, Leaving, Vacant, Working, Cleaning
<1> QED
  BY <1>2, ShapeStep DEF Step

(* The effect of the assignments to a slot.                                *)
LEMMA SlotSet ==
    ASSUME ShapeInv, NEW k \in Slots, NEW r \in Slot, slots' = [slots EXCEPT ![k] = r]
    PROVE  /\ slots' \in [Slots -> Slot] /\ slots'[k] = r
           /\ \A j \in Slots : j # k => slots'[j] = slots[j]
  BY DEF ShapeInv, NodeTypes

(* What Go changes.                                                        *)
LEMMA GoEffect ==
    ASSUME ShapeInv, NEW k \in Slots, NEW pc \in Pcs, Go(k, pc)
    PROVE  /\ slots' \in [Slots -> Slot]
           /\ \A j \in Slots : j # k => slots'[j] = slots[j]
           /\ slots'[k].pc = pc /\ slots'[k].execution = slots[k].execution
           /\ slots'[k].sandbox = slots[k].sandbox /\ slots'[k].entries = slots[k].entries
           /\ slots'[k].result = slots[k].result
<1>1. slots \in [Slots -> Slot] /\ slots[k] \in Slot
  BY DEF ShapeInv, NodeTypes
<1>2. slots' = [slots EXCEPT ![k] = [slots[k] EXCEPT !.pc = pc]]
  BY <1>1 DEF Go
<1>3. [slots[k] EXCEPT !.pc = pc] \in Slot
  BY <1>1 DEF Slot, Pcs, Vacant, Working, Cleaning
<1>4. slots' \in [Slots -> Slot] /\ slots'[k] = [slots[k] EXCEPT !.pc = pc]
      /\ \A j \in Slots : j # k => slots'[j] = slots[j]
  BY <1>2, <1>3, SlotSet
<1> QED
  BY <1>1, <1>4 DEF Slot

(* What Leave changes.                                                     *)
LEMMA LeaveEffect ==
    ASSUME ShapeInv, NEW k \in Slots, NEW failed \in BOOLEAN, Leave(k, failed)
    PROVE  /\ slots' \in [Slots -> Slot]
           /\ \A j \in Slots : j # k => slots'[j] = slots[j]
           /\ slots'[k].pc = "stop" /\ slots'[k].execution = slots[k].execution
           /\ slots'[k].sandbox = slots[k].sandbox /\ slots'[k].entries = slots[k].entries
           /\ slots'[k].result = slots[k].result
<1>1. slots \in [Slots -> Slot] /\ slots[k] \in Slot
  BY DEF ShapeInv, NodeTypes
<1>2. slots' = [slots EXCEPT ![k] = [slots[k] EXCEPT !.pc = "stop", !.failed = failed]]
  BY <1>1 DEF Leave
<1>3. [slots[k] EXCEPT !.pc = "stop", !.failed = failed] \in Slot
  BY <1>1 DEF Slot
<1>4. slots' \in [Slots -> Slot] /\ slots'[k] = [slots[k] EXCEPT !.pc = "stop", !.failed = failed]
      /\ \A j \in Slots : j # k => slots'[j] = slots[j]
  BY <1>2, <1>3, SlotSet
<1> QED
  BY <1>1, <1>4 DEF Slot

(* An unanswered request is one of the slot's.                             *)
LEMMA UnansweredEffect ==
    ASSUME NEW k \in Slots, NEW R, Unanswered(R), R \subseteq {RequestOf(k, op) : op \in Ops(k)}
    PROVE  Sends(k)
  BY DEF Unanswered, Sends

(* A step that leaves the strays alone sends nothing new.                  *)
LEMMA SilentEffect ==
    ASSUME NEW k \in Slots, strays' = strays
    PROVE  Sends(k)
  BY DEF Sends

(* A heartbeat in flight is one of the requests under way.                 *)
LEMMA BeatingOps ==
    ASSUME NEW k \in Slots
    PROVE  (IF Beating(k) THEN {RequestOf(k, monitors[k].beat)} ELSE {})
               \subseteq {RequestOf(k, op) : op \in Ops(k)}
  BY DEF Beating, Ops

(* The effect on a monitor.                                                *)
LEMMA MonitorSet ==
    ASSUME ShapeInv, NEW k \in Slots, NEW r \in Monitor, monitors' = [monitors EXCEPT ![k] = r]
    PROVE  /\ monitors' \in [Slots -> Monitor] /\ monitors'[k] = r
           /\ \A j \in Slots : j # k => monitors'[j] = monitors[j]
  BY DEF ShapeInv, NodeTypes

(* A slot that leaves its place while its monitor goes on.                 *)
LEMMA LeaveGlides ==
    ASSUME ShapeInv, NEW k \in Slots, NEW failed \in BOOLEAN, Leave(k, failed), Sends(k),
           slots[k].pc \in Leaving, UNCHANGED <<node, supervised>>,
           monitors' \in [Slots -> Monitor],
           \A j \in Slots : j # k => monitors'[j] = monitors[j]
    PROVE  Step(k) /\ Glides(k)
<1>1. /\ node \in [unsafe : BOOLEAN, active : SUBSET Executions, stopping : BOOLEAN,
                    restarts : 0..MaxRestarts]
      /\ supervised \in [Sandboxes -> Supervised]
  BY DEF ShapeInv, NodeTypes
<1>2. slots[k].pc \notin Vacant
  BY DEF Leaving, Vacant
<1> QED
  BY <1>1, <1>2, LeaveEffect DEF Step, Glides, Stays, Others, Vacant

(* A slot that stays where it is while its monitor goes on.                *)
LEMMA WaitGlides ==
    ASSUME ShapeInv, NEW k \in Slots, Sends(k), slots[k].pc \notin Vacant,
           UNCHANGED <<slots, node, supervised>>, monitors' \in [Slots -> Monitor],
           \A j \in Slots : j # k => monitors'[j] = monitors[j]
    PROVE  Step(k) /\ Glides(k)
  BY DEF ShapeInv, NodeTypes, Step, Glides, Stays, Others

(* A Go along the order of RunOnce is a glide.                             *)
LEMMA GoGlides ==
    ASSUME ShapeInv, NEW k \in Slots, Sends(k), NEW pc, Go(k, pc),
           \/ /\ slots[k].pc = "bind" /\ pc = "first"
              /\ executions'[slots[k].execution].sandbox_id = slots[k].sandbox
           \/ slots[k].pc = "first" /\ pc = "create"
           \/ slots[k].pc = "authority" /\ pc = "execute",
           UNCHANGED <<node, supervised>>, monitors' \in [Slots -> Monitor],
           \A j \in Slots : j # k => monitors'[j] = monitors[j]
    PROVE  Step(k) /\ Glides(k) /\ slots'[k].pc = pc
<1>1. /\ node \in [unsafe : BOOLEAN, active : SUBSET Executions, stopping : BOOLEAN,
                    restarts : 0..MaxRestarts]
      /\ supervised \in [Sandboxes -> Supervised]
  BY DEF ShapeInv, NodeTypes
<1>2. pc \in Pcs /\ slots[k].pc \notin Vacant /\ pc \notin Vacant
  BY DEF Pcs, Working, Vacant
<1> QED
  BY <1>1, <1>2, GoEffect DEF Step, Glides, Stays, Others

-----------------------------------------------------------------------------
(* Rows that keep their Sandbox, their release and their result.           *)
Quiet ==
    \A e \in Executions :
        /\ executions'[e].sandbox_id = executions[e].sandbox_id
        /\ executions'[e].capacity_released = executions[e].capacity_released
        /\ executions'[e].state = "completed" => executions[e].state = "completed"

(* What a step does to the timers of a slot: a watchdog is set only from   *)
(* an answer, and an answer has the time of its request.                   *)
MonitorMove(k) ==
    /\ monitors'[k].watchdog # 0 =>
          \/ monitors'[k].watchdog = monitors[k].watchdog
          \/ monitors[k].beat = "leased" /\ monitors'[k].watchdog = WatchdogOf(k)
    /\ monitors'[k].beat \in {"heartbeat", "recover", "leased"} =>
          \/ monitors'[k].started = now
          \/ /\ monitors[k].beat \in {"heartbeat", "recover", "leased"}
             /\ monitors'[k].started = monitors[k].started
    /\ monitors'[k].beat = "leased" =>
          /\ monitors'[k].started = monitors[k].started
          /\ \/ monitors[k].beat = "leased"
             \/ /\ monitors[k].beat \in {"heartbeat", "recover"}
                /\ executions'[slots[k].execution].recovery_until = now + LeaseDuration + RecoveryWindow

(* A step that leaves the tables alone is quiet.                           *)
LEMMA UnchangedIsQuiet == ASSUME UNCHANGED vars PROVE Quiet
  BY DEF Quiet, vars

(* A renewal changes no binding and releases nothing.                      *)
LEMMA RenewIsQuiet ==
    ASSUME TableInv, NEW e \in Executions, NEW s, NEW recovering, renew(Token, e, 1, s, recovering)
    PROVE  /\ Quiet
           /\ executions'[e].recovery_until = now + LeaseDuration + RecoveryWindow
<1>1. executions \in [Executions -> ExecutionRow] /\ executions[e] \in ExecutionRow
  BY DEF TableInv, TypeOK
<1>2. executions' = [executions EXCEPT ![e] = RenewedRow(executions[e])]
  BY DEF renew, Update
<1>3. /\ executions'[e] = RenewedRow(executions[e])
      /\ \A x \in Executions : x # e => executions'[x] = executions[x]
  BY <1>1, <1>2
<1>4. /\ executions'[e].sandbox_id = executions[e].sandbox_id
      /\ executions'[e].capacity_released = executions[e].capacity_released
      /\ executions'[e].state = "leased"
      /\ executions'[e].recovery_until = now + LeaseDuration + RecoveryWindow
  BY <1>1, <1>3 DEF RenewedRow, ExecutionRow
<1> QED
  BY <1>3, <1>4 DEF Quiet

(* A slot that gives up or waits, without a word to its monitor.           *)
LEMMA PlainGlides ==
    ASSUME ShapeInv, TableInv', NEW k \in Slots, UNCHANGED <<vars, monitors>>, Step(k), Glides(k),
           slots[k].pc \in Working \union {"validate", "release"}
    PROVE  ShapeInv' /\ MonitorMove(k) /\ Quiet
<1>1. MonitorShape(k) /\ monitors[k] \in Monitor
  BY SlotFacts
<1>2. MonitorShape(k)'
  <2>1. slots'[k].pc = slots[k].pc \/ slots'[k].pc \in Watched
    BY DEF Glides, Watched, Working
  <2> QED
    BY <1>1, <2>1 DEF MonitorShape, Glides, Stays
<1>3. MonitorMove(k)
  BY DEF MonitorMove, WatchdogOf
<1> QED
  BY <1>2, <1>3, GlideShape, UnchangedIsQuiet

(* The failures that lead to the deferred stop.                            *)
LEMMA LeaveSteps ==
    ASSUME ShapeInv, TableInv', NEW k \in Slots,
           ValidateFails(k) \/ BindFails(k) \/ ReportFails(k) \/ BudgetSpent(k)
    PROVE  ShapeInv' /\ Step(k) /\ Glides(k) /\ MonitorMove(k) /\ Quiet
<1>1. /\ Leave(k, TRUE) /\ UNCHANGED <<vars, monitors, node, supervised>>
      /\ slots[k].pc \in {"validate", "bind", "report"}
  BY DEF ValidateFails, BindFails, ReportFails, BudgetSpent, At
<1>2. Sends(k)
  <2>1. CASE BindFails(k)
    <3>1. Unanswered({RequestOf(k, "bind")}) /\ "bind" \in Ops(k)
      BY <2>1 DEF BindFails, At, Ops, OpOf
    <3> QED
      BY <3>1, UnansweredEffect
  <2>2. CASE ~BindFails(k)
    BY <2>2, SilentEffect DEF ValidateFails, ReportFails, BudgetSpent
  <2> QED
    BY <2>1, <2>2
<1>3. Step(k) /\ Glides(k)
  <2>1. monitors' \in [Slots -> Monitor] /\ \A j \in Slots : j # k => monitors'[j] = monitors[j]
    BY <1>1 DEF ShapeInv, NodeTypes
  <2> QED
    BY <1>1, <1>2, <2>1, LeaveGlides DEF Leaving
<1> QED
  BY <1>1, <1>3, PlainGlides DEF Working

(* The repetitions of Bind and Release.                                    *)
LEMMA WaitSteps ==
    ASSUME ShapeInv, TableInv', NEW k \in Slots, BindAgain(k) \/ ReleaseUnanswered(k)
    PROVE  ShapeInv' /\ Step(k) /\ Glides(k) /\ MonitorMove(k) /\ Quiet
<1>1. /\ UNCHANGED <<vars, slots, monitors, node, supervised>> /\ slots[k].pc \in {"bind", "release"}
      /\ Unanswered({RequestOf(k, slots[k].pc)}) /\ slots[k].pc \in Ops(k)
  BY DEF BindAgain, ReleaseUnanswered, At, Ops, OpOf
<1>2. Sends(k)
  BY <1>1, UnansweredEffect
<1>3. Step(k) /\ Glides(k)
  <2>1. monitors' \in [Slots -> Monitor] /\ \A j \in Slots : j # k => monitors'[j] = monitors[j]
    BY <1>1 DEF ShapeInv, NodeTypes
  <2> QED
    BY <1>1, <1>2, <2>1, WaitGlides DEF Vacant
<1> QED
  BY <1>1, <1>3, PlainGlides DEF Working

(* The wait for authority.                                                 *)
LEMMA AuthoritySteps ==
    ASSUME ShapeInv, TableInv', NEW k \in Slots, WaitForAuthority(k)
    PROVE  ShapeInv' /\ Step(k) /\ Glides(k) /\ MonitorMove(k) /\ Quiet
<1>1. /\ UNCHANGED <<vars, monitors, node, supervised, strays>> /\ slots[k].pc = "authority"
      /\ Go(k, "execute") \/ Leave(k, TRUE)
  BY DEF WaitForAuthority, At
<1>2. Sends(k)
  BY <1>1, SilentEffect
<1>3. Step(k) /\ Glides(k)
  <2>1. monitors' \in [Slots -> Monitor] /\ \A j \in Slots : j # k => monitors'[j] = monitors[j]
    BY <1>1 DEF ShapeInv, NodeTypes
  <2> QED
    BY <1>1, <1>2, <2>1, GoGlides, LeaveGlides DEF Leaving
<1> QED
  BY <1>1, <1>3, PlainGlides DEF Working

(* The monitor of a slot that stays where it is or gives up.               *)
LEMMA MonitorGlides ==
    ASSUME ShapeInv, TableInv', NEW k \in Slots, NEW r \in Monitor,
           monitors' = [monitors EXCEPT ![k] = r],
           slots[k].pc \in Watched, slots[k].sandbox # NoSandbox, Sends(k),
           UNCHANGED slots \/ (Leave(k, TRUE) /\ slots[k].pc = "first"), UNCHANGED <<node, supervised>>
    PROVE  ShapeInv' /\ Step(k) /\ Glides(k) /\ monitors'[k] = r
<1>1. /\ monitors' \in [Slots -> Monitor] /\ monitors'[k] = r
      /\ \A j \in Slots : j # k => monitors'[j] = monitors[j]
  BY MonitorSet
<1>2. slots[k].pc \notin Vacant
  BY DEF Watched, Working, Vacant
<1>3. Step(k) /\ Glides(k)
  BY <1>1, <1>2, WaitGlides, LeaveGlides DEF Leaving
<1>4. slots'[k].pc \in Watched
  BY <1>3 DEF Glides, Watched, Working
<1>5. UNCHANGED slots \/ slots'[k].pc = "stop"
  BY LeaveEffect
<1>6. MonitorShape(k)'
  BY <1>3, <1>5 DEF MonitorShape, Glides, Stays, Watched
<1> QED
  BY <1>1, <1>3, <1>6, GlideShape

(* A heartbeat commits.                                                    *)
LEMMA BeatCommitsStep ==
    ASSUME ShapeInv, TableInv', NEW k \in Slots, BeatCommits(k)
    PROVE  ShapeInv' /\ Step(k) /\ Glides(k) /\ MonitorMove(k) /\ Quiet
<1>0. /\ monitors \in [Slots -> Monitor] /\ monitors[k] \in Monitor /\ TableInv
      /\ monitors[k].beat \in {"heartbeat", "recover"}
  BY DEF ShapeInv, NodeTypes, BeatCommits, Beating
<1>1. slots[k].pc \in Watched /\ slots[k].sandbox \in Sandboxes /\ slots[k].execution \in Executions
  BY <1>0, SlotFacts
<1>2. PICK r \in Monitor : r = [monitors[k] EXCEPT !.beat = "leased"]
  BY <1>0 DEF Monitor
<1>3. /\ monitors' = [monitors EXCEPT ![k] = r] /\ UNCHANGED <<slots, node, supervised, strays>>
  BY <1>0, <1>2 DEF BeatCommits, Answer
<1>4. Sends(k)
  BY <1>3, SilentEffect
<1>5. ShapeInv' /\ Step(k) /\ Glides(k) /\ monitors'[k] = r
  BY <1>1, <1>3, <1>4, MonitorGlides, NullAssumption
<1>6. PICK recovering \in BOOLEAN :
        renew(Token, slots[k].execution, 1, slots[k].sandbox, recovering)
  BY DEF BeatCommits
<1>7. Quiet /\ executions'[slots[k].execution].recovery_until = now + LeaseDuration + RecoveryWindow
  BY <1>0, <1>1, <1>6, RenewIsQuiet
<1>8. r.watchdog = monitors[k].watchdog /\ r.beat = "leased" /\ r.started = monitors[k].started
  BY <1>0, <1>2 DEF Monitor
<1> QED
  BY <1>0, <1>5, <1>7, <1>8 DEF MonitorMove

(* A new state of a monitor whose timers are set by this step or kept.     *)
Timely(k, r) ==
    /\ r.watchdog # 0 =>
          \/ r.watchdog = monitors[k].watchdog
          \/ monitors[k].beat = "leased" /\ r.watchdog = WatchdogOf(k)
    /\ r.beat \in {"heartbeat", "recover"} =>
          r.started = now \/ (r.beat = monitors[k].beat /\ r.started = monitors[k].started)
    /\ r.beat = "leased" => monitors[k].beat = "leased" /\ r.started = monitors[k].started

(* The other steps of the monitor leave the queue alone.                   *)
LEMMA BeatSteps ==
    ASSUME ShapeInv, TableInv', NEW k \in Slots,
           \/ Beat(k) \/ BeatFindsResult(k) \/ BeatConflicts(k) \/ BeatRefused(k)
           \/ BeatUnanswered(k) \/ BeatAnswered(k) \/ FirstFails(k) \/ Watchdog(k)
           \/ ReportUnanswered(k)
           \/ \E found \in BOOLEAN : Inspect(k, found)
    PROVE  ShapeInv' /\ Step(k) /\ Glides(k) /\ MonitorMove(k) /\ Quiet
<1>0. /\ monitors \in [Slots -> Monitor] /\ monitors[k] \in Monitor /\ now \in Nat
      /\ LeaseDuration \in Nat /\ RecoveryWindow \in Nat
  BY DurationAssumption DEF ShapeInv, NodeTypes, TableInv, TypeOK
<1>t. /\ monitors[k].started \in Nat /\ monitors[k].watchdog \in Nat
      /\ monitors[k].lost \in BOOLEAN /\ monitors[k].disconnected \in BOOLEAN
      /\ WatchdogOf(k) \in Nat
  BY <1>0 DEF Monitor, WatchdogOf
<1>1. UNCHANGED <<vars, node, supervised>>
  BY DEF Beat, BeatFindsResult, BeatConflicts, BeatRefused, BeatUnanswered, BeatAnswered,
         FirstFails, Watchdog, ReportUnanswered, Inspect
<1>2. UNCHANGED slots \/ (Leave(k, TRUE) /\ slots[k].pc = "first")
  BY DEF Beat, BeatFindsResult, BeatConflicts, BeatRefused, BeatUnanswered, BeatAnswered,
         FirstFails, Watchdog, ReportUnanswered, Inspect, At
<1>3. slots[k].pc \in Watched /\ slots[k].sandbox # NoSandbox
  <2>1. monitors[k].beat # "off" \/ slots[k].pc \in {"first", "report"} \/ monitors[k].watchdog # 0
    BY DEF Beat, BeatFindsResult, BeatConflicts, BeatRefused, BeatUnanswered, BeatAnswered,
           FirstFails, Watchdog, ReportUnanswered, Inspect, At, Beating
  <2> QED
    BY <2>1, SlotFacts, NullAssumption DEF MonitorShape, NoMonitor, Watched, Working
<1>4. Sends(k)
  <2>1. CASE BeatUnanswered(k) \/ FirstFails(k)
    BY <2>1, UnansweredEffect, BeatingOps DEF BeatUnanswered, FirstFails
  <2>2. CASE ReportUnanswered(k)
    <3>1. Unanswered({RequestOf(k, "complete")}) /\ "complete" \in Ops(k)
      BY <2>2 DEF ReportUnanswered, At, Ops, OpOf
    <3> QED
      BY <3>1, UnansweredEffect
  <2>3. CASE ~(BeatUnanswered(k) \/ FirstFails(k) \/ ReportUnanswered(k))
    BY <2>3, SilentEffect
       DEF Beat, BeatFindsResult, BeatConflicts, BeatRefused, BeatAnswered,
                              Watchdog, Inspect
  <2> QED
    BY <2>1, <2>2, <2>3
<1>5. PICK r \in Monitor : monitors' = [monitors EXCEPT ![k] = r] /\ Timely(k, r)
  <2>1. CASE Beat(k)
    <3>1. PICK r \in Monitor : r = [monitors[k] EXCEPT !.beat = "heartbeat", !.started = now]
      BY <1>0 DEF Monitor
    <3>2. monitors' = [monitors EXCEPT ![k] = r]
      BY <1>0, <2>1, <3>1 DEF Beat
    <3>3. Timely(k, r)
      BY <1>0, <3>1 DEF Monitor, Timely
    <3> QED
      BY <3>2, <3>3
  <2>2. CASE BeatFindsResult(k)
    <3>1. PICK r \in Monitor : r = [monitors[k] EXCEPT !.beat = "completed"]
      BY <1>0 DEF Monitor
    <3>2. monitors' = [monitors EXCEPT ![k] = r]
      BY <1>0, <2>2, <3>1 DEF BeatFindsResult, Answer
    <3>3. Timely(k, r)
      BY <1>0, <3>1 DEF Monitor, Timely
    <3> QED
      BY <3>2, <3>3
  <2>3. CASE BeatConflicts(k)
    <3>0. PICK b \in {"inspect", "done"}, d \in BOOLEAN, l \in BOOLEAN :
            /\ b = IF monitors[k].beat = "heartbeat" /\ ~At(k, "first") THEN "inspect" ELSE "done"
            /\ d = ~At(k, "first") /\ l = (monitors[k].lost \/ monitors[k].beat = "recover")
      OBVIOUS
    <3>1. PICK r \in Monitor : r = [monitors[k] EXCEPT !.beat = b, !.disconnected = d, !.lost = l]
      BY <1>0 DEF Monitor
    <3>2. monitors' = [monitors EXCEPT ![k] = r]
      BY <1>0, <2>3, <3>0, <3>1 DEF BeatConflicts
    <3>3. Timely(k, r)
      BY <1>0, <3>1 DEF Monitor, Timely
    <3> QED
      BY <3>2, <3>3
  <2>4. CASE BeatRefused(k)
    <3>0. PICK d \in BOOLEAN : d = ~At(k, "first")
      OBVIOUS
    <3>1. PICK r \in Monitor : r = [monitors[k] EXCEPT !.beat = "done", !.lost = d, !.disconnected = d]
      BY <1>0 DEF Monitor
    <3>2. monitors' = [monitors EXCEPT ![k] = r]
      BY <1>0, <2>4, <3>0, <3>1 DEF BeatRefused
    <3>3. Timely(k, r)
      BY <1>0, <3>1 DEF Monitor, Timely
    <3> QED
      BY <3>2, <3>3
  <2>7. CASE FirstFails(k)
    <3>1. PICK r \in Monitor : r = [monitors[k] EXCEPT !.beat = "done"]
      BY <1>0 DEF Monitor
    <3>2. monitors' = [monitors EXCEPT ![k] = r]
      BY <1>0, <2>7, <3>1 DEF FirstFails, Answer
    <3>3. Timely(k, r)
      BY <1>0, <3>1 DEF Monitor, Timely
    <3> QED
      BY <3>2, <3>3
  <2>8. CASE Watchdog(k)
    <3>1. PICK r \in Monitor : r = [monitors[k] EXCEPT !.watchdog = 0, !.lost = TRUE]
      BY <1>0 DEF Monitor
    <3>2. monitors' = [monitors EXCEPT ![k] = r]
      BY <1>0, <2>8, <3>1 DEF Watchdog
    <3>3. Timely(k, r)
      BY <1>0, <3>1 DEF Monitor, Timely
    <3> QED
      BY <3>2, <3>3
  <2>9. CASE ReportUnanswered(k)
    <3>0. PICK d \in BOOLEAN : d = (monitors[k].disconnected \/ ~monitors[k].completed)
      OBVIOUS
    <3>1. PICK r \in Monitor : r = [monitors[k] EXCEPT !.disconnected = d]
      BY <1>0 DEF Monitor
    <3>2. monitors' = [monitors EXCEPT ![k] = r]
      BY <1>0, <2>9, <3>0, <3>1 DEF ReportUnanswered
    <3>3. Timely(k, r)
      BY <1>0, <3>1 DEF Monitor, Timely
    <3> QED
      BY <3>2, <3>3
  <2>5. CASE BeatUnanswered(k) /\ At(k, "first")
    <3>1. PICK r \in Monitor : r = [monitors[k] EXCEPT !.beat = "heartbeat", !.started = now]
      BY <1>0 DEF Monitor
    <3>2. monitors' = [monitors EXCEPT ![k] = r]
      BY <1>0, <2>5, <3>1 DEF BeatUnanswered
    <3>3. Timely(k, r)
      BY <1>0, <3>1 DEF Monitor, Timely
    <3> QED
      BY <3>2, <3>3
  <2>6. CASE BeatUnanswered(k) /\ ~At(k, "first")
    <3>1. PICK r \in Monitor : r = [monitors[k] EXCEPT !.beat = "wait", !.disconnected = TRUE]
      BY <1>0 DEF Monitor
    <3>2. monitors' = [monitors EXCEPT ![k] = r]
      BY <1>0, <2>6, <3>1 DEF BeatUnanswered
    <3>3. Timely(k, r)
      BY <1>0, <3>1 DEF Monitor, Timely
    <3> QED
      BY <3>2, <3>3
  <2>10. CASE BeatAnswered(k) /\ monitors[k].beat = "leased"
    <3>1. PICK r \in Monitor : r = [monitors[k] EXCEPT !.beat = "wait", !.watchdog = WatchdogOf(k),
                                                   !.disconnected = FALSE]
      BY <1>0, <1>t DEF Monitor
    <3>2. monitors' = [monitors EXCEPT ![k] = r]
      BY <1>0, <2>10, <3>1 DEF BeatAnswered
    <3>3. Timely(k, r)
      BY <1>0, <3>1, <2>10 DEF Monitor, Timely
    <3> QED
      BY <3>2, <3>3
  <2>11. CASE BeatAnswered(k) /\ monitors[k].beat # "leased"
    <3>1. PICK r \in Monitor : r = [monitors[k] EXCEPT !.beat = "done", !.watchdog = 0, !.completed = TRUE,
                                                   !.disconnected = FALSE]
      BY <1>0 DEF Monitor
    <3>2. monitors' = [monitors EXCEPT ![k] = r]
      BY <1>0, <2>11, <3>1 DEF BeatAnswered
    <3>3. Timely(k, r)
      BY <1>0, <3>1 DEF Monitor, Timely
    <3> QED
      BY <3>2, <3>3
  <2>12. ASSUME NEW found \in BOOLEAN, Inspect(k, found)
         PROVE  \E r \in Monitor : monitors' = [monitors EXCEPT ![k] = r] /\ Timely(k, r)
    <3>0. PICK b \in {"recover", "done"}, l \in BOOLEAN :
            b = (IF found THEN "recover" ELSE "done") /\ l = ~found
      OBVIOUS
    <3>1. PICK r \in Monitor : r = [monitors[k] EXCEPT !.beat = b, !.started = now, !.lost = l]
      BY <1>0 DEF Monitor
    <3>2. monitors' = [monitors EXCEPT ![k] = r]
      BY <1>0, <2>12, <3>0, <3>1 DEF Inspect
    <3>3. Timely(k, r)
      BY <1>0, <3>1 DEF Monitor, Timely
    <3> QED
      BY <3>2, <3>3
  <2> QED
    BY <2>1, <2>2, <2>3, <2>4, <2>5, <2>6, <2>7, <2>8, <2>9, <2>10, <2>11, <2>12
<1>6. ShapeInv' /\ Step(k) /\ Glides(k) /\ monitors'[k] = r
  BY <1>1, <1>2, <1>3, <1>4, <1>5, MonitorGlides DEF Working
<1>7. MonitorMove(k)
  BY <1>5, <1>6 DEF MonitorMove, Timely
<1> QED
  BY <1>1, <1>6, <1>7, UnchangedIsQuiet

(* The first answer.                                                       *)
LEMMA MaintainLeaseStep ==
    ASSUME ShapeInv, TableInv', NEW k \in Slots, MaintainLease(k)
    PROVE  ShapeInv' /\ Step(k) /\ Glides(k) /\ MonitorMove(k) /\ Quiet
<1>0. /\ monitors \in [Slots -> Monitor] /\ monitors[k] \in Monitor /\ slots[k].pc = "first"
      /\ UNCHANGED <<vars, node, supervised, strays>> /\ slots[k].sandbox # NoSandbox
  BY SlotFacts, NullAssumption DEF ShapeInv, NodeTypes, MaintainLease, At, Working
<1>1. Sends(k)
  BY <1>0, SilentEffect
<1>2. CASE monitors[k].beat = "leased"
  <2>1. WatchdogOf(k) \in Nat
    BY <1>0, DurationAssumption DEF WatchdogOf, Monitor
  <2>2. PICK r \in Monitor : r = [monitors[k] EXCEPT !.beat = "wait", !.watchdog = WatchdogOf(k)]
    BY <1>0, <2>1 DEF Monitor
  <2>3. monitors' = [monitors EXCEPT ![k] = r] /\ Go(k, "create")
    BY <1>0, <1>2, <2>2 DEF MaintainLease
  <2>4. /\ monitors' \in [Slots -> Monitor] /\ monitors'[k] = r
        /\ \A j \in Slots : j # k => monitors'[j] = monitors[j]
    BY <2>3, MonitorSet
  <2>5. Step(k) /\ Glides(k) /\ slots'[k].pc = "create"
    BY <1>0, <1>1, <2>3, <2>4, GoGlides
  <2>6. MonitorShape(k)'
    BY <1>0, <2>5 DEF MonitorShape, Glides, Stays, Watched, Working
  <2>7. MonitorMove(k)
    BY <1>0, <1>2, <2>2, <2>4 DEF MonitorMove, Monitor
  <2> QED
    BY <1>0, <2>5, <2>6, <2>7, GlideShape, UnchangedIsQuiet
<1>3. CASE monitors[k].beat # "leased"
  <2>1. PICK r \in Monitor : r = [monitors[k] EXCEPT !.beat = "done"]
    BY <1>0 DEF Monitor
  <2>2. monitors' = [monitors EXCEPT ![k] = r] /\ Leave(k, TRUE)
    BY <1>0, <1>3, <2>1 DEF MaintainLease, Answer
  <2>3. ShapeInv' /\ Step(k) /\ Glides(k) /\ monitors'[k] = r
    BY <1>0, <1>1, <2>2, MonitorGlides DEF Watched, Working
  <2>4. MonitorMove(k)
    BY <1>0, <2>1, <2>3 DEF MonitorMove, Monitor
  <2> QED
    BY <1>0, <2>3, <2>4, UnchangedIsQuiet
<1> QED
  BY <1>2, <1>3

(* The monitor is stopped.                                                 *)
LEMMA StopMonitorStep ==
    ASSUME ShapeInv, TableInv', NEW k \in Slots, StopMonitor(k)
    PROVE  ShapeInv' /\ Step(k) /\ Glides(k) /\ MonitorMove(k) /\ Quiet
<1>0. /\ slots \in [Slots -> Slot] /\ slots[k] \in Slot /\ monitors[k] \in Monitor
      /\ slots[k].pc = "stop" /\ UNCHANGED <<vars, node, supervised>>
      /\ NoMonitor \in Monitor /\ monitors' = [monitors EXCEPT ![k] = NoMonitor]
  BY DEF ShapeInv, NodeTypes, StopMonitor, At, NoMonitor, Monitor
<1>1. Sends(k)
  BY UnansweredEffect, BeatingOps DEF StopMonitor
<1>2. PICK f \in BOOLEAN : f = (slots[k].failed \/ monitors[k].lost)
  OBVIOUS
<1>3. PICK r \in Slot : r = [slots[k] EXCEPT !.pc = "destroy", !.failed = f]
  BY <1>0 DEF Slot
<1>4. slots' = [slots EXCEPT ![k] = r]
  BY <1>0, <1>2, <1>3 DEF StopMonitor
<1>5. /\ slots' \in [Slots -> Slot] /\ slots'[k] = r
      /\ \A j \in Slots : j # k => slots'[j] = slots[j]
  BY <1>4, SlotSet
<1>6. /\ monitors' \in [Slots -> Monitor] /\ monitors'[k] = NoMonitor
      /\ \A j \in Slots : j # k => monitors'[j] = monitors[j]
  BY <1>0, MonitorSet
<1>7. Step(k)
  BY <1>0, <1>1, <1>5, <1>6 DEF Step, Others, ShapeInv, NodeTypes
<1>8. Glides(k)
  BY <1>0, <1>3, <1>5 DEF Glides, Stays, Slot, Vacant
<1>9. MonitorShape(k)' /\ MonitorMove(k)
  BY <1>6 DEF MonitorShape, MonitorMove, NoMonitor
<1> QED
  BY <1>0, <1>7, <1>8, <1>9, GlideShape, UnchangedIsQuiet

(* A transaction that replaces the row of e.                               *)
LEMMA UpdateEffect ==
    ASSUME TableInv, NEW e \in Executions, NEW row, Update(e, row)
    PROVE  executions'[e] = row /\ \A x \in Executions : x # e => executions'[x] = executions[x]
  BY DEF TableInv, TypeOK, Update

(* Only the row of e gets a Sandbox.                                       *)
Bound(e, s) ==
    /\ executions'[e].sandbox_id = s
    /\ \A x \in Executions :
          /\ x # e => executions'[x].sandbox_id = executions[x].sandbox_id
          /\ executions'[x].capacity_released = executions[x].capacity_released
          /\ executions'[x].state = "completed" => executions[x].state = "completed"
    /\ executions[e].sandbox_id \in {NoSandbox, s} /\ ~Over(e)

(* What BindSandbox does to the tables.                                    *)
LEMMA BindEffect ==
    ASSUME TableInv, NEW e \in Executions, NEW s, BindSandbox(Token, e, 1, s)
    PROVE  Bound(e, s)
<1>1. executions[e] \in ExecutionRow /\ RowOK(executions[e])
  BY RowFacts
<1>2. /\ executions'[e] = [executions[e] EXCEPT !.sandbox_id = s] /\ Bindable(executions[e], s)
      /\ \A x \in Executions : x # e => executions'[x] = executions[x]
  BY UpdateEffect DEF BindSandbox
<1>3. /\ executions'[e].sandbox_id = s /\ executions'[e].state = executions[e].state
      /\ executions'[e].capacity_released = executions[e].capacity_released
  BY <1>1, <1>2 DEF ExecutionRow
<1>4. ~Over(e)
  <2>1. /\ executions[e].state = "leased" /\ executions[e].lease_expires_at > now
        /\ executions[e].lease_expires_at \in Nat /\ executions[e].recovery_until \in Nat
        /\ executions[e].recovery_until > executions[e].lease_expires_at /\ now \in Nat
    BY <1>1, <1>2
       DEF Bindable, RowOK, RowChecks, RecoveryDeadline, Null, ExecutionRow, TableInv,
           TypeOK
  <2> QED
    BY <2>1 DEF Over, ObservedState, Terminal
<1> QED
  BY <1>2, <1>3, <1>4 DEF Bound, Bindable

(* Bind.                                                                   *)
LEMMA BindStep ==
    ASSUME ShapeInv, TableInv', NEW k \in Slots, Bind(k)
    PROVE  /\ ShapeInv' /\ Step(k) /\ Glides(k) /\ MonitorMove(k)
           /\ slots[k].pc = "bind" /\ slots'[k].pc = "first"
           /\ Bound(slots[k].execution, slots[k].sandbox)
<1>0. /\ monitors \in [Slots -> Monitor] /\ monitors[k] \in Monitor /\ slots[k].pc = "bind"
      /\ UNCHANGED <<node, supervised, strays>> /\ slots[k].sandbox # NoSandbox
      /\ slots[k].execution \in Executions /\ TableInv /\ now \in Nat
  BY SlotFacts, NullAssumption
     DEF ShapeInv, NodeTypes, Bind, At, Working, Vacant, TableInv, TypeOK
<1>1. Sends(k)
  BY <1>0, SilentEffect
<1>2. PICK r \in Monitor : r = [monitors[k] EXCEPT !.beat = "heartbeat", !.started = now]
  BY <1>0 DEF Monitor
<1>3. monitors' = [monitors EXCEPT ![k] = r] /\ Go(k, "first")
  BY <1>0, <1>2 DEF Bind
<1>4. /\ monitors' \in [Slots -> Monitor] /\ monitors'[k] = r
      /\ \A j \in Slots : j # k => monitors'[j] = monitors[j]
  BY <1>3, MonitorSet
<1>8. Bound(slots[k].execution, slots[k].sandbox)
  BY <1>0, BindEffect DEF Bind
<1>5. Step(k) /\ Glides(k) /\ slots'[k].pc = "first"
  BY <1>0, <1>1, <1>3, <1>4, <1>8, GoGlides DEF Bound
<1>6. MonitorShape(k)'
  BY <1>0, <1>5 DEF MonitorShape, Glides, Stays, Watched, Working
<1>7. MonitorMove(k)
  BY <1>0, <1>2, <1>4 DEF MonitorMove, Monitor
<1> QED
  BY <1>0, <1>5, <1>6, <1>7, <1>8, GlideShape

(* Only the row of e is completed.                                         *)
Finishes(e) ==
    \A x \in Executions :
        /\ executions'[x].sandbox_id = executions[x].sandbox_id
        /\ executions'[x].capacity_released = executions[x].capacity_released
        /\ x # e /\ executions'[x].state = "completed" => executions[x].state = "completed"

(* What Complete does to the tables.                                       *)
LEMMA CompleteEffect ==
    ASSUME TableInv, NEW e \in Executions, NEW result, Complete(Token, e, 1, result)
    PROVE  Finishes(e)
<1>1. executions[e] \in ExecutionRow
  BY RowFacts
<1>2. CASE UNCHANGED executions
  BY <1>2 DEF Finishes
<1>3. CASE Update(e, [executions[e] EXCEPT !.state = "completed", !.result = result])
  <2>1. /\ executions'[e] = [executions[e] EXCEPT !.state = "completed", !.result = result]
        /\ \A x \in Executions : x # e => executions'[x] = executions[x]
    BY <1>3, UpdateEffect
  <2>2. /\ executions'[e].sandbox_id = executions[e].sandbox_id
        /\ executions'[e].capacity_released = executions[e].capacity_released
    BY <1>1, <2>1 DEF ExecutionRow
  <2> QED
    BY <2>1, <2>2 DEF Finishes
<1> QED
  BY <1>2, <1>3 DEF Complete

(* Report.                                                                 *)
LEMMA ReportStep ==
    ASSUME ShapeInv, TableInv', NEW k \in Slots, Report(k)
    PROVE  /\ ShapeInv' /\ Step(k) /\ Glides(k) /\ MonitorMove(k)
           /\ slots[k].pc = "report" /\ slots'[k].pc = "stop" /\ Finishes(slots[k].execution)
<1>0. /\ monitors' = monitors /\ monitors \in [Slots -> Monitor] /\ slots[k].pc = "report"
      /\ UNCHANGED <<node, supervised, strays>> /\ slots[k].sandbox # NoSandbox
      /\ slots[k].execution \in Executions /\ TableInv /\ slots[k].failed \in BOOLEAN
  BY SlotFacts, NullAssumption DEF ShapeInv, NodeTypes, Report, At, Working, Vacant, Slot
<1>1. Sends(k)
  BY <1>0, SilentEffect
<1>2. Leave(k, slots[k].failed)
  BY DEF Report
<1>3. Step(k) /\ Glides(k) /\ slots'[k].pc = "stop"
  BY <1>0, <1>1, <1>2, LeaveGlides, LeaveEffect DEF Leaving
<1>4. MonitorShape(k)' /\ MonitorMove(k)
  BY <1>0, <1>3 DEF MonitorShape, MonitorMove, Glides, Stays, Watched
<1>5. Finishes(slots[k].execution)
  BY <1>0, CompleteEffect DEF Report
<1> QED
  BY <1>0, <1>3, <1>4, <1>5, GlideShape

-----------------------------------------------------------------------------
(* What a slot asks of the Supervisor: r is what becomes of its Sandbox.   *)
Employs(k, r) ==
    LET q == supervised[slots[k].sandbox]
        pc == slots[k].pc
        next == slots'[k].pc
    IN  /\ r.phase = "requested" => q.phase = "requested" \/ (pc = "create" /\ next = "creating")
        /\ r.phase = "held" => q.phase = "held"
        /\ \/ pc = "create" /\ next = "creating" /\ r.phase = "requested"
              /\ r.client = "connected" /\ r.run = q.run
           \/ pc = "creating" /\ next = "authority" /\ q.phase = "held"
              /\ r.phase = q.phase /\ r.client = "none" /\ r.run = q.run
           \/ pc = "execute" /\ next = "executing" /\ q.phase = "held"
              /\ r.phase = q.phase /\ r.client = "connected" /\ r.run = "running"
           \/ pc = "executing" /\ next = "report" /\ q.run = "running"
              /\ r.phase \in {"held", "gone"} /\ r.client = "none" /\ r.run = "ended"
           \/ pc \in {"create", "execute", "creating", "executing"} /\ next = "stop"
              /\ (pc \in {"create", "execute"} \/ q.phase = "gone")
              /\ r.phase = q.phase /\ r.client = "none" /\ r.run = q.run
           \/ pc \in {"creating", "executing"} /\ next = "stop"
              /\ r.phase = q.phase /\ r.run = q.run
              /\ (r.client = "hungup" \/ (r.client = "none" /\ pc = "creating" /\ q.phase = "held"))

Employed(k, r) ==
    /\ Stays(k) /\ Employs(k, r) /\ UNCHANGED <<vars, monitors, node, strays>>
    /\ slots[k].sandbox \in Sandboxes
    /\ supervised' = [supervised EXCEPT ![slots[k].sandbox] = r]
    /\ slots'[k].pc = "report" => slots'[k].result # NoResult
    /\ slots[k].pc \in Working /\ slots[k].pc # "bind"

(* The shape after any step that keeps the monitor.                        *)
LEMMA EmployedShape ==
    ASSUME ShapeInv, TableInv', NEW k \in Slots, NEW r \in Supervised, Employed(k, r),
           slots' \in [Slots -> Slot], \A j \in Slots : j # k => slots'[j] = slots[j]
    PROVE  ShapeInv' /\ Step(k) /\ MonitorMove(k)
<1>0. /\ SlotShape(k) /\ MonitorShape(k) /\ monitors[k] \in Monitor
      /\ supervised \in [Sandboxes -> Supervised]
  BY SlotFacts DEF ShapeInv, NodeTypes
<1>1. /\ slots[k].pc \in {"create", "creating", "execute", "executing"}
      /\ slots'[k].pc \in {"creating", "authority", "executing", "report", "stop"}
  BY DEF Employed, Employs
<1>2. SlotShape(k)'
  BY <1>0, <1>1 DEF SlotShape, Employed, Stays, Vacant, Working, Cleaning
<1>3. MonitorShape(k)'
  BY <1>0, <1>1 DEF MonitorShape, Employed, Stays, Watched, Working
<1>4. supervised' \in [Sandboxes -> Supervised]
  BY <1>0 DEF Employed
<1>5. Step(k)
  BY <1>4, SilentEffect DEF Step, Others, Employed, ShapeInv, NodeTypes
<1>6. MonitorMove(k)
  BY DEF MonitorMove, Employed, WatchdogOf
<1> QED
  BY <1>2, <1>3, <1>5, <1>6, ShapeStep DEF Step

(* The effect of one assignment to the state of the Sandbox.               *)
LEMMA EmployedStep ==
    ASSUME ShapeInv, TableInv', NEW k \in Slots,
           \/ Create(k) \/ Created(k) \/ Execute(k) \/ LocalFails(k)
           \/ \E result \in Results, intact \in BOOLEAN : Executed(k, result, intact)
           \/ \E delivered \in BOOLEAN : HangUp(k, delivered)
    PROVE  ShapeInv' /\ Step(k) /\ MonitorMove(k) /\ \E r \in Supervised : Employed(k, r)
<1>0. /\ slots \in [Slots -> Slot] /\ slots[k] \in Slot
      /\ supervised \in [Sandboxes -> Supervised]
      /\ slots[k].pc \in {"create", "creating", "execute", "executing"}
      /\ UNCHANGED <<vars, monitors, node, strays>>
  BY DEF ShapeInv, NodeTypes, Create, Created, Execute, LocalFails, Executed, HangUp, At
<1>1. slots[k].pc \in Working /\ slots[k].pc \notin Vacant
  BY <1>0 DEF Working, Vacant
<1>2. slots[k].sandbox \in Sandboxes
  BY <1>1, SlotFacts
<1>3. PICK q \in Supervised : q = supervised[slots[k].sandbox]
  BY <1>0, <1>2
<1>4. ASSUME NEW r \in Supervised, supervised' = [supervised EXCEPT ![slots[k].sandbox] = r],
             slots' \in [Slots -> Slot], \A j \in Slots : j # k => slots'[j] = slots[j],
             slots'[k].execution = slots[k].execution, slots'[k].sandbox = slots[k].sandbox,
             slots'[k].entries = slots[k].entries, slots'[k].pc \notin Vacant,
             slots'[k].pc = "report" => slots'[k].result # NoResult, Employs(k, r)
      PROVE  ShapeInv' /\ Step(k) /\ MonitorMove(k) /\ \E x \in Supervised : Employed(k, x)
  <2>1. Employed(k, r)
    BY <1>0, <1>1, <1>2, <1>4 DEF Employed, Stays
  <2> QED
    BY <1>4, <2>1, EmployedShape
<1>5. CASE Create(k)
  <2>1. PICK r \in Supervised : r = [q EXCEPT !.phase = "requested", !.client = "connected"]
    BY DEF Supervised
  <2>2. /\ supervised' = [supervised EXCEPT ![slots[k].sandbox] = r]
        /\ Go(k, "creating") /\ slots[k].pc = "create"
    BY <1>0, <1>2, <1>3, <1>5, <2>1 DEF Create, At
  <2>3. "creating" \in Pcs /\ "creating" \notin Vacant
    BY DEF Pcs, Working, Vacant
  <2>4. r.phase = "requested" /\ r.client = "connected" /\ r.run = q.run
    BY <2>1 DEF Supervised
  <2>5. Employs(k, r)
    BY <1>3, <2>2, <2>3, <2>4, GoEffect DEF Employs
  <2> QED
    BY <1>4, <2>2, <2>3, <2>5, GoEffect
<1>6. CASE Created(k)
  <2>1. PICK r \in Supervised : r = [q EXCEPT !.client = "none"]
    BY DEF Supervised
  <2>2. /\ supervised' = [supervised EXCEPT ![slots[k].sandbox] = r]
        /\ Go(k, "authority") /\ slots[k].pc = "creating" /\ q.phase = "held"
    BY <1>0, <1>2, <1>3, <1>6, <2>1 DEF Created, At
  <2>3. "authority" \in Pcs /\ "authority" \notin Vacant
    BY DEF Pcs, Working, Vacant
  <2>4. r.phase = q.phase /\ r.client = "none" /\ r.run = q.run
    BY <2>1 DEF Supervised
  <2>5. Employs(k, r)
    BY <1>3, <2>2, <2>3, <2>4, GoEffect DEF Employs
  <2> QED
    BY <1>4, <2>2, <2>3, <2>5, GoEffect
<1>7. CASE Execute(k)
  <2>1. PICK r \in Supervised : r = [q EXCEPT !.run = "running", !.client = "connected"]
    BY DEF Supervised
  <2>2. /\ supervised' = [supervised EXCEPT ![slots[k].sandbox] = r]
        /\ Go(k, "executing") /\ slots[k].pc = "execute" /\ q.phase = "held"
    BY <1>0, <1>2, <1>3, <1>7, <2>1 DEF Execute, At
  <2>3. "executing" \in Pcs /\ "executing" \notin Vacant
    BY DEF Pcs, Working, Vacant
  <2>4. r.phase = q.phase /\ r.client = "connected" /\ r.run = "running"
    BY <2>1 DEF Supervised
  <2>5. Employs(k, r)
    BY <1>3, <2>2, <2>3, <2>4, GoEffect DEF Employs
  <2> QED
    BY <1>4, <2>2, <2>3, <2>5, GoEffect
<1>8. CASE LocalFails(k)
  <2>1. PICK r \in Supervised : r = [q EXCEPT !.client = "none"]
    BY DEF Supervised
  <2>2. /\ supervised' = [supervised EXCEPT ![slots[k].sandbox] = r]
        /\ Leave(k, TRUE) /\ (slots[k].pc \in {"create", "execute"} \/ q.phase = "gone")
    BY <1>0, <1>2, <1>3, <1>8, <2>1 DEF LocalFails
  <2>3. r.phase = q.phase /\ r.client = "none" /\ r.run = q.run /\ Leave(k, TRUE)
    BY <1>8, <2>1 DEF Supervised, LocalFails
  <2>4. Employs(k, r)
    BY <1>0, <1>3, <2>2, <2>3, LeaveEffect DEF Employs
  <2> QED
    BY <1>4, <2>2, <2>3, <2>4, LeaveEffect DEF Vacant
<1>9. ASSUME NEW delivered \in BOOLEAN, HangUp(k, delivered)
      PROVE  ShapeInv' /\ Step(k) /\ MonitorMove(k) /\ \E x \in Supervised : Employed(k, x)
  <2>0. PICK c \in {"none", "hungup"} : c = IF delivered THEN "none" ELSE "hungup"
    OBVIOUS
  <2>1. PICK r \in Supervised : r = [q EXCEPT !.client = c]
    BY DEF Supervised
  <2>2. /\ supervised' = [supervised EXCEPT ![slots[k].sandbox] = r]
        /\ Leave(k, TRUE) /\ slots[k].pc \in {"creating", "executing"}
        /\ c = "none" => slots[k].pc = "creating" /\ q.phase = "held"
    BY <1>0, <1>2, <1>3, <1>9, <2>0, <2>1 DEF HangUp, At
  <2>3. r.phase = q.phase /\ r.client = c /\ r.run = q.run
    BY <2>1 DEF Supervised
  <2>4. Employs(k, r)
    BY <1>0, <1>3, <2>2, <2>3, LeaveEffect DEF Employs
  <2> QED
    BY <1>4, <2>2, <2>3, <2>4, LeaveEffect DEF Vacant
<1>10. ASSUME NEW result \in Results, NEW intact \in BOOLEAN, Executed(k, result, intact)
       PROVE  ShapeInv' /\ Step(k) /\ MonitorMove(k) /\ \E x \in Supervised : Employed(k, x)
  <2>0. PICK p \in {"held", "gone"} : p = IF intact THEN "held" ELSE "gone"
    OBVIOUS
  <2>1. PICK r \in Supervised : r = [phase |-> p, client |-> "none", run |-> "ended"]
    BY DEF Supervised
  <2>2. /\ supervised' = [supervised EXCEPT ![slots[k].sandbox] = r]
        /\ slots[k].pc = "executing" /\ q.run = "running"
        /\ p = "held" => q.phase = "held"
    BY <1>0, <1>2, <1>3, <1>10, <2>0, <2>1 DEF Executed, At
  <2>3. PICK t \in Slot : t = [slots[k] EXCEPT !.pc = "report", !.result = result]
    BY <1>0 DEF Slot
  <2>4. slots' = [slots EXCEPT ![k] = t]
    BY <1>0, <1>10, <2>3 DEF Executed
  <2>5. /\ t.pc = "report" /\ t.execution = slots[k].execution /\ t.sandbox = slots[k].sandbox
        /\ t.entries = slots[k].entries /\ t.result = result
    BY <1>0, <2>3 DEF Slot
  <2>6. /\ slots' \in [Slots -> Slot] /\ slots'[k] = t
        /\ \A j \in Slots : j # k => slots'[j] = slots[j]
    BY <2>4, SlotSet
  <2>7. result # NoResult
    BY NullAssumption
  <2>8. Employs(k, r)
    BY <1>0, <1>3, <2>1, <2>2, <2>5, <2>6 DEF Employs
  <2> QED
    BY <1>4, <2>2, <2>5, <2>6, <2>7, <2>8 DEF Vacant
<1> QED
  BY <1>5, <1>6, <1>7, <1>8, <1>9, <1>10

(* Cleanup has destroyed the Sandbox.                                      *)
Destroyed(k) ==
    /\ Stays(k) /\ UNCHANGED <<vars, monitors, node, strays>>
    /\ slots[k].pc = "destroy" /\ slots'[k].pc = "release"
    /\ slots'[k].sandbox = NoSandbox => supervised' = supervised
    /\ \A s \in Sandboxes :
          /\ s # slots[k].sandbox => supervised'[s] = supervised[s]
          /\ supervised'[s].client = supervised[s].client /\ supervised'[s].run = supervised[s].run
          /\ supervised'[s].phase = supervised[s].phase \/ supervised[s].phase = "held"
          /\ supervised'[s].phase = supervised[s].phase \/ supervised'[s].phase = "gone"
          /\ s = slots[k].sandbox => supervised'[s].phase # "held"

(* Destroy.                                                                *)
LEMMA DestroyStep ==
    ASSUME ShapeInv, TableInv', NEW k \in Slots, Destroy(k)
    PROVE  ShapeInv' /\ Step(k) /\ MonitorMove(k) /\ Destroyed(k)
<1>0. /\ slots[k].pc = "destroy" /\ Go(k, "release") /\ UNCHANGED <<vars, monitors, node, strays>>
      /\ SlotShape(k) /\ MonitorShape(k) /\ supervised \in [Sandboxes -> Supervised]
      /\ monitors[k] \in Monitor /\ slots[k].sandbox \in Sandboxes \union {NoSandbox}
  BY SlotFacts DEF Destroy, At, ShapeInv, NodeTypes
<1>1. /\ slots' \in [Slots -> Slot] /\ \A j \in Slots : j # k => slots'[j] = slots[j]
      /\ slots'[k].pc = "release" /\ slots'[k].execution = slots[k].execution
      /\ slots'[k].sandbox = slots[k].sandbox /\ slots'[k].entries = slots[k].entries
      /\ slots'[k].result = slots[k].result
  <2>1. "release" \in Pcs
    BY DEF Pcs, Cleaning
  <2> QED
    BY <1>0, <2>1, GoEffect
<1>2. Stays(k)
  BY <1>0, <1>1 DEF Stays, Vacant
<1>3. SlotShape(k)' /\ MonitorShape(k)'
  BY <1>0, <1>1 DEF SlotShape, MonitorShape, Vacant, Working, Cleaning, Watched
<1>4. /\ supervised' \in [Sandboxes -> Supervised]
      /\ slots[k].sandbox = NoSandbox => supervised' = supervised
      /\ \A s \in Sandboxes :
          /\ s # slots[k].sandbox => supervised'[s] = supervised[s]
          /\ supervised'[s].client = supervised[s].client /\ supervised'[s].run = supervised[s].run
          /\ supervised'[s].phase = supervised[s].phase \/ supervised[s].phase = "held"
          /\ supervised'[s].phase = supervised[s].phase \/ supervised'[s].phase = "gone"
          /\ s = slots[k].sandbox => supervised'[s].phase # "held"
  <2>1. CASE slots[k].sandbox # NoSandbox /\ supervised[slots[k].sandbox].phase = "held"
    <3>1. PICK r \in Supervised : r = [supervised[slots[k].sandbox] EXCEPT !.phase = "gone"]
      BY <1>0, <2>1 DEF Supervised
    <3>2. supervised' = [supervised EXCEPT ![slots[k].sandbox] = r]
      BY <1>0, <2>1, <3>1 DEF Destroy
    <3>3. r.phase = "gone" /\ r.client = supervised[slots[k].sandbox].client
          /\ r.run = supervised[slots[k].sandbox].run
      BY <1>0, <2>1, <3>1 DEF Supervised
    <3> QED
      BY <1>0, <2>1, <3>2, <3>3
  <2>2. CASE ~(slots[k].sandbox # NoSandbox /\ supervised[slots[k].sandbox].phase = "held")
    BY <1>0, <2>2, NullAssumption DEF Destroy
  <2> QED
    BY <2>1, <2>2
<1>5. Step(k)
  BY <1>0, <1>1, <1>4, SilentEffect DEF Step, Others, ShapeInv, NodeTypes
<1>6. MonitorMove(k)
  BY <1>0 DEF MonitorMove, WatchdogOf
<1> QED
  BY <1>0, <1>1, <1>2, <1>3, <1>4, <1>5, <1>6, ShapeStep DEF Step, Destroyed

-----------------------------------------------------------------------------
(* A slot that is left without an Execution.                               *)
Enters(k) ==
    \A e \in slots'[k].entries :
        \/ e \in slots[k].entries
        \/ e \in Occupied(Me) /\ (executions[e].cleanup_unknown \/ Over(e))

Vacates(k) ==
    /\ slots'[k].execution = NoExecution /\ slots'[k].sandbox = NoSandbox
    /\ slots[k].pc \in Vacant \union {"granted"} \union Cleaning /\ slots'[k].pc \in Vacant
    /\ Enters(k)
    /\ UNCHANGED <<monitors, supervised>>
    /\ node'.active = IF slots[k].pc \in Cleaning /\ ~Reconciling(k)
                      THEN node.active \ {slots[k].execution} ELSE node.active

NodeState == [unsafe : BOOLEAN, active : SUBSET Executions, stopping : BOOLEAN,
              restarts : 0..MaxRestarts]

(* The types of the state of the node.                                     *)
LEMMA NodeTyped ==
    ASSUME ShapeInv
    PROVE  /\ node \in NodeState /\ slots \in [Slots -> Slot] /\ monitors \in [Slots -> Monitor]
           /\ supervised \in [Sandboxes -> Supervised]
  BY DEF ShapeInv, NodeTypes, NodeState

(* The shape of a slot without an Execution.                               *)
LEMMA VacateShape ==
    ASSUME ShapeInv, TableInv', NEW k \in Slots, NEW r \in Slot, slots' = [slots EXCEPT ![k] = r],
           r.execution = NoExecution, r.sandbox = NoSandbox, r.pc \in Vacant,
           r.entries # {} => r.pc = "reconcile",
           slots[k].pc \in Vacant \union {"granted"} \union Cleaning,
           UNCHANGED <<monitors, supervised>>, Sends(k), node' \in NodeState
    PROVE  ShapeInv' /\ Step(k) /\ slots'[k] = r /\ MonitorMove(k)
<1>1. /\ slots' \in [Slots -> Slot] /\ slots'[k] = r
      /\ \A j \in Slots : j # k => slots'[j] = slots[j]
  BY SlotSet
<1>2. MonitorShape(k) /\ monitors[k] \in Monitor
  BY SlotFacts
<1>3. slots[k].pc \notin Watched /\ r.pc \notin Watched
  BY DEF Vacant, Cleaning, Watched, Working
<1>4. SlotShape(k)'
  BY <1>1 DEF SlotShape, Vacant, Working, Cleaning
<1>5. MonitorShape(k)'
  BY <1>1, <1>2, <1>3 DEF MonitorShape
<1>6. Step(k)
  BY <1>1, NodeTyped DEF Step, Others, NodeState
<1>7. MonitorMove(k)
  BY <1>2, <1>3 DEF MonitorMove, MonitorShape, NoMonitor
<1> QED
  BY <1>1, <1>4, <1>5, <1>6, <1>7, ShapeStep DEF Step

(* The states RunOnce returns to.                                          *)
LEMMA IdleSlots ==
    /\ IdleSlot \in Slot /\ IdleSlot.execution = NoExecution /\ IdleSlot.sandbox = NoSandbox
    /\ IdleSlot.pc \in Vacant /\ IdleSlot.entries = {}
    /\ \E r \in Slot : /\ r = [IdleSlot EXCEPT !.pc = "stopped", !.failed = TRUE]
                       /\ r.execution = NoExecution /\ r.sandbox = NoSandbox
                       /\ r.pc \in Vacant /\ r.entries = {}
<1>1. /\ IdleSlot \in Slot /\ IdleSlot.execution = NoExecution /\ IdleSlot.sandbox = NoSandbox
      /\ IdleSlot.pc \in Vacant /\ IdleSlot.entries = {}
  BY DEF IdleSlot, Slot, Vacant
<1>2. PICK r \in Slot : r = [IdleSlot EXCEPT !.pc = "stopped", !.failed = TRUE]
  BY <1>1 DEF Slot
<1>3. /\ r.execution = NoExecution /\ r.sandbox = NoSandbox
      /\ r.pc \in Vacant /\ r.entries = {}
  BY <1>2 DEF IdleSlot, Vacant
<1> QED
  BY <1>1, <1>2, <1>3

(* RunOnce ends with an error before its Claim.                            *)
LEMMA EndedSteps ==
    ASSUME ShapeInv, TableInv', NEW k \in Slots,
           LegacyFound(k) \/ Stopped(k) \/ (Begin(k) /\ (node.stopping \/ node.unsafe))
    PROVE  ShapeInv' /\ Step(k) /\ MonitorMove(k) /\ Vacates(k) /\ Quiet
<1>0. /\ UNCHANGED <<vars, monitors, supervised, strays>>
      /\ slots' = [slots EXCEPT ![k] = [IdleSlot EXCEPT !.pc = "stopped", !.failed = TRUE]]
      /\ slots[k].pc \in {"idle", "outstanding", "reconcile", "configure", "claim"}
  BY DEF LegacyFound, Stopped, Begin, Ended, At
<1>1. node' \in NodeState /\ node'.active = node.active
  <2>1. \/ node' = [node EXCEPT !.unsafe = TRUE, !.stopping = TRUE]
        \/ node' = [node EXCEPT !.stopping = TRUE]
    BY DEF LegacyFound, Stopped, Begin, Ended
  <2> QED
    BY <2>1, NodeTyped DEF NodeState
<1>2. PICK r \in Slot : /\ r = [IdleSlot EXCEPT !.pc = "stopped", !.failed = TRUE]
                        /\ r.execution = NoExecution /\ r.sandbox = NoSandbox
                        /\ r.pc \in Vacant /\ r.entries = {}
  BY IdleSlots
<1>3. slots' = [slots EXCEPT ![k] = r] /\ slots[k].pc \in Vacant /\ slots[k].pc \notin Cleaning
  BY <1>0, <1>2 DEF Vacant, Cleaning
<1>4. Sends(k)
  BY <1>0, SilentEffect
<1>5. ShapeInv' /\ Step(k) /\ slots'[k] = r /\ MonitorMove(k)
  BY <1>0, <1>1, <1>2, <1>3, <1>4, VacateShape
<1>6. Vacates(k)
  BY <1>0, <1>1, <1>2, <1>3, <1>5 DEF Vacates, Enters
<1> QED
  BY <1>0, <1>5, <1>6, UnchangedIsQuiet

(* The slot polls again.                                                   *)
LEMMA PollStep ==
    ASSUME ShapeInv, TableInv', NEW k \in Slots, PollAgain(k)
    PROVE  ShapeInv' /\ Step(k) /\ MonitorMove(k) /\ Vacates(k) /\ Quiet
<1>0. /\ UNCHANGED <<vars, monitors, node, supervised>> /\ slots' = [slots EXCEPT ![k] = IdleSlot]
      /\ slots[k].pc \in {"outstanding", "configure", "claim", "granted"}
  BY DEF PollAgain
<1>1. Sends(k)
  <2>1. (IF slots[k].pc \in {"configure", "claim"} THEN {RequestOf(k, slots[k].pc)} ELSE {})
          \subseteq {RequestOf(k, op) : op \in Ops(k)}
    BY DEF Ops, OpOf
  <2> QED
    BY <2>1, UnansweredEffect DEF PollAgain
<1>2. slots[k].pc \in Vacant \union {"granted"} /\ slots[k].pc \notin Cleaning
  BY <1>0 DEF Vacant, Cleaning
<1>3. ShapeInv' /\ Step(k) /\ slots'[k] = IdleSlot /\ MonitorMove(k)
  BY <1>0, <1>1, <1>2, IdleSlots, VacateShape, NodeTyped
<1>4. Vacates(k)
  BY <1>0, <1>2, <1>3, IdleSlots DEF Vacates, Enters
<1> QED
  BY <1>0, <1>3, <1>4, UnchangedIsQuiet

(* A slot that moves on without an Execution: only its place changes, or   *)
(* the entries it still has to act on.                                     *)
LEMMA VacantSteps ==
    ASSUME ShapeInv, TableInv', NEW k \in Slots, NEW r \in Slot, slots' = [slots EXCEPT ![k] = r],
           slots[k].pc \in Vacant, r.execution = slots[k].execution,
           r.sandbox = slots[k].sandbox, r.pc \in Vacant,
           r.entries # {} => r.pc = "reconcile",
           \A e \in r.entries : \/ e \in slots[k].entries
                                \/ e \in Occupied(Me) /\ (executions[e].cleanup_unknown \/ Over(e)),
           UNCHANGED <<monitors, node, supervised, strays>>, UNCHANGED executions
    PROVE  ShapeInv' /\ Step(k) /\ MonitorMove(k) /\ Vacates(k) /\ Quiet
<1>1. slots[k].execution = NoExecution /\ slots[k].sandbox = NoSandbox
  BY SlotFacts DEF SlotShape
<1>2. Sends(k)
  BY SilentEffect
<1>3. ShapeInv' /\ Step(k) /\ slots'[k] = r /\ MonitorMove(k)
  BY <1>1, <1>2, VacateShape, NodeTyped
<1>4. slots[k].pc \notin Cleaning
  BY DEF Vacant, Cleaning
<1>5. Vacates(k)
  BY <1>1, <1>3, <1>4 DEF Vacates, Enters
<1>6. Quiet
  BY DEF Quiet
<1> QED
  BY <1>3, <1>5, <1>6

(* The steps before a Claim.                                               *)
LEMMA AdvanceSteps ==
    ASSUME ShapeInv, TableInv', NEW k \in Slots,
           \/ Begin(k) /\ ~(node.stopping \/ node.unsafe)
           \/ Outstanding(k) \/ Configure(k)
           \/ Reconcile(k) /\ (slots[k].entries = {} \/ Oldest(slots[k].entries) \in node.active)
    PROVE  ShapeInv' /\ Step(k) /\ MonitorMove(k) /\ Vacates(k) /\ Quiet
<1>0. /\ UNCHANGED <<monitors, node, supervised, strays>> /\ UNCHANGED executions
      /\ slots \in [Slots -> Slot] /\ slots[k] \in Slot /\ SlotShape(k)
  BY NodeTyped, SlotFacts
     DEF Begin, Outstanding, Configure, Reconcile, ConfigureCapacity, vars
<1>1. CASE \/ Begin(k) /\ ~(node.stopping \/ node.unsafe)
           \/ Configure(k)
           \/ Reconcile(k) /\ slots[k].entries = {}
  <2>1. PICK pc \in {"outstanding", "claim", "configure"} :
          slots' = [slots EXCEPT ![k].pc = pc]
    BY <1>1 DEF Begin, Configure, Reconcile, Go
  <2>2. slots[k].pc \in Vacant /\ slots[k].entries = {}
    BY <1>0, <1>1 DEF Begin, Configure, Reconcile, At, SlotShape, Vacant, Cleaning
  <2>3. PICK r \in Slot : r = [slots[k] EXCEPT !.pc = pc]
    BY <1>0 DEF Slot
  <2>4. slots' = [slots EXCEPT ![k] = r]
    BY <1>0, <2>1, <2>3
  <2>5. /\ r.execution = slots[k].execution /\ r.sandbox = slots[k].sandbox /\ r.entries = {}
        /\ r.pc \in Vacant
    BY <1>0, <2>2, <2>3 DEF Slot, Vacant
  <2> QED
    BY <1>0, <2>2, <2>4, <2>5, VacantSteps
<1>2. CASE Outstanding(k)
  <2>1. PICK E \in SUBSET Executions :
          E = {e \in Occupied(Me) : \/ executions[e].cleanup_unknown
                                    \/ ObservedState(executions[e], now) \in Terminal}
    BY DEF Occupied
  <2>2. slots' = [slots EXCEPT ![k].pc = "reconcile", ![k].entries = E] /\ slots[k].pc \in Vacant
    BY <1>2, <2>1 DEF Outstanding, At, Vacant
  <2>3. PICK r \in Slot : r = [slots[k] EXCEPT !.pc = "reconcile", !.entries = E]
    BY <1>0 DEF Slot
  <2>4. slots' = [slots EXCEPT ![k] = r]
    BY <1>0, <2>2, <2>3
  <2>5. /\ r.execution = slots[k].execution /\ r.sandbox = slots[k].sandbox /\ r.entries = E
        /\ r.pc = "reconcile" /\ r.pc \in Vacant
    BY <1>0, <2>3 DEF Slot, Vacant
  <2>6. \A e \in E : e \in Occupied(Me) /\ (executions[e].cleanup_unknown \/ Over(e))
    BY <2>1 DEF Over
  <2> QED
    BY <1>0, <2>2, <2>4, <2>5, <2>6, VacantSteps
<1>3. CASE Reconcile(k) /\ slots[k].entries # {} /\ Oldest(slots[k].entries) \in node.active
  <2>1. PICK E \in SUBSET Executions : E = slots[k].entries \ {Oldest(slots[k].entries)}
    BY <1>0 DEF Slot
  <2>2. slots' = [slots EXCEPT ![k].entries = E] /\ slots[k].pc = "reconcile"
    BY <1>3, <2>1 DEF Reconcile, At
  <2>3. PICK r \in Slot : r = [slots[k] EXCEPT !.entries = E]
    BY <1>0 DEF Slot
  <2>4. slots' = [slots EXCEPT ![k] = r]
    BY <1>0, <2>2, <2>3
  <2>5. /\ r.execution = slots[k].execution /\ r.sandbox = slots[k].sandbox /\ r.entries = E
        /\ r.pc = "reconcile" /\ r.pc \in Vacant
    BY <1>0, <2>2, <2>3 DEF Slot, Vacant
  <2> QED
    BY <1>0, <2>1, <2>2, <2>4, <2>5, VacantSteps
<1> QED
  BY <1>1, <1>2, <1>3

-----------------------------------------------------------------------------
(* The end of a cleanup.                                                   *)

(* Only the row of e is released.                                          *)
Frees(e) ==
    /\ executions'[e].capacity_released /\ ~executions[e].cleanup_unknown
    /\ \A x \in Executions :
          /\ executions'[x].sandbox_id = executions[x].sandbox_id
          /\ x # e => executions'[x].capacity_released = executions[x].capacity_released
          /\ executions'[x].state = "completed" => executions[x].state = "completed"

(* What Release does to the tables.                                        *)
LEMMA ReleaseEffect ==
    ASSUME TableInv, NEW e \in Executions, Release(Token, e, 1)
    PROVE  Frees(e)
<1>1. executions[e] \in ExecutionRow
  BY RowFacts
<1>2. /\ executions'[e] = ReleasedRow(executions[e]) /\ ~executions[e].cleanup_unknown
      /\ \A x \in Executions : x # e => executions'[x] = executions[x]
  BY UpdateEffect DEF Release
<1>3. /\ executions'[e].sandbox_id = executions[e].sandbox_id
      /\ executions'[e].capacity_released
      /\ executions'[e].state = Settled(executions[e])
  BY <1>1, <1>2 DEF ReleasedRow, ExecutionRow, Settled
<1>4. executions'[e].state = "completed" => executions[e].state = "completed"
  BY <1>3 DEF Settled
<1> QED
  BY <1>2, <1>3, <1>4 DEF Frees

(* The slot is free again, and with it its Execution.                      *)
LEMMA FinishedShape ==
    ASSUME ShapeInv, TableInv', NEW k \in Slots, NEW failed \in BOOLEAN, Finished(k, failed),
           slots[k].pc \in Cleaning, UNCHANGED <<monitors, supervised, strays>>,
           node' \in NodeState, node'.active = Deactivated(k)
    PROVE  ShapeInv' /\ Step(k) /\ MonitorMove(k) /\ Vacates(k)
<1>1. PICK r \in Slot : /\ slots' = [slots EXCEPT ![k] = r]
                        /\ r.execution = NoExecution /\ r.sandbox = NoSandbox
                        /\ r.pc \in Vacant /\ r.entries = {}
  BY IdleSlots DEF Finished
<1>2. Sends(k)
  BY SilentEffect
<1>3. ShapeInv' /\ Step(k) /\ slots'[k] = r /\ MonitorMove(k)
  BY <1>1, <1>2, VacateShape
<1>4. Vacates(k)
  BY <1>1, <1>3 DEF Vacates, Enters, Deactivated
<1> QED
  BY <1>3, <1>4

(* Cleanup fails.                                                          *)
LEMMA CleanupFailsStep ==
    ASSUME ShapeInv, TableInv', NEW k \in Slots, CleanupFails(k)
    PROVE  ShapeInv' /\ Step(k) /\ MonitorMove(k) /\ Vacates(k) /\ Quiet
<1>0. /\ Finished(k, TRUE) /\ slots[k].pc \in Cleaning
      /\ UNCHANGED <<vars, monitors, supervised, strays>>
  BY DEF CleanupFails, Cleaning
<1>1. Deactivated(k) \in SUBSET Executions
  BY NodeTyped DEF Deactivated, NodeState
<1>2. node' \in NodeState /\ node'.active = Deactivated(k)
  BY <1>1, NodeTyped DEF CleanupFails, NodeState
<1> QED
  BY <1>0, <1>2, FinishedShape, UnchangedIsQuiet

(* The reservation is confirmed clean.                                     *)
LEMMA ReleaseStep ==
    ASSUME ShapeInv, TableInv', NEW k \in Slots, ReleaseSlot(k)
    PROVE  /\ ShapeInv' /\ Step(k) /\ MonitorMove(k) /\ Vacates(k)
           /\ slots[k].pc = "release" /\ Frees(slots[k].execution)
<1>0. /\ slots[k].pc = "release" /\ slots[k].pc \in Cleaning
      /\ UNCHANGED <<monitors, supervised, strays>>
      /\ slots \in [Slots -> Slot] /\ slots[k] \in Slot /\ slots[k].execution \in Executions
  BY SlotFacts, NodeTyped DEF ReleaseSlot, At, Cleaning, Vacant
<1>1. Frees(slots[k].execution)
  BY <1>0, ReleaseEffect DEF ReleaseSlot, ShapeInv
<1>2. CASE Reconciling(k)
  <2>1. PICK E \in SUBSET Executions : E = slots[k].entries \ {slots[k].execution}
    BY <1>0 DEF Slot
  <2>2. /\ node' = node
        /\ slots' = [slots EXCEPT ![k].pc = "reconcile", ![k].entries = E,
                                  ![k].execution = NoExecution, ![k].sandbox = NoSandbox]
    BY <1>0, <1>2, <2>1 DEF ReleaseSlot
  <2>3. PICK r \in Slot : r = [slots[k] EXCEPT !.pc = "reconcile", !.entries = E,
                                   !.execution = NoExecution, !.sandbox = NoSandbox]
    BY <1>0 DEF Slot
  <2>4. slots' = [slots EXCEPT ![k] = r]
    BY <1>0, <2>2, <2>3
  <2>5. /\ r.execution = NoExecution /\ r.sandbox = NoSandbox /\ r.entries = E
        /\ r.pc = "reconcile" /\ r.pc \in Vacant
    BY <1>0, <2>3 DEF Slot, Vacant
  <2>6. Sends(k)
    BY <1>0, SilentEffect
  <2>7. ShapeInv' /\ Step(k) /\ slots'[k] = r /\ MonitorMove(k)
    BY <1>0, <2>2, <2>4, <2>5, <2>6, VacateShape, NodeTyped
  <2>8. Vacates(k)
    BY <1>0, <1>2, <2>1, <2>2, <2>5, <2>7 DEF Vacates, Enters
  <2> QED
    BY <1>0, <1>1, <2>7, <2>8
<1>3. CASE ~Reconciling(k)
  <2>1. Deactivated(k) \in SUBSET Executions /\ slots[k].failed \in BOOLEAN
    BY <1>0, NodeTyped DEF Deactivated, NodeState, Slot
  <2>2. PICK f \in BOOLEAN : f = (node.stopping \/ slots[k].failed)
    OBVIOUS
  <2>3. node' = [node EXCEPT !.active = Deactivated(k), !.stopping = f]
    BY <1>3, <2>2, NodeTyped DEF ReleaseSlot, NodeState
  <2>4. node' \in NodeState /\ node'.active = Deactivated(k)
    BY <2>1, <2>3, NodeTyped DEF NodeState
  <2>5. Finished(k, slots[k].failed)
    BY <1>3 DEF ReleaseSlot
  <2> QED
    BY <1>0, <1>1, <2>1, <2>4, <2>5, FinishedShape
<1> QED
  BY <1>2, <1>3

-----------------------------------------------------------------------------
(* How a slot comes to an Execution and to a Sandbox.                      *)

(* A reconciliation takes up the oldest of its entries.                    *)
LEMMA LeastNumber ==
    ASSUME NEW T, T \subseteq Nat, T # {}
    PROVE  \E n \in T : \A m \in T : n <= m
<1>1. PICK n \in T : \A m \in T : ~(<<m, n>> \in OpToRel(<, Nat))
  BY NatLessThanWellFounded, WFMin, Zenon
<1>2. \A m \in T : ~(m < n)
  BY <1>1 DEF OpToRel
<1> QED
  BY <1>2

(* The oldest of a set of entries is one of them.                          *)
LEMMA OldestIsOne ==
    ASSUME TableInv, NEW E, E \subseteq Executions, E # {}
    PROVE  Oldest(E) \in E
<1>1. \A e \in Executions : executions[e].queued_order \in Nat
  BY DEF TableInv, TypeOK, ExecutionRow
<1>2. PICK n \in {executions[e].queued_order : e \in E} :
        \A m \in {executions[e].queued_order : e \in E} : n <= m
  <2>1. {executions[e].queued_order : e \in E} \subseteq Nat
    BY <1>1
  <2>2. {executions[e].queued_order : e \in E} # {}
    OBVIOUS
  <2> QED
    BY <2>1, <2>2, LeastNumber
<1>3. \E e \in E : \A x \in E : executions[e].queued_order <= executions[x].queued_order
  BY <1>2
<1> QED
  BY <1>3, Zenon DEF Oldest

TakesUp(k) ==
    /\ slots[k].pc = "reconcile" /\ slots'[k].pc = "destroy"
    /\ slots'[k].execution \in slots[k].entries \ node.active
    /\ ~executions[slots'[k].execution].cleanup_unknown
    /\ slots'[k].sandbox = executions[slots'[k].execution].sandbox_id
    /\ slots'[k].entries = slots[k].entries
    /\ UNCHANGED <<vars, monitors, node, supervised, strays>>

(* Reconcile takes up an entry.                                            *)
LEMMA TakeUpStep ==
    ASSUME ShapeInv, TableInv', NEW k \in Slots, Reconcile(k), slots[k].entries # {},
           Oldest(slots[k].entries) \notin node.active
    PROVE  ShapeInv' /\ Step(k) /\ MonitorMove(k) /\ TakesUp(k) /\ Quiet
<1>0. /\ UNCHANGED <<vars, monitors, node, supervised, strays>>
      /\ slots \in [Slots -> Slot] /\ slots[k] \in Slot /\ SlotShape(k) /\ MonitorShape(k)
      /\ slots[k].pc = "reconcile" /\ monitors[k] \in Monitor /\ TableInv /\ ~Legacy(k)
  BY NodeTyped, SlotFacts DEF Reconcile, At, ShapeInv
<1>1. PICK e \in Executions : e = Oldest(slots[k].entries) /\ e \in slots[k].entries
  <2>1. slots[k].entries \subseteq Executions
    BY <1>0 DEF Slot
  <2> QED
    BY <1>0, <2>1, OldestIsOne
<1>2. executions[e].sandbox_id \in Sandboxes \union {NoSandbox} /\ ~executions[e].cleanup_unknown
  BY <1>0, <1>1 DEF TableInv, TypeOK, ExecutionRow, Legacy
<1>3. PICK r \in Slot : r = [slots[k] EXCEPT !.pc = "destroy", !.execution = e,
                                             !.sandbox = executions[e].sandbox_id]
  BY <1>0, <1>2 DEF Slot
<1>4. slots' = [slots EXCEPT ![k] = r]
  BY <1>0, <1>1, <1>3 DEF Reconcile
<1>5. /\ r.pc = "destroy" /\ r.execution = e /\ r.sandbox = executions[e].sandbox_id
      /\ r.entries = slots[k].entries
  BY <1>0, <1>3 DEF Slot
<1>6. /\ slots' \in [Slots -> Slot] /\ slots'[k] = r
      /\ \A j \in Slots : j # k => slots'[j] = slots[j]
  BY <1>4, SlotSet
<1>7. SlotShape(k)'
  BY <1>5, <1>6, NodeAssumption DEF SlotShape, Vacant, Working, Cleaning
<1>8. MonitorShape(k)' /\ MonitorMove(k)
  BY <1>0, <1>5, <1>6 DEF MonitorShape, MonitorMove, NoMonitor, Watched, Working
<1>9. Step(k)
  BY <1>0, <1>6, NodeTyped, SilentEffect DEF Step, Others, NodeState
<1>10. TakesUp(k)
  BY <1>0, <1>1, <1>2, <1>5, <1>6 DEF TakesUp
<1> QED
  BY <1>0, <1>7, <1>8, <1>9, <1>10, ShapeStep, UnchangedIsQuiet DEF Step

(* A Claim for this Worker commits.                                        *)
ClaimsRow(e) ==
    /\ executions[e].state = "queued" /\ executions'[e].worker_id = Me
    /\ executions'[e].sandbox_id = executions[e].sandbox_id /\ Quiet

(* What Claim does to the tables.                                          *)
LEMMA ClaimEffect ==
    ASSUME TableInv, NEW e \in Executions, Claim(Token, e)
    PROVE  ClaimsRow(e)
<1>1. executions[e] \in ExecutionRow
  BY RowFacts
<1>2. /\ executions'[e] = ClaimedRow(executions[e], Me) /\ executions[e].state = "queued"
      /\ \A x \in Executions : x # e => executions'[x] = executions[x]
  BY UpdateEffect DEF Claim, Token, NextInQueue
<1>3. /\ executions'[e].sandbox_id = executions[e].sandbox_id
      /\ executions'[e].capacity_released = executions[e].capacity_released
      /\ executions'[e].state = "leased" /\ executions'[e].worker_id = Me
  BY <1>1, <1>2 DEF ClaimedRow, ExecutionRow
<1> QED
  BY <1>2, <1>3 DEF ClaimsRow, Quiet

Claims(k, e) ==
    /\ slots[k].pc = "claim" /\ slots'[k].pc = "granted"
    /\ slots'[k].execution = e /\ slots'[k].sandbox = NoSandbox /\ slots'[k].entries = {}
    /\ UNCHANGED <<monitors, node, supervised, strays>>
    /\ ClaimsRow(e)

(* A Claim commits.                                                        *)
LEMMA ClaimStep ==
    ASSUME ShapeInv, TableInv', NEW k \in Slots, NEW e \in Executions, ClaimCommits(k, e)
    PROVE  ShapeInv' /\ Step(k) /\ MonitorMove(k) /\ Claims(k, e)
<1>0. /\ UNCHANGED <<monitors, node, supervised, strays>>
      /\ slots \in [Slots -> Slot] /\ slots[k] \in Slot /\ SlotShape(k) /\ MonitorShape(k)
      /\ slots[k].pc = "claim" /\ monitors[k] \in Monitor /\ TableInv
  BY NodeTyped, SlotFacts DEF ClaimCommits, At, ShapeInv
<1>1. slots[k].sandbox = NoSandbox /\ slots[k].entries = {}
  BY <1>0 DEF SlotShape, Vacant, Cleaning
<1>2. PICK r \in Slot : r = [slots[k] EXCEPT !.pc = "granted", !.execution = e]
  BY <1>0 DEF Slot
<1>3. slots' = [slots EXCEPT ![k] = r]
  BY <1>0, <1>2 DEF ClaimCommits
<1>4. r.pc = "granted" /\ r.execution = e /\ r.sandbox = NoSandbox /\ r.entries = {}
  BY <1>0, <1>1, <1>2 DEF Slot
<1>5. /\ slots' \in [Slots -> Slot] /\ slots'[k] = r
      /\ \A j \in Slots : j # k => slots'[j] = slots[j]
  BY <1>3, SlotSet
<1>6. SlotShape(k)'
  BY <1>4, <1>5, NodeAssumption DEF SlotShape, Vacant, Working, Cleaning
<1>7. MonitorShape(k)' /\ MonitorMove(k)
  BY <1>0, <1>4, <1>5 DEF MonitorShape, MonitorMove, NoMonitor, Watched, Working
<1>8. Step(k)
  BY <1>0, <1>5, NodeTyped, SilentEffect DEF Step, Others, NodeState
<1>9. Claims(k, e)
  BY <1>0, <1>4, <1>5, ClaimEffect DEF Claims, ClaimCommits
<1> QED
  BY <1>6, <1>7, <1>8, <1>9, ShapeStep DEF Step

(* The slot takes responsibility for its Execution.                        *)
Activates(k) ==
    /\ Stays(k) /\ slots[k].pc = "granted" /\ slots'[k].pc = "validate"
    /\ node'.active = node.active \union {slots[k].execution}
    /\ UNCHANGED <<vars, monitors, supervised, strays>>

(* The claimed Execution becomes active.                                   *)
LEMMA GrantedStep ==
    ASSUME ShapeInv, TableInv', NEW k \in Slots, Granted(k)
    PROVE  ShapeInv' /\ Step(k) /\ MonitorMove(k) /\ Activates(k) /\ Quiet
<1>0. /\ UNCHANGED <<vars, monitors, supervised, strays>> /\ slots[k].pc = "granted"
      /\ Go(k, "validate") /\ slots[k].execution \in Executions
      /\ SlotShape(k) /\ MonitorShape(k) /\ monitors[k] \in Monitor
  BY SlotFacts DEF Granted, At, Vacant
<1>1. node' \in NodeState /\ node'.active = node.active \union {slots[k].execution}
  <2>1. node.active \union {slots[k].execution} \in SUBSET Executions
    BY <1>0, NodeTyped DEF NodeState
  <2> QED
    BY <2>1, NodeTyped DEF Granted, NodeState
<1>2. /\ slots' \in [Slots -> Slot] /\ \A j \in Slots : j # k => slots'[j] = slots[j]
      /\ slots'[k].pc = "validate" /\ slots'[k].execution = slots[k].execution
      /\ slots'[k].sandbox = slots[k].sandbox /\ slots'[k].entries = slots[k].entries
      /\ slots'[k].result = slots[k].result
  <2>1. "validate" \in Pcs
    BY DEF Pcs
  <2> QED
    BY <1>0, <2>1, GoEffect
<1>3. SlotShape(k)' /\ MonitorShape(k)'
  BY <1>0, <1>2 DEF SlotShape, MonitorShape, Vacant, Working, Cleaning, Watched
<1>4. Step(k)
  BY <1>0, <1>1, <1>2, NodeTyped, SilentEffect DEF Step, Others, NodeState
<1>5. MonitorMove(k)
  BY <1>0 DEF MonitorMove, WatchdogOf
<1>6. Activates(k)
  BY <1>0, <1>1, <1>2 DEF Activates, Stays, Vacant
<1> QED
  BY <1>0, <1>3, <1>4, <1>5, <1>6, ShapeStep, UnchangedIsQuiet DEF Step

(* A Sandbox id is minted for the Execution.                               *)
Mints(k, s) ==
    /\ slots[k].pc = "validate" /\ slots'[k].pc = "bind"
    /\ slots'[k].execution = slots[k].execution /\ slots'[k].sandbox = s
    /\ slots'[k].entries = slots[k].entries /\ slots'[k].result = slots[k].result
    /\ CurrentLease(executions[slots[k].execution])
    /\ supervised[s].phase = "unused"
    /\ \A t \in Sandboxes :
          /\ t # s => supervised'[t] = supervised[t]
          /\ supervised'[t].client = supervised[t].client /\ supervised'[t].run = supervised[t].run
    /\ supervised'[s].phase = "minted"
    /\ UNCHANGED <<vars, monitors, node, strays>>

(* Validate mints a Sandbox id.                                            *)
LEMMA MintStep ==
    ASSUME ShapeInv, TableInv', NEW k \in Slots, NEW s \in Sandboxes, Validate(k, s)
    PROVE  ShapeInv' /\ Step(k) /\ MonitorMove(k) /\ Mints(k, s) /\ Quiet
<1>0. /\ UNCHANGED <<vars, monitors, node, strays>>
      /\ slots \in [Slots -> Slot] /\ slots[k] \in Slot /\ SlotShape(k) /\ MonitorShape(k)
      /\ slots[k].pc = "validate" /\ monitors[k] \in Monitor
      /\ supervised \in [Sandboxes -> Supervised] /\ supervised[s] \in Supervised
  BY NodeTyped, SlotFacts DEF Validate, At
<1>1. PICK q \in Supervised : q = [supervised[s] EXCEPT !.phase = "minted"]
  BY <1>0 DEF Supervised
<1>2. supervised' = [supervised EXCEPT ![s] = q]
  BY <1>0, <1>1 DEF Validate
<1>3. q.phase = "minted" /\ q.client = supervised[s].client /\ q.run = supervised[s].run
  BY <1>0, <1>1 DEF Supervised
<1>4. PICK r \in Slot : r = [slots[k] EXCEPT !.pc = "bind", !.sandbox = s]
  BY <1>0 DEF Slot
<1>5. slots' = [slots EXCEPT ![k] = r]
  BY <1>0, <1>4 DEF Validate
<1>6. /\ r.pc = "bind" /\ r.execution = slots[k].execution /\ r.sandbox = s
      /\ r.entries = slots[k].entries /\ r.result = slots[k].result
  BY <1>0, <1>4 DEF Slot
<1>7. /\ slots' \in [Slots -> Slot] /\ slots'[k] = r
      /\ \A j \in Slots : j # k => slots'[j] = slots[j]
  BY <1>5, SlotSet
<1>8. SlotShape(k)'
  BY <1>0, <1>6, <1>7, NullAssumption DEF SlotShape, Vacant, Working, Cleaning
<1>9. MonitorShape(k)' /\ MonitorMove(k)
  BY <1>0, <1>6, <1>7 DEF MonitorShape, MonitorMove, NoMonitor, Watched, Working
<1>10. supervised' \in [Sandboxes -> Supervised]
  BY <1>0, <1>2
<1>11. Step(k)
  BY <1>0, <1>7, <1>10, NodeTyped, SilentEffect DEF Step, Others, NodeState
<1>12. Mints(k, s)
  BY <1>0, <1>2, <1>3, <1>6, <1>7 DEF Mints, Validate
<1> QED
  BY <1>0, <1>8, <1>9, <1>11, <1>12, ShapeStep, UnchangedIsQuiet DEF Step

-----------------------------------------------------------------------------
(* The moves of the node.                                                  *)

SlotMove(k) ==
    \/ Glides(k) /\ Quiet
    \/ /\ Glides(k) /\ slots[k].pc = "bind" /\ slots'[k].pc = "first"
       /\ Bound(slots[k].execution, slots[k].sandbox)
    \/ /\ Glides(k) /\ slots[k].pc = "report" /\ slots'[k].pc = "stop"
       /\ Finishes(slots[k].execution)
    \/ \E r \in Supervised : Employed(k, r)
    \/ Destroyed(k)
    \/ Vacates(k) /\ Quiet
    \/ Vacates(k) /\ slots[k].pc = "release" /\ Frees(slots[k].execution)
    \/ TakesUp(k)
    \/ \E e \in Executions : Claims(k, e)
    \/ Activates(k)
    \/ \E s \in Sandboxes : Mints(k, s)

(* Every step of a slot is one of the moves.                               *)
LEMMA SlotMoves ==
    ASSUME ShapeInv, TableInv', NEW k \in Slots,
           Progress(k) \/ Disturbed(k) \/ HeartbeatStep(k) \/ Watchdog(k)
    PROVE  ShapeInv' /\ Step(k) /\ MonitorMove(k) /\ SlotMove(k)
<1>1. CASE \/ ValidateFails(k) \/ BindFails(k) \/ ReportFails(k) \/ BudgetSpent(k)
           \/ BindAgain(k) \/ ReleaseUnanswered(k) \/ WaitForAuthority(k) \/ BeatCommits(k)
           \/ MaintainLease(k) \/ StopMonitor(k)
  BY <1>1, LeaveSteps, WaitSteps, AuthoritySteps, BeatCommitsStep, MaintainLeaseStep,
     StopMonitorStep DEF SlotMove
<1>2. CASE \/ Beat(k) \/ BeatFindsResult(k) \/ BeatConflicts(k) \/ BeatRefused(k)
           \/ BeatUnanswered(k) \/ BeatAnswered(k) \/ FirstFails(k) \/ Watchdog(k)
           \/ ReportUnanswered(k) \/ \E found \in BOOLEAN : Inspect(k, found)
  BY <1>2, BeatSteps DEF SlotMove
<1>3. CASE Bind(k)
  BY <1>3, BindStep DEF SlotMove
<1>4. CASE Report(k)
  BY <1>4, ReportStep DEF SlotMove
<1>5. CASE \/ Create(k) \/ Created(k) \/ Execute(k) \/ LocalFails(k)
           \/ \E result \in Results, intact \in BOOLEAN : Executed(k, result, intact)
           \/ \E delivered \in BOOLEAN : HangUp(k, delivered)
  BY <1>5, EmployedStep DEF SlotMove
<1>6. CASE Destroy(k)
  BY <1>6, DestroyStep DEF SlotMove
<1>7. CASE Begin(k) \/ Outstanding(k) \/ LegacyFound(k) \/ Configure(k) \/ Stopped(k) \/ PollAgain(k)
           \/ CleanupFails(k)
  BY <1>7, EndedSteps, AdvanceSteps, PollStep, CleanupFailsStep DEF SlotMove
<1>8. CASE Reconcile(k)
  BY <1>8, AdvanceSteps, TakeUpStep DEF SlotMove
<1>9. CASE ReleaseSlot(k)
  BY <1>9, ReleaseStep DEF SlotMove
<1>10. CASE Granted(k)
  BY <1>10, GrantedStep DEF SlotMove
<1>11. ASSUME NEW s \in Sandboxes, Validate(k, s)
       PROVE  ShapeInv' /\ Step(k) /\ MonitorMove(k) /\ SlotMove(k)
  BY <1>11, MintStep DEF SlotMove
<1>12. ASSUME NEW e \in Executions, ClaimCommits(k, e)
       PROVE  ShapeInv' /\ Step(k) /\ MonitorMove(k) /\ SlotMove(k)
  BY <1>12, ClaimStep DEF SlotMove
<1> QED
  BY <1>1, <1>2, <1>3, <1>4, <1>5, <1>6, <1>7, <1>8, <1>9, <1>10, <1>11, <1>12
     DEF Progress, Disturbed, HeartbeatStep

(* A Sandbox becomes ready or is gone, without its Worker.                 *)
SandboxMove(s) ==
    /\ UNCHANGED <<vars, slots, monitors, node, strays>>
    /\ \A t \in Sandboxes :
          /\ t # s => supervised'[t] = supervised[t]
          /\ supervised'[t].client = supervised[t].client /\ supervised'[t].run = supervised[t].run
    /\ \/ supervised[s].phase = "requested" /\ supervised'[s].phase \in {"held", "gone"}
       \/ supervised[s].phase = "held" /\ supervised'[s].phase = "gone"

(* The shape depends on slots, monitors and strays alone.                  *)
LEMMA UnchangedShape ==
    ASSUME ShapeInv, TableInv', UNCHANGED <<slots, monitors>>, node' \in NodeState,
           supervised' \in [Sandboxes -> Supervised], strays' \subseteq strays
    PROVE  ShapeInv'
<1>1. \A k \in Slots : SlotShape(k)' /\ MonitorShape(k)'
  BY DEF ShapeInv, SlotShape, MonitorShape
<1>2. \A m \in strays' : StrayShape(m)'
  BY DEF ShapeInv, StrayShape
<1> QED
  BY <1>1, <1>2, NodeTyped DEF ShapeInv, NodeTypes, NodeState

(* What the Supervisor does on its own.                                    *)
LEMMA SandboxMoves ==
    ASSUME ShapeInv, TableInv', NEW s \in Sandboxes,
           SupervisorTearsDown(s) \/ \E ready \in BOOLEAN : SupervisorCreates(s, ready)
    PROVE  ShapeInv' /\ SandboxMove(s)
<1>0. supervised \in [Sandboxes -> Supervised] /\ supervised[s] \in Supervised
  BY NodeTyped
<1>1. PICK p \in {"held", "gone"} :
        /\ supervised' = [supervised EXCEPT ![s].phase = p]
        /\ UNCHANGED <<vars, slots, monitors, node, strays>>
        /\ \/ supervised[s].phase = "requested"
           \/ supervised[s].phase = "held" /\ p = "gone"
  BY DEF SupervisorTearsDown, SupervisorCreates
<1>2. PICK q \in Supervised : q = [supervised[s] EXCEPT !.phase = p]
  BY <1>0 DEF Supervised
<1>3. supervised' = [supervised EXCEPT ![s] = q]
  BY <1>0, <1>1, <1>2
<1>4. q.phase = p /\ q.client = supervised[s].client /\ q.run = supervised[s].run
  BY <1>0, <1>2 DEF Supervised
<1>5. SandboxMove(s)
  BY <1>0, <1>1, <1>3, <1>4 DEF SandboxMove
<1>6. supervised' \in [Sandboxes -> Supervised]
  BY <1>0, <1>3
<1> QED
  BY <1>1, <1>5, <1>6, UnchangedShape, NodeTyped

(* A stray arrives.                                                        *)
StrayMove(m) ==
    /\ strays' = strays \ {m} /\ UNCHANGED <<slots, monitors, node, supervised>>
    /\ \/ Quiet
       \/ m.op = "bind" /\ Bound(m.execution, m.sandbox)
       \/ m.op = "complete" /\ Finishes(m.execution)
       \/ m.op = "release" /\ Frees(m.execution)

(* What the arrival of a stray does.                                       *)
LEMMA StrayMoves ==
    ASSUME ShapeInv, TableInv', NEW m \in strays, StrayArrives(m)
    PROVE  ShapeInv' /\ StrayMove(m)
<1>0. /\ strays' = strays \ {m} /\ UNCHANGED <<slots, monitors, node, supervised>>
      /\ m \in Request /\ StrayShape(m) /\ TableInv
  BY DEF StrayArrives, ShapeInv, NodeTypes
<1>1. ShapeInv'
  BY <1>0, UnchangedShape, NodeTyped
<1>2. /\ m.op \in {"claim", "configure", "bind", "heartbeat", "recover", "complete", "release"}
      /\ m.op \notin {"claim", "configure"} => m.execution \in Executions
  BY <1>0 DEF Request, StrayShape
<1>3. CASE UNCHANGED vars
  BY <1>0, <1>1, <1>3, UnchangedIsQuiet DEF StrayMove
<1>4. CASE m.op = "claim"
  <2>1. (\E e \in Executions : Claim(Token, e)) \/ UNCHANGED vars
    BY <1>4 DEF StrayArrives
  <2>2. ASSUME NEW e \in Executions, Claim(Token, e) PROVE Quiet
    BY <1>0, <2>2, ClaimEffect DEF ClaimsRow
  <2> QED
    BY <1>0, <1>1, <1>3, <2>1, <2>2 DEF StrayMove
<1>5. CASE m.op = "configure"
  <2>1. UNCHANGED executions \/ UNCHANGED vars
    BY <1>5 DEF StrayArrives, ConfigureCapacity
  <2> QED
    BY <1>0, <1>1, <1>3, <2>1 DEF StrayMove, Quiet
<1>6. CASE m.op = "bind"
  <2>1. BindSandbox(Token, m.execution, 1, m.sandbox) \/ UNCHANGED vars
    BY <1>6 DEF StrayArrives
  <2> QED
    BY <1>0, <1>1, <1>2, <1>3, <1>6, <2>1, BindEffect DEF StrayMove
<1>7. CASE m.op \in {"heartbeat", "recover"}
  <2>1. \/ renew(Token, m.execution, 1, m.sandbox, FALSE)
        \/ renew(Token, m.execution, 1, m.sandbox, TRUE) \/ UNCHANGED vars
    BY <1>7 DEF StrayArrives, Heartbeat, Recover
  <2> QED
    BY <1>0, <1>1, <1>2, <1>3, <1>7, <2>1, RenewIsQuiet DEF StrayMove
<1>8. CASE m.op = "complete"
  <2>1. Complete(Token, m.execution, 1, m.result) \/ UNCHANGED vars
    BY <1>8 DEF StrayArrives
  <2> QED
    BY <1>0, <1>1, <1>2, <1>3, <1>8, <2>1, CompleteEffect DEF StrayMove
<1>9. CASE m.op = "release"
  <2>1. Release(Token, m.execution, 1) \/ UNCHANGED vars
    BY <1>9 DEF StrayArrives
  <2> QED
    BY <1>0, <1>1, <1>2, <1>3, <1>9, <2>1, ReleaseEffect DEF StrayMove
<1> QED
  BY <1>2, <1>4, <1>5, <1>6, <1>7, <1>8, <1>9

(* The process is started again.                                           *)
Reborn ==
    /\ UNCHANGED vars /\ node'.active = {}
    /\ \A k \in Slots :
          /\ slots'[k].pc = "idle" /\ slots'[k].execution = NoExecution
          /\ slots'[k].sandbox = NoSandbox /\ slots'[k].entries = {}
          /\ monitors'[k] = NoMonitor
    /\ strays' \subseteq strays \union UNION {{RequestOf(k, op) : op \in Ops(k)} : k \in Slots}
    /\ \A s \in Sandboxes :
          /\ supervised'[s].phase = supervised[s].phase /\ supervised'[s].run = supervised[s].run
          /\ supervised'[s].client = IF supervised[s].client = "connected" THEN "hungup"
                                     ELSE supervised[s].client

(* What a restart leaves.                                                  *)
LEMMA RestartMoves ==
    ASSUME ShapeInv, TableInv', Restart
    PROVE  ShapeInv' /\ Reborn
<1>0. /\ UNCHANGED vars /\ slots' = [k \in Slots |-> IdleSlot]
      /\ monitors' = [k \in Slots |-> NoMonitor] /\ node.restarts < MaxRestarts
      /\ node' = [unsafe |-> FALSE, active |-> {}, stopping |-> FALSE,
                  restarts |-> node.restarts + 1]
  BY DEF Restart
<1>1. node' \in NodeState /\ node'.active = {}
  <2>1. node.restarts \in 0..MaxRestarts /\ MaxRestarts \in Nat
    BY NodeTyped, NodeAssumption DEF NodeState
  <2> QED
    BY <1>0, <2>1 DEF NodeState
<1>2. /\ slots' \in [Slots -> Slot] /\ monitors' \in [Slots -> Monitor]
      /\ \A k \in Slots : slots'[k] = IdleSlot /\ monitors'[k] = NoMonitor
  BY <1>0, IdleSlots DEF NoMonitor, Monitor
<1>3. \A s \in Sandboxes : supervised[s] \in Supervised
  BY NodeTyped
<1>4. /\ supervised' \in [Sandboxes -> Supervised]
      /\ \A s \in Sandboxes :
          /\ supervised'[s].phase = supervised[s].phase /\ supervised'[s].run = supervised[s].run
          /\ supervised'[s].client = IF supervised[s].client = "connected" THEN "hungup"
                                     ELSE supervised[s].client
  <2>1. ASSUME NEW s \in Sandboxes
        PROVE  /\ supervised'[s] \in Supervised
               /\ supervised'[s].phase = supervised[s].phase /\ supervised'[s].run = supervised[s].run
               /\ supervised'[s].client = IF supervised[s].client = "connected" THEN "hungup"
                                          ELSE supervised[s].client
    <3>1. PICK q \in Supervised : q = [supervised[s] EXCEPT !.client = "hungup"]
      BY <1>3 DEF Supervised
    <3>2. supervised'[s] = IF supervised[s].client = "connected" THEN q ELSE supervised[s]
      BY <3>1 DEF Restart
    <3>3. q.phase = supervised[s].phase /\ q.run = supervised[s].run /\ q.client = "hungup"
      BY <1>3, <3>1 DEF Supervised
    <3> QED
      BY <1>3, <3>1, <3>2, <3>3
  <2>2. supervised' = [s \in Sandboxes |-> supervised'[s]]
    BY DEF Restart
  <2> QED
    BY <2>1, <2>2
<1>5. InFlight \subseteq UNION {{RequestOf(k, op) : op \in Ops(k)} : k \in Slots}
  <2>1. ASSUME NEW m \in InFlight PROVE m \in UNION {{RequestOf(k, op) : op \in Ops(k)} : k \in Slots}
    <3>1. CASE m \in {RequestOf(k, OpOf(slots[k].pc)) : k \in {j \in Slots : OpOf(slots[j].pc) # "none"}}
      <4>1. PICK k \in Slots : OpOf(slots[k].pc) # "none" /\ m = RequestOf(k, OpOf(slots[k].pc))
        BY <3>1
      <4>2. OpOf(slots[k].pc) \in Ops(k)
        BY <4>1 DEF Ops, OpOf
      <4> QED
        BY <4>1, <4>2
    <3>2. CASE m \in {RequestOf(k, monitors[k].beat) : k \in {j \in Slots : Beating(j)}}
      <4>1. PICK k \in Slots : Beating(k) /\ m = RequestOf(k, monitors[k].beat)
        BY <3>2
      <4>2. monitors[k].beat \in Ops(k)
        BY <4>1 DEF Ops, Beating
      <4> QED
        BY <4>1, <4>2
    <3> QED
      BY <3>1, <3>2 DEF InFlight
  <2> QED
    BY <2>1
<1>6. strays' \subseteq strays \union UNION {{RequestOf(k, op) : op \in Ops(k)} : k \in Slots}
  BY <1>5 DEF Restart, Unanswered
<1>7. strays' \subseteq Request /\ \A m \in strays' : StrayShape(m)
  BY <1>6, RequestShape DEF ShapeInv, NodeTypes
<1>8. \A m \in strays' : StrayShape(m)'
  BY <1>7 DEF StrayShape
<1>9. \A k \in Slots : SlotShape(k)' /\ MonitorShape(k)'
  BY <1>2, IdleSlots DEF SlotShape, MonitorShape, IdleSlot, Vacant, Working, Cleaning
<1>10. Reborn
  BY <1>0, <1>1, <1>2, <1>4, <1>6, IdleSlots DEF Reborn, IdleSlot
<1> QED
  BY <1>1, <1>2, <1>4, <1>7, <1>8, <1>9, <1>10 DEF ShapeInv, NodeTypes, NodeState

(* The node itself does nothing.                                           *)
Rests ==
    /\ UNCHANGED <<slots, monitors, supervised, strays>> /\ node'.active = node.active /\ Quiet

(* Interrupt and the Control Plane leave the node alone.                   *)
LEMMA RestMoves ==
    ASSUME ShapeInv, TableInv', Interrupt \/ ControlPlane \/ UNCHANGED allVars
    PROVE  ShapeInv' /\ Rests
<1>0. /\ UNCHANGED <<slots, monitors, supervised, strays>>
      /\ node' = node \/ node' = [node EXCEPT !.stopping = TRUE]
  BY DEF Interrupt, ControlPlane, allVars, nodeVars
<1>1. node' \in NodeState /\ node'.active = node.active
  BY <1>0, NodeTyped DEF NodeState
<1>2. Quiet
  <2>1. CASE UNCHANGED executions
    BY <2>1 DEF Quiet
  <2>2. ASSUME NEW e \in Executions, Enqueue(e) PROVE Quiet
    <3>1. executions[e] \in ExecutionRow /\ TableInv
      BY RowFacts DEF ShapeInv
    <3>2. PICK n : Update(e, [executions[e] EXCEPT !.state = "queued", !.queued_order = n])
      BY <2>2 DEF Enqueue
    <3>3. /\ executions'[e] = [executions[e] EXCEPT !.state = "queued", !.queued_order = n]
          /\ \A x \in Executions : x # e => executions'[x] = executions[x]
      BY <3>1, <3>2, UpdateEffect
    <3>4. /\ executions'[e].sandbox_id = executions[e].sandbox_id
          /\ executions'[e].capacity_released = executions[e].capacity_released
          /\ executions'[e].state = "queued"
      BY <3>1, <3>3 DEF ExecutionRow
    <3> QED
      BY <3>3, <3>4 DEF Quiet
  <2>3. ASSUME NEW S \in SUBSET Executions, SweepRecovery(S) PROVE Quiet
    <3>1. ASSUME NEW x \in Executions
          PROVE  /\ executions'[x].sandbox_id = executions[x].sandbox_id
                 /\ executions'[x].capacity_released = executions[x].capacity_released
                 /\ executions'[x].state = "completed" => executions[x].state = "completed"
      <4>1. executions[x] \in ExecutionRow
        BY RowFacts DEF ShapeInv
      <4>2. executions'[x] = executions[x] \/ executions'[x] = SweptRow(executions[x])
        BY <2>3 DEF SweepRecovery
      <4> QED
        BY <4>1, <4>2 DEF SweptRow, ExecutionRow
    <3> QED
      BY <3>1 DEF Quiet
  <2> QED
    BY <2>1, <2>2, <2>3 DEF Interrupt, ControlPlane, allVars, vars, Revoke, Tick
<1> QED
  BY <1>0, <1>1, <1>2, UnchangedShape, NodeTyped DEF Rests

NodeMove ==
    \/ \E k \in Slots : Step(k) /\ MonitorMove(k) /\ SlotMove(k)
    \/ \E s \in Sandboxes : SandboxMove(s)
    \/ \E m \in strays : StrayMove(m)
    \/ Reborn \/ Rests

(* Every step is a move, and keeps the shape.                              *)
LEMMA NodeMoves ==
    ASSUME ShapeInv, [NodeNext]_allVars
    PROVE  ShapeInv' /\ NodeMove
<1>1. TableInv'
  BY NodeAsks
<1> QED
  BY <1>1, SlotMoves, SandboxMoves, StrayMoves, RestartMoves, RestMoves
     DEF NodeNext, NodeMove

(* The first layer holds initially.                                        *)
LEMMA ShapeInit == NodeInit => ShapeInv
<1> SUFFICES ASSUME NodeInit PROVE ShapeInv
  OBVIOUS
<1>1. TableInv
  BY InitTable DEF NodeInit
<1>2. /\ slots \in [Slots -> Slot] /\ \A k \in Slots : slots[k] = IdleSlot
      /\ monitors \in [Slots -> Monitor] /\ \A k \in Slots : monitors[k] = NoMonitor
  BY IdleSlots DEF NodeInit, NoMonitor, Monitor
<1>3. /\ node \in NodeState /\ supervised \in [Sandboxes -> Supervised] /\ strays = {}
  BY NodeAssumption DEF NodeInit, NodeState, Supervised
<1>4. \A k \in Slots : SlotShape(k) /\ MonitorShape(k)
  BY <1>2 DEF SlotShape, MonitorShape, IdleSlot, Vacant, Working, Cleaning
<1> QED
  BY <1>1, <1>2, <1>3, <1>4 DEF ShapeInv, NodeTypes, NodeState

(* The first layer is an invariant.                                        *)
LEMMA ShapeInvariant == NodeSpec => []ShapeInv
<1>1. ShapeInv /\ [NodeNext]_allVars => ShapeInv'
  BY NodeMoves
<1> QED
  BY <1>1, ShapeInit, PTL DEF NodeSpec

(* The node uses the Execution queue as the queue allows: every behaviour  *)
(* of slots, strays, crashes and restarts is, to the tables, a behaviour   *)
(* of ExecutionQueue, so that its theorems hold of a Worker too.           *)
THEOREM NodeImplementsQueue == NodeSpec => Spec
<1>1. NodeInit => Init
  BY DEF NodeInit
<1>2. ShapeInv /\ [NodeNext]_allVars => [Next]_vars
  BY NodeAsks
<1> QED
  BY <1>1, <1>2, ShapeInvariant, PTL DEF NodeSpec, Spec

-----------------------------------------------------------------------------
(* Layer 2: whose Executions the node works on.                            *)

(* What any step leaves of the row of e.                                   *)
RowFrame(e) ==
    LET r == executions[e]
        s == executions'[e]
    IN  /\ r.worker_id # NoWorker =>
              s.worker_id = r.worker_id /\ s.recovery_until >= r.recovery_until
        /\ r.worker_id = NoWorker => s.sandbox_id = r.sandbox_id
        /\ r.sandbox_id # NoSandbox => s.sandbox_id = r.sandbox_id
        /\ r.capacity_released => s.capacity_released
        /\ Over(e) => Over(e)' /\ s.sandbox_id = r.sandbox_id
        /\ r.cleanup_unknown \/ Over(e) => s.cleanup_unknown \/ Over(e)'
        /\ r.recovery_until \in Nat /\ s.recovery_until \in Nat

(* Every step of the queue leaves that much of every row.                  *)
LEMMA RowFrames ==
    ASSUME TableInv, TableInv', [Next]_vars, NEW e \in Executions
    PROVE  RowFrame(e)
<1> DEFINE r == executions[e]
           s == executions'[e]
<1>1. /\ RowOK(r) /\ r \in ExecutionRow /\ RowStep(r, s) /\ RowBounded(r, now)
      /\ now \in Nat \ {0} /\ s \in ExecutionRow
  <2>1. s \in ExecutionRow
    BY DEF TableInv, TypeOK
  <2> QED
    BY <2>1, RowFacts, StepOfRow
<1>2. /\ r.state = "queued" => r.worker_id = NoWorker
      /\ r.cleanup_unknown => r.worker_id # NoWorker /\ r.sandbox_id = NoSandbox
      /\ r.worker_id # NoWorker => r.state \in Active \union Terminal
      /\ r.state \in Active => r.recovery_until > r.lease_expires_at
  BY <1>1 DEF RowOK, RowChecks, OwnedState, UnknownCleanup, RecoveryDeadline, ExecutionRow,
              States, Active, Terminal, Null
<1>3. Over(e) => Over(e)'
  <2>1. CASE now' = now
    BY <1>1, <2>1, RowStaysSettled DEF Over
  <2>2. CASE now' # now
    <3>1. executions'[e] = executions[e] /\ now' \in Nat /\ now' >= now
      BY <2>2, StepOfRow, ClockForward
    <3> QED
      BY <1>1, <3>1 DEF Over, ObservedState, ExecutionRow, Active, Terminal
  <2> QED
    BY <2>1, <2>2
<1>o. Over(e) <=> ObservedState(r, now) \in Terminal
  BY DEF Over
<1>p. Over(e)' <=> ObservedState(s, now') \in Terminal
  BY DEF Over
<1>t. s.state \in Terminal => Over(e)'
  BY <1>p DEF ObservedState, Terminal, Active
<1> HIDE DEF r, s
<1>4. /\ r.worker_id # NoWorker => s.worker_id = r.worker_id
      /\ r.sandbox_id # NoSandbox => s.sandbox_id = r.sandbox_id
      /\ r.capacity_released => s.capacity_released
  BY <1>1, <1>2, ZenonT(30)
  DEF RowStep, ExecutionRow, ClaimedRow, Bindable, RenewedRow, ReleasedRow, SweptRow, CleanedRow
<1>5. \/ r.worker_id = NoWorker \/ s.recovery_until = r.recovery_until
      \/ \E b \in BOOLEAN : r.sandbox_id # NoSandbox /\ Renewable(r, b) /\ s = RenewedRow(r)
  BY <1>1, <1>2 DEF RowStep, ExecutionRow, ReleasedRow, SweptRow, CleanedRow
<1>6. ASSUME NEW b \in BOOLEAN, r.sandbox_id # NoSandbox, Renewable(r, b), s = RenewedRow(r)
      PROVE  s.recovery_until >= r.recovery_until
  <2>1. r.state \in Active /\ ~r.cleanup_unknown
    BY <1>2, <1>6 DEF Renewable, Active
  <2>2. s.recovery_until = now + LeaseDuration + RecoveryWindow
    BY <1>1, <1>6 DEF RenewedRow, ExecutionRow
  <2> QED
    BY <1>1, <2>1, <2>2, DurationAssumption DEF RowBounded, ExecutionRow
<1>7. r.recovery_until \in Nat /\ s.recovery_until \in Nat
  BY <1>1 DEF ExecutionRow
<1>8. \/ s.sandbox_id = r.sandbox_id
      \/ r.worker_id \in Workers /\ r.state = "leased" /\ r.lease_expires_at > now
  BY <1>1
     DEF RowStep, ExecutionRow, ClaimedRow, Bindable, RenewedRow, ReleasedRow, SweptRow,
              CleanedRow
<1>9. r.worker_id = NoWorker => s.sandbox_id = r.sandbox_id
  BY <1>8, NullAssumption
<1>10. Over(e) => s.sandbox_id = r.sandbox_id
  BY <1>1, <1>2, <1>8, <1>o DEF ObservedState, Active, Terminal, ExecutionRow
<1>11. r.cleanup_unknown => s.cleanup_unknown \/ s.state \in Terminal
  <2>1. r.cleanup_unknown => r.state \in Active \union Terminal /\ r.worker_id # NoWorker
    BY <1>2
  <2>2. \/ s.cleanup_unknown = r.cleanup_unknown \/ s = CleanedRow(r)
    BY <1>1 DEF RowStep, ExecutionRow, ClaimedRow, RenewedRow, ReleasedRow, SweptRow
  <2>3. s = CleanedRow(r) => s.state = Settled(r)
    BY <1>1 DEF CleanedRow, ExecutionRow
  <2> QED
    BY <2>1, <2>2, <2>3 DEF Settled, Active, Terminal
<1> USE DEF r, s
<1>12. /\ r.worker_id # NoWorker => s.recovery_until >= r.recovery_until
       /\ r.cleanup_unknown \/ Over(e) => s.cleanup_unknown \/ Over(e)'
  <2> HIDE DEF r, s
  <2> QED
    BY <1>3, <1>5, <1>6, <1>7, <1>11, <1>t
<1> QED
  BY <1>3, <1>4, <1>7, <1>9, <1>10, <1>12 DEF RowFrame

(* A slot that works on an Execution it has claimed.                       *)
Own(k) == slots[k].execution # NoExecution /\ ~Reconciling(k)
Sweeps(k) == Reconciling(k) /\ slots[k].pc \in Cleaning

SlotRow(k) ==
    /\ slots[k].execution # NoExecution => executions[slots[k].execution].worker_id = Me
    /\ \A e \in slots[k].entries :
          executions[e].worker_id = Me /\ (executions[e].cleanup_unknown \/ Over(e))
    /\ Sweeps(k) => /\ Over(slots[k].execution)
                    /\ slots[k].sandbox = executions[slots[k].execution].sandbox_id

Unowned ==
    \A e \in Executions :
        executions[e].worker_id = NoWorker => executions[e].sandbox_id = NoSandbox

StrayRow(m) == m.execution # NoExecution => executions[m.execution].worker_id = Me

ActiveOK ==
    \A e \in Executions :
        e \in node.active <=>
            \E k \in Slots : Own(k) /\ slots[k].pc # "granted" /\ slots[k].execution = e

Exclusive ==
    /\ \A j, k \in Slots :
          Own(j) /\ Own(k) /\ slots[j].execution = slots[k].execution => j = k
    /\ \A j, k \in Slots :
          Sweeps(k) /\ Own(j) /\ slots[j].execution = slots[k].execution =>
              slots[j].sandbox = NoSandbox

OwnerInv ==
    /\ Unowned
    /\ \A k \in Slots : SlotRow(k)
    /\ \A m \in strays : StrayRow(m)
    /\ ActiveOK /\ Exclusive

(* This Worker is not the null of worker_id.                               *)
LEMMA MeIsSomeone == Me \in Workers /\ Me # NoWorker
  BY NodeAssumption, NullAssumption

(* No Execution has a Sandbox at first, migrated ones included.            *)
LEMMA InitUnbound ==
    ASSUME NodeInit
    PROVE  \A e \in Executions : executions[e].sandbox_id = NoSandbox
<1>1. AbsentRow.sandbox_id = NoSandbox
  BY DEF AbsentRow
<1>2. ASSUME NEW w, NEW lease, NEW result, NEW released
      PROVE  MigratedRow(w, lease, result, released).sandbox_id = NoSandbox
  BY DEF MigratedRow, AbsentRow
<1>3. ASSUME NEW W, NEW r \in MigratedRows(W) PROVE r.sandbox_id = NoSandbox
  BY <1>1, <1>2 DEF MigratedRows
<1> QED
  BY <1>1, <1>3 DEF NodeInit, Init

(* The second layer holds initially.                                       *)
LEMMA OwnerInit == NodeInit => OwnerInv
<1> SUFFICES ASSUME NodeInit PROVE OwnerInv
  OBVIOUS
<1>1. \A k \in Slots : slots[k].execution = NoExecution /\ slots[k].entries = {}
  BY DEF NodeInit, IdleSlot
<1>2. strays = {} /\ node.active = {}
  BY DEF NodeInit
<1>3. Unowned
  BY InitUnbound DEF Unowned
<1>4. ActiveOK /\ Exclusive
  BY <1>1, <1>2 DEF ActiveOK, Exclusive, Own, Sweeps, Reconciling
<1>5. \A k \in Slots : SlotRow(k)
  BY <1>1 DEF SlotRow, Sweeps, Reconciling
<1> QED
  BY <1>2, <1>3, <1>4, <1>5 DEF OwnerInv

(* The row of a slot that keeps its Execution and Sandbox.                 *)
LEMMA SlotRowKept ==
    ASSUME ShapeInv, OwnerInv, \A e \in Executions : RowFrame(e), NEW j \in Slots,
           slots'[j].execution = slots[j].execution, slots'[j].sandbox = slots[j].sandbox,
           slots'[j].entries = slots[j].entries,
           slots'[j].pc \in Cleaning /\ Reconciling(j) => slots[j].pc \in Cleaning
    PROVE  SlotRow(j)'
<1>1. /\ SlotRow(j) /\ slots[j].entries \subseteq Executions
      /\ slots[j].execution \in Executions \union {NoExecution}
      /\ slots[j].pc \notin Vacant => slots[j].execution \in Executions
  BY SlotFacts, NodeTyped DEF OwnerInv, Slot
<1>2. \A e \in Executions :
        executions[e].worker_id = Me =>
          /\ executions'[e].worker_id = Me
          /\ executions[e].cleanup_unknown \/ Over(e) => executions'[e].cleanup_unknown \/ Over(e)'
          /\ Over(e) => Over(e)' /\ executions'[e].sandbox_id = executions[e].sandbox_id
  BY MeIsSomeone DEF RowFrame
<1>3. slots'[j].execution # NoExecution => executions'[slots'[j].execution].worker_id = Me
  BY <1>1, <1>2 DEF SlotRow
<1>4. \A e \in slots'[j].entries :
        executions'[e].worker_id = Me /\ (executions'[e].cleanup_unknown \/ Over(e)')
  BY <1>1, <1>2 DEF SlotRow
<1>5. ASSUME Sweeps(j)'
      PROVE  /\ Over(slots[j].execution)'
             /\ slots'[j].sandbox = executions'[slots'[j].execution].sandbox_id
  <2>1. Sweeps(j) /\ slots[j].pc \in Cleaning
    BY <1>5 DEF Sweeps, Reconciling
  <2>2. PICK e \in Executions : e = slots[j].execution
    BY <1>1, <2>1 DEF Cleaning, Vacant
  <2>3. /\ Over(e) /\ slots[j].sandbox = executions[e].sandbox_id
        /\ executions[e].worker_id = Me
    BY <1>1, <2>1, <2>2, NodeAssumption DEF SlotRow
  <2>4. Over(e)' /\ executions'[e].sandbox_id = executions[e].sandbox_id /\ slots'[j].execution = e
    BY <1>2, <2>2, <2>3
  <2> QED
    BY <2>3, <2>4 DEF Over
<1> QED
  BY <1>3, <1>4, <1>5 DEF SlotRow, Sweeps, Reconciling

(* The second layer after a step, but for the slot that moves.             *)
LEMMA UnownedKept ==
    ASSUME Unowned, \A e \in Executions : RowFrame(e)
    PROVE  Unowned'
  BY DEF Unowned, RowFrame

(* The row of a request stays that of this Worker.                         *)
LEMMA StrayRowsKept ==
    ASSUME ShapeInv, OwnerInv, \A e \in Executions : RowFrame(e), NEW m \in Request,
           m \in strays \/ \E k \in Slots : m.execution = slots[k].execution
    PROVE  StrayRow(m)'
<1>1. m.execution \in Executions \union {NoExecution}
  BY DEF Request
<1>2. m.execution # NoExecution => executions[m.execution].worker_id = Me
  BY DEF OwnerInv, StrayRow, SlotRow
<1> QED
  BY <1>1, <1>2, MeIsSomeone DEF RowFrame, StrayRow

(* The requests on their way come from slots.                              *)
LEMMA SentByOwner ==
    ASSUME ShapeInv, ShapeInv', OwnerInv, \A e \in Executions : RowFrame(e),
           \/ \E k \in Slots : Sends(k)
           \/ strays' \subseteq strays \union UNION {{RequestOf(k, op) : op \in Ops(k)} : k \in Slots}
    PROVE  \A m \in strays' : StrayRow(m)'
<1> SUFFICES ASSUME NEW m \in strays' PROVE StrayRow(m)'
  OBVIOUS
<1>1. m \in Request
  BY DEF ShapeInv, NodeTypes
<1>2. m \in strays \/ \E k \in Slots : \E op \in Ops(k) : m = RequestOf(k, op)
  BY DEF Sends
<1>3. m \in strays \/ \E k \in Slots : m.execution = slots[k].execution
  BY <1>2 DEF RequestOf
<1> QED
  BY <1>1, <1>3, StrayRowsKept

(* Two states of a slot that look alike to the others.                     *)
Alike(j) ==
    /\ slots'[j].execution = slots[j].execution /\ slots'[j].sandbox = slots[j].sandbox
    /\ slots'[j].entries = slots[j].entries
    /\ slots'[j].pc = "granted" <=> slots[j].pc = "granted"
    /\ slots[j].entries # {} => (slots'[j].pc \in Cleaning <=> slots[j].pc \in Cleaning)

(* Slots that look alike keep the active set and exclusion.                *)
LEMMA AlikeKeeps ==
    ASSUME OwnerInv, \A j \in Slots : Alike(j), node'.active = node.active
    PROVE  ActiveOK' /\ Exclusive'
<1>1. \A j \in Slots : /\ Own(j)' <=> Own(j)
                       /\ Sweeps(j)' <=> Sweeps(j)
                       /\ slots'[j].execution = slots[j].execution
                       /\ slots'[j].sandbox = slots[j].sandbox
                       /\ slots'[j].pc = "granted" <=> slots[j].pc = "granted"
  BY DEF Alike, Own, Sweeps, Reconciling
<1>2. ActiveOK /\ Exclusive
  BY DEF OwnerInv
<1>3. ActiveOK'
  BY <1>1, <1>2 DEF ActiveOK
<1>4. Exclusive'
  BY <1>1, <1>2 DEF Exclusive
<1> QED
  BY <1>3, <1>4

(* Slots that look alike keep the second layer.                            *)
LEMMA OwnerAlike ==
    ASSUME ShapeInv, ShapeInv', OwnerInv, \A e \in Executions : RowFrame(e),
           \A j \in Slots : Alike(j), node'.active = node.active,
           \A m \in strays' : StrayRow(m)'
    PROVE  OwnerInv'
<1>1. Unowned'
  BY UnownedKept DEF OwnerInv
<1>2. \A j \in Slots : SlotRow(j)'
  BY SlotRowKept DEF Alike, Reconciling
<1> QED
  BY <1>1, <1>2, AlikeKeeps DEF OwnerInv

(* The other slots.                                                        *)
LEMMA OthersAlike ==
    ASSUME NEW k \in Slots, Others(k)
    PROVE  \A j \in Slots : j # k => Alike(j)
  BY DEF Others, Alike

(* The second layer after a step of slot k follows from its own part.      *)
LEMMA OthersRows ==
    ASSUME ShapeInv, ShapeInv', OwnerInv, \A e \in Executions : RowFrame(e), NEW k \in Slots,
           Step(k), SlotRow(k)', ActiveOK', Exclusive'
    PROVE  OwnerInv'
<1>1. Unowned'
  BY UnownedKept DEF OwnerInv
<1>2. \A j \in Slots : j # k => SlotRow(j)'
  BY OthersAlike, SlotRowKept DEF Alike, Reconciling, Step
<1>3. \A m \in strays' : StrayRow(m)'
  BY SentByOwner DEF Step
<1> QED
  BY <1>1, <1>2, <1>3 DEF OwnerInv

(* A slot that keeps its Execution and Sandbox.                            *)
LEMMA OwnerStays ==
    ASSUME ShapeInv, ShapeInv', OwnerInv, \A e \in Executions : RowFrame(e), NEW k \in Slots,
           Step(k), Stays(k), node'.active = node.active,
           slots'[k].pc = "granted" <=> slots[k].pc = "granted"
    PROVE  OwnerInv'
<1>1. Alike(k)
  <2>1. SlotShape(k) /\ SlotShape(k)'
    BY DEF ShapeInv
  <2>2. slots[k].entries # {} => slots[k].pc \in Cleaning /\ slots'[k].pc \in Cleaning
    BY <2>1 DEF Stays, SlotShape, Vacant
  <2> QED
    BY <2>2 DEF Alike, Stays
<1>2. \A m \in strays' : StrayRow(m)'
  BY SentByOwner DEF Step
<1> QED
  BY <1>1, <1>2, OthersAlike, OwnerAlike DEF Step

(* A slot gives up its Execution.                                          *)
LEMMA OwnerVacates ==
    ASSUME ShapeInv, ShapeInv', OwnerInv, \A e \in Executions : RowFrame(e), NEW k \in Slots,
           Step(k), Vacates(k)
    PROVE  OwnerInv'
<1>0. /\ slots'[k].execution = NoExecution /\ slots'[k].pc \in Vacant
      /\ slots[k].pc \in Vacant \union {"granted"} \union Cleaning /\ SlotShape(k)
      /\ slots'[k].entries \subseteq Executions
  BY NodeTyped DEF Vacates, ShapeInv, NodeTypes, Slot
<1>1. SlotRow(k)'
  <2>1. ~Sweeps(k)'
    BY <1>0 DEF Sweeps, Vacant, Cleaning
  <2>2. \A e \in slots'[k].entries :
          executions[e].worker_id = Me /\ (executions[e].cleanup_unknown \/ Over(e))
    BY DEF Vacates, Enters, OwnerInv, SlotRow, Occupied
  <2>3. \A e \in slots'[k].entries :
          executions'[e].worker_id = Me /\ (executions'[e].cleanup_unknown \/ Over(e)')
    BY <1>0, <2>2, MeIsSomeone DEF RowFrame
  <2> QED
    BY <1>0, <2>1, <2>3 DEF SlotRow
<1>2. \A j \in Slots : j # k => /\ Own(j)' <=> Own(j)
                                /\ Sweeps(j)' <=> Sweeps(j)
                                /\ slots'[j] = slots[j]
  BY DEF Step, Others, Own, Sweeps, Reconciling
<1>3. ~Own(k)' /\ ~Sweeps(k)'
  BY <1>0 DEF Own, Sweeps, Vacant, Cleaning
<1>4. Exclusive'
  BY <1>2, <1>3 DEF Exclusive, OwnerInv
<1>5. /\ Own(k) /\ slots[k].pc # "granted" <=> slots[k].pc \in Cleaning /\ ~Reconciling(k)
  BY <1>0 DEF Own, SlotShape, Vacant, Cleaning
<1>6. ActiveOK'
  <2> SUFFICES ASSUME NEW e \in Executions
               PROVE  e \in node'.active <=>
                        \E j \in Slots : Own(j)' /\ slots'[j].pc # "granted" /\ slots'[j].execution = e
    BY DEF ActiveOK
  <2>1. e \in node.active <=>
            \E j \in Slots : Own(j) /\ slots[j].pc # "granted" /\ slots[j].execution = e
    BY DEF OwnerInv, ActiveOK
  <2>2. CASE slots[k].pc \in Cleaning /\ ~Reconciling(k)
    <3>1. node'.active = node.active \ {slots[k].execution}
      BY <2>2 DEF Vacates
    <3>2. \A j \in Slots : Own(j) /\ slots[j].execution = slots[k].execution => j = k
      BY <1>5, <2>2 DEF OwnerInv, Exclusive
    <3> QED
      BY <1>2, <1>3, <2>1, <3>1, <3>2
  <2>3. CASE ~(slots[k].pc \in Cleaning /\ ~Reconciling(k))
    <3>1. node'.active = node.active
      BY <2>3 DEF Vacates
    <3> QED
      BY <1>2, <1>3, <1>5, <2>1, <2>3, <3>1
  <2> QED
    BY <2>2, <2>3
<1> QED
  BY <1>1, <1>4, <1>6, OthersRows

(* A slot takes up an entry of its inventory.                              *)
LEMMA OwnerTakesUp ==
    ASSUME ShapeInv, ShapeInv', OwnerInv, \A e \in Executions : RowFrame(e), NEW k \in Slots,
           Step(k), TakesUp(k)
    PROVE  OwnerInv'
<1>0. PICK e \in Executions : /\ e = slots'[k].execution /\ e \in slots[k].entries
                              /\ e \notin node.active /\ ~executions[e].cleanup_unknown
  BY NodeTyped DEF TakesUp, Slot
<1>1. executions[e].worker_id = Me /\ Over(e)
  BY <1>0 DEF OwnerInv, SlotRow
<1>2. /\ UNCHANGED vars /\ slots'[k].entries = slots[k].entries /\ node' = node
      /\ slots'[k].sandbox = executions[e].sandbox_id /\ slots[k].pc = "reconcile"
  BY <1>0 DEF TakesUp
<1>3. executions' = executions /\ now' = now
  BY <1>2 DEF vars
<1>4. SlotRow(k)'
  BY <1>0, <1>1, <1>2, <1>3 DEF SlotRow, OwnerInv, Over
<1>5. \A j \in Slots : j # k => /\ Own(j)' <=> Own(j)
                                /\ Sweeps(j)' <=> Sweeps(j)
                                /\ slots'[j] = slots[j]
  BY DEF Step, Others, Own, Sweeps, Reconciling
<1>6. ~Own(k)' /\ ~Own(k)
  BY <1>0, <1>2 DEF Own, Reconciling
<1>7. ASSUME NEW j \in Slots, Own(j), slots[j].execution = e PROVE slots[j].sandbox = NoSandbox
  <2>1. slots[j].pc = "granted" /\ SlotShape(j)
    BY <1>0, <1>7 DEF OwnerInv, ActiveOK, ShapeInv
  <2> QED
    BY <2>1 DEF SlotShape
<1>8. Exclusive'
  <2>1. Exclusive
    BY DEF OwnerInv
  <2>2. \A i, j \in Slots :
          Own(i)' /\ Own(j)' /\ slots'[i].execution = slots'[j].execution => i = j
    BY <1>5, <1>6, <2>1 DEF Exclusive
  <2>3. ASSUME NEW i \in Slots, NEW j \in Slots, Sweeps(i)', Own(j)',
               slots'[j].execution = slots'[i].execution
        PROVE  slots'[j].sandbox = NoSandbox
    BY <1>0, <1>5, <1>6, <1>7, <2>1, <2>3 DEF Exclusive
  <2> QED
    BY <2>2, <2>3 DEF Exclusive
<1>9. ActiveOK'
  BY <1>2, <1>5, <1>6 DEF OwnerInv, ActiveOK
<1> QED
  BY <1>4, <1>8, <1>9, OthersRows

(* A slot claims: nobody else had the Execution.                           *)
LEMMA OwnerClaims ==
    ASSUME ShapeInv, ShapeInv', OwnerInv, \A e \in Executions : RowFrame(e), NEW k \in Slots,
           NEW e \in Executions, Step(k), Claims(k, e)
    PROVE  OwnerInv'
<1>0. /\ executions'[e].worker_id = Me /\ slots'[k].execution = e /\ slots'[k].entries = {}
      /\ slots'[k].pc = "granted" /\ executions[e].state = "queued" /\ node' = node
      /\ slots'[k].sandbox = NoSandbox /\ slots[k].pc = "claim" /\ SlotShape(k)
  BY DEF Claims, ClaimsRow, ShapeInv
<1>1. executions[e].worker_id = NoWorker
  <2>1. RowOK(executions[e])
    BY RowFacts DEF ShapeInv
  <2> QED
    BY <1>0, <2>1 DEF RowOK, RowChecks, OwnedState, Active
<1>2. SlotRow(k)'
  BY <1>0 DEF SlotRow, Sweeps, Reconciling
<1>3. \A j \in Slots : slots[j].execution # e
  BY <1>1, MeIsSomeone, NodeAssumption DEF OwnerInv, SlotRow
<1>4. \A j \in Slots : j # k => /\ Own(j)' <=> Own(j)
                                /\ Sweeps(j)' <=> Sweeps(j)
                                /\ slots'[j] = slots[j]
  BY DEF Step, Others, Own, Sweeps, Reconciling
<1>5. ~Own(k) /\ ~Sweeps(k)'
  BY <1>0 DEF Own, Sweeps, Reconciling, SlotShape, Vacant
<1>6. Exclusive'
  <2>1. Exclusive
    BY DEF OwnerInv
  <2>2. ASSUME NEW i \in Slots, NEW j \in Slots, Own(i)', Own(j)',
               slots'[i].execution = slots'[j].execution
        PROVE  i = j
    BY <1>0, <1>3, <1>4, <2>1, <2>2 DEF Exclusive
  <2>3. ASSUME NEW i \in Slots, NEW j \in Slots, Sweeps(i)', Own(j)',
               slots'[j].execution = slots'[i].execution
        PROVE  slots'[j].sandbox = NoSandbox
    BY <1>0, <1>4, <1>5, <2>1, <2>3 DEF Exclusive
  <2> QED
    BY <2>2, <2>3 DEF Exclusive
<1>7. ActiveOK'
  BY <1>0, <1>4, <1>5 DEF OwnerInv, ActiveOK
<1> QED
  BY <1>2, <1>6, <1>7, OthersRows

(* A slot enters its Execution into the active set.                        *)
LEMMA OwnerActivates ==
    ASSUME ShapeInv, ShapeInv', OwnerInv, \A e \in Executions : RowFrame(e), NEW k \in Slots,
           Step(k), Activates(k)
    PROVE  OwnerInv'
<1>0. /\ slots[k].pc = "granted" /\ slots'[k].pc = "validate" /\ slots[k].entries = {}
      /\ slots'[k].entries = {} /\ slots'[k].execution = slots[k].execution
      /\ slots'[k].sandbox = slots[k].sandbox /\ slots[k].execution \in Executions
      /\ node'.active = node.active \union {slots[k].execution}
  <2>1. SlotShape(k) /\ slots[k].pc = "granted"
    BY DEF ShapeInv, Activates
  <2>2. slots[k].entries = {} /\ slots[k].execution \in Executions
    BY <2>1, SlotFacts DEF SlotShape, Cleaning, Vacant
  <2> QED
    BY <2>1, <2>2 DEF Activates, Stays
<1>1. SlotRow(k)'
  BY <1>0, SlotRowKept DEF Reconciling
<1>2. \A j \in Slots : /\ Own(j)' <=> Own(j)
                       /\ Sweeps(j)' <=> Sweeps(j)
                       /\ slots'[j].execution = slots[j].execution
                       /\ slots'[j].sandbox = slots[j].sandbox
  BY <1>0 DEF Step, Others, Own, Sweeps, Reconciling
<1>3. \A j \in Slots : j # k => slots'[j].pc = slots[j].pc
  BY DEF Step, Others
<1>4. Exclusive'
  BY <1>2 DEF OwnerInv, Exclusive
<1>5. Own(k)
  BY <1>0, NodeAssumption DEF Own, Reconciling
<1>6. ActiveOK'
  <2> SUFFICES ASSUME NEW e \in Executions
               PROVE  e \in node'.active <=>
                        \E j \in Slots : Own(j)' /\ slots'[j].pc # "granted" /\ slots'[j].execution = e
    BY DEF ActiveOK
  <2>1. e \in node.active <=>
            \E j \in Slots : Own(j) /\ slots[j].pc # "granted" /\ slots[j].execution = e
    BY DEF OwnerInv, ActiveOK
  <2> QED
    BY <1>0, <1>2, <1>3, <1>5, <2>1
<1> QED
  BY <1>1, <1>4, <1>6, OthersRows

(* An Execution whose lease is current is not over.                        *)
LEMMA CurrentIsNotOver ==
    ASSUME TableInv, NEW e \in Executions, CurrentLease(executions[e])
    PROVE  ~Over(e)
<1>1. RowOK(executions[e]) /\ now \in Nat
  BY RowFacts
<1> QED
  BY <1>1 DEF CurrentLease, Over, ObservedState, RowOK, RowChecks, RecoveryDeadline, Null,
              ExecutionRow, Terminal

(* A slot mints: nobody reconciles an Execution with a current lease.      *)
LEMMA OwnerMints ==
    ASSUME ShapeInv, ShapeInv', OwnerInv, \A e \in Executions : RowFrame(e), NEW k \in Slots,
           NEW s \in Sandboxes, Step(k), Mints(k, s)
    PROVE  OwnerInv'
<1>0. /\ slots[k].pc = "validate" /\ slots'[k].pc = "bind" /\ slots[k].entries = {}
      /\ slots'[k].entries = {} /\ slots'[k].execution = slots[k].execution
      /\ slots[k].execution \in Executions /\ UNCHANGED vars
      /\ node' = node /\ CurrentLease(executions[slots[k].execution])
  <2>1. SlotShape(k) /\ slots[k].pc = "validate"
    BY DEF ShapeInv, Mints
  <2>2. slots[k].entries = {} /\ slots[k].execution \in Executions
    BY <2>1, SlotFacts DEF SlotShape, Cleaning, Vacant
  <2> QED
    BY <2>1, <2>2 DEF Mints
<1>1. ~Over(slots[k].execution)
  BY <1>0, CurrentIsNotOver DEF ShapeInv
<1>2. SlotRow(k)'
  <2>1. SlotRow(k) /\ executions' = executions
    BY <1>0 DEF OwnerInv, vars
  <2> QED
    BY <1>0, <2>1 DEF SlotRow, Sweeps, Reconciling
<1>3. \A j \in Slots : /\ Own(j)' <=> Own(j)
                       /\ Sweeps(j)' <=> Sweeps(j)
                       /\ slots'[j].execution = slots[j].execution
                       /\ j # k => slots'[j] = slots[j]
                       /\ slots'[j].pc = "granted" <=> slots[j].pc = "granted"
  BY <1>0 DEF Step, Others, Own, Sweeps, Reconciling
<1>4. \A j \in Slots : Sweeps(j) => slots[j].execution # slots[k].execution
  BY <1>1 DEF OwnerInv, SlotRow
<1>5. Exclusive'
  BY <1>3, <1>4 DEF OwnerInv, Exclusive
<1>6. ActiveOK'
  BY <1>0, <1>3 DEF OwnerInv, ActiveOK
<1> QED
  BY <1>2, <1>5, <1>6, OthersRows

(* A restart empties the slots.                                            *)
LEMMA OwnerReborn ==
    ASSUME ShapeInv, ShapeInv', OwnerInv, \A e \in Executions : RowFrame(e), Reborn
    PROVE  OwnerInv'
<1>1. \A k \in Slots : slots'[k].execution = NoExecution /\ slots'[k].entries = {}
  BY DEF Reborn
<1>2. node'.active = {}
  BY DEF Reborn
<1>3. ActiveOK' /\ Exclusive'
  BY <1>1, <1>2 DEF ActiveOK, Exclusive, Own, Sweeps, Reconciling
<1>4. \A k \in Slots : SlotRow(k)'
  BY <1>1 DEF SlotRow, Sweeps, Reconciling
<1>5. \A m \in strays' : StrayRow(m)'
  BY SentByOwner DEF Reborn
<1> QED
  BY <1>3, <1>4, <1>5, UnownedKept DEF OwnerInv

(* Every move keeps the second layer.                                      *)
LEMMA OwnerStep ==
    ASSUME ShapeInv, ShapeInv', OwnerInv, \A e \in Executions : RowFrame(e), NodeMove
    PROVE  OwnerInv'
<1>1. ASSUME NEW k \in Slots, Step(k), SlotMove(k) PROVE OwnerInv'
  <2>1. CASE Glides(k)
    BY <1>1, <2>1, OwnerStays DEF Glides, Leaving, Working
  <2>2. ASSUME NEW r \in Supervised, Employed(k, r) PROVE OwnerInv'
    BY <1>1, <2>2, OwnerStays DEF Employed, Employs
  <2>3. CASE Destroyed(k)
    BY <1>1, <2>3, OwnerStays DEF Destroyed
  <2>4. CASE Vacates(k)
    BY <1>1, <2>4, OwnerVacates
  <2>5. CASE TakesUp(k)
    BY <1>1, <2>5, OwnerTakesUp
  <2>6. ASSUME NEW e \in Executions, Claims(k, e) PROVE OwnerInv'
    BY <1>1, <2>6, OwnerClaims
  <2>7. CASE Activates(k)
    BY <1>1, <2>7, OwnerActivates
  <2>8. ASSUME NEW s \in Sandboxes, Mints(k, s) PROVE OwnerInv'
    BY <1>1, <2>8, OwnerMints
  <2> QED
    BY <1>1, <2>1, <2>2, <2>3, <2>4, <2>5, <2>6, <2>7, <2>8 DEF SlotMove
<1>2. CASE \/ \E s \in Sandboxes : SandboxMove(s)
           \/ \E m \in strays : StrayMove(m)
           \/ Rests
  <2>1. UNCHANGED slots /\ node'.active = node.active /\ strays' \subseteq strays
    BY <1>2 DEF SandboxMove, StrayMove, Rests
  <2>2. \A m \in strays' : StrayRow(m)'
    BY <2>1, StrayRowsKept DEF ShapeInv, NodeTypes
  <2>3. \A j \in Slots : Alike(j)
    BY <2>1 DEF Alike
  <2> QED
    BY <2>1, <2>2, <2>3, OwnerAlike
<1>3. CASE Reborn
  BY <1>3, OwnerReborn
<1> QED
  BY <1>1, <1>2, <1>3 DEF NodeMove

(* The first two layers are an invariant.                                  *)
LEMMA OwnerInvariant == NodeSpec => [](ShapeInv /\ OwnerInv)
<1>1. ASSUME ShapeInv /\ OwnerInv, [NodeNext]_allVars PROVE (ShapeInv /\ OwnerInv)'
  <2>1. ShapeInv' /\ NodeMove /\ [Next]_vars /\ TableInv /\ TableInv'
    BY <1>1, NodeMoves, NodeAsks DEF ShapeInv
  <2>2. \A e \in Executions : RowFrame(e)
    BY <2>1, RowFrames
  <2> QED
    BY <1>1, <2>1, <2>2, OwnerStep
<1> QED
  BY <1>1, ShapeInit, OwnerInit, PTL DEF NodeSpec

(* The state keeps its types, and the active set is exactly the claimed    *)
(* Executions: what Reconcile must not touch is known to it.               *)
THEOREM NodeTypeCorrect == NodeSpec => []NodeTypeOK
<1>1. ShapeInv /\ OwnerInv => NodeTypeOK
  <2> SUFFICES ASSUME ShapeInv, OwnerInv PROVE NodeTypeOK
    OBVIOUS
  <2>1. node.active \subseteq Executions
    BY NodeTyped DEF NodeState
  <2>2. \A k \in Slots : k \in Claimed <=> Own(k) /\ slots[k].pc # "granted"
    BY DEF Claimed, Own, At
  <2>3. \A k \in Slots : Own(k) => slots[k].execution \in Executions
    BY SlotFacts DEF Own
  <2>4. Claimed \subseteq Slots
    BY DEF Claimed
  <2>5. node.active = {slots[k].execution : k \in Claimed}
    BY <2>1, <2>2, <2>3, <2>4 DEF OwnerInv, ActiveOK
  <2> QED
    BY <2>5 DEF NodeTypeOK, ShapeInv, NodeTypes
<1> QED
  BY <1>1, OwnerInvariant, PTL

(* What Reconcile cleans up is not at work in another slot of the process, *)
(* though its inventory may be as old as one likes.                        *)
THEOREM NodeReconcileIsExclusive == NodeSpec => []ReconcileIsExclusive
<1>1. ShapeInv /\ OwnerInv => ReconcileIsExclusive
  <2> SUFFICES ASSUME ShapeInv, OwnerInv, NEW k \in Slots, NEW j \in Slots,
                      Reconciling(k), slots[k].pc \in {"destroy", "release"},
                      slots[j].execution = slots[k].execution, ~Reconciling(j)
               PROVE  slots[j].pc \notin Working
    BY DEF ReconcileIsExclusive
  <2>1. Sweeps(k) /\ slots[k].execution \in Executions
    BY SlotFacts DEF Sweeps, Cleaning, Vacant
  <2>2. Own(j)
    BY <2>1, NodeAssumption DEF Own
  <2>3. slots[j].sandbox = NoSandbox
    BY <2>1, <2>2 DEF OwnerInv, Exclusive
  <2> QED
    BY <2>3 DEF ShapeInv, SlotShape
<1> QED
  BY <1>1, OwnerInvariant, PTL

-----------------------------------------------------------------------------
(* Layer 3: the timers.  A request in flight was begun in the past, and    *)
(* what was granted to it counts from its commit.                          *)
TimerOK(k) ==
    /\ monitors[k].beat \in {"heartbeat", "recover", "leased"} => monitors[k].started <= now
    /\ monitors[k].beat = "leased" =>
          WatchdogOf(k) <= executions[slots[k].execution].recovery_until
    /\ monitors[k].watchdog # 0 =>
          monitors[k].watchdog <= executions[slots[k].execution].recovery_until

TimerInv == \A k \in Slots : TimerOK(k)

(* A slot with a monitor keeps its Execution.                              *)
LEMMA MonitorStays ==
    ASSUME ShapeInv, ShapeInv', NEW k \in Slots, SlotMove(k), monitors'[k] # NoMonitor
    PROVE  slots'[k].execution = slots[k].execution
<1>1. slots'[k].pc \in Watched
  BY DEF ShapeInv, MonitorShape
<1>2. slots'[k].pc \notin Vacant \union {"granted", "destroy", "bind"}
  BY <1>1 DEF Watched, Working, Vacant
<1>3. ~Vacates(k) /\ ~TakesUp(k) /\ ~Activates(k)
  BY <1>2, <1>1 DEF Vacates, TakesUp, Activates, Watched, Working
<1>4. (\A e \in Executions : ~Claims(k, e)) /\ \A s \in Sandboxes : ~Mints(k, s)
  BY <1>2 DEF Claims, Mints
<1>5. Glides(k) \/ (\E r \in Supervised : Employed(k, r)) \/ Destroyed(k)
  BY <1>3, <1>4 DEF SlotMove
<1> QED
  BY <1>5 DEF Glides, Employed, Destroyed, Stays

(* The clock and the deadlines only move forward.                          *)
LEMMA TimerKept ==
    ASSUME ShapeInv, OwnerInv, \A e \in Executions : RowFrame(e), TimerInv,
           now \in Nat, now' \in Nat, now' >= now, NEW j \in Slots,
           slots'[j].execution = slots[j].execution, monitors'[j] = monitors[j]
    PROVE  TimerOK(j)'
<1>0. TimerOK(j) /\ monitors[j] \in Monitor /\ MonitorShape(j)
  BY SlotFacts DEF TimerInv
<1>1. CASE monitors[j] = NoMonitor
  BY <1>1 DEF TimerOK, NoMonitor
<1>2. CASE monitors[j] # NoMonitor
  <2>1. slots[j].execution \in Executions
    <3>1. slots[j].pc \in Watched
      BY <1>0, <1>2 DEF MonitorShape
    <3> QED
      BY <3>1, SlotFacts DEF Watched, Working, Vacant
  <2>2. PICK e \in Executions : e = slots[j].execution
    BY <2>1
  <2>3. executions[e].worker_id = Me
    BY <2>2, NodeAssumption DEF OwnerInv, SlotRow
  <2>4. /\ executions'[e].recovery_until >= executions[e].recovery_until
        /\ executions'[e].recovery_until \in Nat /\ executions[e].recovery_until \in Nat
    BY <2>3, MeIsSomeone DEF RowFrame
  <2>5. monitors[j].started \in Nat /\ monitors[j].watchdog \in Nat /\ WatchdogOf(j) \in Nat
    BY <1>0, DurationAssumption DEF Monitor, WatchdogOf
  <2>6. WatchdogOf(j)' = WatchdogOf(j)
    BY DEF WatchdogOf
  <2> QED
    BY <1>0, <2>2, <2>4, <2>5, <2>6 DEF TimerOK
<1> QED
  BY <1>1, <1>2

(* A slot that moves keeps its timer.                                      *)
LEMMA TimerMoves ==
    ASSUME ShapeInv, ShapeInv', OwnerInv, \A e \in Executions : RowFrame(e), TimerInv,
           now \in Nat, now' \in Nat, now' >= now, NEW k \in Slots, SlotMove(k), MonitorMove(k)
    PROVE  TimerOK(k)'
<1>0. /\ TimerOK(k) /\ monitors[k] \in Monitor /\ MonitorShape(k)
      /\ monitors'[k] \in Monitor /\ MonitorShape(k)'
  BY SlotFacts DEF TimerInv, ShapeInv, NodeTypes
<1>1. CASE monitors'[k] = NoMonitor
  BY <1>1 DEF TimerOK, NoMonitor
<1>2. CASE monitors'[k] # NoMonitor
  <2>1. PICK e \in Executions : e = slots[k].execution /\ slots'[k].execution = e
    <3>1. slots'[k].execution = slots[k].execution
      BY <1>2, MonitorStays
    <3>2. SlotShape(k)' /\ slots'[k].pc \notin Vacant
      BY <1>0, <1>2 DEF ShapeInv, MonitorShape, Watched, Working, Vacant
    <3> QED
      BY <3>1, <3>2, SlotFacts DEF SlotShape
  <2>2. executions[e].worker_id = Me
    BY <2>1, NodeAssumption DEF OwnerInv, SlotRow
  <2>3. /\ executions'[e].recovery_until >= executions[e].recovery_until
        /\ executions'[e].recovery_until \in Nat /\ executions[e].recovery_until \in Nat
    BY <2>2, MeIsSomeone DEF RowFrame
  <2>4. /\ monitors[k].started \in Nat /\ monitors[k].watchdog \in Nat
        /\ monitors'[k].started \in Nat /\ monitors'[k].watchdog \in Nat
        /\ LeaseDuration \in Nat /\ RecoveryWindow \in Nat
    BY <1>0, DurationAssumption DEF Monitor
  <2>5. monitors'[k].beat \in {"heartbeat", "recover", "leased"} => monitors'[k].started <= now'
    BY <1>0, <2>4 DEF MonitorMove, TimerOK
  <2>6. monitors'[k].watchdog # 0 => monitors'[k].watchdog <= executions'[e].recovery_until
    <3>1. WatchdogOf(k) \in Nat
      BY <2>4 DEF WatchdogOf
    <3> QED
      BY <1>0, <2>1, <2>3, <2>4, <3>1 DEF MonitorMove, TimerOK
  <2>7. monitors'[k].beat = "leased" =>
          monitors'[k].started + LeaseDuration + RecoveryWindow <= executions'[e].recovery_until
    BY <1>0, <2>1, <2>3, <2>4 DEF MonitorMove, TimerOK, WatchdogOf
  <2> QED
    BY <2>1, <2>5, <2>6, <2>7 DEF TimerOK, WatchdogOf
<1> QED
  BY <1>1, <1>2

(* Every move keeps the timers.                                            *)
LEMMA TimerStep ==
    ASSUME ShapeInv, ShapeInv', OwnerInv, \A e \in Executions : RowFrame(e), NodeMove, TimerInv,
           now \in Nat, now' \in Nat, now' >= now
    PROVE  TimerInv'
<1>1. ASSUME NEW k \in Slots, Step(k), MonitorMove(k), SlotMove(k), NEW j \in Slots PROVE TimerOK(j)'
  <2>1. CASE j = k
    BY <1>1, <2>1, TimerMoves
  <2>2. CASE j # k
    BY <1>1, <2>2, TimerKept DEF Step, Others
  <2> QED
    BY <2>1, <2>2
<1>2. ASSUME UNCHANGED <<slots, monitors>>, NEW j \in Slots PROVE TimerOK(j)'
  BY <1>2, TimerKept
<1>3. ASSUME Reborn, NEW j \in Slots PROVE TimerOK(j)'
  BY <1>3 DEF Reborn, TimerOK, NoMonitor
<1> QED
  BY <1>1, <1>2, <1>3 DEF NodeMove, TimerInv, SandboxMove, StrayMove, Rests

(* The timers are an invariant.                                            *)
LEMMA TimerInvariant == NodeSpec => []TimerInv
<1>1. NodeInit => TimerInv
  BY DEF NodeInit, TimerInv, TimerOK, NoMonitor
<1>2. ASSUME ShapeInv /\ OwnerInv, TimerInv, [NodeNext]_allVars PROVE TimerInv'
  <2>1. ShapeInv' /\ NodeMove /\ [Next]_vars /\ TableInv /\ TableInv'
    BY <1>2, NodeMoves, NodeAsks DEF ShapeInv
  <2>2. \A e \in Executions : RowFrame(e)
    BY <2>1, RowFrames
  <2>3. now \in Nat /\ now' \in Nat /\ now' >= now
    BY <2>1, ClockForward
  <2> QED
    BY <1>2, <2>1, <2>2, <2>3, TimerStep
<1> QED
  BY <1>1, <1>2, OwnerInvariant, PTL DEF NodeSpec

(* The watchdog fires no later than the database gives the Execution up,   *)
(* however late an answer is and whatever else was committed meanwhile.    *)
THEOREM NodeWatchdogInTime == NodeSpec => []WatchdogInTime
<1>1. TimerInv => WatchdogInTime
  BY DEF TimerInv, TimerOK, WatchdogInTime
<1> QED
  BY <1>1, TimerInvariant, PTL

-----------------------------------------------------------------------------
(* Layer 4: to each Execution belongs one Sandbox, and to each Sandbox one *)
(* Execution, whoever names them.                                          *)

(* The row, a slot or a stray has s as the Sandbox of e.                   *)
Knows(e, s) ==
    \/ executions[e].sandbox_id = s
    \/ \E k \in Slots : slots[k].execution = e /\ slots[k].sandbox = s
    \/ \E m \in strays : m.execution = e /\ m.sandbox = s

Matched ==
    \A e, f \in Executions, s, t \in Sandboxes : Knows(e, s) /\ Knows(f, t) => (e = f <=> s = t)

(* A slot that has no Sandbox yet works on an Execution that has none.     *)
Unpaired(k) ==
    Own(k) /\ slots[k].sandbox = NoSandbox => \A s \in Sandboxes : ~Knows(slots[k].execution, s)

Unknown(s) == supervised[s].phase = "unused" => \A e \in Executions : ~Knows(e, s)

(* Once bound, the row names the Sandbox of the slot.                      *)
BoundRow(k) ==
    slots[k].pc \in Working \ {"bind"} => executions[slots[k].execution].sandbox_id = slots[k].sandbox

PairInv ==
    /\ Matched
    /\ \A k \in Slots : Unpaired(k) /\ BoundRow(k)
    /\ \A s \in Sandboxes : Unknown(s)

(* Nothing new is known of an Execution, but for a freshly minted Sandbox. *)
LEMMA KnownRows ==
    ASSUME ShapeInv, NodeMove, NEW e \in Executions, NEW s \in Sandboxes,
           executions'[e].sandbox_id = s
    PROVE  Knows(e, s)
<1>1. CASE executions'[e].sandbox_id = executions[e].sandbox_id
  BY <1>1 DEF Knows
<1>2. ASSUME NEW f \in Executions, NEW t, Bound(f, t), Knows(f, t) PROVE Knows(e, s)
  BY <1>1, <1>2 DEF Bound
<1>3. ASSUME NEW k \in Slots, SlotMove(k) PROVE Knows(e, s)
  <2>1. CASE /\ slots[k].pc = "bind" /\ Bound(slots[k].execution, slots[k].sandbox)
    <3>1. slots[k].execution \in Executions
      BY <2>1, SlotFacts DEF Vacant
    <3>2. Knows(slots[k].execution, slots[k].sandbox)
      BY DEF Knows
    <3> QED
      BY <1>2, <2>1, <3>1, <3>2
  <2>2. \/ Quiet \/ Finishes(slots[k].execution) \/ Frees(slots[k].execution) \/ UNCHANGED vars
        \/ (slots[k].pc = "bind" /\ Bound(slots[k].execution, slots[k].sandbox))
    BY <1>3 DEF SlotMove, Employed, Destroyed, TakesUp, Claims, ClaimsRow, Activates, Mints
  <2> QED
    BY <1>1, <2>1, <2>2 DEF Quiet, Finishes, Frees, vars
<1>4. ASSUME NEW m \in strays, StrayMove(m) PROVE Knows(e, s)
  <2>1. CASE m.op = "bind" /\ Bound(m.execution, m.sandbox)
    <3>1. m.execution \in Executions
      BY <2>1 DEF ShapeInv, NodeTypes, StrayShape, Request
    <3>2. Knows(m.execution, m.sandbox)
      BY DEF Knows
    <3> QED
      BY <1>2, <2>1, <3>1, <3>2
  <2> QED
    BY <1>1, <1>4, <2>1 DEF StrayMove, Quiet, Finishes, Frees
<1>5. CASE (\E t \in Sandboxes : SandboxMove(t)) \/ Reborn \/ Rests
  BY <1>1, <1>5 DEF SandboxMove, Reborn, Rests, Quiet, vars
<1> QED
  BY <1>3, <1>4, <1>5 DEF NodeMove

(* What a request names was known.                                         *)
LEMMA KnownStrays ==
    ASSUME NodeMove, NEW m \in strays'
    PROVE  Knows(m.execution, m.sandbox)
<1>1. m \in strays \/ \E k \in Slots : \E op \in Ops(k) : m = RequestOf(k, op)
  <2>1. CASE \E k \in Slots : Step(k)
    BY <2>1 DEF Step, Sends
  <2>2. CASE ~\E k \in Slots : Step(k)
    BY <2>2 DEF NodeMove, SandboxMove, StrayMove, Reborn, Rests
  <2> QED
    BY <2>1, <2>2
<1>2. \/ m \in strays
      \/ \E k \in Slots : slots[k].execution = m.execution /\ slots[k].sandbox = m.sandbox
  BY <1>1 DEF RequestOf
<1> QED
  BY <1>2 DEF Knows

(* What a slot names was known, unless it has just minted it.              *)
LEMMA KnownSlots ==
    ASSUME ShapeInv, NodeMove, NEW j \in Slots, slots'[j].sandbox \in Sandboxes
    PROVE  \/ Knows(slots'[j].execution, slots'[j].sandbox)
           \/ Step(j) /\ Mints(j, slots'[j].sandbox)
<1>1. CASE slots'[j].execution = slots[j].execution /\ slots'[j].sandbox = slots[j].sandbox
  BY <1>1 DEF Knows
<1>2. ASSUME NEW k \in Slots, Step(k), SlotMove(k)
      PROVE  \/ Knows(slots'[j].execution, slots'[j].sandbox)
             \/ Step(j) /\ Mints(j, slots'[j].sandbox)
  <2>1. CASE j # k
    BY <1>1, <1>2, <2>1 DEF Step, Others
  <2>2. CASE j = k
    <3>0. slots'[k].sandbox # NoSandbox
      BY <2>2, NullAssumption
    <3>1. CASE Stays(k)
      BY <1>1, <2>2, <3>1 DEF Stays
    <3>2. CASE TakesUp(k)
      BY <2>2, <3>2 DEF TakesUp, Knows
    <3>3. ASSUME NEW s \in Sandboxes, Mints(k, s)
          PROVE  Step(j) /\ Mints(j, slots'[j].sandbox)
      BY <1>2, <2>2, <3>3 DEF Mints
    <3>4. ~Vacates(k) /\ \A e \in Executions : ~Claims(k, e)
      BY <3>0 DEF Vacates, Claims
    <3> QED
      BY <1>2, <3>1, <3>2, <3>3, <3>4
         DEF SlotMove, Glides, Leaving, Employed, Destroyed, Activates
  <2> QED
    BY <2>1, <2>2
<1>3. CASE Reborn
  BY <1>3, NullAssumption DEF Reborn
<1> QED
  BY <1>1, <1>2, <1>3 DEF NodeMove, SandboxMove, StrayMove, Rests

(* What is known was known, unless it has just been minted.                *)
LEMMA KnowsFrame ==
    ASSUME ShapeInv, NodeMove, NEW e \in Executions, NEW s \in Sandboxes, Knows(e, s)'
    PROVE  \/ Knows(e, s)
           \/ \E k \in Slots : Step(k) /\ Mints(k, s) /\ slots[k].execution = e
<1>1. CASE executions'[e].sandbox_id = s
  BY <1>1, KnownRows
<1>2. CASE \E j \in Slots : slots'[j].execution = e /\ slots'[j].sandbox = s
  <2>1. PICK j \in Slots : slots'[j].execution = e /\ slots'[j].sandbox = s
    BY <1>2
  <2>2. Knows(e, s) \/ (Step(j) /\ Mints(j, s))
    BY <2>1, KnownSlots
  <2> QED
    BY <2>1, <2>2 DEF Mints
<1>3. CASE \E m \in strays' : m.execution = e /\ m.sandbox = s
  BY <1>3, KnownStrays
<1> QED
  BY <1>1, <1>2, <1>3 DEF Knows

(* Of a row nobody owns no Sandbox is known.                               *)
LEMMA UnownedUnknown ==
    ASSUME OwnerInv, NEW e \in Executions, NEW s \in Sandboxes, executions[e].worker_id = NoWorker
    PROVE  ~Knows(e, s)
<1>1. executions[e].sandbox_id # s
  BY NullAssumption DEF OwnerInv, Unowned
<1>2. \A k \in Slots : slots[k].execution # e
  BY MeIsSomeone, NodeAssumption DEF OwnerInv, SlotRow
<1>3. \A m \in strays : m.execution # e
  BY MeIsSomeone, NodeAssumption DEF OwnerInv, StrayRow
<1> QED
  BY <1>1, <1>2, <1>3 DEF Knows

(* A slot without a Sandbox had none, or has just claimed.                 *)
LEMMA UnpairedFrame ==
    ASSUME ShapeInv, ShapeInv', NodeMove, NEW j \in Slots, Own(j)', slots'[j].sandbox = NoSandbox
    PROVE  \/ /\ Own(j) /\ slots[j].sandbox = NoSandbox /\ slots'[j].execution = slots[j].execution
              /\ \A s \in Sandboxes : ~Mints(j, s)
           \/ slots'[j].execution \in Executions /\ Claims(j, slots'[j].execution)
<1>0. ASSUME NEW s \in Sandboxes PROVE ~Mints(j, s)
  BY NullAssumption DEF Mints
<1>1. CASE slots'[j].execution = slots[j].execution /\ slots'[j].sandbox = slots[j].sandbox
           /\ slots'[j].entries = slots[j].entries
  BY <1>0, <1>1 DEF Own, Reconciling
<1>2. ASSUME NEW k \in Slots, Step(k), SlotMove(k)
      PROVE  \/ slots'[j].execution = slots[j].execution /\ slots'[j].sandbox = slots[j].sandbox
                /\ slots'[j].entries = slots[j].entries
             \/ slots'[j].execution \in Executions /\ Claims(j, slots'[j].execution)
  <2>1. CASE j # k
    BY <1>2, <2>1 DEF Step, Others
  <2>2. CASE j = k
    <3>1. CASE Stays(k)
      BY <2>2, <3>1 DEF Stays
    <3>2. ~Vacates(k) /\ ~TakesUp(k)
      BY <2>2 DEF Vacates, TakesUp, Own, Reconciling
    <3>3. ASSUME NEW e \in Executions, Claims(k, e)
          PROVE slots'[j].execution \in Executions /\ Claims(j, slots'[j].execution)
      BY <2>2, <3>3 DEF Claims
    <3> QED
      BY <1>0, <1>2, <2>2, <3>1, <3>2, <3>3
         DEF SlotMove, Glides, Leaving, Employed, Destroyed, Activates
  <2> QED
    BY <2>1, <2>2
<1>3. ~Reborn
  BY DEF Reborn, Own
<1> QED
  BY <1>1, <1>2, <1>3 DEF NodeMove, SandboxMove, StrayMove, Rests

(* A Sandbox id is never unused again.                                     *)
LEMMA UnusedFrame ==
    ASSUME ShapeInv, NodeMove, NEW s \in Sandboxes, supervised'[s].phase = "unused"
    PROVE  supervised[s].phase = "unused" /\ \A k \in Slots : ~Mints(k, s)
<1>0. ASSUME NEW k \in Slots PROVE ~Mints(k, s)
  BY DEF Mints
<1>1. CASE supervised'[s].phase = supervised[s].phase
  BY <1>0, <1>1
<1>2. ASSUME NEW k \in Slots, SlotMove(k) PROVE supervised'[s].phase = supervised[s].phase
  <2>1. CASE supervised' = supervised
    BY <2>1
  <2>2. ASSUME NEW r \in Supervised, Employed(k, r)
        PROVE  supervised'[s].phase = supervised[s].phase
    <3>1. supervised \in [Sandboxes -> Supervised]
      BY NodeTyped
    <3>2. CASE s = slots[k].sandbox
      <4>1. supervised'[s] = r
        BY <2>2, <3>1, <3>2 DEF Employed
      <4> QED
        BY <2>2, <3>2, <4>1 DEF Employed, Employs
    <3>3. CASE s # slots[k].sandbox
      BY <2>2, <3>1, <3>3 DEF Employed
    <3> QED
      BY <3>2, <3>3
  <2>3. CASE Destroyed(k)
    BY <2>3 DEF Destroyed
  <2>4. ASSUME NEW t \in Sandboxes, Mints(k, t) PROVE supervised'[s].phase = supervised[s].phase
    BY <2>4 DEF Mints
  <2> QED
    BY <1>2, <2>1, <2>2, <2>3, <2>4
       DEF SlotMove, Glides, Leaving, Vacates, TakesUp, Claims, Activates
<1>3. ASSUME NEW t \in Sandboxes, SandboxMove(t) PROVE supervised'[s].phase = supervised[s].phase
  BY <1>3 DEF SandboxMove
<1> QED
  BY <1>1, <1>2, <1>3 DEF NodeMove, StrayMove, Reborn, Rests

(* A slot past its Bind is bound.                                          *)
LEMMA BoundRowKept ==
    ASSUME ShapeInv, ShapeInv', \A e \in Executions : RowFrame(e), PairInv, NodeMove, NEW j \in Slots
    PROVE  BoundRow(j)'
<1>1. ASSUME slots'[j].execution = slots[j].execution, slots'[j].sandbox = slots[j].sandbox,
             slots'[j].pc \in Working \ {"bind"} => slots[j].pc \in Working \ {"bind"}
      PROVE  BoundRow(j)'
  <2> SUFFICES ASSUME slots'[j].pc \in Working \ {"bind"}
               PROVE  executions'[slots'[j].execution].sandbox_id = slots'[j].sandbox
    BY DEF BoundRow
  <2>1. slots[j].pc \in Working \ {"bind"} /\ slots[j].pc \notin Vacant
    BY <1>1 DEF Working, Vacant
  <2>2. /\ executions[slots[j].execution].sandbox_id = slots[j].sandbox
        /\ slots[j].sandbox \in Sandboxes /\ slots[j].execution \in Executions
    BY <2>1, SlotFacts DEF PairInv, BoundRow
  <2> QED
    BY <1>1, <2>2, NullAssumption DEF RowFrame
<1>2. ASSUME NEW k \in Slots, Step(k), SlotMove(k) PROVE BoundRow(j)'
  <2>1. CASE j # k
    BY <1>1, <1>2, <2>1 DEF Step, Others
  <2>2. CASE j = k
    <3>1. CASE Glides(k)
      <4>1. CASE slots[k].pc = "bind" /\ slots'[k].pc = "first"
        BY <2>2, <3>1, <4>1 DEF Glides, Leaving, Stays, BoundRow
      <4>2. CASE ~(slots[k].pc = "bind" /\ slots'[k].pc = "first")
        BY <1>1, <2>2, <3>1, <4>2 DEF Glides, Leaving, Stays, Working
      <4> QED
        BY <4>1, <4>2
    <3>2. ASSUME NEW r \in Supervised, Employed(k, r) PROVE BoundRow(j)'
      BY <1>1, <2>2, <3>2 DEF Employed, Stays
    <3>3. CASE \/ Destroyed(k) \/ Vacates(k) \/ TakesUp(k) \/ Activates(k)
               \/ \E e \in Executions : Claims(k, e)
               \/ \E s \in Sandboxes : Mints(k, s)
      <4>1. slots'[k].pc \notin Working \ {"bind"}
        BY <3>3 DEF Destroyed, Vacates, TakesUp, Activates, Claims, Mints, Working, Vacant
      <4> QED
        BY <2>2, <4>1 DEF BoundRow
    <3> QED
      BY <1>2, <3>1, <3>2, <3>3 DEF SlotMove
  <2> QED
    BY <2>1, <2>2
<1>3. CASE Reborn
  BY <1>3 DEF Reborn, BoundRow, Working
<1> QED
  BY <1>1, <1>2, <1>3 DEF NodeMove, SandboxMove, StrayMove, Rests

(* Every move keeps the pairing.                                           *)
LEMMA PairStep ==
    ASSUME ShapeInv, ShapeInv', OwnerInv, OwnerInv', \A e \in Executions : RowFrame(e), NodeMove,
           PairInv
    PROVE  PairInv'
<1>1. \A k \in Slots : BoundRow(k)'
  BY BoundRowKept
<1>2. \A s \in Sandboxes : Unknown(s)'
  <2> SUFFICES ASSUME NEW s \in Sandboxes, supervised'[s].phase = "unused",
                      NEW e \in Executions, Knows(e, s)'
               PROVE  FALSE
    BY DEF Unknown
  <2>1. supervised[s].phase = "unused" /\ \A k \in Slots : ~Mints(k, s)
    BY UnusedFrame
  <2>2. Knows(e, s)
    BY <2>1, KnowsFrame
  <2> QED
    BY <2>1, <2>2 DEF PairInv, Unknown
<1>3. ASSUME NEW k \in Slots, NEW s \in Sandboxes, Mints(k, s)
      PROVE  /\ slots[k].execution \in Executions /\ Own(k)
             /\ \A t \in Sandboxes : ~Knows(slots[k].execution, t)
             /\ \A e \in Executions : ~Knows(e, s)
  <2>1. slots[k].pc = "validate" /\ SlotShape(k) /\ supervised[s].phase = "unused"
    BY <1>3 DEF Mints, ShapeInv
  <2>2. slots[k].entries = {} /\ slots[k].sandbox = NoSandbox /\ slots[k].execution \in Executions
    BY <2>1, SlotFacts DEF SlotShape, Vacant, Cleaning
  <2>3. Own(k)
    BY <2>2, NodeAssumption DEF Own, Reconciling
  <2> QED
    BY <2>1, <2>2, <2>3 DEF PairInv, Unpaired, Unknown
<1>4. ASSUME NEW j \in Slots, Own(j)', slots'[j].sandbox = NoSandbox,
             NEW s \in Sandboxes, NEW e \in Executions, e = slots'[j].execution, Knows(e, s)'
      PROVE  FALSE
  <2>1. CASE /\ Own(j) /\ slots[j].sandbox = NoSandbox /\ slots'[j].execution = slots[j].execution
             /\ \A t \in Sandboxes : ~Mints(j, t)
    <3>1. ~Knows(e, s)
      BY <1>4, <2>1 DEF PairInv, Unpaired
    <3>2. PICK k \in Slots : Step(k) /\ Mints(k, s) /\ slots[k].execution = e
      BY <1>4, <3>1, KnowsFrame
    <3>3. k = j
      BY <1>3, <1>4, <2>1, <3>2 DEF OwnerInv, Exclusive
    <3> QED
      BY <2>1, <3>2, <3>3
  <2>2. CASE slots'[j].execution \in Executions /\ Claims(j, slots'[j].execution)
    <3>1. executions[e].state = "queued" /\ RowOK(executions[e]) /\ slots[j].pc = "claim"
      BY <1>4, <2>2, RowFacts DEF Claims, ClaimsRow, ShapeInv
    <3>2. executions[e].worker_id = NoWorker
      BY <3>1 DEF RowOK, RowChecks, OwnedState, Active
    <3>3. ~Knows(e, s)
      BY <3>2, UnownedUnknown
    <3>4. PICK k \in Slots : Mints(k, s) /\ slots[k].execution = e
      BY <1>4, <3>3, KnowsFrame
    <3>5. executions[e].worker_id = Me
      BY <3>4, NodeAssumption DEF OwnerInv, SlotRow
    <3> QED
      BY <3>2, <3>5, MeIsSomeone
  <2> QED
    BY <1>4, <2>1, <2>2, UnpairedFrame
<1>5. \A k \in Slots : Unpaired(k)'
  <2> SUFFICES ASSUME NEW j \in Slots, Own(j)', slots'[j].sandbox = NoSandbox
               PROVE  \A s \in Sandboxes : ~Knows(slots[j].execution, s)'
    BY DEF Unpaired
  <2>1. PICK e \in Executions : e = slots'[j].execution
    <3>1. slots'[j].execution \in Executions \union {NoExecution}
      BY DEF ShapeInv, NodeTypes, Slot
    <3> QED
      BY <3>1 DEF Own
  <2>2. \A s \in Sandboxes : ~Knows(e, s)'
    BY <1>4, <2>1
  <2> QED
    BY <2>1, <2>2 DEF Knows
<1>6. ASSUME NEW e \in Executions, NEW f \in Executions, NEW s \in Sandboxes, NEW t \in Sandboxes,
             Knows(e, s)', Knows(f, t)'
      PROVE  e = f <=> s = t
  <2>0. Matched
    BY DEF PairInv
  <2>1. CASE Knows(e, s) /\ Knows(f, t)
    BY <2>0, <2>1 DEF Matched
  <2>2. ASSUME NEW k \in Slots, Step(k), Mints(k, s), slots[k].execution = e
        PROVE  e = f <=> s = t
    <3>1. CASE Knows(f, t)
      BY <1>3, <2>2, <3>1
    <3>2. ASSUME NEW j \in Slots, Mints(j, t), slots[j].execution = f
          PROVE  e = f <=> s = t
      <4>1. j = k
        <5>1. slots[j].pc = "validate" /\ slots'[j].pc = "bind"
          BY <3>2 DEF Mints
        <5> QED
          BY <2>2, <5>1 DEF Step, Others
      <4>2. s = t
        BY <2>2, <3>2, <4>1 DEF Mints
      <4> QED
        BY <2>2, <3>2, <4>1, <4>2
    <3> QED
      BY <1>6, <3>1, <3>2, KnowsFrame
  <2>3. ASSUME NEW k \in Slots, Mints(k, t), slots[k].execution = f, Knows(e, s)
        PROVE  e = f <=> s = t
    BY <1>3, <2>3
  <2> QED
    BY <1>6, <2>1, <2>2, <2>3, KnowsFrame
<1>7. Matched'
  BY <1>6 DEF Matched
<1> QED
  BY <1>1, <1>2, <1>5, <1>7 DEF PairInv

(* Nothing is known initially.                                             *)
LEMMA PairInit == NodeInit => PairInv
<1> SUFFICES ASSUME NodeInit PROVE PairInv
  OBVIOUS
<1>1. \A k \in Slots : /\ slots[k].execution = NoExecution /\ slots[k].sandbox = NoSandbox
                       /\ slots[k].pc = "idle"
  BY DEF NodeInit, IdleSlot
<1>2. strays = {}
  BY DEF NodeInit
<1>3. \A e \in Executions : executions[e].sandbox_id = NoSandbox
  BY InitUnbound
<1>4. \A e \in Executions, s \in Sandboxes : ~Knows(e, s)
  BY <1>1, <1>2, <1>3, NodeAssumption, NullAssumption DEF Knows
<1>5. \A k \in Slots : Unpaired(k) /\ BoundRow(k)
  BY <1>1 DEF Unpaired, BoundRow, Own, Working
<1> QED
  BY <1>4, <1>5 DEF PairInv, Matched, Unknown

-----------------------------------------------------------------------------
(* Layer 5: the life of a Sandbox.                                         *)

(* How far the Sandbox of a slot has come.                                 *)
SlotSandbox(k) ==
    /\ slots[k].pc \in {"bind", "first", "create"} => supervised[slots[k].sandbox].phase = "minted"
    /\ slots[k].pc = "creating" => supervised[slots[k].sandbox].client = "connected"
    /\ slots[k].pc \in {"authority", "execute", "executing", "report"} =>
          supervised[slots[k].sandbox].phase \in {"held", "gone"}
    /\ slots[k].pc \in {"creating", "authority", "execute"} => supervised[slots[k].sandbox].run = "no"
    /\ slots[k].pc = "report" => supervised[slots[k].sandbox].run = "ended"

(* A Sandbox nobody asked for is idle, any other is that of some row.      *)
SandboxLife(s) ==
    IF supervised[s].phase \in {"unused", "minted"}
    THEN supervised[s].client = "none" /\ supervised[s].run = "no"
    ELSE \E e \in Executions : executions[e].sandbox_id = s

(* A result on its way was produced.                                       *)
Earned(m) ==
    m.op = "complete" =>
        executions[m.execution].sandbox_id = m.sandbox /\ supervised[m.sandbox].run = "ended"

LifeInv ==
    /\ \A k \in Slots : SlotSandbox(k)
    /\ \A s \in Sandboxes : SandboxLife(s)
    /\ \A m \in strays : Earned(m)
    /\ CompletedIsGenuine

(* Two slots at work have two Sandboxes.                                   *)
LEMMA SoleWorker ==
    ASSUME ShapeInv, OwnerInv, PairInv, NEW j \in Slots, NEW k \in Slots,
           slots[j].pc \in Working, slots[k].pc \in Working, slots[j].sandbox = slots[k].sandbox
    PROVE  j = k
<1>1. /\ slots[j].execution \in Executions /\ slots[k].execution \in Executions
      /\ slots[k].sandbox \in Sandboxes /\ SlotShape(j) /\ SlotShape(k)
  <2>1. slots[j].pc \notin Vacant /\ slots[k].pc \notin Vacant
    BY DEF Working, Vacant
  <2> QED
    BY <2>1, SlotFacts
<1>2. Knows(slots[j].execution, slots[j].sandbox) /\ Knows(slots[k].execution, slots[k].sandbox)
  BY DEF Knows
<1>3. slots[j].execution = slots[k].execution
  BY <1>1, <1>2 DEF PairInv, Matched
<1>4. Own(j) /\ Own(k)
  BY <1>1, NodeAssumption DEF Own, Reconciling, SlotShape, Working, Cleaning
<1> QED
  BY <1>3, <1>4 DEF OwnerInv, Exclusive

(* What a step does to one Sandbox.                                        *)
Fades(s) ==
    /\ supervised'[s].client = supervised[s].client /\ supervised'[s].run = supervised[s].run
    /\ \/ supervised'[s].phase = supervised[s].phase
       \/ supervised[s].phase = "requested" /\ supervised'[s].phase \in {"held", "gone"}
       \/ supervised[s].phase = "held" /\ supervised'[s].phase = "gone"

(* Only its slot, a mint or a restart does more to a Sandbox than end it.  *)
LEMMA SandboxFrame ==
    ASSUME ShapeInv, NodeMove, NEW s \in Sandboxes
    PROVE  \/ Fades(s)
           \/ \E k \in Slots : Step(k) /\ slots[k].sandbox = s /\ Employed(k, supervised'[s])
           \/ \E k \in Slots : Step(k) /\ Mints(k, s)
           \/ Reborn
<1>0. supervised \in [Sandboxes -> Supervised]
  BY NodeTyped
<1>1. CASE supervised'[s] = supervised[s]
  BY <1>1 DEF Fades
<1>2. ASSUME NEW k \in Slots, Step(k), SlotMove(k)
      PROVE  \/ Fades(s)
             \/ Step(k) /\ slots[k].sandbox = s /\ Employed(k, supervised'[s])
             \/ Step(k) /\ Mints(k, s)
  <2>1. ASSUME NEW r \in Supervised, Employed(k, r)
        PROVE  Fades(s) \/ (slots[k].sandbox = s /\ Employed(k, supervised'[s]))
    <3>1. CASE slots[k].sandbox = s
      <4>1. supervised'[s] = r
        BY <1>0, <2>1, <3>1 DEF Employed
      <4> QED
        BY <2>1, <3>1, <4>1
    <3>2. CASE slots[k].sandbox # s
      <4>1. supervised'[s] = supervised[s]
        BY <1>0, <2>1, <3>2 DEF Employed
      <4> QED
        BY <4>1 DEF Fades
    <3> QED
      BY <3>1, <3>2
  <2>2. CASE Destroyed(k)
    BY <2>2 DEF Destroyed, Fades
  <2>3. ASSUME NEW t \in Sandboxes, Mints(k, t) PROVE Fades(s) \/ Mints(k, s)
    BY <2>3 DEF Mints, Fades
  <2>4. CASE supervised' = supervised
    BY <2>4 DEF Fades
  <2> QED
    BY <1>2, <2>1, <2>2, <2>3, <2>4
       DEF SlotMove, Glides, Leaving, Vacates, TakesUp, Claims, Activates
<1>3. ASSUME NEW t \in Sandboxes, SandboxMove(t) PROVE Fades(s)
  BY <1>3 DEF SandboxMove, Fades
<1> QED
  BY <1>1, <1>2, <1>3 DEF NodeMove, StrayMove, Rests

(* A workload that ran to its end did so for good.                         *)
LEMMA EndedKept ==
    ASSUME ShapeInv, NodeMove, LifeInv, NEW s \in Sandboxes, supervised[s].run = "ended"
    PROVE  supervised'[s].run = "ended"
<1>1. ASSUME NEW k \in Slots, slots[k].sandbox = s, Employed(k, supervised'[s])
      PROVE  supervised'[s].run = "ended"
  <2>1. slots[k].pc # "execute"
    BY <1>1 DEF LifeInv, SlotSandbox
  <2> QED
    BY <1>1, <2>1 DEF Employed, Employs
<1> QED
  BY <1>1, SandboxFrame DEF Fades, Mints, Reborn

(* The Sandbox of a row stays that of the row.                             *)
LEMMA BindingKept ==
    ASSUME \A e \in Executions : RowFrame(e), NEW e \in Executions, NEW s \in Sandboxes,
           executions[e].sandbox_id = s
    PROVE  executions'[e].sandbox_id = s
  BY NullAssumption DEF RowFrame

(* Every move keeps the life of a Sandbox.                                 *)
LEMMA SandboxLifeKept ==
    ASSUME ShapeInv, ShapeInv', OwnerInv, PairInv, \A e \in Executions : RowFrame(e), NodeMove,
           LifeInv, NEW s \in Sandboxes
    PROVE  SandboxLife(s)'
<1>0. SandboxLife(s) /\ supervised[s] \in Supervised /\ supervised'[s] \in Supervised
  BY NodeTyped DEF LifeInv, ShapeInv, NodeTypes
<1>1. ASSUME supervised[s].phase \notin {"unused", "minted"}
      PROVE  \E e \in Executions : executions'[e].sandbox_id = s
  BY <1>0, <1>1, BindingKept DEF SandboxLife
<1>2. CASE Fades(s)
  BY <1>0, <1>1, <1>2 DEF SandboxLife, Fades
<1>3. CASE Reborn
  <2>1. /\ supervised'[s].phase = supervised[s].phase /\ supervised'[s].run = supervised[s].run
        /\ supervised[s].client = "none" => supervised'[s].client = "none"
    BY <1>3 DEF Reborn
  <2> QED
    BY <1>0, <1>1, <2>1 DEF SandboxLife
<1>4. ASSUME NEW k \in Slots, Mints(k, s) PROVE SandboxLife(s)'
  BY <1>0, <1>4 DEF Mints, SandboxLife
<1>5. ASSUME NEW k \in Slots, slots[k].sandbox = s, Employed(k, supervised'[s])
      PROVE  SandboxLife(s)'
  <2>0. /\ SlotSandbox(k) /\ slots[k].execution \in Executions /\ BoundRow(k)
        /\ slots[k].pc \in Working \ {"bind"}
    <3>1. slots[k].pc \in Working \ {"bind"} /\ slots[k].pc \notin Vacant
      BY <1>5 DEF Employed, Working, Vacant
    <3> QED
      BY <3>1, SlotFacts DEF LifeInv, PairInv
  <2>1. executions[slots[k].execution].sandbox_id = s
    BY <1>5, <2>0 DEF BoundRow
  <2>2. \E e \in Executions : executions'[e].sandbox_id = s
    BY <2>0, <2>1, BindingKept
  <2>3. supervised'[s].phase \in {"unused", "minted"} =>
          supervised'[s].client = "none" /\ supervised'[s].run = "no"
    BY <1>0, <1>5, <2>0 DEF Employed, Employs, SlotSandbox, SandboxLife
  <2> QED
    BY <2>2, <2>3 DEF SandboxLife
<1> QED
  BY <1>2, <1>3, <1>4, <1>5, SandboxFrame

(* A slot that stays where it is finds its Sandbox as it left it.          *)
LEMMA SlotSandboxKept ==
    ASSUME ShapeInv, ShapeInv', OwnerInv, PairInv, NodeMove, LifeInv, NEW j \in Slots,
           slots'[j].pc \in Working, slots[j].pc = slots'[j].pc,
           slots'[j].sandbox = slots[j].sandbox, \A r : ~Employed(j, r)
    PROVE  SlotSandbox(j)'
<1>0. slots[j].sandbox \in Sandboxes /\ SlotSandbox(j) /\ slots[j].execution \in Executions
  <2>1. slots[j].pc \notin Vacant
    BY DEF Working, Vacant
  <2> QED
    BY <2>1, SlotFacts DEF LifeInv
<1>1. PICK s \in Sandboxes : s = slots[j].sandbox
  BY <1>0
<1>2. CASE Fades(s)
  BY <1>0, <1>1, <1>2 DEF SlotSandbox, Fades
<1>3. ~Reborn
  BY DEF Reborn, Working
<1>4. ASSUME NEW k \in Slots, Mints(k, s) PROVE FALSE
  <2>1. Knows(slots[j].execution, s) /\ supervised[s].phase = "unused"
    BY <1>1, <1>4 DEF Knows, Mints
  <2> QED
    BY <1>0, <2>1 DEF PairInv, Unknown
<1>5. ASSUME NEW k \in Slots, slots[k].sandbox = s, Employed(k, supervised'[s]) PROVE FALSE
  <2>1. j = k
    BY <1>1, <1>5, SoleWorker DEF Employed
  <2> QED
    BY <1>5, <2>1
<1> QED
  BY <1>2, <1>3, <1>4, <1>5, SandboxFrame

(* Every move keeps what a slot relies on of its Sandbox.                  *)
LEMMA SlotSandboxMoves ==
    ASSUME ShapeInv, ShapeInv', OwnerInv, PairInv, NodeMove, LifeInv, NEW j \in Slots
    PROVE  SlotSandbox(j)'
<1>1. CASE slots'[j].pc \notin Working
  BY <1>1 DEF SlotSandbox, Working
<1>2. ASSUME slots'[j].pc \in Working, NEW k \in Slots, Step(k), SlotMove(k)
      PROVE  SlotSandbox(j)'
  <2>1. CASE j # k
    <3>1. slots'[j] = slots[j]
      BY <1>2, <2>1 DEF Step, Others
    <3>2. ASSUME NEW r, Employed(j, r) PROVE FALSE
      BY <3>1, <3>2 DEF Employed, Employs
    <3> QED
      BY <1>2, <3>1, <3>2, SlotSandboxKept
  <2>2. CASE j = k
    <3>0. slots'[k].pc \notin Vacant \union {"granted", "validate", "release", "destroy"}
      BY <1>2, <2>2 DEF Working, Vacant
    <3>1. CASE Glides(k)
      BY <1>2, <2>2, <3>1 DEF Glides, Leaving, Stays, LifeInv, SlotSandbox, Working
    <3>2. ASSUME NEW r \in Supervised, Employed(k, r) PROVE SlotSandbox(k)'
      <4>0. supervised \in [Sandboxes -> Supervised] /\ SlotSandbox(k)
        BY NodeTyped DEF LifeInv
      <4>1. /\ slots[k].sandbox \in Sandboxes /\ supervised'[slots[k].sandbox] = r
            /\ slots'[k].sandbox = slots[k].sandbox /\ Employs(k, r)
        BY <3>2, <4>0 DEF Employed, Stays
      <4>2. SandboxLife(slots[k].sandbox)
        BY <4>1 DEF LifeInv
      <4> QED
        BY <4>0, <4>1, <4>2 DEF SlotSandbox, SandboxLife, Employs
    <3>3. ASSUME NEW s \in Sandboxes, Mints(k, s) PROVE SlotSandbox(k)'
      BY <3>3 DEF Mints, SlotSandbox
    <3>4. /\ ~Destroyed(k) /\ ~Vacates(k) /\ ~TakesUp(k) /\ ~Activates(k)
          /\ \A e \in Executions : ~Claims(k, e)
      BY <3>0 DEF Destroyed, Vacates, TakesUp, Activates, Claims
    <3> QED
      BY <1>2, <2>2, <3>1, <3>2, <3>3, <3>4 DEF SlotMove
  <2> QED
    BY <2>1, <2>2
<1>3. ASSUME slots'[j].pc \in Working, UNCHANGED slots PROVE SlotSandbox(j)'
  <2>1. ASSUME NEW r, Employed(j, r) PROVE FALSE
    BY <1>3, <2>1 DEF Employed, Employs
  <2> QED
    BY <1>3, <2>1, SlotSandboxKept
<1>4. Reborn => slots'[j].pc \notin Working
  BY DEF Reborn, Working
<1> QED
  BY <1>1, <1>2, <1>3, <1>4 DEF NodeMove, SandboxMove, StrayMove, Rests

(* A request to complete comes from a slot whose workload has ended.       *)
LEMMA EarnedKept ==
    ASSUME ShapeInv, ShapeInv', OwnerInv, PairInv, \A e \in Executions : RowFrame(e), NodeMove,
           LifeInv, NEW m \in strays'
    PROVE  Earned(m)'
<1> SUFFICES ASSUME m.op = "complete"
             PROVE  executions'[m.execution].sandbox_id = m.sandbox /\ supervised'[m.sandbox].run = "ended"
  BY DEF Earned
<1>1. m \in strays \/ \E k \in Slots : \E op \in Ops(k) : m = RequestOf(k, op)
  <2>1. CASE \E k \in Slots : Step(k)
    BY <2>1 DEF Step, Sends
  <2>2. CASE ~\E k \in Slots : Step(k)
    BY <2>2 DEF NodeMove, SandboxMove, StrayMove, Reborn, Rests
  <2> QED
    BY <2>1, <2>2
<1>2. executions[m.execution].sandbox_id = m.sandbox /\ supervised[m.sandbox].run = "ended"
  <2>1. CASE m \in strays
    BY <2>1 DEF LifeInv, Earned
  <2>2. ASSUME NEW k \in Slots, NEW op \in Ops(k), m = RequestOf(k, op)
        PROVE  executions[m.execution].sandbox_id = m.sandbox /\ supervised[m.sandbox].run = "ended"
    <3>1. /\ op = "complete" /\ m.execution = slots[k].execution /\ m.sandbox = slots[k].sandbox
      BY <2>2 DEF RequestOf
    <3>2. slots[k].pc = "report"
      BY <3>1 DEF Ops, OpOf
    <3> QED
      BY <3>1, <3>2 DEF PairInv, BoundRow, LifeInv, SlotSandbox, Working
  <2> QED
    BY <1>1, <2>1, <2>2
<1>3. m.execution \in Executions /\ m.sandbox \in Sandboxes
  BY DEF ShapeInv, NodeTypes, StrayShape, Request
<1> QED
  BY <1>2, <1>3, BindingKept, EndedKept

(* A row is completed by a report of a workload that ended.                *)
LEMMA GenuineKept ==
    ASSUME ShapeInv, ShapeInv', OwnerInv, PairInv, \A e \in Executions : RowFrame(e), NodeMove,
           LifeInv
    PROVE  CompletedIsGenuine'
<1> SUFFICES ASSUME NEW e \in Executions, executions'[e].state = "completed",
                    executions'[e].sandbox_id # NoSandbox
             PROVE  supervised'[executions'[e].sandbox_id].run = "ended"
  BY DEF CompletedIsGenuine
<1>0. executions'[e].sandbox_id \in Sandboxes
  BY DEF ShapeInv, TableInv, TypeOK, ExecutionRow
<1>1. CASE executions[e].state = "completed" /\ executions'[e].sandbox_id = executions[e].sandbox_id
  BY <1>0, <1>1, EndedKept DEF LifeInv, CompletedIsGenuine
<1>2. ASSUME NEW f \in Executions, NEW s, Bound(f, s)
      PROVE  executions[e].state = "completed" /\ executions'[e].sandbox_id = executions[e].sandbox_id
  <2>1. executions[e].state = "completed"
    BY <1>2 DEF Bound
  <2>2. Over(e)
    BY <2>1 DEF Over, ObservedState, Terminal, Active
  <2> QED
    BY <1>2, <2>1, <2>2 DEF Bound
<1>3. ASSUME NEW f \in Executions, NEW s \in Sandboxes, Finishes(f),
             executions[f].sandbox_id = s, supervised[s].run = "ended"
      PROVE  supervised'[executions'[e].sandbox_id].run = "ended"
  <2>1. executions'[e].sandbox_id = executions[e].sandbox_id
    BY <1>3 DEF Finishes
  <2>2. CASE e = f
    BY <1>3, <2>1, <2>2, EndedKept
  <2>3. CASE e # f
    BY <1>1, <1>3, <2>1, <2>3 DEF Finishes
  <2> QED
    BY <2>2, <2>3
<1>4. ASSUME NEW k \in Slots, SlotMove(k) PROVE supervised'[executions'[e].sandbox_id].run = "ended"
  <2>1. CASE slots[k].pc = "bind" /\ Bound(slots[k].execution, slots[k].sandbox)
    <3>1. slots[k].execution \in Executions
      BY <2>1, SlotFacts DEF Vacant
    <3> QED
      BY <1>1, <1>2, <2>1, <3>1
  <2>2. CASE slots[k].pc = "report" /\ Finishes(slots[k].execution)
    <3>1. slots[k].pc \in Working \ {"bind"} /\ slots[k].pc \notin Vacant
      BY <2>2 DEF Working, Vacant
    <3>2. slots[k].execution \in Executions /\ slots[k].sandbox \in Sandboxes
      BY <3>1, SlotFacts
    <3>3. /\ executions[slots[k].execution].sandbox_id = slots[k].sandbox
          /\ supervised[slots[k].sandbox].run = "ended"
      BY <2>2, <3>1 DEF PairInv, BoundRow, LifeInv, SlotSandbox
    <3> QED
      BY <1>3, <2>2, <3>2, <3>3
  <2>3. CASE Quiet \/ Frees(slots[k].execution) \/ UNCHANGED vars
    BY <1>1, <2>3 DEF Quiet, Frees, vars
  <2> QED
    BY <1>4, <2>1, <2>2, <2>3 DEF SlotMove, Employed, Destroyed, TakesUp, Claims, ClaimsRow,
                                 Activates, Mints
<1>5. ASSUME NEW m \in strays, StrayMove(m) PROVE supervised'[executions'[e].sandbox_id].run = "ended"
  <2>0. /\ m.op \in {"bind", "complete", "release"} => m.execution \in Executions
        /\ m.op = "complete" => m.sandbox \in Sandboxes
    BY DEF ShapeInv, NodeTypes, StrayShape, Request
  <2>1. CASE m.op = "bind" /\ Bound(m.execution, m.sandbox)
    BY <1>1, <1>2, <2>0, <2>1
  <2>2. CASE m.op = "complete" /\ Finishes(m.execution)
    BY <1>3, <2>0, <2>2 DEF LifeInv, Earned
  <2>3. CASE Quiet \/ Frees(m.execution)
    BY <1>1, <2>3 DEF Quiet, Frees
  <2> QED
    BY <1>5, <2>1, <2>2, <2>3 DEF StrayMove
<1>6. CASE (\E t \in Sandboxes : SandboxMove(t)) \/ Reborn \/ Rests
  BY <1>1, <1>6 DEF SandboxMove, Reborn, Rests, Quiet, vars
<1> QED
  BY <1>4, <1>5, <1>6 DEF NodeMove

(* Every move keeps the fifth layer.                                       *)
LEMMA LifeStep ==
    ASSUME ShapeInv, ShapeInv', OwnerInv, PairInv, \A e \in Executions : RowFrame(e), NodeMove,
           LifeInv
    PROVE  LifeInv'
<1>1. \A k \in Slots : SlotSandbox(k)'
  BY SlotSandboxMoves
<1>2. \A s \in Sandboxes : SandboxLife(s)'
  BY SandboxLifeKept
<1>3. \A m \in strays' : Earned(m)'
  BY EarnedKept
<1>4. CompletedIsGenuine'
  BY GenuineKept
<1> QED
  BY <1>1, <1>2, <1>3, <1>4 DEF LifeInv

(* The fifth layer holds initially.                                        *)
LEMMA LifeInit == NodeInit => LifeInv
<1> SUFFICES ASSUME NodeInit PROVE LifeInv
  OBVIOUS
<1>1. \A k \in Slots : SlotSandbox(k)
  BY DEF NodeInit, IdleSlot, SlotSandbox
<1>2. \A s \in Sandboxes : SandboxLife(s)
  BY DEF NodeInit, SandboxLife
<1>3. \A m \in strays : Earned(m)
  BY DEF NodeInit
<1>4. CompletedIsGenuine
  BY InitUnbound DEF CompletedIsGenuine
<1> QED
  BY <1>1, <1>2, <1>3, <1>4 DEF LifeInv

-----------------------------------------------------------------------------
(* Layer 6: a Release is asked for when the Sandbox has been dealt with.   *)

Busy(s) == \E k \in Slots : slots[k].sandbox = s /\ slots[k].pc \in Working

(* Nobody uses s, and it holds nothing, or its client has hung up and the  *)
(* Supervisor tears it down.                                               *)
Disposed(s) ==
    ~Busy(s) /\ (supervised[s].phase \in {"requested", "held"} => supervised[s].client = "hungup")

(* A client hangs up for good, and a creation always has a client.         *)
ClientOK(s) ==
    /\ supervised[s].client = "hungup" => ~Busy(s)
    /\ supervised[s].phase = "requested" /\ ~Busy(s) => supervised[s].client = "hungup"

(* No slot will give e a Sandbox, and the one it has is disposed of.       *)
ReleaseOK(e) ==
    /\ \/ Over(e)
       \/ \A k \in Slots :
             Own(k) /\ slots[k].execution = e => slots[k].pc \notin {"granted", "validate"}
    /\ \A s \in Sandboxes : Knows(e, s) => Disposed(s)

Mine == \A e \in Executions : executions[e].sandbox_id # NoSandbox => executions[e].worker_id = Me

ReleaseInv ==
    /\ Mine
    /\ \A s \in Sandboxes : ClientOK(s)
    /\ \A k \in Slots : slots[k].pc = "release" => ReleaseOK(slots[k].execution)
    /\ \A m \in strays : m.op = "release" => ReleaseOK(m.execution)
    /\ \A e \in Executions : executions[e].capacity_released => ReleaseOK(e)

(* Nobody starts to use a Sandbox but who mints it.                        *)
LEMMA BusyFrame ==
    ASSUME ShapeInv, NodeMove, NEW s \in Sandboxes, Busy(s)'
    PROVE  Busy(s) \/ \E k \in Slots : Mints(k, s)
<1>1. PICK j \in Slots : slots'[j].sandbox = s /\ slots'[j].pc \in Working
  BY DEF Busy
<1>2. CASE slots'[j] = slots[j]
  BY <1>1, <1>2 DEF Busy
<1>3. ASSUME NEW k \in Slots, Step(k), SlotMove(k) PROVE Busy(s) \/ \E i \in Slots : Mints(i, s)
  <2>1. CASE j # k
    BY <1>2, <1>3, <2>1 DEF Step, Others
  <2>2. CASE j = k
    <3>0. slots'[k].pc \notin Vacant \union {"granted", "validate", "release", "destroy", "stop"}
      BY <1>1, <2>2 DEF Working, Vacant
    <3>1. CASE Stays(k) /\ slots[k].pc \in Working
      BY <1>1, <2>2, <3>1 DEF Stays, Busy
    <3>2. CASE Glides(k)
      <4>1. slots[k].pc \in Working
        BY <1>1, <2>2, <3>0, <3>2 DEF Glides, Working
      <4> QED
        BY <3>1, <3>2, <4>1 DEF Glides
    <3>3. ASSUME NEW r \in Supervised, Employed(k, r) PROVE Busy(s) \/ \E i \in Slots : Mints(i, s)
      BY <3>1, <3>3 DEF Employed
    <3>4. ASSUME NEW t \in Sandboxes, Mints(k, t) PROVE Mints(k, s)
      BY <1>1, <2>2, <3>4 DEF Mints
    <3>5. /\ ~Destroyed(k) /\ ~Vacates(k) /\ ~TakesUp(k) /\ ~Activates(k)
          /\ \A e \in Executions : ~Claims(k, e)
      BY <3>0 DEF Destroyed, Vacates, TakesUp, Activates, Claims
    <3> QED
      BY <1>3, <3>2, <3>3, <3>4, <3>5 DEF SlotMove
  <2> QED
    BY <2>1, <2>2
<1>4. ~Reborn
  BY <1>1 DEF Reborn, Working
<1> QED
  BY <1>2, <1>3, <1>4 DEF NodeMove, SandboxMove, StrayMove, Rests

(* A Sandbox that is disposed of stays so.                                 *)
LEMMA DisposedKept ==
    ASSUME ShapeInv, NodeMove, NEW s \in Sandboxes, Disposed(s), supervised[s].phase # "unused"
    PROVE  Disposed(s)'
<1>0. \A k \in Slots : ~Mints(k, s)
  BY DEF Mints
<1>1. ~Busy(s)'
  BY <1>0, BusyFrame DEF Disposed
<1>2. ASSUME NEW k \in Slots, slots[k].sandbox = s, Employed(k, supervised'[s]) PROVE FALSE
  BY <1>2 DEF Employed, Busy, Disposed
<1>3. supervised'[s].phase \in {"requested", "held"} => supervised'[s].client = "hungup"
  BY <1>0, <1>2, SandboxFrame DEF Fades, Reborn, Disposed
<1> QED
  BY <1>1, <1>3 DEF Disposed

(* A slot at work on a Sandbox that is being created is waiting for it.    *)
LEMMA CreatingSlot ==
    ASSUME LifeInv, NEW k \in Slots, slots[k].pc \in Working,
           supervised[slots[k].sandbox].phase = "requested"
    PROVE  slots[k].pc = "creating" /\ supervised[slots[k].sandbox].client = "connected"
  BY DEF LifeInv, SlotSandbox, Working

(* It waits, gets an answer, or hangs up.                                  *)
LEMMA CreatingMoves ==
    ASSUME ShapeInv, NodeMove, NEW k \in Slots, slots[k].pc = "creating", NEW s \in Sandboxes,
           slots[k].sandbox = s, supervised[s].phase = "requested", supervised[s].client = "connected",
           supervised'[s].phase = "requested"
    PROVE  Busy(s)' \/ supervised'[s].client = "hungup"
<1>1. CASE slots'[k].pc = "creating" /\ slots'[k].sandbox = s
  BY <1>1 DEF Busy, Working
<1>2. CASE Reborn
  BY <1>2 DEF Reborn
<1>3. ASSUME NEW j \in Slots, Step(j), SlotMove(j)
      PROVE  Busy(s)' \/ supervised'[s].client = "hungup"
  <2>1. CASE j # k
    BY <1>1, <1>3, <2>1 DEF Step, Others
  <2>2. CASE j = k
    <3>1. CASE Glides(k)
      BY <1>1, <3>1 DEF Glides, Leaving, Stays
    <3>2. ASSUME NEW r \in Supervised, Employed(k, r)
          PROVE  supervised'[s].client = "hungup"
      <4>1. supervised'[s] = r /\ Employs(k, r)
        BY <3>2, NodeTyped DEF Employed
      <4> QED
        BY <4>1 DEF Employs
    <3>3. /\ ~Destroyed(k) /\ ~Vacates(k) /\ ~TakesUp(k) /\ ~Activates(k)
          /\ \A e \in Executions : ~Claims(k, e)
          /\ \A t \in Sandboxes : ~Mints(k, t)
      BY DEF Destroyed, Vacates, TakesUp, Activates, Claims, Mints, Vacant, Cleaning
    <3> QED
      BY <1>3, <2>2, <3>1, <3>2, <3>3 DEF SlotMove
  <2> QED
    BY <2>1, <2>2
<1> QED
  BY <1>1, <1>2, <1>3 DEF NodeMove, SandboxMove, StrayMove, Rests

(* Every move keeps what the client of a Sandbox says.                     *)
LEMMA ClientKept ==
    ASSUME ShapeInv, OwnerInv, PairInv, LifeInv, NodeMove, NEW s \in Sandboxes, ClientOK(s)
    PROVE  ClientOK(s)'
<1>0. SandboxLife(s)
  BY DEF LifeInv
<1>1. ASSUME supervised'[s].client = "hungup", Busy(s)' PROVE FALSE
  <2>1. CASE supervised[s].client = "hungup"
    <3>1. ~Busy(s) /\ supervised[s].phase # "unused"
      BY <1>0, <2>1 DEF ClientOK, SandboxLife
    <3> QED
      BY <1>1, <3>1, BusyFrame DEF Mints
  <2>2. ~Reborn
    BY <1>1 DEF Busy, Reborn, Working
  <2>3. ASSUME NEW k \in Slots, Step(k), slots[k].sandbox = s, Employed(k, supervised'[s])
        PROVE  FALSE
    <3>1. slots'[k].pc = "stop" /\ slots[k].pc \in Working
      BY <1>1, <2>3 DEF Employed, Employs
    <3>2. PICK j \in Slots : slots'[j].sandbox = s /\ slots'[j].pc \in Working
      BY <1>1 DEF Busy
    <3>3. j # k
      BY <3>1, <3>2 DEF Working
    <3>4. slots[j].sandbox = s /\ slots[j].pc \in Working
      BY <2>3, <3>2, <3>3 DEF Step, Others
    <3> QED
      BY <2>3, <3>1, <3>3, <3>4, SoleWorker
  <2> QED
    BY <1>1, <2>1, <2>2, <2>3, SandboxFrame DEF Fades, Mints
<1>2. ASSUME supervised'[s].phase = "requested", ~Busy(s)' PROVE supervised'[s].client = "hungup"
  <2>1. CASE supervised[s].phase = "requested"
    <3>1. CASE Busy(s)
      <4>1. PICK k \in Slots : slots[k].sandbox = s /\ slots[k].pc \in Working
        BY <3>1 DEF Busy
      <4>2. slots[k].pc = "creating" /\ supervised[s].client = "connected"
        BY <2>1, <4>1, CreatingSlot
      <4> QED
        BY <1>2, <2>1, <4>1, <4>2, CreatingMoves
    <3>2. CASE ~Busy(s)
      <4>1. Disposed(s)
        BY <2>1, <3>2 DEF Disposed, ClientOK
      <4> QED
        BY <1>2, <2>1, <4>1, DisposedKept DEF Disposed
    <3> QED
      BY <3>1, <3>2
  <2>2. CASE supervised[s].phase # "requested"
    <3>1. PICK k \in Slots : slots[k].sandbox = s /\ Employed(k, supervised'[s])
      BY <1>2, <2>2, SandboxFrame DEF Fades, Mints, Reborn
    <3>2. slots'[k].pc = "creating" /\ slots'[k].sandbox = s
      BY <1>2, <2>2, <3>1 DEF Employed, Employs, Stays
    <3> QED
      BY <1>2, <3>2 DEF Busy, Working
  <2> QED
    BY <2>1, <2>2
<1> QED
  BY <1>1, <1>2 DEF ClientOK

(* A row with a Sandbox is one of this Worker.                             *)
LEMMA MineKept ==
    ASSUME ShapeInv, ShapeInv', OwnerInv, Mine, NodeMove, \A e \in Executions : RowFrame(e)
    PROVE  Mine'
<1> SUFFICES ASSUME NEW e \in Executions, executions'[e].sandbox_id # NoSandbox
             PROVE  executions'[e].worker_id = Me
  BY DEF Mine
<1>1. PICK s \in Sandboxes : executions'[e].sandbox_id = s
  BY DEF ShapeInv, TableInv, TypeOK, ExecutionRow
<1>2. Knows(e, s) /\ s # NoSandbox /\ e # NoExecution
  BY <1>1, KnownRows, NullAssumption, NodeAssumption
<1>3. executions[e].worker_id = Me
  BY <1>2 DEF Knows, Mine, OwnerInv, SlotRow, StrayRow
<1> QED
  BY <1>3, MeIsSomeone DEF RowFrame

(* An Execution that may be released may be released from then on.         *)
LEMMA ReleaseKept ==
    ASSUME ShapeInv, ShapeInv', OwnerInv, PairInv, NodeMove, \A x \in Executions : RowFrame(x),
           NEW e \in Executions, executions[e].worker_id # NoWorker, ReleaseOK(e)
    PROVE  ReleaseOK(e)'
<1>1. Over(e) => Over(e)'
  BY DEF RowFrame
<1>2. ASSUME ~Over(e), NEW j \in Slots, Own(j)', slots'[j].execution = e
      PROVE  slots'[j].pc \notin {"granted", "validate"}
  <2> SUFFICES ASSUME slots'[j].pc \in {"granted", "validate"} PROVE FALSE
    OBVIOUS
  <2>0. Own(j) /\ slots[j].execution = e => slots[j].pc \notin {"granted", "validate"}
    BY <1>2 DEF ReleaseOK
  <2>1. CASE slots'[j] = slots[j]
    BY <1>2, <2>0, <2>1 DEF Own, Reconciling
  <2>2. ASSUME NEW k \in Slots, Step(k), SlotMove(k) PROVE FALSE
    <3>1. CASE j # k
      BY <2>1, <2>2, <3>1 DEF Step, Others
    <3>2. CASE j = k
      <4>1. CASE Stays(k) /\ slots[k].pc \in {"granted", "validate"}
        BY <1>2, <2>0, <3>2, <4>1 DEF Stays, Own, Reconciling
      <4>2. CASE Glides(k) \/ Activates(k)
        BY <3>2, <4>1, <4>2 DEF Glides, Activates
      <4>3. \A r \in Supervised : ~Employed(k, r)
        BY <3>2 DEF Employed, Employs
      <4>4. ASSUME NEW f \in Executions, Claims(k, f) PROVE FALSE
        <5>1. f = e /\ executions[e].state = "queued" /\ RowOK(executions[e])
          BY <1>2, <3>2, <4>4, RowFacts DEF Claims, ClaimsRow, ShapeInv
        <5> QED
          BY <5>1 DEF RowOK, RowChecks, OwnedState, Active
      <4>5. /\ ~Destroyed(k) /\ ~Vacates(k) /\ ~TakesUp(k) /\ \A t \in Sandboxes : ~Mints(k, t)
        BY <3>2 DEF Destroyed, Vacates, TakesUp, Mints, Vacant
      <4> QED
        BY <2>2, <4>2, <4>3, <4>4, <4>5 DEF SlotMove
    <3> QED
      BY <3>1, <3>2
  <2>3. ~Reborn
    BY <1>2 DEF Reborn, Own
  <2> QED
    BY <2>1, <2>2, <2>3 DEF NodeMove, SandboxMove, StrayMove, Rests
<1>3. ASSUME NEW s \in Sandboxes, Knows(e, s)' PROVE Disposed(s)'
  <2>1. CASE Knows(e, s)
    <3>1. Disposed(s) /\ supervised[s].phase # "unused"
      BY <2>1 DEF ReleaseOK, PairInv, Unknown
    <3> QED
      BY <3>1, DisposedKept
  <2>2. ASSUME NEW k \in Slots, Mints(k, s), slots[k].execution = e PROVE FALSE
    <3>1. slots[k].pc = "validate" /\ CurrentLease(executions[e]) /\ SlotShape(k)
      BY <2>2 DEF Mints, ShapeInv
    <3>2. ~Over(e)
      BY <3>1, CurrentIsNotOver DEF ShapeInv
    <3>3. Own(k)
      BY <2>2, <3>1, NodeAssumption DEF Own, Reconciling, SlotShape, Cleaning
    <3> QED
      BY <2>2, <3>1, <3>2, <3>3 DEF ReleaseOK
  <2> QED
    BY <1>3, <2>1, <2>2, KnowsFrame
<1> QED
  BY <1>1, <1>2, <1>3 DEF ReleaseOK

(* Destroy answers: the Execution of the slot may be released.             *)
LEMMA ReleaseEarned ==
    ASSUME ShapeInv, ShapeInv', OwnerInv, PairInv, LifeInv, ReleaseInv, NodeMove,
           \A x \in Executions : RowFrame(x),
           NEW k \in Slots, Step(k), Destroyed(k), NEW e \in Executions, e = slots[k].execution
    PROVE  ReleaseOK(e)'
<1>0. /\ slots[k].pc = "destroy" /\ slots'[k].pc = "release" /\ slots'[k].execution = e
      /\ \A j \in Slots : j # k => slots'[j] = slots[j]
      /\ Own(k) \/ Sweeps(k)
  BY NodeAssumption DEF Destroyed, Stays, Step, Others, Own, Sweeps, Cleaning
<1>1. \A j \in Slots : ~\E s \in Sandboxes : Mints(j, s)
  BY <1>0 DEF Mints
<1>2. Over(e)' \/ \A j \in Slots :
        Own(j)' /\ slots'[j].execution = e => slots'[j].pc \notin {"granted", "validate"}
  <2>1. CASE Sweeps(k)
    BY <2>1 DEF OwnerInv, SlotRow, RowFrame
  <2>2. CASE Own(k)
    <3>1. \A j \in Slots : Own(j)' /\ slots'[j].execution = e => j = k
      BY <1>0, <2>2 DEF Own, Reconciling, OwnerInv, Exclusive
    <3> QED
      BY <1>0, <3>1
  <2> QED
    BY <1>0, <2>1, <2>2
<1>3. ASSUME NEW s \in Sandboxes, Knows(e, s)' PROVE Disposed(s)'
  <2>1. Knows(e, s)
    BY <1>1, <1>3, KnowsFrame
  <2>2. ~Busy(s)
    <3> SUFFICES ASSUME NEW j \in Slots, slots[j].sandbox = s, slots[j].pc \in Working PROVE FALSE
      BY DEF Busy
    <3>1. slots[j].execution \in Executions /\ SlotShape(j)
      BY SlotFacts DEF Working, Vacant
    <3>2. Knows(slots[j].execution, s)
      BY DEF Knows
    <3>3. slots[j].execution = e
      BY <2>1, <3>1, <3>2 DEF PairInv, Matched
    <3>4. Own(j) /\ slots[j].sandbox # NoSandbox /\ j # k
      BY <1>0, <3>1, NodeAssumption DEF Own, Reconciling, SlotShape, Working, Cleaning
    <3> QED
      BY <1>0, <3>3, <3>4 DEF OwnerInv, Exclusive
  <2>3. ~Busy(s)'
    BY <1>1, <2>2, BusyFrame
  <2>4. supervised'[s].phase # "held"
    <3>1. CASE s = slots[k].sandbox
      BY <3>1 DEF Destroyed
    <3>2. CASE s # slots[k].sandbox
      <4>1. supervised'[s] = supervised[s]
        BY <3>2 DEF Destroyed
      <4>2. CASE Own(k)
        <5>1. slots[k].sandbox \in Sandboxes
          BY <2>1, <4>2, SlotFacts DEF PairInv, Unpaired
        <5>2. Knows(e, slots[k].sandbox)
          BY DEF Knows
        <5> QED
          BY <2>1, <3>2, <5>1, <5>2 DEF PairInv, Matched
      <4>3. ASSUME Sweeps(k), supervised[s].phase = "held" PROVE FALSE
        <5>1. PICK f \in Executions : executions[f].sandbox_id = s
          BY <4>3 DEF LifeInv, SandboxLife
        <5>2. Knows(f, s)
          BY <5>1 DEF Knows
        <5>3. f = e
          BY <2>1, <5>2 DEF PairInv, Matched
        <5> QED
          BY <3>2, <4>3, <5>1, <5>3 DEF OwnerInv, SlotRow
      <4> QED
        BY <1>0, <4>1, <4>2, <4>3
    <3> QED
      BY <3>1, <3>2
  <2>5. supervised'[s].phase = "requested" => supervised'[s].client = "hungup"
    <3>1. ClientOK(s)'
      BY ClientKept DEF ReleaseInv
    <3> QED
      BY <2>3, <3>1 DEF ClientOK
  <2> QED
    BY <2>3, <2>4, <2>5 DEF Disposed
<1> QED
  BY <1>2, <1>3 DEF ReleaseOK

(* Every move keeps the sixth layer.                                       *)
LEMMA ReleaseInvStep ==
    ASSUME ShapeInv, ShapeInv', OwnerInv, PairInv, LifeInv, ReleaseInv, NodeMove,
           \A e \in Executions : RowFrame(e)
    PROVE  ReleaseInv'
<1>1. Mine' /\ \A s \in Sandboxes : ClientOK(s)'
  BY MineKept, ClientKept DEF ReleaseInv
<1>2. ASSUME NEW e \in Executions, executions[e].capacity_released PROVE ReleaseOK(e)'
  <2>1. executions[e].worker_id # NoWorker
    BY <1>2, RowFacts DEF ShapeInv, RowOK, RowChecks, CapacityRequiresOwner
  <2> QED
    BY <1>2, <2>1, ReleaseKept DEF ReleaseInv
<1>3. ASSUME NEW k \in Slots, slots[k].pc = "release", NEW e \in Executions, e = slots[k].execution
      PROVE  ReleaseOK(e)'
  <2>1. executions[e].worker_id # NoWorker
    BY <1>3, MeIsSomeone, NodeAssumption DEF OwnerInv, SlotRow
  <2> QED
    BY <1>3, <2>1, ReleaseKept DEF ReleaseInv
<1>4. ASSUME NEW m \in strays, m.op = "release" PROVE m.execution \in Executions /\ ReleaseOK(m.execution)'
  <2>1. m.execution \in Executions
    BY <1>4 DEF ShapeInv, NodeTypes, StrayShape, Request
  <2>2. executions[m.execution].worker_id # NoWorker
    BY <2>1, MeIsSomeone, NodeAssumption DEF OwnerInv, StrayRow
  <2> QED
    BY <1>4, <2>1, <2>2, ReleaseKept DEF ReleaseInv
<1>5. ASSUME NEW m \in strays', m.op = "release" PROVE ReleaseOK(m.execution)'
  <2>1. m \in strays \/ \E k \in Slots : \E op \in Ops(k) : m = RequestOf(k, op)
    <3>1. CASE \E k \in Slots : Step(k)
      BY <3>1 DEF Step, Sends
    <3>2. CASE ~\E k \in Slots : Step(k)
      BY <3>2 DEF NodeMove, SandboxMove, StrayMove, Reborn, Rests
    <3> QED
      BY <3>1, <3>2
  <2>2. ASSUME NEW k \in Slots, NEW op \in Ops(k), m = RequestOf(k, op)
        PROVE  ReleaseOK(m.execution)'
    <3>1. op = "release" /\ m.execution = slots[k].execution
      BY <1>5, <2>2 DEF RequestOf
    <3>2. slots[k].pc = "release"
      BY <3>1 DEF Ops, OpOf
    <3>3. slots[k].execution \in Executions
      BY <3>2, SlotFacts DEF Vacant
    <3> QED
      BY <1>3, <3>1, <3>2, <3>3
  <2> QED
    BY <1>4, <1>5, <2>1, <2>2
<1>6. ASSUME NEW j \in Slots, slots'[j].pc = "release", NEW e \in Executions, e = slots'[j].execution
      PROVE  ReleaseOK(e)'
  <2>1. CASE slots[j].pc = "release" /\ slots'[j].execution = slots[j].execution
    BY <1>3, <1>6, <2>1
  <2>2. ASSUME NEW k \in Slots, Step(k), SlotMove(k) PROVE ReleaseOK(e)'
    <3>1. CASE j # k
      BY <1>6, <2>1, <2>2, <3>1 DEF Step, Others
    <3>2. CASE j = k
      <4>1. CASE Glides(k)
        BY <1>6, <2>1, <3>2, <4>1 DEF Glides, Stays
      <4>2. CASE Destroyed(k)
        <5>1. e = slots[k].execution
          BY <1>6, <3>2, <4>2 DEF Destroyed, Stays
        <5> QED
          BY <2>2, <4>2, <5>1, ReleaseEarned
      <4>3. /\ ~Vacates(k) /\ ~TakesUp(k) /\ ~Activates(k)
            /\ \A f \in Executions : ~Claims(k, f)
            /\ \A t \in Sandboxes : ~Mints(k, t)
            /\ \A r \in Supervised : ~Employed(k, r)
        BY <1>6, <3>2
           DEF Vacates, TakesUp, Activates, Claims, Mints, Employed, Employs, Vacant
      <4> QED
        BY <2>2, <4>1, <4>2, <4>3 DEF SlotMove
    <3> QED
      BY <3>1, <3>2
  <2>3. ~Reborn
    BY <1>6 DEF Reborn
  <2> QED
    BY <1>6, <2>1, <2>2, <2>3 DEF NodeMove, SandboxMove, StrayMove, Rests
<1>7. ASSUME NEW e \in Executions, executions'[e].capacity_released PROVE ReleaseOK(e)'
  <2>1. CASE executions'[e].capacity_released = executions[e].capacity_released
    BY <1>2, <1>7, <2>1
  <2>2. ASSUME NEW k \in Slots, SlotMove(k) PROVE ReleaseOK(e)'
    <3>1. CASE slots[k].pc = "release" /\ Frees(slots[k].execution)
      <4>1. CASE e = slots[k].execution
        BY <1>3, <3>1, <4>1
      <4>2. CASE e # slots[k].execution
        BY <2>1, <3>1, <4>2 DEF Frees
      <4> QED
        BY <4>1, <4>2
    <3>2. CASE \/ Quiet \/ Finishes(slots[k].execution) \/ UNCHANGED vars
               \/ Bound(slots[k].execution, slots[k].sandbox)
      BY <2>1, <3>2 DEF Quiet, Finishes, Bound, vars
    <3> QED
      BY <2>2, <3>1, <3>2 DEF SlotMove, Employed, Destroyed, TakesUp, Claims, ClaimsRow,
                             Activates, Mints
  <2>3. ASSUME NEW m \in strays, StrayMove(m) PROVE ReleaseOK(e)'
    <3>1. CASE m.op = "release" /\ Frees(m.execution)
      <4>1. CASE e = m.execution
        BY <1>4, <3>1, <4>1
      <4>2. CASE e # m.execution
        BY <2>1, <3>1, <4>2 DEF Frees
      <4> QED
        BY <4>1, <4>2
    <3>2. CASE Quiet \/ Finishes(m.execution) \/ Bound(m.execution, m.sandbox)
      BY <2>1, <3>2 DEF Quiet, Finishes, Bound
    <3> QED
      BY <2>3, <3>1, <3>2 DEF StrayMove
  <2>4. CASE (\E t \in Sandboxes : SandboxMove(t)) \/ Reborn \/ Rests
    BY <2>1, <2>4 DEF SandboxMove, Reborn, Rests, Quiet, vars
  <2> QED
    BY <2>2, <2>3, <2>4 DEF NodeMove
<1>8. \A k \in Slots : slots'[k].pc = "release" => ReleaseOK(slots[k].execution)'
  <2> SUFFICES ASSUME NEW k \in Slots, slots'[k].pc = "release" PROVE ReleaseOK(slots[k].execution)'
    OBVIOUS
  <2>1. PICK e \in Executions : e = slots'[k].execution
    <3>1. slots'[k].execution \in Executions \union {NoExecution} /\ SlotShape(k)'
      BY DEF ShapeInv, NodeTypes, Slot
    <3> QED
      BY <3>1 DEF SlotShape, Vacant
  <2>2. ReleaseOK(e)'
    BY <1>6, <2>1
  <2> QED
    BY <2>1, <2>2 DEF ReleaseOK, Over, Knows
<1> QED
  BY <1>1, <1>5, <1>7, <1>8 DEF ReleaseInv

(* The sixth layer holds initially.                                        *)
LEMMA ReleaseInit == NodeInit => ReleaseInv
<1> SUFFICES ASSUME NodeInit PROVE ReleaseInv
  OBVIOUS
<1>1. /\ \A k \in Slots : slots[k].execution = NoExecution /\ slots[k].pc = "idle"
      /\ strays = {} /\ \A s \in Sandboxes : supervised[s].phase = "unused"
                                             /\ supervised[s].client = "none"
  BY DEF NodeInit, IdleSlot
<1>2. \A e \in Executions : executions[e].sandbox_id = NoSandbox
  BY InitUnbound
<1>3. \A s \in Sandboxes : ClientOK(s) /\ \A e \in Executions : ~Knows(e, s)
  BY <1>1, <1>2, NodeAssumption, NullAssumption DEF ClientOK, Knows
<1>4. \A e \in Executions : ReleaseOK(e)
  BY <1>1, <1>3 DEF ReleaseOK
<1> QED
  BY <1>1, <1>2, <1>3, <1>4 DEF ReleaseInv, Mine

-----------------------------------------------------------------------------
(* The layers together.                                                    *)

NodeInv == ShapeInv /\ OwnerInv /\ PairInv /\ LifeInv /\ ReleaseInv

(* The layers hold initially and every step keeps them.                    *)
LEMMA NodeInvariant == NodeSpec => []NodeInv
<1>1. NodeInit => NodeInv
  BY ShapeInit, OwnerInit, PairInit, LifeInit, ReleaseInit DEF NodeInv
<1>2. ASSUME NodeInv, [NodeNext]_allVars PROVE NodeInv'
  <2>1. ShapeInv /\ OwnerInv /\ PairInv /\ LifeInv /\ ReleaseInv
    BY <1>2 DEF NodeInv
  <2>2. ShapeInv' /\ NodeMove /\ [Next]_vars /\ TableInv /\ TableInv'
    BY <1>2, <2>1, NodeMoves, NodeAsks DEF ShapeInv
  <2>3. \A e \in Executions : RowFrame(e)
    BY <2>2, RowFrames
  <2>4. OwnerInv'
    BY <2>1, <2>2, <2>3, OwnerStep
  <2>5. PairInv' /\ LifeInv' /\ ReleaseInv'
    BY <2>1, <2>2, <2>3, <2>4, PairStep, LifeStep, ReleaseInvStep
  <2> QED
    BY <2>2, <2>4, <2>5 DEF NodeInv
<1> QED
  BY <1>1, <1>2, PTL DEF NodeSpec

(* A stored result was produced by a workload that ran to its end in the   *)
(* Sandbox bound to the Execution: a Complete on its way, retried or       *)
(* overtaken by a restart, carries the result of that run and of no other. *)
THEOREM NodeCompletedIsGenuine == NodeSpec => []CompletedIsGenuine
<1>1. NodeInv => CompletedIsGenuine
  BY DEF NodeInv, LifeInv
<1> QED
  BY <1>1, NodeInvariant, PTL

(* A Sandbox that holds resources is bound to an unreleased Execution of   *)
(* this Worker, or its client has hung up: cleanup, a late Release and a   *)
(* restart at any point never leave one behind that nobody can find.       *)
THEOREM NodeNoOrphan == NodeSpec => []NoOrphan
<1>1. NodeInv => NoOrphan
  <2> SUFFICES ASSUME NodeInv, NEW s \in Sandboxes, supervised[s].phase = "held",
                      supervised[s].client # "hungup"
               PROVE  \E e \in BoundTo(s) :
                        executions[e].worker_id = Me /\ ~executions[e].capacity_released
    BY DEF NoOrphan
  <2>1. PICK e \in Executions : executions[e].sandbox_id = s
    BY DEF NodeInv, LifeInv, SandboxLife
  <2>2. executions[e].worker_id = Me
    BY <2>1, NullAssumption DEF NodeInv, ReleaseInv, Mine
  <2>3. Knows(e, s) /\ ~Disposed(s)
    BY <2>1 DEF Knows, Disposed
  <2>4. ~executions[e].capacity_released
    BY <2>3 DEF NodeInv, ReleaseInv, ReleaseOK
  <2> QED
    BY <2>1, <2>2, <2>4 DEF BoundTo
<1> QED
  BY <1>1, NodeInvariant, PTL
==============================================================================
