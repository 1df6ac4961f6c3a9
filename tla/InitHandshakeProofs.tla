------------------------ MODULE InitHandshakeProofs ------------------------
(***************************************************************************)
(* Proofs about InitHandshake, for any set of descendants and any number   *)
(* of Executions and of budget events.                                     *)
(*                                                                         *)
(* The argument has three threads.  The two pipes never hold more than one *)
(* frame while Init serves, and which one follows from where the handler   *)
(* and Init are.  The processes form a forest below Init, so Init has seen *)
(* the last of them when it has no child left.  And a SIGKILL that the     *)
(* main process could die of has a cause that the terminal reason names,   *)
(* unless the Execution will not complete.                                 *)
(***************************************************************************)
EXTENDS InitHandshake, SequenceTheorems, WellFoundedInduction, TLAPS

Codes == Process \union {"sigkill", "none"}

(* The handler waits for the exit, or for the cgroup to be emptied.        *)
Waits == handler.pc \in {"waiting", "terminating", "joining"}

(* It has let the launcher go and has not heard of its exit.               *)
Unheard ==
    \/ Waits /\ handler.reader \in {"reading", "failed"}
    \/ handler.pc \in {"killing", "counted"} /\ handler.waitErr

(* Init waits for the last of its children, or has seen it.                *)
InitReaps == init.pc = "draining" \/ (init.pc \in {"polling", "asleep"} /\ init.target = "none")

(* The reading of the counters that decides.                               *)
Seen == IF handler.pc \in {"counted", "reaping"} THEN handler.after ELSE events

(* The terminal reason will not be an ordinary exit.                       *)
Blame ==
    \/ Seen.oom > handler.before.oom
    \/ Seen.pids > handler.before.pids
    \/ handler.timedOut

Asked(action) == requests = <<[action |-> action, execution |-> execution]>>

Answered(phase) ==
    \E code \in Codes : responses = <<[phase |-> phase, execution |-> execution, code |-> code]>>

Idle(pipe) == pipe = <<>>

(* What is in the pipes, and where the handler is, for each place of Init. *)
Linked ==
    /\ handler.pc # "failing"
    /\ init.pc = "main" =>
          \/ handler.pc \in {"idle", "closing"} /\ Idle(requests) /\ Idle(responses)
          \/ handler.pc = "starting" /\ Asked("start") /\ Idle(responses)
          \/ handler.pc = "reaping" /\ Idle(requests) /\ Answered("ready")
    /\ init.pc = "gate" =>
          \/ handler.pc = "starting" /\ Idle(requests) /\ Answered("started")
          \/ handler.pc \in {"attaching", "releasing"} /\ Idle(requests) /\ Idle(responses)
          \/ Unheard /\ Asked("run") /\ Idle(responses)
    /\ init.pc \in {"polling", "asleep"} /\ init.target = Main =>
          Unheard /\ Idle(requests) /\ Idle(responses)
    /\ init.pc = "exited" =>
          \/ Unheard /\ Idle(requests) /\ Answered("exited")
          \/ Waits /\ handler.reader = "got" /\ Idle(requests) /\ Idle(responses)
          \/ handler.pc \in {"killing", "counted"} /\ Idle(requests) /\ Idle(responses)
          \/ handler.pc = "reaping" /\ Asked("reap") /\ Idle(responses)
    /\ InitReaps =>
          handler.pc = "reaping" /\ Idle(requests) /\ Idle(responses)
    /\ init.target \in {Main, "none"}

(* What is in the response pipe, whether or not Init still serves.         *)
Heard ==
    /\ handler.reader # "none" <=> Waits
    /\ handler.waitErr => handler.pc \in {"joining", "killing", "counted", "failing", "idle"}
    /\ handler.pc = "joining" => handler.waitErr
    /\ handler.pc = "idle" /\ init.pc # "gone" => Idle(responses)
    /\ handler.pc \in {"attaching", "releasing", "closing"} => Idle(responses)
    /\ handler.pc = "starting" => Idle(responses) \/ Answered("started")
    /\ handler.reader = "reading" => Idle(responses) \/ Answered("exited")
    /\ handler.reader = "got" => Idle(responses)
    /\ handler.pc \in {"killing", "counted"} /\ ~handler.waitErr => Idle(responses)
    /\ handler.pc = "reaping" =>
          /\ ~handler.waitErr
          /\ Idle(responses) \/ Answered("ready")
          /\ ~Idle(responses) =>
                /\ Head(responses).code \in {Main, "sigkill"}
                /\ Head(responses).code = "sigkill" => Blame

(* A process by itself, and its place in the forest.                       *)
ProcessOK(p) ==
    /\ processes[p].state \in {"running", "killed"} => processes[p].charged
    /\ processes[p].state \in {"exiting", "zombie"} => processes[p].status \in {p, "sigkill"}
    /\ processes[p].state # "absent" /\ processes[p].parent # PID1 =>
          processes[processes[p].parent].state \notin {"absent", "zombie"}

Ranks == Nat

Ranking(rank) ==
    \A p \in Process : processes[p].state # "absent" /\ processes[p].parent # PID1 =>
        rank[processes[p].parent] < rank[p]

Forest == \E rank \in [Process -> Ranks] : Ranking(rank)

NoneLeft == \A p \in Process : processes[p].state = "absent"

NoneRuns == \A p \in Process : processes[p].state # "running"

(* When there is nothing left of the Workload, and when nothing runs.      *)
Quiet ==
    /\ handler.pc \in {"idle", "closing"} \/ init.pc \in {"main", "draining", "gone"} => NoneLeft
    /\ handler.pc = "reaping" /\ ~Idle(responses) => NoneLeft
    /\ \/ handler.pc \in {"counted", "reaping"}
       \/ handler.pc = "failing" /\ outcome.kind = "incomplete"
       => NoneRuns
    /\ handler.pc = "counted" /\ init.pc = "gate" => processes[Main].state # "gated"
    /\ InitServes /\ init.pc = "gate" /\ (handler.pc = "releasing" \/ Unheard) => processes[Main].charged
    /\ handler.pc = "idle" /\ InitServes => ~cgroup

(* The main process has a SIGKILL pending, or ended by one.                *)
Struck ==
    \/ processes[Main].state = "killed"
    \/ processes[Main].state \in {"exiting", "zombie"} /\ processes[Main].status = "sigkill"

(* Who killed the main process.                                            *)
Fate ==
    /\ InitServes /\ (handler.pc \in {"starting", "attaching", "releasing"} \/ Waits) =>
          (Struck => Blame)
    /\ InitReaps \/ (init.pc = "exited" /\ ~handler.waitErr) =>
          init.code \in {Main, "sigkill"} /\ (init.code = "sigkill" => Blame)

(* The terminal reason agrees with the two readings of the counters.       *)
ReasonAgrees ==
    /\ outcome.reason = "memory_limit" <=> handler.after.oom > handler.before.oom
    /\ outcome.reason = "pids_limit" <=>
          handler.after.oom = handler.before.oom /\ handler.after.pids > handler.before.pids
    /\ outcome.reason = "timed_out" => handler.timedOut

OutcomeOK ==
    /\ handler.pc # "idle" => execution # 0
    /\ handler.before.oom <= handler.after.oom /\ handler.after.oom <= events.oom
    /\ handler.before.pids <= handler.after.pids /\ handler.after.pids <= events.pids
    /\ handler.pc = "closing" =>
          /\ outcome.code \in {Main, "sigkill"} /\ ReasonAgrees
          /\ outcome.reason = "exited" => outcome.code = Main
    /\ handler.pc \notin {"idle", "failing"} => outcome.kind = "none"
    /\ handler.pc = "failing" => outcome.kind # "complete"

(* What an Execution that has ended reported.                              *)
VerdictOK ==
    /\ outcome.kind = "complete" =>
          /\ outcome.code \in {Main, "sigkill"}
          /\ outcome.reason = "exited" => outcome.code = Main
    /\ outcome.kind = "incomplete" => outcome.reason # "exited" /\ outcome.code = "none"
    /\ outcome.kind \in {"complete", "incomplete"} => ReasonAgrees

(* The inductive invariant.                                                *)
HandshakeInv ==
    /\ TypeOK
    /\ InitServes => Linked
    /\ Heard
    /\ \A p \in Process : ProcessOK(p)
    /\ Forest
    /\ Quiet
    /\ NoLostWakeup
    /\ Fate
    /\ OutcomeOK
    /\ VerdictOK

(* A pipe with one frame.                                                  *)
LEMMA OneFrame ==
    ASSUME NEW x
    PROVE  /\ Append(<<>>, x) = <<x>> /\ <<x>> # <<>>
           /\ Head(<<x>>) = x /\ Tail(<<x>>) = <<>>
OBVIOUS

(* A step that leaves the processes alone.                                 *)
LEMMA SameProcesses ==
    ASSUME HandshakeInv, UNCHANGED processes
    PROVE  (\A p \in Process : ProcessOK(p))' /\ Forest'
BY DEF HandshakeInv, ProcessOK, Forest, Ranking

(* The terminal reason is what the two readings of the counters tell.      *)
LEMMA ReasonTells ==
    ASSUME TypeOK, OutcomeOK
    PROVE  /\ /\ outcome'.reason = Reason
              /\ handler'.before = handler.before /\ handler'.after = handler.after
              /\ handler'.timedOut = handler.timedOut
              => ReasonAgrees'
           /\ handler.pc \in {"counted", "reaping"} /\ Reason = "exited" => ~Blame
<1>1. /\ handler.before.oom \in Int /\ handler.before.pids \in Int
      /\ handler.after.oom \in Int /\ handler.after.pids \in Int
  BY BoundAssumption DEF TypeOK, Handler, Events
<1>2. handler.before.oom <= handler.after.oom /\ handler.before.pids <= handler.after.pids
  BY DEF OutcomeOK
<1>3. /\ usage.oom = handler.after.oom - handler.before.oom
      /\ usage.pids = handler.after.pids - handler.before.pids
  BY DEF usage, since
<1>4. /\ Reason = "memory_limit" <=> handler.after.oom > handler.before.oom
      /\ Reason = "pids_limit" <=>
            handler.after.oom = handler.before.oom /\ handler.after.pids > handler.before.pids
      /\ Reason = "timed_out" => handler.timedOut
      /\ Reason = "exited" => /\ ~(handler.after.oom > handler.before.oom)
                              /\ ~(handler.after.pids > handler.before.pids)
                              /\ ~handler.timedOut
  BY <1>1, <1>2, <1>3 DEF Reason
<1> QED
  BY <1>4 DEF ReasonAgrees, Blame, Seen

(* A budget event only adds blame, and to a handler that has not read the  *)
(* counters again it does.                                                 *)
LEMMA EventBlames ==
    ASSUME TypeOK, OutcomeOK, UNCHANGED handler,
           events' \in Events, events.oom <= events'.oom, events.pids <= events'.pids
    PROVE  Blame => Blame'
<1>1. /\ handler.before.oom \in Int /\ handler.before.pids \in Int
      /\ events.oom \in Int /\ events.pids \in Int /\ events'.oom \in Int /\ events'.pids \in Int
  BY BoundAssumption DEF TypeOK, Handler, Events
<1> QED
  BY <1>1 DEF Blame, Seen

(* The handler's steps that leave the processes alone.                     *)
LEMMA HandlerStep ==
    ASSUME HandshakeInv,
           \/ Begin \/ BeginFails \/ ReceiveStarted \/ Release \/ ReaderReceives \/ ReaderFails
           \/ Terminated \/ WaitFails \/ Killed \/ SendReap \/ Incomplete \/ Complete \/ Fail
           \/ InitIsGone \/ CloseTree
    PROVE  HandshakeInv'
<1>0. /\ TypeOK /\ (InitServes => Linked) /\ Heard /\ Quiet /\ NoLostWakeup /\ Fate /\ OutcomeOK
      /\ VerdictOK /\ \A p \in Process : ProcessOK(p)
  BY DEF HandshakeInv
<1> USE DEF kernelVars, counters, pipes
<1>1. CASE Begin
  <2>1. TypeOK'
    <3>1. handler' \in Handler
      BY <1>0, <1>1 DEF Begin, sendInitRequest, resourceEvents, NoOutcome, TypeOK, Handler
    <3>2. execution' \in 1..MaxExecutions /\ outcome' \in Outcome
      BY <1>0, <1>1, BoundAssumption
         DEF Begin, sendInitRequest, resourceEvents, NoOutcome, TypeOK, Outcome, Reasons
    <3>3. requests' \in Seq([action: {"start", "run", "reap"}, execution: 1..MaxExecutions])
      BY <1>0, <1>1, <3>2 DEF Begin, sendInitRequest, resourceEvents, NoOutcome, TypeOK
    <3> QED
      BY <1>0, <1>1, <3>1, <3>2, <3>3
         DEF Begin, sendInitRequest, resourceEvents, NoOutcome, TypeOK
  <2>2. (InitServes => Linked)'
    <3> SUFFICES ASSUME InitServes' PROVE Linked'
      OBVIOUS
    <3>1. init.pc = "main" /\ requests = <<>> /\ responses = <<>>
      BY <1>0, <1>1
         DEF Begin, sendInitRequest, resourceEvents, NoOutcome, InitServes, Linked, Unheard,
             Waits, Answered, Asked, Idle, InitReaps, TypeOK, InitState
    <3>2. requests' = <<[action |-> "start", execution |-> execution']>>
      BY <1>0, <1>1, <3>1, OneFrame DEF Begin, sendInitRequest, resourceEvents, NoOutcome
    <3> QED
      BY <1>0, <1>1, <3>1, <3>2
         DEF Begin, sendInitRequest, resourceEvents, NoOutcome, InitServes, Linked, Unheard,
             Waits, Asked, Answered, Idle, InitReaps, TypeOK, InitState
  <2>3. Heard'
    BY <1>0, <1>1, OneFrame
       DEF Begin, sendInitRequest, resourceEvents, NoOutcome, Heard, Waits, Answered, Idle,
           Blame, Seen, Linked, InitServes, TypeOK
  <2>4. Quiet'
    BY <1>0, <1>1, OneFrame
       DEF Begin, sendInitRequest, resourceEvents, NoOutcome, Quiet, NoneLeft, NoneRuns,
           InitServes, Unheard, Waits, Idle
  <2>5. NoLostWakeup' /\ Fate'
    <3>1. NoLostWakeup'
      BY <1>0, <1>1
         DEF Begin, sendInitRequest, resourceEvents, NoOutcome, NoLostWakeup, Zombies,
             ChildrenOf
    <3>2. processes[Main].state = "absent" /\ (InitServes => init.pc = "main")
      BY <1>0, <1>1
         DEF Begin, sendInitRequest, resourceEvents, NoOutcome, Quiet, NoneLeft, Process,
             InitServes, Linked, Unheard, Waits, Answered, Asked, Idle, InitReaps, TypeOK,
             InitState
    <3> QED
      BY <1>0, <1>1, <3>1, <3>2
         DEF Begin, sendInitRequest, resourceEvents, NoOutcome, Fate, Struck, InitServes,
             InitReaps
  <2>6. OutcomeOK' /\ VerdictOK'
    <3>1. /\ handler'.pc = "starting" /\ handler'.before = events /\ handler'.after = events
          /\ events' = events /\ outcome'.kind = "none" /\ execution' = execution + 1
      BY <1>0, <1>1 DEF Begin, sendInitRequest, resourceEvents, NoOutcome, TypeOK, Handler
    <3>2. execution \in Nat /\ events.oom \in Int /\ events.pids \in Int
      BY <1>0, BoundAssumption DEF TypeOK, Events
    <3> QED
      BY <3>1, <3>2 DEF OutcomeOK, VerdictOK
  <2>7. UNCHANGED processes
    BY <1>1 DEF Begin, sendInitRequest, resourceEvents, NoOutcome
  <2> QED
    BY <2>1, <2>2, <2>3, <2>4, <2>5, <2>6, <2>7, SameProcesses DEF HandshakeInv
<1>2. CASE BeginFails
  <2>1. TypeOK'
    <3>1. handler' \in Handler
      BY <1>0, <1>2 DEF BeginFails, GiveUp, KillInit, InitServes, TypeOK, Handler
    <3>2. execution' \in 0..MaxExecutions
      BY <1>0, <1>2, BoundAssumption DEF BeginFails, GiveUp, KillInit, InitServes, TypeOK
    <3>3. outcome' \in Outcome
      BY <1>0, <1>2 DEF BeginFails, GiveUp, KillInit, InitServes, Outcome, Reasons
    <3>4. init' \in InitState
      BY <1>0, <1>2 DEF BeginFails, GiveUp, KillInit, InitServes, TypeOK, InitState
    <3> QED
      BY <1>0, <1>2, <3>1, <3>2, <3>3, <3>4
         DEF BeginFails, GiveUp, KillInit, InitServes, TypeOK
  <2>2. (InitServes => Linked)'
    BY <1>0, <1>2, OneFrame
       DEF BeginFails, GiveUp, KillInit, InitServes, Linked, Unheard, Waits, Asked,
           Answered, Idle, InitReaps
  <2>3. Heard'
    BY <1>0, <1>2, OneFrame
       DEF BeginFails, GiveUp, KillInit, InitServes, Heard, Waits, Answered, Idle, Blame, Seen,
           Linked, TypeOK
  <2>4. Quiet'
    BY <1>0, <1>2, OneFrame
       DEF BeginFails, GiveUp, KillInit, InitServes, Quiet, NoneLeft, NoneRuns, Unheard,
           Waits, Idle
  <2>5. NoLostWakeup' /\ Fate'
    BY <1>0, <1>2
       DEF BeginFails, GiveUp, KillInit, InitServes, NoLostWakeup, Zombies, ChildrenOf,
           Fate, Struck, Waits, Blame, Seen, InitReaps
  <2>6. OutcomeOK' /\ VerdictOK'
    BY <1>0, <1>2, BoundAssumption
       DEF BeginFails, GiveUp, KillInit, InitServes, OutcomeOK, VerdictOK, ReasonAgrees, TypeOK, Handler
  <2>7. UNCHANGED processes
    BY <1>2 DEF BeginFails, GiveUp, KillInit, InitServes
  <2> QED
    BY <2>1, <2>2, <2>3, <2>4, <2>5, <2>6, <2>7, SameProcesses DEF HandshakeInv
<1>3. CASE ReceiveStarted
  <2>1. TypeOK'
    <3>1. handler' \in Handler
      BY <1>0, <1>3 DEF ReceiveStarted, receiveInitResponse, TypeOK, Handler
    <3>2. responses' \in Seq([phase: {"started", "exited", "ready"}, execution: 1..MaxExecutions,
                          code: Process \union {"sigkill", "none"}])
      BY <1>0, <1>3 DEF ReceiveStarted, receiveInitResponse, TypeOK
    <3> QED
      BY <1>0, <1>3, <3>1, <3>2 DEF ReceiveStarted, receiveInitResponse, TypeOK
  <2>2. (InitServes => Linked)'
    BY <1>0, <1>3, OneFrame
       DEF ReceiveStarted, receiveInitResponse, InitServes, Linked, Unheard, Waits, Asked,
           Answered, Idle, InitReaps
  <2>3. Heard'
    <3>1. responses' = <<>>
      BY <1>0, <1>3, OneFrame DEF ReceiveStarted, receiveInitResponse, Heard, Answered, Idle
    <3> QED
      BY <1>0, <1>3, <3>1
         DEF ReceiveStarted, receiveInitResponse, Heard, Waits, Answered, Idle
  <2>4. Quiet'
    BY <1>0, <1>3, OneFrame
       DEF ReceiveStarted, receiveInitResponse, Quiet, NoneLeft, NoneRuns, InitServes,
           Unheard, Waits, Idle
  <2>5. NoLostWakeup' /\ Fate'
    BY <1>0, <1>3
       DEF ReceiveStarted, receiveInitResponse, NoLostWakeup, Zombies, ChildrenOf, Fate,
           Struck, Waits, Blame, Seen, InitServes, InitReaps
  <2>6. OutcomeOK' /\ VerdictOK'
    BY <1>0, <1>3, BoundAssumption
       DEF ReceiveStarted, receiveInitResponse, OutcomeOK, VerdictOK, ReasonAgrees,
           TypeOK, Handler
  <2>7. UNCHANGED processes
    BY <1>3 DEF ReceiveStarted, receiveInitResponse
  <2> QED
    BY <2>1, <2>2, <2>3, <2>4, <2>5, <2>6, <2>7, SameProcesses DEF HandshakeInv
<1>4. CASE Release
  <2>1. TypeOK'
    <3>1. handler' \in Handler
      BY <1>0, <1>4 DEF Release, sendInitRequest, TypeOK, Handler
    <3>2. requests' \in Seq([action: {"start", "run", "reap"}, execution: 1..MaxExecutions])
      BY <1>0, <1>4, BoundAssumption DEF Release, sendInitRequest, TypeOK, OutcomeOK
    <3> QED
      BY <1>0, <1>4, <3>1, <3>2 DEF Release, sendInitRequest, TypeOK
  <2>2. (InitServes => Linked)'
    <3> SUFFICES ASSUME InitServes' PROVE Linked'
      OBVIOUS
    <3>1. init.pc = "gate" /\ requests = <<>> /\ responses = <<>>
      BY <1>0, <1>4
         DEF Release, sendInitRequest, InitServes, Linked, Unheard, Waits, Answered, Asked,
             Idle, InitReaps, TypeOK, InitState
    <3>2. requests' = <<[action |-> "run", execution |-> execution]>>
      BY <1>0, <1>4, <3>1, OneFrame DEF Release, sendInitRequest
    <3> QED
      BY <1>0, <1>4, <3>1, <3>2
         DEF Release, sendInitRequest, InitServes, Linked, Unheard, Waits, Asked, Answered,
             Idle, InitReaps, TypeOK, InitState
  <2>3. Heard'
    BY <1>0, <1>4, OneFrame
       DEF Release, sendInitRequest, Heard, Waits, Answered, Idle, Blame, Seen, Linked,
           InitServes, TypeOK
  <2>4. Quiet'
    BY <1>0, <1>4, OneFrame
       DEF Release, sendInitRequest, Quiet, NoneLeft, NoneRuns, InitServes, Unheard, Waits,
           Idle
  <2>5. NoLostWakeup' /\ Fate'
    BY <1>0, <1>4
       DEF Release, sendInitRequest, NoLostWakeup, Zombies, ChildrenOf, Fate, Struck, Waits,
           Blame, Seen, InitServes, InitReaps
  <2>6. OutcomeOK' /\ VerdictOK'
    BY <1>0, <1>4, BoundAssumption
       DEF Release, sendInitRequest, OutcomeOK, VerdictOK, ReasonAgrees, TypeOK,
           Handler
  <2>7. UNCHANGED processes
    BY <1>4 DEF Release, sendInitRequest
  <2> QED
    BY <2>1, <2>2, <2>3, <2>4, <2>5, <2>6, <2>7, SameProcesses DEF HandshakeInv
<1>5. CASE ReaderReceives
  <2>1. TypeOK'
    <3>1. handler' \in Handler
      BY <1>0, <1>5 DEF ReaderReceives, TypeOK, Handler
    <3>2. responses' \in Seq([phase: {"started", "exited", "ready"}, execution: 1..MaxExecutions,
                          code: Process \union {"sigkill", "none"}])
      BY <1>0, <1>5 DEF ReaderReceives, TypeOK
    <3>3. history' \subseteq History
      BY <1>0, <1>5 DEF ReaderReceives, TypeOK, History
    <3> QED
      BY <1>0, <1>5, <3>1, <3>2, <3>3 DEF ReaderReceives, TypeOK
  <2>2. (InitServes => Linked)'
    <3> SUFFICES ASSUME InitServes' PROVE Linked'
      OBVIOUS
    <3>1. Waits /\ Answered("exited")
      BY <1>0, <1>5 DEF ReaderReceives, Heard, Idle
    <3>2. responses' = <<>> /\ handler'.reader = "got"
      BY <1>0, <1>5, <3>1, OneFrame DEF ReaderReceives, Answered, TypeOK, Handler
    <3>3. init.pc = "exited" /\ requests = <<>>
      BY <1>0, <1>5, <3>1
         DEF ReaderReceives, InitServes, Linked, Unheard, Waits, Answered, Asked, Idle,
             InitReaps, TypeOK, InitState
    <3> QED
      BY <1>0, <1>5, <3>1, <3>2, <3>3
         DEF ReaderReceives, InitServes, Linked, Unheard, Waits, Asked, Answered, Idle,
             InitReaps, TypeOK, InitState
  <2>3. Heard'
    <3>1. Waits /\ Answered("exited")
      BY <1>0, <1>5 DEF ReaderReceives, Heard, Idle
    <3>2. responses' = <<>> /\ handler'.reader = "got" /\ handler'.pc = handler.pc /\ handler'.waitErr = handler.waitErr
      BY <1>0, <1>5, <3>1, OneFrame DEF ReaderReceives, Answered, TypeOK, Handler
    <3> QED
      BY <1>0, <3>1, <3>2 DEF Heard, Waits, Idle
  <2>4. Quiet'
    BY <1>0, <1>5, OneFrame
       DEF ReaderReceives, Quiet, NoneLeft, NoneRuns, InitServes, Unheard, Waits, Idle
  <2>5. NoLostWakeup' /\ Fate'
    BY <1>0, <1>5
       DEF ReaderReceives, NoLostWakeup, Zombies, ChildrenOf, Fate, Struck, Waits, Blame, Seen,
           InitServes, InitReaps
  <2>6. OutcomeOK' /\ VerdictOK'
    BY <1>0, <1>5, BoundAssumption
       DEF ReaderReceives, OutcomeOK, VerdictOK, ReasonAgrees, TypeOK, Handler
  <2>7. UNCHANGED processes
    BY <1>5 DEF ReaderReceives
  <2> QED
    BY <2>1, <2>2, <2>3, <2>4, <2>5, <2>6, <2>7, SameProcesses DEF HandshakeInv
<1>6. CASE ReaderFails
  <2>1. TypeOK'
    <3>1. handler' \in Handler
      BY <1>0, <1>6 DEF ReaderFails, ReadDeadlineSet, TypeOK, Handler
    <3> QED
      BY <1>0, <1>6, <3>1 DEF ReaderFails, ReadDeadlineSet, TypeOK
  <2>2. (InitServes => Linked)'
    BY <1>0, <1>6, OneFrame
       DEF ReaderFails, ReadDeadlineSet, InitServes, Linked, Unheard, Waits, Asked,
           Answered, Idle, InitReaps
  <2>3. Heard'
    BY <1>0, <1>6, OneFrame
       DEF ReaderFails, ReadDeadlineSet, Heard, Waits, Answered, Idle, Blame, Seen, Linked,
           InitServes, TypeOK
  <2>4. Quiet'
    BY <1>0, <1>6, OneFrame
       DEF ReaderFails, ReadDeadlineSet, Quiet, NoneLeft, NoneRuns, InitServes, Unheard,
           Waits, Idle
  <2>5. NoLostWakeup' /\ Fate'
    BY <1>0, <1>6
       DEF ReaderFails, ReadDeadlineSet, NoLostWakeup, Zombies, ChildrenOf, Fate, Struck,
           Waits, Blame, Seen, InitServes, InitReaps
  <2>6. OutcomeOK' /\ VerdictOK'
    BY <1>0, <1>6, BoundAssumption
       DEF ReaderFails, ReadDeadlineSet, OutcomeOK, VerdictOK, ReasonAgrees, TypeOK,
           Handler
  <2>7. UNCHANGED processes
    BY <1>6 DEF ReaderFails, ReadDeadlineSet
  <2> QED
    BY <2>1, <2>2, <2>3, <2>4, <2>5, <2>6, <2>7, SameProcesses DEF HandshakeInv
<1>7. CASE Terminated
  <2>1. TypeOK'
    <3>1. handler' \in Handler
      BY <1>0, <1>7 DEF Terminated, Unpopulated, TypeOK, Handler
    <3> QED
      BY <1>0, <1>7, <3>1 DEF Terminated, Unpopulated, TypeOK
  <2>2. (InitServes => Linked)'
    BY <1>0, <1>7, OneFrame
       DEF Terminated, Unpopulated, InitServes, Linked, Unheard, Waits, Asked, Answered,
           Idle, InitReaps
  <2>3. Heard'
    BY <1>0, <1>7, OneFrame
       DEF Terminated, Unpopulated, Heard, Waits, Answered, Idle, Blame, Seen, Linked, InitServes,
           TypeOK
  <2>4. Quiet'
    BY <1>0, <1>7, OneFrame
       DEF Terminated, Unpopulated, Quiet, NoneLeft, NoneRuns, InitServes, Unheard, Waits,
           Idle
  <2>5. NoLostWakeup' /\ Fate'
    BY <1>0, <1>7
       DEF Terminated, Unpopulated, NoLostWakeup, Zombies, ChildrenOf, Fate, Struck, Waits,
           Blame, Seen, InitServes, InitReaps
  <2>6. OutcomeOK' /\ VerdictOK'
    BY <1>0, <1>7, BoundAssumption
       DEF Terminated, Unpopulated, OutcomeOK, VerdictOK, ReasonAgrees, TypeOK,
           Handler
  <2>7. UNCHANGED processes
    BY <1>7 DEF Terminated, Unpopulated
  <2> QED
    BY <2>1, <2>2, <2>3, <2>4, <2>5, <2>6, <2>7, SameProcesses DEF HandshakeInv
<1>8. CASE WaitFails
  <2>1. TypeOK'
    <3>1. handler' \in Handler
      BY <1>0, <1>8 DEF WaitFails, TypeOK, Handler
    <3> QED
      BY <1>0, <1>8, <3>1 DEF WaitFails, TypeOK
  <2>2. (InitServes => Linked)'
    BY <1>0, <1>8, OneFrame
       DEF WaitFails, InitServes, Linked, Unheard, Waits, Asked, Answered, Idle, InitReaps
  <2>3. Heard'
    BY <1>0, <1>8, OneFrame
       DEF WaitFails, Heard, Waits, Answered, Idle, Blame, Seen, Linked, InitServes, TypeOK
  <2>4. Quiet'
    BY <1>0, <1>8, OneFrame
       DEF WaitFails, Quiet, NoneLeft, NoneRuns, InitServes, Unheard, Waits, Idle
  <2>5. NoLostWakeup' /\ Fate'
    BY <1>0, <1>8
       DEF WaitFails, NoLostWakeup, Zombies, ChildrenOf, Fate, Struck, Waits, Blame, Seen,
           InitServes, InitReaps
  <2>6. OutcomeOK' /\ VerdictOK'
    BY <1>0, <1>8, BoundAssumption
       DEF WaitFails, OutcomeOK, VerdictOK, ReasonAgrees, TypeOK, Handler
  <2>7. UNCHANGED processes
    BY <1>8 DEF WaitFails
  <2> QED
    BY <2>1, <2>2, <2>3, <2>4, <2>5, <2>6, <2>7, SameProcesses DEF HandshakeInv
<1>9. CASE Killed
  <2>0. /\ handler.pc = "killing" /\ Unpopulated /\ handler'.pc = "counted"
        /\ handler' \in Handler /\ handler'.after = events
        /\ handler'.before = handler.before /\ handler'.reader = handler.reader
        /\ handler'.timedOut = handler.timedOut /\ handler'.waitErr = handler.waitErr
        /\ UNCHANGED <<init, requests, responses, sigchld, processes, cgroup, events, history>>
        /\ UNCHANGED <<cancelled, execution, outcome>>
    BY <1>0, <1>9 DEF Killed, resourceEvents, TypeOK, Handler
  <2>1. TypeOK'
    BY <1>0, <2>0 DEF TypeOK
  <2>2. (InitServes => Linked)'
    BY <1>0, <2>0
       DEF InitServes, Linked, Unheard, Waits, Asked, Answered, Idle, InitReaps
  <2>3. Heard'
    BY <1>0, <2>0 DEF Heard, Waits, Answered, Idle
  <2>4. Quiet'
    <3>1. NoneRuns
      BY <1>0, <2>0 DEF Unpopulated, Live, ProcessOK, NoneRuns
    <3>2. init.pc = "gate" => Unheard
      BY <1>0, <2>0 DEF InitServes, Linked, Unheard, Waits
    <3>3. init.pc = "gate" => processes[Main].charged
      BY <1>0, <3>2 DEF Quiet, InitServes
    <3>4. init.pc = "gate" => processes[Main].state # "gated"
      BY <2>0, <3>3 DEF Unpopulated, Live, Process
    <3> QED
      BY <1>0, <2>0, <3>1, <3>3, <3>4
         DEF Quiet, NoneLeft, NoneRuns, InitServes, Unheard, Waits, Idle
  <2>5. NoLostWakeup' /\ Fate'
    <3>1. Blame => Blame'
      BY <2>0 DEF Blame, Seen
    <3> QED
      BY <1>0, <2>0, <3>1
         DEF NoLostWakeup, Zombies, ChildrenOf, Fate, Waits, InitServes, InitReaps
  <2>6. OutcomeOK' /\ VerdictOK'
    <3>1. events.oom \in Int /\ events.pids \in Int
      BY <1>0, BoundAssumption DEF TypeOK, Events
    <3>2. handler.before.oom \in Int /\ handler.before.pids \in Int
      BY <1>0, BoundAssumption DEF TypeOK, Handler, Events
    <3>3. handler.after.oom \in Int /\ handler.after.pids \in Int
      BY <1>0, BoundAssumption DEF TypeOK, Handler, Events
    <3>4. handler.before.oom <= events.oom /\ handler.before.pids <= events.pids
      BY <1>0, <3>1, <3>2, <3>3 DEF OutcomeOK
    <3>5. events.oom <= events.oom /\ events.pids <= events.pids
      BY <3>1
    <3>6. OutcomeOK'
      BY <1>0, <2>0, <3>4, <3>5 DEF OutcomeOK
    <3>7. outcome.kind = "none"
      BY <1>0, <2>0 DEF OutcomeOK
    <3> QED
      BY <2>0, <3>6, <3>7 DEF VerdictOK
  <2> QED
    BY <2>0, <2>1, <2>2, <2>3, <2>4, <2>5, <2>6, SameProcesses DEF HandshakeInv
<1>10. CASE Incomplete
  <2>1. TypeOK'
    <3>1. handler' \in Handler
      BY <1>0, <1>10 DEF Incomplete, GiveUp, KillInit, InitServes, TypeOK, Handler
    <3>2. outcome' \in Outcome
      BY <1>0, <1>10
         DEF Incomplete, GiveUp, KillInit, InitServes, Outcome, Reasons,
             incompleteResourceResult, Reason
    <3>3. init' \in InitState
      BY <1>0, <1>10 DEF Incomplete, GiveUp, KillInit, InitServes, TypeOK, InitState
    <3> QED
      BY <1>0, <1>10, <3>1, <3>2, <3>3 DEF Incomplete, GiveUp, KillInit, InitServes, TypeOK
  <2>2. (InitServes => Linked)'
    BY <1>0, <1>10, OneFrame
       DEF Incomplete, GiveUp, KillInit, InitServes, Linked, Unheard, Waits, Asked,
           Answered, Idle, InitReaps
  <2>3. Heard'
    BY <1>0, <1>10, OneFrame
       DEF Incomplete, GiveUp, KillInit, InitServes, Heard, Waits, Answered, Idle, Blame, Seen,
           Linked, TypeOK
  <2>4. Quiet'
    <3>1. NoneRuns
      BY <1>0, <1>10 DEF Incomplete, Quiet
    <3> QED
      BY <1>0, <1>10, <3>1
         DEF Incomplete, GiveUp, KillInit, InitServes, Quiet, NoneLeft, NoneRuns,
             InitServes, Unheard, Waits, Idle
  <2>5. NoLostWakeup' /\ Fate'
    BY <1>0, <1>10
       DEF Incomplete, GiveUp, KillInit, InitServes, NoLostWakeup, Zombies, ChildrenOf,
           Fate, Struck, Waits, Blame, Seen, InitReaps
  <2>6. OutcomeOK' /\ VerdictOK'
    <3>1. /\ handler'.pc = "failing" /\ handler'.before = handler.before /\ events' = events
          /\ handler'.after = handler.after /\ handler'.timedOut = handler.timedOut
          /\ execution' = execution /\ outcome'.code = "none" /\ outcome'.reason = Reason
          /\ outcome'.kind = IF Reason = "exited" THEN "failed" ELSE "incomplete"
      BY <1>0, <1>10
         DEF Incomplete, GiveUp, KillInit, InitServes, incompleteResourceResult, TypeOK,
             Handler
    <3>2. handler.pc # "idle"
      BY <1>10 DEF Incomplete
    <3>3. ReasonAgrees'
      BY <1>0, <3>1, ReasonTells
    <3>4. OutcomeOK'
      BY <1>0, <3>1, <3>2 DEF OutcomeOK
    <3>5. VerdictOK'
      BY <3>1, <3>3 DEF VerdictOK
    <3> QED
      BY <3>4, <3>5
  <2>7. UNCHANGED processes
    BY <1>10 DEF Incomplete, GiveUp, KillInit, InitServes
  <2> QED
    BY <2>1, <2>2, <2>3, <2>4, <2>5, <2>6, <2>7, SameProcesses DEF HandshakeInv
<1>11. CASE Complete
  <2>1. TypeOK'
    <3>1. handler' \in Handler
      BY <1>0, <1>11 DEF Complete, RemoveCgroup, TypeOK, Handler
    <3>2. outcome' \in Outcome
      BY <1>0, <1>11 DEF Complete, RemoveCgroup, TypeOK, Outcome, Reasons
    <3> QED
      BY <1>0, <1>11, <3>1, <3>2 DEF Complete, RemoveCgroup, TypeOK
  <2>2. (InitServes => Linked)'
    BY <1>0, <1>11, OneFrame
       DEF Complete, RemoveCgroup, InitServes, Linked, Unheard, Waits, Asked, Answered,
           Idle, InitReaps
  <2>3. Heard'
    BY <1>0, <1>11, OneFrame
       DEF Complete, RemoveCgroup, Heard, Waits, Answered, Idle, Blame, Seen, Linked, InitServes,
           TypeOK
  <2>4. Quiet'
    BY <1>0, <1>11, OneFrame
       DEF Complete, RemoveCgroup, Quiet, NoneLeft, NoneRuns, InitServes, Unheard, Waits,
           Idle
  <2>5. NoLostWakeup' /\ Fate'
    BY <1>0, <1>11
       DEF Complete, RemoveCgroup, NoLostWakeup, Zombies, ChildrenOf, Fate, Struck, Waits,
           Blame, Seen, InitServes, InitReaps
  <2>6. OutcomeOK' /\ VerdictOK'
    BY <1>0, <1>11, BoundAssumption
       DEF Complete, RemoveCgroup, OutcomeOK, VerdictOK, ReasonAgrees, TypeOK,
           Handler
  <2>7. UNCHANGED processes
    BY <1>11 DEF Complete, RemoveCgroup
  <2> QED
    BY <2>1, <2>2, <2>3, <2>4, <2>5, <2>6, <2>7, SameProcesses DEF HandshakeInv
<1>12. CASE Fail
  <2>1. TypeOK'
    <3>1. handler' \in Handler
      BY <1>0, <1>12 DEF Fail, GiveUp, KillInit, InitServes, TypeOK, Handler
    <3>2. outcome' \in Outcome
      BY <1>0, <1>12 DEF Fail, GiveUp, KillInit, InitServes, Outcome, Reasons
    <3>3. init' \in InitState
      BY <1>0, <1>12 DEF Fail, GiveUp, KillInit, InitServes, TypeOK, InitState
    <3> QED
      BY <1>0, <1>12, <3>1, <3>2, <3>3 DEF Fail, GiveUp, KillInit, InitServes, TypeOK
  <2>2. (InitServes => Linked)'
    BY <1>0, <1>12, OneFrame
       DEF Fail, GiveUp, KillInit, InitServes, Linked, Unheard, Waits, Asked, Answered,
           Idle, InitReaps
  <2>3. Heard'
    BY <1>0, <1>12, OneFrame
       DEF Fail, GiveUp, KillInit, InitServes, Heard, Waits, Answered, Idle, Blame, Seen, Linked,
           TypeOK
  <2>4. Quiet'
    BY <1>0, <1>12, OneFrame
       DEF Fail, GiveUp, KillInit, InitServes, Quiet, NoneLeft, NoneRuns, Unheard, Waits,
           Idle
  <2>5. NoLostWakeup' /\ Fate'
    BY <1>0, <1>12
       DEF Fail, GiveUp, KillInit, InitServes, NoLostWakeup, Zombies, ChildrenOf, Fate,
           Struck, Waits, Blame, Seen, InitReaps
  <2>6. OutcomeOK' /\ VerdictOK'
    BY <1>0, <1>12, BoundAssumption
       DEF Fail, GiveUp, KillInit, InitServes, OutcomeOK, VerdictOK, ReasonAgrees,
           TypeOK, Handler
  <2>7. UNCHANGED processes
    BY <1>12 DEF Fail, GiveUp, KillInit, InitServes
  <2> QED
    BY <2>1, <2>2, <2>3, <2>4, <2>5, <2>6, <2>7, SameProcesses DEF HandshakeInv
<1>13. CASE InitIsGone
  <2>1. TypeOK'
    <3>1. handler' \in Handler
      BY <1>0, <1>13 DEF InitIsGone, TypeOK, Handler
    <3> QED
      BY <1>0, <1>13, <3>1 DEF InitIsGone, TypeOK
  <2>2. (InitServes => Linked)'
    BY <1>0, <1>13, OneFrame
       DEF InitIsGone, InitServes, Linked, Unheard, Waits, Asked, Answered, Idle, InitReaps
  <2>3. Heard'
    BY <1>0, <1>13, OneFrame
       DEF InitIsGone, Heard, Waits, Answered, Idle, Blame, Seen, Linked, InitServes, TypeOK
  <2>4. Quiet'
    BY <1>0, <1>13, OneFrame
       DEF InitIsGone, Quiet, NoneLeft, NoneRuns, InitServes, Unheard, Waits, Idle
  <2>5. NoLostWakeup' /\ Fate'
    BY <1>0, <1>13
       DEF InitIsGone, NoLostWakeup, Zombies, ChildrenOf, Fate, Struck, Waits, Blame, Seen,
           InitServes, InitReaps
  <2>6. OutcomeOK' /\ VerdictOK'
    BY <1>0, <1>13, BoundAssumption
       DEF InitIsGone, OutcomeOK, VerdictOK, ReasonAgrees, TypeOK, Handler
  <2>7. UNCHANGED processes
    BY <1>13 DEF InitIsGone
  <2> QED
    BY <2>1, <2>2, <2>3, <2>4, <2>5, <2>6, <2>7, SameProcesses DEF HandshakeInv
<1>14. CASE CloseTree
  <2>1. TypeOK'
    BY <1>0, <1>14 DEF CloseTree, RemoveCgroup, TypeOK
  <2>2. (InitServes => Linked)'
    BY <1>0, <1>14, OneFrame
       DEF CloseTree, RemoveCgroup, InitServes, Linked, Unheard, Waits, Asked, Answered,
           Idle, InitReaps
  <2>3. Heard'
    BY <1>0, <1>14, OneFrame
       DEF CloseTree, RemoveCgroup, Heard, Waits, Answered, Idle, Blame, Seen, Linked, InitServes,
           TypeOK
  <2>4. Quiet'
    BY <1>0, <1>14, OneFrame
       DEF CloseTree, RemoveCgroup, Quiet, NoneLeft, NoneRuns, InitServes, Unheard, Waits,
           Idle
  <2>5. NoLostWakeup' /\ Fate'
    BY <1>0, <1>14
       DEF CloseTree, RemoveCgroup, NoLostWakeup, Zombies, ChildrenOf, Fate, Struck, Waits,
           Blame, Seen, InitServes, InitReaps
  <2>6. OutcomeOK' /\ VerdictOK'
    BY <1>0, <1>14, BoundAssumption
       DEF CloseTree, RemoveCgroup, OutcomeOK, VerdictOK, ReasonAgrees, TypeOK,
           Handler
  <2>7. UNCHANGED processes
    BY <1>14 DEF CloseTree, RemoveCgroup
  <2> QED
    BY <2>1, <2>2, <2>3, <2>4, <2>5, <2>6, <2>7, SameProcesses DEF HandshakeInv
<1>15. CASE SendReap
  <2>1. TypeOK'
    <3>1. handler' \in Handler
      BY <1>0, <1>15 DEF SendReap, sendInitRequest, TypeOK, Handler
    <3>2. requests' \in Seq([action: {"start", "run", "reap"}, execution: 1..MaxExecutions])
      BY <1>0, <1>15, BoundAssumption DEF SendReap, sendInitRequest, TypeOK, OutcomeOK
    <3> QED
      BY <1>0, <1>15, <3>1, <3>2 DEF SendReap, sendInitRequest, TypeOK
  <2>2. (InitServes => Linked)'
    <3> SUFFICES ASSUME InitServes' PROVE Linked'
      OBVIOUS
    <3>1. init.pc = "exited" /\ requests = <<>> /\ responses = <<>>
      BY <1>0, <1>15
         DEF SendReap, sendInitRequest, InitServes, Linked, Unheard, Waits, Answered, Asked,
             Idle, InitReaps, TypeOK, InitState
    <3>2. requests' = <<[action |-> "reap", execution |-> execution]>>
      BY <1>0, <1>15, <3>1, OneFrame DEF SendReap, sendInitRequest
    <3> QED
      BY <1>0, <1>15, <3>1, <3>2
         DEF SendReap, sendInitRequest, InitServes, Linked, Unheard, Waits, Asked, Answered,
             Idle, InitReaps, TypeOK, InitState
  <2>3. Heard'
    BY <1>0, <1>15, OneFrame
       DEF SendReap, sendInitRequest, Heard, Waits, Answered, Idle, Blame, Seen, Linked, InitServes,
           TypeOK
  <2>4. Quiet'
    <3>1. NoneRuns
      BY <1>0, <1>15 DEF SendReap, Quiet
    <3>2. Idle(responses)
      BY <1>0, <1>15 DEF SendReap, Heard
    <3>3. InitServes => init.pc = "exited"
      BY <1>0, <1>15
         DEF SendReap, InitServes, Linked, Unheard, Waits, Answered, Asked, Idle, InitReaps,
             TypeOK, InitState
    <3> QED
      BY <1>0, <1>15, <3>1, <3>2, <3>3
         DEF SendReap, sendInitRequest, Quiet, NoneLeft, NoneRuns, InitServes, Unheard,
             Waits, Idle
  <2>5. NoLostWakeup' /\ Fate'
    BY <1>0, <1>15
       DEF SendReap, sendInitRequest, NoLostWakeup, Zombies, ChildrenOf, Fate, Struck, Waits,
           Blame, Seen, InitServes, InitReaps
  <2>6. OutcomeOK' /\ VerdictOK'
    BY <1>0, <1>15, BoundAssumption
       DEF SendReap, sendInitRequest, OutcomeOK, VerdictOK, ReasonAgrees, TypeOK,
           Handler
  <2>7. UNCHANGED processes
    BY <1>15 DEF SendReap, sendInitRequest
  <2> QED
    BY <2>1, <2>2, <2>3, <2>4, <2>5, <2>6, <2>7, SameProcesses DEF HandshakeInv
<1> QED
  BY <1>1, <1>2, <1>3, <1>4, <1>5, <1>6, <1>7, <1>8, <1>9, <1>10, <1>11, <1>12, <1>13, <1>14, <1>15

(* cgroup.kill changes live processes into killed ones and nothing else.   *)
LEMMA GroupKilled ==
    ASSUME HandshakeInv, processes' = KilledGroup
    PROVE  /\ processes' \in [Process -> ProcessEntry]
           /\ \A p \in Process :
                 /\ processes'[p].state = "absent" <=> processes[p].state = "absent"
                 /\ processes'[p].state = "zombie" <=> processes[p].state = "zombie"
                 /\ processes'[p].state = "exiting" <=> processes[p].state = "exiting"
                 /\ processes'[p].state = "running" => processes[p].state = "running"
                 /\ processes'[p].state = "gated" => processes[p].state = "gated"
                 /\ processes'[p].parent = processes[p].parent
                 /\ processes'[p].charged = processes[p].charged
                 /\ processes'[p].status = processes[p].status
           /\ (\A p \in Process : ProcessOK(p))' /\ Forest'
<1>1. processes \in [Process -> ProcessEntry] /\ \A p \in Process : ProcessOK(p)
  BY DEF HandshakeInv, TypeOK
<1>2. ASSUME NEW p \in Process
      PROVE  /\ processes'[p] \in ProcessEntry
             /\ processes'[p].parent = processes[p].parent /\ processes'[p].status = processes[p].status
             /\ processes'[p].charged = processes[p].charged
             /\ processes'[p].state = IF processes[p].charged /\ Live(p) THEN "killed" ELSE processes[p].state
  BY <1>1 DEF KilledGroup, ProcessEntry, ProcessStates
<1>3. processes' \in [Process -> ProcessEntry]
  BY <1>2 DEF KilledGroup
<1>4. \A p \in Process :
         /\ processes'[p].state = "absent" <=> processes[p].state = "absent"
         /\ processes'[p].state = "zombie" <=> processes[p].state = "zombie"
         /\ processes'[p].state = "exiting" <=> processes[p].state = "exiting"
         /\ processes'[p].state = "running" => processes[p].state = "running"
         /\ processes'[p].state = "gated" => processes[p].state = "gated"
         /\ processes'[p].state = "killed" => processes[p].charged
  BY <1>1, <1>2 DEF Live, ProcessOK
<1>5. ASSUME NEW p \in Process PROVE ProcessOK(p)'
  <2>1. processes[p].parent \in Process \union {PID1}
    BY <1>1 DEF ProcessEntry
  <2> QED
    BY <1>1, <1>2, <1>4, <2>1 DEF ProcessOK
<1>6. Forest'
  <2>1. PICK rank \in [Process -> Ranks] : Ranking(rank)
    BY DEF HandshakeInv, Forest
  <2>2. Ranking(rank)'
    BY <1>2, <1>4, <2>1 DEF Ranking
  <2> QED
    BY <2>2 DEF Forest
<1> QED
  BY <1>2, <1>3, <1>4, <1>5, <1>6

(* The handler's steps that kill the group.                                *)
LEMMA KillStep ==
    ASSUME HandshakeInv, WaitReturns \/ DeadlineReached \/ BudgetExhausted \/ Join \/ ReceiveReady
    PROVE  HandshakeInv'
<1>0. /\ TypeOK /\ (InitServes => Linked) /\ Heard /\ Quiet /\ NoLostWakeup /\ Fate /\ OutcomeOK
      /\ VerdictOK /\ \A p \in Process : ProcessOK(p)
  BY DEF HandshakeInv
<1>k. processes' = KilledGroup
  BY
     DEF WaitReturns, DeadlineReached, BudgetExhausted, Join, ReceiveReady, StartKilling,
         Terminate
<1>g. /\ processes' \in [Process -> ProcessEntry]
      /\ \A p \in Process :
            /\ processes'[p].state = "absent" <=> processes[p].state = "absent"
            /\ processes'[p].state = "zombie" <=> processes[p].state = "zombie"
            /\ processes'[p].state = "exiting" <=> processes[p].state = "exiting"
            /\ processes'[p].state = "running" => processes[p].state = "running"
            /\ processes'[p].parent = processes[p].parent
            /\ processes'[p].charged = processes[p].charged
            /\ processes'[p].status = processes[p].status
      /\ (\A p \in Process : ProcessOK(p))' /\ Forest' /\ Main \in Process
  BY <1>k, GroupKilled DEF Process
<1> USE DEF kernelVars, counters, pipes
<1>1. CASE WaitReturns
  <2>1. TypeOK'
    <3>1. handler' \in Handler
      BY <1>0, <1>1 DEF WaitReturns, StartKilling, TypeOK, Handler
    <3> QED
      BY <1>0, <1>g, <1>1, <3>1 DEF WaitReturns, StartKilling, TypeOK
  <2>2. (InitServes => Linked)'
    <3>1. /\ handler'.pc = "killing" /\ handler'.reader = "none" /\ handler.reader \in {"got", "failed"}
          /\ handler'.waitErr = (handler.reader = "failed") /\ UNCHANGED <<init, requests, responses, cgroup, execution>>
          /\ Waits /\ handler.pc # "killing"
      BY <1>0, <1>1 DEF WaitReturns, StartKilling, TypeOK, Handler, Heard, Waits
    <3>2. CASE handler.reader = "got"
      BY <1>0, <3>1, <3>2
         DEF InitServes, Linked, Unheard, Waits, Answered, Asked, Idle, InitReaps, TypeOK,
             InitState
    <3>3. CASE handler.reader = "failed"
      BY <1>0, <3>1, <3>3
         DEF InitServes, Linked, Unheard, Waits, Answered, Asked, Idle, InitReaps, TypeOK,
             InitState
    <3> QED
      BY <3>1, <3>2, <3>3
  <2>3. Heard'
    <3>1. /\ handler'.pc = "killing" /\ handler'.reader = "none" /\ handler.reader \in {"got", "failed"}
          /\ handler'.waitErr = (handler.reader = "failed") /\ UNCHANGED <<init, requests, responses, cgroup, execution>>
          /\ Waits /\ handler.pc # "killing"
      BY <1>0, <1>1 DEF WaitReturns, StartKilling, TypeOK, Handler, Heard, Waits
    <3> QED
      BY <1>0, <3>1 DEF Heard, Waits, Idle
  <2>4. Quiet'
    <3>1. /\ handler'.pc = "killing" /\ handler'.reader = "none" /\ handler.reader \in {"got", "failed"}
          /\ handler'.waitErr = (handler.reader = "failed") /\ UNCHANGED <<init, requests, responses, cgroup, execution>>
          /\ Waits /\ handler.pc # "killing"
      BY <1>0, <1>1 DEF WaitReturns, StartKilling, TypeOK, Handler, Heard, Waits
    <3>2. Unheard' => Unheard \/ handler.reader = "got"
      BY <3>1 DEF Unheard, Waits
    <3>3. InitServes /\ handler.reader = "got" => init.pc = "exited"
      BY <1>0, <3>1
         DEF InitServes, Linked, Unheard, Waits, Answered, Asked, Idle, InitReaps, TypeOK,
             InitState
    <3> QED
      BY <1>0, <1>g, <3>1, <3>2, <3>3 DEF Quiet, NoneLeft, NoneRuns, InitServes, Idle, Waits
  <2>5. NoLostWakeup' /\ Fate'
    <3>1. NoLostWakeup'
      BY <1>0, <1>1, <1>g DEF WaitReturns, StartKilling, NoLostWakeup, Zombies, ChildrenOf
    <3>2. Fate'
      BY <1>0, <1>1, <1>g, BoundAssumption
         DEF WaitReturns, StartKilling, Fate, Struck, Waits, Blame, Seen, InitServes, InitReaps,
             Heard, TypeOK, Handler
    <3> QED
      BY <3>1, <3>2
  <2>6. OutcomeOK' /\ VerdictOK'
    BY <1>0, <1>1, BoundAssumption
       DEF WaitReturns, StartKilling, OutcomeOK, VerdictOK, ReasonAgrees, TypeOK,
           Handler
  <2> QED
    BY <1>g, <2>1, <2>2, <2>3, <2>4, <2>5, <2>6 DEF HandshakeInv
<1>2. CASE DeadlineReached
  <2>1. TypeOK'
    <3>1. handler' \in Handler
      BY <1>0, <1>2 DEF DeadlineReached, Terminate, TypeOK, Handler
    <3> QED
      BY <1>0, <1>g, <1>2, <3>1 DEF DeadlineReached, Terminate, TypeOK
  <2>2. (InitServes => Linked)'
    BY <1>0, <1>2, OneFrame
       DEF DeadlineReached, Terminate, InitServes, Linked, Unheard, Waits, Asked, Answered,
           Idle, InitReaps
  <2>3. Heard'
    BY <1>0, <1>2, OneFrame
       DEF DeadlineReached, Terminate, Heard, Waits, Answered, Idle, Blame, Seen, Linked,
           InitServes, TypeOK
  <2>4. Quiet'
    BY <1>0, <1>g, <1>2, OneFrame
       DEF DeadlineReached, Terminate, Quiet, NoneLeft, NoneRuns, InitServes, Unheard,
           Waits, Idle
  <2>5. NoLostWakeup' /\ Fate'
    <3>1. NoLostWakeup'
      BY <1>0, <1>2, <1>g DEF DeadlineReached, Terminate, NoLostWakeup, Zombies, ChildrenOf
    <3>2. Fate'
      BY <1>0, <1>2, <1>g, BoundAssumption
         DEF DeadlineReached, Terminate, Fate, Struck, Waits, Blame, Seen, InitServes, InitReaps,
             TypeOK, Handler
    <3> QED
      BY <3>1, <3>2
  <2>6. OutcomeOK' /\ VerdictOK'
    BY <1>0, <1>2, BoundAssumption
       DEF DeadlineReached, Terminate, OutcomeOK, VerdictOK, ReasonAgrees, TypeOK,
           Handler
  <2> QED
    BY <1>g, <2>1, <2>2, <2>3, <2>4, <2>5, <2>6 DEF HandshakeInv
<1>3. CASE BudgetExhausted
  <2>1. TypeOK'
    <3>1. handler' \in Handler
      BY <1>0, <1>3 DEF BudgetExhausted, Terminate, TypeOK, Handler
    <3> QED
      BY <1>0, <1>g, <1>3, <3>1 DEF BudgetExhausted, Terminate, TypeOK
  <2>2. (InitServes => Linked)'
    BY <1>0, <1>3, OneFrame
       DEF BudgetExhausted, Terminate, InitServes, Linked, Unheard, Waits, Asked, Answered,
           Idle, InitReaps
  <2>3. Heard'
    BY <1>0, <1>3, OneFrame
       DEF BudgetExhausted, Terminate, Heard, Waits, Answered, Idle, Blame, Seen, Linked,
           InitServes, TypeOK
  <2>4. Quiet'
    BY <1>0, <1>g, <1>3, OneFrame
       DEF BudgetExhausted, Terminate, Quiet, NoneLeft, NoneRuns, InitServes, Unheard,
           Waits, Idle
  <2>5. NoLostWakeup' /\ Fate'
    <3>1. NoLostWakeup'
      BY <1>0, <1>3, <1>g DEF BudgetExhausted, Terminate, NoLostWakeup, Zombies, ChildrenOf
    <3>2. Fate'
      BY <1>0, <1>3, <1>g, BoundAssumption
         DEF BudgetExhausted, Terminate, Fate, Struck, Waits, Blame, Seen, InitServes, InitReaps,
             Exhausted, resourceEvents, TypeOK, Handler
    <3> QED
      BY <3>1, <3>2
  <2>6. OutcomeOK' /\ VerdictOK'
    BY <1>0, <1>3, BoundAssumption
       DEF BudgetExhausted, Terminate, OutcomeOK, VerdictOK, ReasonAgrees, TypeOK,
           Handler
  <2> QED
    BY <1>g, <2>1, <2>2, <2>3, <2>4, <2>5, <2>6 DEF HandshakeInv
<1>4. CASE Join
  <2>1. TypeOK'
    <3>1. handler' \in Handler
      BY <1>0, <1>4 DEF Join, StartKilling, TypeOK, Handler
    <3> QED
      BY <1>0, <1>g, <1>4, <3>1 DEF Join, StartKilling, TypeOK
  <2>2. (InitServes => Linked)'
    <3>1. /\ handler'.pc = "killing" /\ handler'.reader = "none" /\ handler.reader \in {"got", "failed"}
          /\ handler'.waitErr = TRUE /\ UNCHANGED <<init, requests, responses, cgroup, execution>>
          /\ Waits /\ handler.pc # "killing"
      BY <1>0, <1>4 DEF Join, StartKilling, TypeOK, Handler, Heard, Waits
    <3>2. CASE handler.reader = "got"
      BY <1>0, <3>1, <3>2
         DEF InitServes, Linked, Unheard, Waits, Answered, Asked, Idle, InitReaps, TypeOK,
             InitState
    <3>3. CASE handler.reader = "failed"
      BY <1>0, <3>1, <3>3
         DEF InitServes, Linked, Unheard, Waits, Answered, Asked, Idle, InitReaps, TypeOK,
             InitState
    <3> QED
      BY <3>1, <3>2, <3>3
  <2>3. Heard'
    <3>1. /\ handler'.pc = "killing" /\ handler'.reader = "none" /\ handler.reader \in {"got", "failed"}
          /\ handler'.waitErr = TRUE /\ UNCHANGED <<init, requests, responses, cgroup, execution>>
          /\ Waits /\ handler.pc # "killing"
      BY <1>0, <1>4 DEF Join, StartKilling, TypeOK, Handler, Heard, Waits
    <3> QED
      BY <1>0, <3>1 DEF Heard, Waits, Idle
  <2>4. Quiet'
    <3>1. /\ handler'.pc = "killing" /\ handler'.reader = "none" /\ handler.reader \in {"got", "failed"}
          /\ handler'.waitErr = TRUE /\ UNCHANGED <<init, requests, responses, cgroup, execution>>
          /\ Waits /\ handler.pc # "killing"
      BY <1>0, <1>4 DEF Join, StartKilling, TypeOK, Handler, Heard, Waits
    <3>2. Unheard' => Unheard \/ handler.reader = "got"
      BY <3>1 DEF Unheard, Waits
    <3>3. InitServes /\ handler.reader = "got" => init.pc = "exited"
      BY <1>0, <3>1
         DEF InitServes, Linked, Unheard, Waits, Answered, Asked, Idle, InitReaps, TypeOK,
             InitState
    <3> QED
      BY <1>0, <1>g, <3>1, <3>2, <3>3 DEF Quiet, NoneLeft, NoneRuns, InitServes, Idle, Waits
  <2>5. NoLostWakeup' /\ Fate'
    <3>1. NoLostWakeup'
      BY <1>0, <1>4, <1>g DEF Join, StartKilling, NoLostWakeup, Zombies, ChildrenOf
    <3>2. Fate'
      BY <1>0, <1>4, <1>g, BoundAssumption
         DEF Join, StartKilling, Fate, Struck, Waits, Blame, Seen, InitServes, InitReaps, Heard,
             TypeOK, Handler
    <3> QED
      BY <3>1, <3>2
  <2>6. OutcomeOK' /\ VerdictOK'
    BY <1>0, <1>4, BoundAssumption
       DEF Join, StartKilling, OutcomeOK, VerdictOK, ReasonAgrees, TypeOK, Handler
  <2> QED
    BY <1>g, <2>1, <2>2, <2>3, <2>4, <2>5, <2>6 DEF HandshakeInv
<1>5. CASE ReceiveReady
  <2>1. TypeOK'
    <3>1. handler' \in Handler
      BY <1>0, <1>5 DEF ReceiveReady, receiveInitResponse, TypeOK, Handler
    <3>2. responses' \in Seq([phase: {"started", "exited", "ready"}, execution: 1..MaxExecutions,
                          code: Process \union {"sigkill", "none"}])
      BY <1>0, <1>5 DEF ReceiveReady, receiveInitResponse, TypeOK
    <3>3. outcome' \in Outcome
      BY <1>0, <1>5
         DEF ReceiveReady, receiveInitResponse, Outcome, Reasons, Reason, Heard, Idle,
             Process
    <3> QED
      BY <1>0, <1>g, <1>5, <3>1, <3>2, <3>3 DEF ReceiveReady, receiveInitResponse, TypeOK
  <2>2. (InitServes => Linked)'
    <3> SUFFICES ASSUME InitServes' PROVE Linked'
      OBVIOUS
    <3>1. responses' = <<>>
      BY <1>0, <1>5, OneFrame DEF ReceiveReady, receiveInitResponse, Heard, Answered, Idle
    <3>2. init.pc = "main" /\ requests = <<>>
      BY <1>0, <1>5
         DEF ReceiveReady, receiveInitResponse, InitServes, Linked, Unheard, Waits,
             Answered, Asked, Idle, InitReaps, TypeOK, InitState
    <3> QED
      BY <1>0, <1>5, <3>1, <3>2
         DEF ReceiveReady, receiveInitResponse, InitServes, Linked, Unheard, Waits,
             Answered, Asked, Idle, InitReaps, TypeOK, InitState
  <2>3. Heard'
    <3>1. responses' = <<>>
      BY <1>0, <1>5, OneFrame DEF ReceiveReady, receiveInitResponse, Heard, Answered, Idle
    <3> QED
      BY <1>0, <1>5, <3>1
         DEF ReceiveReady, receiveInitResponse, Heard, Waits, Answered, Idle
  <2>4. Quiet'
    BY <1>0, <1>g, <1>5, OneFrame
       DEF ReceiveReady, receiveInitResponse, Quiet, NoneLeft, NoneRuns, InitServes,
           Unheard, Waits, Idle
  <2>5. NoLostWakeup' /\ Fate'
    <3>1. NoLostWakeup'
      BY <1>0, <1>5, <1>g
         DEF ReceiveReady, receiveInitResponse, NoLostWakeup, Zombies, ChildrenOf
    <3>2. InitServes => init.pc = "main"
      BY <1>0, <1>5
         DEF ReceiveReady, receiveInitResponse, InitServes, Linked, Unheard, Waits,
             Answered, Asked, Idle, InitReaps, TypeOK, InitState
    <3> QED
      BY <1>0, <1>5, <3>1, <3>2
         DEF ReceiveReady, receiveInitResponse, Fate, Waits, InitServes, InitReaps
  <2>6. OutcomeOK' /\ VerdictOK'
    <3>1. /\ handler'.pc = "closing" /\ handler'.before = handler.before /\ events' = events
          /\ handler'.after = handler.after /\ handler'.timedOut = handler.timedOut
          /\ execution' = execution /\ outcome'.code = Head(responses).code /\ outcome'.reason = Reason
          /\ outcome'.kind = "none" /\ handler.pc = "reaping" /\ responses # <<>>
      BY <1>0, <1>5 DEF ReceiveReady, receiveInitResponse, TypeOK, Handler
    <3>2. ReasonAgrees'
      BY <1>0, <3>1, ReasonTells
    <3>3. Reason = "exited" => ~Blame
      BY <1>0, <3>1, ReasonTells
    <3>4. /\ Head(responses).code \in {Main, "sigkill"}
          /\ Head(responses).code = "sigkill" => Blame
      BY <1>0, <3>1 DEF Heard, Idle
    <3>5. OutcomeOK'
      BY <1>0, <3>1, <3>2, <3>3, <3>4 DEF OutcomeOK
    <3>6. VerdictOK'
      BY <3>1 DEF VerdictOK
    <3> QED
      BY <3>5, <3>6
  <2> QED
    BY <1>g, <2>1, <2>2, <2>3, <2>4, <2>5, <2>6 DEF HandshakeInv
<1> QED
  BY <1>1, <1>2, <1>3, <1>4, <1>5

(* Every process is below Init: with no child left, Init has none at all.  *)
LEMMA LastChild ==
    ASSUME HandshakeInv, ChildrenOf(PID1) = {}
    PROVE  NoneLeft
<1> SUFFICES ASSUME ~NoneLeft PROVE FALSE
  OBVIOUS
<1>1. PICK rank \in [Process -> Nat] : Ranking(rank)
  BY DEF HandshakeInv, Forest, Ranks
<1>2. PICK Present : Present = {p \in Process : processes[p].state # "absent"}
  OBVIOUS
<1>3. PICK Levels : Levels = {rank[p] : p \in Present}
  OBVIOUS
<1>4. Levels \subseteq Nat /\ Levels # {}
  <2>1. Present \subseteq Process /\ Present # {}
    BY <1>2 DEF NoneLeft
  <2> QED
    BY <1>1, <1>3, <2>1
<1>5. PICK l \in Levels : \A m \in Levels : ~(<<m, l>> \in OpToRel(<, Nat))
  BY <1>4, NatLessThanWellFounded, WFMin, Zenon
<1>6. \A m \in Levels : ~(m < l)
  BY <1>4, <1>5 DEF OpToRel
<1>7. PICK p \in Present : l = rank[p]
  BY <1>3
<1>8. /\ p \in Process /\ processes[p].state # "absent" /\ processes[p].parent # PID1
      /\ processes[p].parent \in Process
  BY <1>2 DEF ChildrenOf, HandshakeInv, TypeOK, ProcessEntry
<1>9. processes[p].parent \in Present /\ rank[processes[p].parent] < rank[p]
  BY <1>1, <1>2, <1>8 DEF HandshakeInv, ProcessOK, Ranking
<1>10. rank[processes[p].parent] \in Levels
  BY <1>3, <1>9
<1> QED
  BY <1>6, <1>7, <1>9, <1>10

(* Steps of Init, of the kernel and of the Sandbox's context that leave    *)
(* the processes alone.                                                    *)
LEMMA InitStep ==
    ASSUME HandshakeInv,
           \/ StartReaping \/ FindNothing \/ Wake \/ Drain \/ InitFails \/ Deliver \/ Cancel \/ ForkRefused
    PROVE  HandshakeInv'
<1>0. /\ TypeOK /\ (InitServes => Linked) /\ Heard /\ Quiet /\ NoLostWakeup /\ Fate /\ OutcomeOK
      /\ VerdictOK /\ \A p \in Process : ProcessOK(p)
  BY DEF HandshakeInv
<1> USE DEF kernelVars, counters, pipes
<1>1. CASE StartReaping
  <2>1. TypeOK'
    <3>1. init' \in InitState
      BY <1>0, <1>1 DEF StartReaping, requireInitAction, TypeOK, InitState
    <3>2. requests' \in Seq([action: {"start", "run", "reap"}, execution: 1..MaxExecutions])
      BY <1>0, <1>1 DEF StartReaping, requireInitAction, TypeOK
    <3> QED
      BY <1>0, <1>1, <3>1, <3>2 DEF StartReaping, requireInitAction, TypeOK
  <2>2. (InitServes => Linked)'
    <3>1. InitServes /\ handler.pc = "reaping" /\ Asked("reap") /\ responses = <<>>
      BY <1>0, <1>1
         DEF StartReaping, requireInitAction, InitServes, Linked, Unheard, Waits, Answered,
             Asked, Idle, InitReaps, TypeOK, InitState
    <3>2. requests' = <<>>
      BY <1>1, <3>1, OneFrame DEF StartReaping, requireInitAction, Asked
    <3> QED
      BY <1>0, <1>1, <3>1, <3>2, ProcessAssumption
         DEF StartReaping, requireInitAction, InitServes, Linked, Unheard, Waits, Answered,
             Asked, Idle, InitReaps, TypeOK, InitState
  <2>3. Heard'
    BY <1>0, <1>1, OneFrame
       DEF StartReaping, requireInitAction, Heard, Waits, Answered, Idle, Blame, Seen, Linked,
           InitServes, TypeOK
  <2>4. Quiet'
    BY <1>0, <1>1, OneFrame
       DEF StartReaping, requireInitAction, Quiet, NoneLeft, NoneRuns, InitServes, Unheard,
           Waits, Idle
  <2>5. NoLostWakeup' /\ Fate'
    <3>1. InitServes /\ handler.pc = "reaping" /\ ~handler.waitErr
      BY <1>0, <1>1
         DEF StartReaping, requireInitAction, InitServes, Linked, Unheard, Waits, Answered,
             Asked, Idle, InitReaps, TypeOK, InitState, Heard
    <3>2. init'.pc = "polling" /\ init'.code = init.code /\ UNCHANGED <<handler, processes, events>>
      BY <1>0, <1>1 DEF StartReaping, requireInitAction, TypeOK, InitState
    <3> QED
      BY <1>0, <1>1, <3>1, <3>2
         DEF NoLostWakeup, Fate, Waits, Blame, Seen, InitReaps, StartReaping
  <2>6. OutcomeOK' /\ VerdictOK'
    BY <1>0, <1>1, BoundAssumption
       DEF StartReaping, requireInitAction, OutcomeOK, VerdictOK, ReasonAgrees,
           TypeOK, Handler
  <2>7. UNCHANGED processes
    BY <1>1 DEF StartReaping, requireInitAction
  <2> QED
    BY <2>1, <2>2, <2>3, <2>4, <2>5, <2>6, <2>7, SameProcesses DEF HandshakeInv
<1>2. CASE FindNothing
  <2>1. TypeOK'
    <3>1. init' \in InitState
      BY <1>0, <1>2 DEF FindNothing, TypeOK, InitState
    <3> QED
      BY <1>0, <1>2, <3>1 DEF FindNothing, TypeOK
  <2>2. (InitServes => Linked)'
    BY <1>0, <1>2, OneFrame
       DEF FindNothing, InitServes, Linked, Unheard, Waits, Asked, Answered, Idle,
           InitReaps
  <2>3. Heard'
    BY <1>0, <1>2, OneFrame
       DEF FindNothing, Heard, Waits, Answered, Idle, Blame, Seen, Linked, InitServes, TypeOK
  <2>4. Quiet'
    <3>1. init'.pc = "draining" => NoneLeft
      BY <1>0, <1>2, LastChild DEF FindNothing, TypeOK, InitState
    <3> QED
      BY <1>0, <1>2, <3>1
         DEF FindNothing, Quiet, NoneLeft, NoneRuns, InitServes, Unheard, Waits, Idle
  <2>5. NoLostWakeup' /\ Fate'
    BY <1>0, <1>2
       DEF FindNothing, NoLostWakeup, Zombies, ChildrenOf, Fate, Struck, Waits, Blame, Seen,
           InitServes, InitReaps
  <2>6. OutcomeOK' /\ VerdictOK'
    BY <1>0, <1>2, BoundAssumption
       DEF FindNothing, OutcomeOK, VerdictOK, ReasonAgrees, TypeOK, Handler
  <2>7. UNCHANGED processes
    BY <1>2 DEF FindNothing
  <2> QED
    BY <2>1, <2>2, <2>3, <2>4, <2>5, <2>6, <2>7, SameProcesses DEF HandshakeInv
<1>3. CASE Wake
  <2>1. TypeOK'
    <3>1. init' \in InitState
      BY <1>0, <1>3 DEF Wake, TypeOK, InitState
    <3>2. sigchld' \in [pending: BOOLEAN, buffered: BOOLEAN]
      BY <1>0, <1>3 DEF Wake, TypeOK
    <3> QED
      BY <1>0, <1>3, <3>1, <3>2 DEF Wake, TypeOK
  <2>2. (InitServes => Linked)'
    BY <1>0, <1>3, OneFrame
       DEF Wake, InitServes, Linked, Unheard, Waits, Asked, Answered, Idle, InitReaps
  <2>3. Heard'
    BY <1>0, <1>3, OneFrame
       DEF Wake, Heard, Waits, Answered, Idle, Blame, Seen, Linked, InitServes, TypeOK
  <2>4. Quiet'
    BY <1>0, <1>3, OneFrame
       DEF Wake, Quiet, NoneLeft, NoneRuns, InitServes, Unheard, Waits, Idle
  <2>5. NoLostWakeup' /\ Fate'
    BY <1>0, <1>3
       DEF Wake, NoLostWakeup, Zombies, ChildrenOf, Fate, Struck, Waits, Blame, Seen, InitServes,
           InitReaps
  <2>6. OutcomeOK' /\ VerdictOK'
    BY <1>0, <1>3, BoundAssumption
       DEF Wake, OutcomeOK, VerdictOK, ReasonAgrees, TypeOK, Handler
  <2>7. UNCHANGED processes
    BY <1>3 DEF Wake
  <2> QED
    BY <2>1, <2>2, <2>3, <2>4, <2>5, <2>6, <2>7, SameProcesses DEF HandshakeInv
<1>4. CASE Drain
  <2>1. TypeOK'
    <3>1. init' \in InitState
      BY <1>0, <1>4 DEF Drain, writeInitResponse, TypeOK, InitState
    <3>2. execution \in 1..MaxExecutions
      BY <1>0, <1>4, BoundAssumption
         DEF Drain, writeInitResponse, TypeOK, OutcomeOK, InitServes, InitServes, Linked,
             Unheard, Waits, Answered, Asked, Idle, InitReaps, TypeOK, InitState
    <3>3. responses' \in Seq([phase: {"started", "exited", "ready"}, execution: 1..MaxExecutions,
                          code: Process \union {"sigkill", "none"}])
      BY <1>0, <1>4, <3>2 DEF Drain, writeInitResponse, TypeOK, InitState
    <3> QED
      BY <1>0, <1>4, <3>1, <3>2, <3>3 DEF Drain, writeInitResponse, TypeOK
  <2>2. (InitServes => Linked)'
    <3>1. InitServes /\ handler.pc = "reaping" /\ requests = <<>> /\ responses = <<>>
      BY <1>0, <1>4
         DEF Drain, writeInitResponse, InitServes, Linked, Unheard, Waits, Answered, Asked,
             Idle, InitReaps, TypeOK, InitState
    <3>2. responses' = <<[phase |-> "ready", execution |-> execution, code |-> init.code]>> /\ init.code \in Codes
      BY <1>0, <1>4, <3>1, OneFrame DEF Drain, writeInitResponse, TypeOK, InitState, Codes
    <3>3. Answered("ready")'
      BY <1>4, <3>2 DEF Drain, writeInitResponse, Answered
    <3> QED
      BY <1>0, <1>4, <3>1, <3>3
         DEF Drain, writeInitResponse, InitServes, Linked, Unheard, Waits, Idle, InitReaps,
             TypeOK, InitState
  <2>3. Heard'
    <3>1. InitServes /\ handler.pc = "reaping" /\ requests = <<>> /\ responses = <<>>
      BY <1>0, <1>4
         DEF Drain, writeInitResponse, InitServes, Linked, Unheard, Waits, Answered, Asked,
             Idle, InitReaps, TypeOK, InitState
    <3>2. responses' = <<[phase |-> "ready", execution |-> execution, code |-> init.code]>> /\ init.code \in Codes
      BY <1>0, <1>4, <3>1, OneFrame DEF Drain, writeInitResponse, TypeOK, InitState, Codes
    <3>3. Answered("ready")'
      BY <1>4, <3>2 DEF Drain, writeInitResponse, Answered
    <3>4. Head(responses').code = init.code
      BY <3>2, OneFrame
    <3>5. init.code \in {Main, "sigkill"} /\ (init.code = "sigkill" => Blame')
      BY <1>0, <1>4 DEF Drain, writeInitResponse, Fate, InitReaps, Blame, Seen
    <3> QED
      BY <1>0, <1>4, <3>1, <3>3, <3>4, <3>5 DEF Drain, writeInitResponse, Heard, Waits
  <2>4. Quiet'
    BY <1>0, <1>4, OneFrame
       DEF Drain, writeInitResponse, Quiet, NoneLeft, NoneRuns, InitServes, Unheard, Waits,
           Idle
  <2>5. NoLostWakeup' /\ Fate'
    BY <1>0, <1>4
       DEF Drain, writeInitResponse, NoLostWakeup, Zombies, ChildrenOf, Fate, Struck, Waits,
           Blame, Seen, InitServes, InitReaps
  <2>6. OutcomeOK' /\ VerdictOK'
    BY <1>0, <1>4, BoundAssumption
       DEF Drain, writeInitResponse, OutcomeOK, VerdictOK, ReasonAgrees, TypeOK,
           Handler
  <2>7. UNCHANGED processes
    BY <1>4 DEF Drain, writeInitResponse
  <2> QED
    BY <2>1, <2>2, <2>3, <2>4, <2>5, <2>6, <2>7, SameProcesses DEF HandshakeInv
<1>5. CASE InitFails
  <2>1. TypeOK'
    <3>1. init' \in InitState
      BY <1>0, <1>5 DEF InitFails, InitDies, TypeOK, InitState
    <3> QED
      BY <1>0, <1>5, <3>1 DEF InitFails, InitDies, TypeOK
  <2>2. (InitServes => Linked)'
    BY <1>0, <1>5, OneFrame
       DEF InitFails, InitDies, InitServes, Linked, Unheard, Waits, Asked, Answered, Idle,
           InitReaps
  <2>3. Heard'
    BY <1>0, <1>5, OneFrame
       DEF InitFails, InitDies, Heard, Waits, Answered, Idle, Blame, Seen, Linked, InitServes,
           TypeOK
  <2>4. Quiet'
    BY <1>0, <1>5, OneFrame
       DEF InitFails, InitDies, Quiet, NoneLeft, NoneRuns, InitServes, Unheard, Waits, Idle
  <2>5. NoLostWakeup' /\ Fate'
    BY <1>0, <1>5
       DEF InitFails, InitDies, NoLostWakeup, Zombies, ChildrenOf, Fate, Struck, Waits,
           Blame, Seen, InitServes, InitReaps
  <2>6. OutcomeOK' /\ VerdictOK'
    BY <1>0, <1>5, BoundAssumption
       DEF InitFails, InitDies, OutcomeOK, VerdictOK, ReasonAgrees, TypeOK, Handler
  <2>7. UNCHANGED processes
    BY <1>5 DEF InitFails, InitDies
  <2> QED
    BY <2>1, <2>2, <2>3, <2>4, <2>5, <2>6, <2>7, SameProcesses DEF HandshakeInv
<1>6. CASE Deliver
  <2>1. TypeOK'
    <3>1. sigchld' \in [pending: BOOLEAN, buffered: BOOLEAN]
      BY <1>0, <1>6 DEF Deliver, TypeOK
    <3> QED
      BY <1>0, <1>6, <3>1 DEF Deliver, TypeOK
  <2>2. (InitServes => Linked)'
    BY <1>0, <1>6, OneFrame
       DEF Deliver, InitServes, Linked, Unheard, Waits, Asked, Answered, Idle, InitReaps
  <2>3. Heard'
    BY <1>0, <1>6, OneFrame
       DEF Deliver, Heard, Waits, Answered, Idle, Blame, Seen, Linked, InitServes, TypeOK
  <2>4. Quiet'
    BY <1>0, <1>6, OneFrame
       DEF Deliver, Quiet, NoneLeft, NoneRuns, InitServes, Unheard, Waits, Idle
  <2>5. NoLostWakeup' /\ Fate'
    BY <1>0, <1>6
       DEF Deliver, NoLostWakeup, Zombies, ChildrenOf, Fate, Struck, Waits, Blame, Seen,
           InitServes, InitReaps
  <2>6. OutcomeOK' /\ VerdictOK'
    BY <1>0, <1>6, BoundAssumption
       DEF Deliver, OutcomeOK, VerdictOK, ReasonAgrees, TypeOK, Handler
  <2>7. UNCHANGED processes
    BY <1>6 DEF Deliver
  <2> QED
    BY <2>1, <2>2, <2>3, <2>4, <2>5, <2>6, <2>7, SameProcesses DEF HandshakeInv
<1>7. CASE Cancel
  <2>1. TypeOK'
    <3>1. init' \in InitState
      BY <1>0, <1>7 DEF Cancel, KillInit, InitServes, TypeOK, InitState
    <3> QED
      BY <1>0, <1>7, <3>1 DEF Cancel, KillInit, InitServes, TypeOK
  <2>2. (InitServes => Linked)'
    BY <1>0, <1>7, OneFrame
       DEF Cancel, KillInit, InitServes, Linked, Unheard, Waits, Asked, Answered, Idle,
           InitReaps
  <2>3. Heard'
    BY <1>0, <1>7, OneFrame
       DEF Cancel, KillInit, InitServes, Heard, Waits, Answered, Idle, Blame, Seen, Linked,
           TypeOK
  <2>4. Quiet'
    BY <1>0, <1>7, OneFrame
       DEF Cancel, KillInit, InitServes, Quiet, NoneLeft, NoneRuns, Unheard, Waits, Idle
  <2>5. NoLostWakeup' /\ Fate'
    BY <1>0, <1>7
       DEF Cancel, KillInit, InitServes, NoLostWakeup, Zombies, ChildrenOf, Fate, Struck,
           Waits, Blame, Seen, InitReaps
  <2>6. OutcomeOK' /\ VerdictOK'
    BY <1>0, <1>7, BoundAssumption
       DEF Cancel, KillInit, InitServes, OutcomeOK, VerdictOK, ReasonAgrees, TypeOK,
           Handler
  <2>7. UNCHANGED processes
    BY <1>7 DEF Cancel, KillInit, InitServes
  <2> QED
    BY <2>1, <2>2, <2>3, <2>4, <2>5, <2>6, <2>7, SameProcesses DEF HandshakeInv
<1>8. CASE ForkRefused
  <2>0. /\ UNCHANGED <<handler, requests, responses, sigchld, processes, cgroup, cancelled>>
        /\ UNCHANGED <<execution, outcome>>
        /\ init' = init \/ init' = [init EXCEPT !.pc = "dying"]
        /\ history' \subseteq History
    BY <1>0, <1>8 DEF ForkRefused, InitMeetsLimit, KillInit, InitServes, TypeOK, History
  <2>e. /\ events' \in Events /\ events'.oom = events.oom /\ events'.pids = events.pids + 1
        /\ events.oom \in Int /\ events.pids \in Int
    <3>1. events.pids < MaxEvents /\ events' = [events EXCEPT !.pids = @ + 1]
      BY <1>8 DEF ForkRefused
    <3>2. events \in Events
      BY <1>0 DEF TypeOK
    <3> QED
      BY <3>1, <3>2, BoundAssumption DEF Events
  <2>b. Blame => Blame'
    BY <1>0, <2>0, <2>e, EventBlames
  <2>i. /\ init' \in InitState /\ init'.code = init.code /\ init'.target = init.target
        /\ init'.pc = init.pc \/ (init.pc # "gone" /\ init'.pc = "dying")
    BY <1>0, <1>8, <2>0 DEF ForkRefused, InitMeetsLimit, KillInit, InitServes, WorkloadRuns, TypeOK, InitState
  <2>1. TypeOK'
    BY <1>0, <2>0, <2>e, <2>i DEF TypeOK
  <2>2. (InitServes => Linked)'
    BY <1>0, <2>0, <2>i
       DEF InitServes, Linked, Unheard, Waits, Asked, Answered, Idle, InitReaps
  <2>3. Heard'
    BY <1>0, <2>0, <2>b, <2>i DEF Heard, Waits, Answered, Idle
  <2>4. Quiet'
    BY <1>0, <2>0, <2>i DEF Quiet, NoneLeft, NoneRuns, InitServes, Unheard, Waits, Idle
  <2>5. NoLostWakeup' /\ Fate'
    BY <1>0, <2>0, <2>b, <2>i
       DEF NoLostWakeup, Zombies, ChildrenOf, Fate, Struck, Waits, InitServes, InitReaps
  <2>6. OutcomeOK' /\ VerdictOK'
    <3>1. handler.after.oom \in Int /\ handler.after.pids \in Int
      BY <1>0, BoundAssumption DEF TypeOK, Handler, Events
    <3> QED
      BY <1>0, <2>0, <2>e, <3>1 DEF OutcomeOK, VerdictOK, ReasonAgrees
  <2> QED
    BY <2>0, <2>1, <2>2, <2>3, <2>4, <2>5, <2>6, SameProcesses DEF HandshakeInv
<1> QED
  BY <1>1, <1>2, <1>3, <1>4, <1>5, <1>6, <1>7, <1>8

(* A step that changes neither parents nor who is there, and makes no      *)
(* zombie.                                                                 *)
LEMMA SameForest ==
    ASSUME HandshakeInv,
           \A p \in Process :
               /\ processes'[p].parent = processes[p].parent
               /\ processes'[p].state = "absent" <=> processes[p].state = "absent"
               /\ processes'[p].state = "zombie" => processes[p].state = "zombie"
               /\ processes'[p].state \in {"running", "killed"} => processes'[p].charged
               /\ processes'[p].state \in {"exiting", "zombie"} => processes'[p].status \in {p, "sigkill"}
    PROVE  (\A p \in Process : ProcessOK(p))' /\ Forest'
<1>1. ASSUME NEW p \in Process PROVE ProcessOK(p)'
  <2>1. processes[p].parent \in Process \union {PID1} /\ ProcessOK(p)
    BY DEF HandshakeInv, TypeOK, ProcessEntry
  <2> QED
    BY <2>1 DEF ProcessOK
<1>2. Forest'
  <2>1. PICK rank \in [Process -> Ranks] : Ranking(rank)
    BY DEF HandshakeInv, Forest
  <2>2. Ranking(rank)'
    BY <2>1 DEF Ranking
  <2> QED
    BY <2>2 DEF Forest
<1> QED
  BY <1>1, <1>2

(* The launcher is moved into the cgroup, let go, and started again for    *)
(* the next Execution.                                                     *)
LEMMA LauncherStep ==
    ASSUME HandshakeInv, Attach \/ OpenGate \/ StartWorkload
    PROVE  HandshakeInv'
<1>0. /\ TypeOK /\ (InitServes => Linked) /\ Heard /\ Quiet /\ NoLostWakeup /\ Fate /\ OutcomeOK
      /\ VerdictOK /\ (\A p \in Process : ProcessOK(p)) /\ Main \in Process
  BY DEF HandshakeInv, Process
<1> USE DEF kernelVars, counters, pipes
<1>1. CASE Attach
  <2>0. /\ processes' \in [Process -> ProcessEntry]
        /\ \A q \in Process : /\ processes'[q].state = processes[q].state
                              /\ processes'[q].parent = processes[q].parent
                              /\ processes'[q].status = processes[q].status
                              /\ processes'[q].charged = (processes[q].charged \/ q = Main)
    BY <1>0, <1>1 DEF Attach, TypeOK, ProcessEntry
  <2>1. TypeOK'
    <3>1. handler' \in Handler
      BY <1>0, <1>1 DEF Attach, TypeOK, Handler
    <3> QED
      BY <1>0, <1>1, <2>0, <3>1 DEF Attach, TypeOK
  <2>2. (InitServes => Linked)'
    BY <1>0, <1>1
       DEF Attach, InitServes, Linked, Unheard, Waits, Answered, Asked, Idle, InitReaps,
           TypeOK, InitState
  <2>3. Heard'
    BY <1>0, <1>1 DEF Attach, Heard, Waits, Answered, Idle
  <2>4. Quiet'
    BY <1>0, <1>1, <2>0
       DEF Attach, Quiet, NoneLeft, NoneRuns, InitServes, Unheard, Waits, Idle,
           hostChildPID, ChildrenOf
  <2>5. NoLostWakeup' /\ Fate'
    BY <1>0, <1>1, <2>0
       DEF Attach, NoLostWakeup, Zombies, ChildrenOf, Fate, Struck, Waits, Blame, Seen,
           InitServes, InitReaps
  <2>6. OutcomeOK' /\ VerdictOK'
    BY <1>0, <1>1 DEF Attach, OutcomeOK, VerdictOK, ReasonAgrees
  <2>7. (\A p \in Process : ProcessOK(p))' /\ Forest'
    BY <1>0, <2>0, SameForest DEF ProcessOK
  <2> QED
    BY <2>1, <2>2, <2>3, <2>4, <2>5, <2>6, <2>7 DEF HandshakeInv
<1>2. CASE OpenGate
  <2>a. /\ InitServes /\ Unheard /\ Asked("run") /\ responses = <<>> /\ processes[Main].charged
        /\ handler.pc \notin {"idle", "closing", "reaping", "failing"}
    BY <1>0, <1>2
       DEF OpenGate, requireInitAction, InitServes, Linked, Unheard, Waits, Answered, Asked,
           Idle, InitReaps, TypeOK, InitState, Quiet
  <2>b. requests' = <<>> /\ init' = [init EXCEPT !.pc = "polling", !.target = Main]
    BY <1>2, <2>a, OneFrame DEF OpenGate, requireInitAction, Asked
  <2>0. /\ processes' \in [Process -> ProcessEntry]
        /\ \A q \in Process : /\ processes'[q].state = IF q = Main THEN "running" ELSE processes[q].state
                              /\ processes'[q].parent = processes[q].parent
                              /\ processes'[q].status = processes[q].status
                              /\ processes'[q].charged = processes[q].charged
        /\ processes[Main].state = "gated"
    BY <1>0, <1>2 DEF OpenGate, TypeOK, ProcessEntry, ProcessStates
  <2>1. TypeOK'
    <3>1. init' \in InitState
      BY <1>0, <2>b DEF TypeOK, InitState
    <3>2. requests' \in Seq([action: {"start", "run", "reap"}, execution: 1..MaxExecutions])
      BY <2>b
    <3> QED
      BY <1>0, <1>2, <2>0, <3>1, <3>2 DEF OpenGate, TypeOK
  <2>2. (InitServes => Linked)'
    BY <1>0, <1>2, <2>a, <2>b, ProcessAssumption
       DEF OpenGate, InitServes, Linked, Unheard, Waits, Answered, Asked, Idle, InitReaps,
           TypeOK, InitState
  <2>3. Heard'
    BY <1>0, <1>2, <2>b DEF OpenGate, Heard, Waits, Answered, Idle, Blame, Seen, TypeOK, InitState
  <2>4. Quiet'
    BY <1>0, <1>2, <2>0, <2>a, <2>b
       DEF OpenGate, Quiet, NoneLeft, NoneRuns, InitServes, Unheard, Waits, Idle, TypeOK,
           InitState
  <2>5. NoLostWakeup' /\ Fate'
    <3>1. Struck' => FALSE
      BY <1>0, <2>0 DEF Struck
    <3> QED
      BY <1>0, <2>b, <3>1, ProcessAssumption
         DEF NoLostWakeup, Fate, InitReaps, TypeOK, InitState
  <2>6. OutcomeOK' /\ VerdictOK'
    BY <1>0, <1>2 DEF OpenGate, OutcomeOK, VerdictOK, ReasonAgrees
  <2>7. (\A p \in Process : ProcessOK(p))' /\ Forest'
    BY <1>0, <2>0, <2>a, SameForest DEF ProcessOK
  <2> QED
    BY <2>1, <2>2, <2>3, <2>4, <2>5, <2>6, <2>7 DEF HandshakeInv
<1>3. CASE StartWorkload
  <2>a. /\ InitServes /\ handler.pc = "starting" /\ Asked("start") /\ responses = <<>> /\ NoneLeft
        /\ handler.reader = "none"
    BY <1>0, <1>3
       DEF StartWorkload, requireInitAction, InitServes, Linked, Unheard, Waits, Answered,
           Asked, Idle, InitReaps, TypeOK, InitState, Quiet, Heard, Handler
  <2>b. /\ requests' = <<>> /\ init' = [init EXCEPT !.pc = "gate"]
        /\ responses' = <<[phase |-> "started", execution |-> execution, code |-> "none"]>>
        /\ handler' = handler
    BY <1>3, <2>a, OneFrame DEF StartWorkload, requireInitAction, writeInitResponse, Asked
  <2>0. /\ processes' \in [Process -> ProcessEntry]
        /\ \A q \in Process : /\ processes'[q].state = IF q = Main THEN "gated" ELSE "absent"
                              /\ q = Main => processes'[q].parent = PID1
    BY <1>0, <1>3, <2>a
       DEF StartWorkload, TypeOK, ProcessEntry, ProcessStates, NoneLeft, NoProcess
  <2>1. TypeOK'
    <3>1. init' \in InitState
      BY <1>0, <2>b DEF TypeOK, InitState
    <3>2. execution \in 1..MaxExecutions
      BY <1>0, <2>a, BoundAssumption DEF TypeOK, OutcomeOK
    <3>3. /\ requests' \in Seq([action: {"start", "run", "reap"}, execution: 1..MaxExecutions])
          /\ responses' \in Seq([phase: {"started", "exited", "ready"},
                                 execution: 1..MaxExecutions, code: Process \union {"sigkill", "none"}])
      BY <2>b, <3>2
    <3> QED
      BY <1>0, <1>3, <2>0, <3>1, <3>3 DEF StartWorkload, TypeOK
  <2>c. Answered("started")'
    <3>1. execution' = execution
      BY <1>3 DEF StartWorkload
    <3> QED
      BY <2>b, <3>1 DEF Answered, Codes
  <2>2. (InitServes => Linked)'
    BY <1>0, <2>a, <2>b, <2>c
       DEF Linked, InitServes, Unheard, Waits, Idle, InitReaps, TypeOK, InitState
  <2>3. Heard'
    BY <1>0, <1>3, <2>a, <2>b, <2>c DEF StartWorkload, Heard, Waits, Idle
  <2>4. Quiet'
    BY <1>0, <1>3, <2>0, <2>a, <2>b
       DEF StartWorkload, Quiet, NoneLeft, NoneRuns, InitServes, Unheard, Waits, Idle,
           TypeOK, InitState
  <2>5. NoLostWakeup' /\ Fate'
    <3>1. Struck' => FALSE
      BY <1>0, <2>0 DEF Struck
    <3> QED
      BY <1>0, <2>b, <3>1 DEF NoLostWakeup, Fate, InitReaps, TypeOK, InitState
  <2>6. OutcomeOK' /\ VerdictOK'
    BY <1>0, <1>3 DEF StartWorkload, OutcomeOK, VerdictOK, ReasonAgrees
  <2>7. (\A p \in Process : ProcessOK(p))' /\ Forest'
    <3>1. (\A p \in Process : ProcessOK(p))'
      BY <2>0 DEF ProcessOK
    <3>2. PICK rank \in [Process -> Ranks] : Ranking(rank)
      BY DEF HandshakeInv, Forest
    <3>3. Ranking(rank)'
      BY <2>0 DEF Ranking
    <3> QED
      BY <3>1, <3>2, <3>3 DEF Forest
  <2> QED
    BY <2>1, <2>2, <2>3, <2>4, <2>5, <2>6, <2>7 DEF HandshakeInv
<1> QED
  BY <1>1, <1>2, <1>3

(* A zombie is collected.  It has no children, so the forest stays one.    *)
LEMMA Collected ==
    ASSUME HandshakeInv, NEW p \in Process, processes[p].state = "zombie",
           processes' = [processes EXCEPT ![p] = NoProcess]
    PROVE  /\ processes' \in [Process -> ProcessEntry]
           /\ processes'[p].state = "absent"
           /\ \A q \in Process : q # p => processes'[q] = processes[q]
           /\ (\A q \in Process : ProcessOK(q))' /\ Forest'
<1>1. processes \in [Process -> ProcessEntry] /\ \A q \in Process : ProcessOK(q)
  BY DEF HandshakeInv, TypeOK
<1>2. NoProcess \in ProcessEntry
  BY DEF NoProcess, ProcessEntry, ProcessStates
<1>3. /\ processes' \in [Process -> ProcessEntry] /\ processes'[p].state = "absent"
      /\ \A q \in Process : q # p => processes'[q] = processes[q]
  BY <1>1, <1>2 DEF NoProcess
<1>4. \A q \in Process : processes[q].state # "absent" => processes[q].parent # p
  <2>1. p # PID1
    BY ProcessAssumption DEF Process
  <2> QED
    BY <1>1, <2>1 DEF ProcessOK
<1>5. ASSUME NEW q \in Process PROVE ProcessOK(q)'
  <2>1. processes[q].parent \in Process \union {PID1}
    BY <1>1 DEF ProcessEntry
  <2> QED
    BY <1>1, <1>3, <1>4, <2>1 DEF ProcessOK
<1>6. Forest'
  <2>1. PICK rank \in [Process -> Ranks] : Ranking(rank)
    BY DEF HandshakeInv, Forest
  <2>2. Ranking(rank)'
    BY <1>3, <2>1 DEF Ranking
  <2> QED
    BY <2>2 DEF Forest
<1> QED
  BY <1>3, <1>5, <1>6

(* Init collects a child.  The status of the main process is its own, or   *)
(* that of a SIGKILL with a known cause.                                   *)
LEMMA ReapStep ==
    ASSUME HandshakeInv, NEW p \in Process, Reap(p)
    PROVE  HandshakeInv'
<1>0. /\ TypeOK /\ (InitServes => Linked) /\ Heard /\ Quiet /\ NoLostWakeup /\ Fate /\ OutcomeOK
      /\ VerdictOK /\ (\A q \in Process : ProcessOK(q)) /\ Main \in Process
  BY DEF HandshakeInv, Process
<1> USE DEF kernelVars, counters, pipes
<1>1. /\ processes[p].state = "zombie" /\ init.pc = "polling" /\ InitServes
      /\ processes' = [processes EXCEPT ![p] = NoProcess]
      /\ UNCHANGED <<handler, requests, sigchld, cgroup, events, history, cancelled, execution, outcome>>
  BY DEF Reap, Zombies, InitServes
<1>2. /\ processes' \in [Process -> ProcessEntry] /\ processes'[p].state = "absent"
      /\ \A q \in Process : q # p => processes'[q] = processes[q]
      /\ (\A q \in Process : ProcessOK(q))' /\ Forest'
  BY <1>1, Collected
<1>3. Blame' <=> Blame
  BY <1>1 DEF Blame, Seen
<1>4. CASE init.target = Main /\ p = Main
  <2>1. /\ Unheard /\ requests = <<>> /\ responses = <<>>
        /\ handler.pc \notin {"idle", "closing", "reaping", "failing", "starting"}
    BY <1>0, <1>1, <1>4
       DEF InitServes, Linked, Unheard, Waits, Answered, Asked, Idle, InitReaps, TypeOK,
           InitState
  <2>2. /\ init' = [init EXCEPT !.pc = "exited", !.code = processes[p].status]
        /\ responses' = <<[phase |-> "exited", execution |-> execution, code |-> processes[p].status]>>
    BY <1>4, <2>1, OneFrame, ProcessAssumption
       DEF Reap, IsTarget, writeInitResponse, Process
  <2>3. processes[p].status \in {Main, "sigkill"} /\ (processes[p].status = "sigkill" => Struck)
    BY <1>0, <1>1, <1>4 DEF ProcessOK, Struck
  <2>4. TypeOK'
    <3>1. init' \in InitState
      BY <1>0, <2>2, <2>3 DEF TypeOK, InitState
    <3>2. execution \in 1..MaxExecutions
      BY <1>0, <2>1, BoundAssumption DEF TypeOK, OutcomeOK
    <3>3. responses' \in Seq([phase: {"started", "exited", "ready"},
                              execution: 1..MaxExecutions, code: Process \union {"sigkill", "none"}])
      BY <1>0, <2>2, <2>3, <3>2
    <3> QED
      BY <1>0, <1>1, <1>2, <3>1, <3>3 DEF TypeOK
  <2>5. Answered("exited")'
    BY <1>0, <1>1, <2>2, <2>3 DEF Answered, Codes
  <2>6. (InitServes => Linked)'
    BY <1>0, <1>1, <2>1, <2>2, <2>5
       DEF Linked, InitServes, Unheard, Waits, Idle, InitReaps, TypeOK, InitState
  <2>7. Heard'
    <3>1. handler.reader # "got" /\ ~(handler.pc = "killing" /\ ~handler.waitErr)
      BY <1>0, <2>1 DEF Unheard, Waits, Heard
    <3> QED
      BY <1>0, <1>1, <2>1, <2>2, <2>5, <3>1
         DEF Heard, Waits, Idle, Unheard, TypeOK, InitState
  <2>8. Quiet'
    BY <1>0, <1>1, <1>2, <2>1, <2>2
       DEF Quiet, NoneLeft, NoneRuns, InitServes, TypeOK, InitState
  <2>9. NoLostWakeup' /\ Fate'
    <3>1. ~Struck'
      BY <1>2, <1>4 DEF Struck
    <3>2. init'.pc = "exited" /\ init'.code = processes[p].status
      BY <1>0, <2>2 DEF TypeOK, InitState
    <3>3. ~handler.waitErr => Waits
      BY <2>1 DEF Unheard
    <3>4. ~handler.waitErr => (init'.code = "sigkill" => Blame)
      BY <1>0, <1>1, <2>3, <3>2, <3>3 DEF Fate
    <3> QED
      BY <1>1, <1>3, <2>3, <3>1, <3>2, <3>4 DEF NoLostWakeup, Fate, InitReaps
  <2>10. OutcomeOK' /\ VerdictOK'
    BY <1>0, <1>1 DEF OutcomeOK, VerdictOK, ReasonAgrees
  <2> QED
    BY <1>2, <2>4, <2>6, <2>7, <2>8, <2>9, <2>10 DEF HandshakeInv
<1>5. CASE ~(init.target = Main /\ p = Main)
  <2>1. UNCHANGED <<init, responses>>
    <3>1. init.target # "none" => init.target = Main
      BY <1>0, <1>1 DEF Linked
    <3> QED
      BY <1>5, <3>1 DEF Reap, IsTarget
  <2>2. TypeOK'
    BY <1>0, <1>1, <1>2, <2>1 DEF TypeOK
  <2>3. (InitServes => Linked)'
    BY <1>0, <1>1, <2>1
       DEF InitServes, Linked, Unheard, Waits, Answered, Asked, Idle, InitReaps, TypeOK,
           InitState
  <2>4. Heard'
    BY <1>0, <1>1, <1>3, <2>1 DEF Heard, Waits, Answered, Idle
  <2>5. Quiet'
    BY <1>0, <1>1, <1>2, <2>1 DEF Quiet, NoneLeft, NoneRuns, InitServes, Unheard, Waits
  <2>6. NoLostWakeup' /\ Fate'
    BY <1>0, <1>1, <1>2, <1>3, <2>1
       DEF NoLostWakeup, Fate, Struck, Waits, InitServes, InitReaps
  <2>7. OutcomeOK' /\ VerdictOK'
    BY <1>0, <1>1 DEF OutcomeOK, VerdictOK, ReasonAgrees
  <2> QED
    BY <1>2, <2>2, <2>3, <2>4, <2>5, <2>6, <2>7 DEF HandshakeInv
<1> QED
  BY <1>4, <1>5

(* A step of the processes alone: who was not there, or did not run, does  *)
(* not start, and what Init could collect it is told about.                *)
LEMMA ProcessesStep ==
    ASSUME HandshakeInv,
           UNCHANGED <<handler, init, requests, responses, cgroup, events, history, cancelled, execution, outcome>>,
           processes' \in [Process -> ProcessEntry],
           sigchld' \in [pending: BOOLEAN, buffered: BOOLEAN],
           NoneLeft => NoneLeft', NoneRuns => NoneRuns',
           processes'[Main].state = "gated" => processes[Main].state = "gated",
           init.pc = "gate" /\ processes[Main].charged => processes'[Main].charged,
           init.pc = "asleep" => NoLostWakeup',
           Struck' => Struck,
           (\A q \in Process : ProcessOK(q))', Forest'
    PROVE  HandshakeInv'
<1>0. /\ TypeOK /\ (InitServes => Linked) /\ Heard /\ Quiet /\ NoLostWakeup /\ Fate /\ OutcomeOK
      /\ VerdictOK /\ (\A q \in Process : ProcessOK(q)) /\ Main \in Process
  BY DEF HandshakeInv, Process
<1> USE DEF kernelVars, counters, pipes
<1>1. TypeOK'
  BY <1>0 DEF TypeOK
<1>2. (InitServes => Linked)'
  BY <1>0
     DEF InitServes, Linked, Unheard, Waits, Answered, Asked, Idle, InitReaps, TypeOK,
         InitState
<1>3. Heard'
  BY <1>0 DEF Heard, Waits, Answered, Idle, Blame, Seen
<1>4. Quiet'
  BY <1>0 DEF Quiet, InitServes, Unheard, Waits, Idle
<1>5. NoLostWakeup' /\ Fate'
  BY <1>0 DEF NoLostWakeup, Fate, Waits, Blame, Seen, InitServes, InitReaps
<1>6. OutcomeOK' /\ VerdictOK'
  BY <1>0 DEF OutcomeOK, VerdictOK, ReasonAgrees
<1> QED
  BY <1>1, <1>2, <1>3, <1>4, <1>5, <1>6 DEF HandshakeInv

(* The Workload forks and collects, a process ends, and its parent is told.*)
(* A new process ranks below the one that forked it, and no other has a    *)
(* parent that was not there.                                              *)
LEMMA WorkloadStep ==
    ASSUME HandshakeInv, NEW p \in Process,
           (\E c \in Descendants : Fork(p, c) \/ Collect(p, c)) \/ Exit(p) \/ Notify(p)
    PROVE  HandshakeInv'
<1>0. /\ processes \in [Process -> ProcessEntry] /\ sigchld \in [pending: BOOLEAN, buffered: BOOLEAN]
      /\ NoLostWakeup /\ (\A q \in Process : ProcessOK(q)) /\ Main \in Process
      /\ p # PID1 /\ PID1 \notin Process
  BY ProcessAssumption DEF HandshakeInv, TypeOK, Process
<1> USE DEF kernelVars, counters, pipes
<1>1. ASSUME NEW c \in Descendants, Fork(p, c) PROVE HandshakeInv'
  <2>1. /\ processes[p].state = "running" /\ processes[c].state = "absent"
        /\ c \in Process /\ c # Main /\ c # p /\ c # PID1
        /\ UNCHANGED <<handler, init, requests, responses, cgroup, events, history, cancelled, execution, outcome>>
        /\ sigchld' = sigchld
    BY <1>0, <1>1, ProcessAssumption DEF Fork, Process
  <2>2. PICK parent \in {p, PID1} :
          processes' = [processes EXCEPT ![c] =
              [state |-> "running", parent |-> parent, status |-> "none",
               charged |-> processes[p].charged]]
    BY <1>1 DEF Fork
  <2>3. /\ processes'[c].state = "running" /\ processes'[c].parent = parent
        /\ processes'[c].charged = processes[p].charged
        /\ \A q \in Process : q # c => processes'[q] = processes[q]
    BY <1>0, <2>1, <2>2
  <2>4. processes' \in [Process -> ProcessEntry]
    <3>1. processes[p].charged \in BOOLEAN
      BY <1>0 DEF ProcessEntry
    <3>2. [state |-> "running", parent |-> parent, status |-> "none",
           charged |-> processes[p].charged] \in ProcessEntry
      BY <3>1 DEF ProcessEntry, ProcessStates
    <3> QED
      BY <1>0, <2>2, <3>2
  <2>5. \A q \in Process : processes[q].state # "absent" => processes[q].parent # c
    BY <1>0, <2>1 DEF ProcessOK
  <2>6. ASSUME NEW q \in Process PROVE ProcessOK(q)'
    <3>1. processes[q].parent \in Process \union {PID1} /\ ProcessOK(q) /\ ProcessOK(p)
      BY <1>0 DEF ProcessEntry
    <3>2. CASE q = c
      BY <1>0, <2>1, <2>3, <3>1, <3>2 DEF ProcessOK
    <3>3. CASE q # c
      BY <2>1, <2>3, <2>5, <3>1, <3>3 DEF ProcessOK
    <3> QED
      BY <3>2, <3>3
  <2>7. Forest'
    <3>1. PICK rank \in [Process -> Ranks] : Ranking(rank)
      BY DEF HandshakeInv, Forest
    <3> DEFINE below == [rank EXCEPT ![c] = rank[p] + 1]
    <3>2. /\ below \in [Process -> Ranks] /\ below[c] = rank[p] + 1 /\ rank[p] \in Nat
          /\ \A q \in Process : q # c => below[q] = rank[q]
      BY <2>1 DEF Ranks
    <3>3. ASSUME NEW q \in Process, processes'[q].state # "absent", processes'[q].parent # PID1
          PROVE  below[processes'[q].parent] < below[q]
      <4>1. CASE q = c
        BY <2>1, <2>3, <3>2, <3>3, <4>1
      <4>2. CASE q # c
        <5>1. processes[q].parent \in Process /\ processes[q].parent # c
          BY <1>0, <2>3, <2>5, <3>3, <4>2 DEF ProcessEntry
        <5> QED
          BY <2>3, <3>1, <3>2, <3>3, <4>2, <5>1 DEF Ranking
      <4> QED
        BY <4>1, <4>2
    <3>4. Ranking(below)'
      BY <3>3 DEF Ranking
    <3> HIDE DEF below
    <3> QED
      BY <3>2, <3>4 DEF Forest
  <2>8. NoLostWakeup'
    BY <1>0, <2>1, <2>3 DEF NoLostWakeup, Zombies, ChildrenOf
  <2>9. (NoneLeft => NoneLeft') /\ (NoneRuns => NoneRuns') /\ (Struck' => Struck)
    BY <1>0, <2>1, <2>3 DEF NoneLeft, NoneRuns, Struck
  <2> QED
    BY <1>0, <2>1, <2>3, <2>4, <2>6, <2>7, <2>8, <2>9, ProcessesStep
<1>2. ASSUME NEW c \in Descendants, Collect(p, c) PROVE HandshakeInv'
  <2>1. /\ processes[c].state = "zombie" /\ c \in Process /\ c # Main
        /\ processes' = [processes EXCEPT ![c] = NoProcess]
        /\ UNCHANGED <<handler, init, requests, responses, cgroup, events, history, cancelled, execution, outcome>>
        /\ sigchld' = sigchld
    BY <1>2, ProcessAssumption DEF Collect, Zombies, ChildrenOf, Process
  <2>2. /\ processes' \in [Process -> ProcessEntry] /\ processes'[c].state = "absent"
        /\ \A q \in Process : q # c => processes'[q] = processes[q]
        /\ (\A q \in Process : ProcessOK(q))' /\ Forest'
    BY <2>1, Collected
  <2>3. NoLostWakeup'
    BY <1>0, <2>1, <2>2 DEF NoLostWakeup, Zombies, ChildrenOf
  <2>4. (NoneLeft => NoneLeft') /\ (NoneRuns => NoneRuns') /\ (Struck' => Struck)
    BY <1>0, <2>1, <2>2 DEF NoneLeft, NoneRuns, Struck
  <2> QED
    BY <1>0, <2>1, <2>2, <2>3, <2>4, ProcessesStep
<1>3. CASE Exit(p)
  <2>1. /\ Live(p)
        /\ UNCHANGED <<handler, init, requests, responses, cgroup, events, history, cancelled, execution, outcome>>
        /\ sigchld' = sigchld
    BY <1>3 DEF Exit
  <2>2. /\ processes'[p].state = "exiting" /\ processes'[p].parent = processes[p].parent
        /\ processes'[p].charged = processes[p].charged
        /\ processes'[p].status = IF processes[p].state = "killed" THEN "sigkill" ELSE p
        /\ \A q \in Process : q # p => processes'[q] = processes[q]
        /\ processes' \in [Process -> ProcessEntry]
    <3> DEFINE ended == [processes[p] EXCEPT !.state = "exiting", !.status =
                            IF processes[p].state = "killed" THEN "sigkill" ELSE p]
    <3>1. processes' = [processes EXCEPT ![p] = ended]
      BY <1>0, <1>3 DEF Exit, ProcessEntry
    <3>2. /\ ended.state = "exiting" /\ ended.parent = processes[p].parent
          /\ ended.charged = processes[p].charged
          /\ ended.status = IF processes[p].state = "killed" THEN "sigkill" ELSE p
          /\ ended \in ProcessEntry
      <4>1. processes[p] \in ProcessEntry /\ "exiting" \in ProcessStates
        BY <1>0 DEF ProcessStates
      <4> QED
        BY <4>1 DEF ProcessEntry
    <3> HIDE DEF ended
    <3> QED
      BY <1>0, <3>1, <3>2
  <2>3. (\A q \in Process : ProcessOK(q))' /\ Forest'
    <3>1. ASSUME NEW q \in Process
          PROVE  /\ processes'[q].parent = processes[q].parent
                 /\ processes'[q].state = "absent" <=> processes[q].state = "absent"
                 /\ processes'[q].state = "zombie" => processes[q].state = "zombie"
                 /\ processes'[q].state \in {"running", "killed"} => processes'[q].charged
                 /\ processes'[q].state \in {"exiting", "zombie"} => processes'[q].status \in {q, "sigkill"}
      BY <1>0, <2>1, <2>2 DEF Live, ProcessOK
    <3> QED
      BY <3>1, SameForest
  <2>4. NoLostWakeup'
    BY <1>0, <2>1, <2>2 DEF NoLostWakeup, Zombies, ChildrenOf
  <2>5. (NoneLeft => NoneLeft') /\ (NoneRuns => NoneRuns')
    BY <1>0, <2>1, <2>2 DEF NoneLeft, NoneRuns, Live
  <2>6. Struck' => Struck
    BY <1>0, <2>1, <2>2, ProcessAssumption DEF Struck, Live, Process
  <2> QED
    BY <1>0, <2>1, <2>2, <2>3, <2>4, <2>5, <2>6, ProcessesStep
<1>4. CASE Notify(p)
  <2>1. /\ processes[p].state = "exiting"
        /\ UNCHANGED <<handler, init, requests, responses, cgroup, events, history, cancelled, execution, outcome>>
        /\ sigchld' = IF processes[p].parent = PID1 \/ Zombies(p) # {}
                      THEN [sigchld EXCEPT !.pending = TRUE] ELSE sigchld
    BY <1>4 DEF Notify
  <2>2. /\ processes'[p] = [processes[p] EXCEPT !.state = "zombie"]
        /\ \A q \in Process : q # p => processes'[q] =
              IF q \in ChildrenOf(p) THEN [processes[q] EXCEPT !.parent = PID1] ELSE processes[q]
        /\ processes' = [q \in Process |-> processes'[q]]
    BY <1>4 DEF Notify
  <2>3. ASSUME NEW q \in Process
        PROVE  /\ processes'[q] \in ProcessEntry
               /\ processes'[q].state = IF q = p THEN "zombie" ELSE processes[q].state
               /\ processes'[q].charged = processes[q].charged
               /\ processes'[q].status = processes[q].status
               /\ processes'[q].parent = IF q # p /\ q \in ChildrenOf(p) THEN PID1 ELSE processes[q].parent
    BY <1>0, <2>2 DEF ProcessEntry, ProcessStates
  <2>4. processes' \in [Process -> ProcessEntry]
    BY <2>2, <2>3
  <2>5. PICK rank \in [Process -> Ranks] : Ranking(rank)
    BY DEF HandshakeInv, Forest
  <2>6. processes[p].parent # p
    <3>1. rank[p] \in Nat /\ ~(rank[p] < rank[p])
      BY <2>5 DEF Ranks
    <3> QED
      BY <1>0, <2>1, <2>5, <3>1 DEF Ranking
  <2>7. ASSUME NEW q \in Process PROVE ProcessOK(q)'
    <3>1. processes[q].parent \in Process \union {PID1} /\ ProcessOK(q)
      BY <1>0 DEF ProcessEntry
    <3>2. CASE q = p
      BY <1>0, <2>1, <2>3, <2>6, <3>1, <3>2 DEF ProcessOK
    <3>3. CASE q # p
      BY <1>0, <2>1, <2>3, <3>1, <3>3 DEF ProcessOK, ChildrenOf
    <3> QED
      BY <3>2, <3>3
  <2>8. Forest'
    <3>1. Ranking(rank)'
      BY <2>1, <2>3, <2>5 DEF Ranking
    <3> QED
      BY <2>5, <3>1 DEF Forest
  <2>9. sigchld' \in [pending: BOOLEAN, buffered: BOOLEAN]
    BY <1>0, <2>1
  <2>10. NoLostWakeup'
    <3> SUFFICES ASSUME init.pc = "asleep", NEW q \in Process, q \in Zombies(PID1)'
                 PROVE  sigchld'.pending \/ sigchld'.buffered
      BY <2>1 DEF NoLostWakeup, Zombies, ChildrenOf
    <3>1. processes'[q].state = "zombie" /\ processes'[q].parent = PID1
      BY DEF Zombies, ChildrenOf
    <3>2. CASE processes[p].parent = PID1 \/ Zombies(p) # {}
      BY <1>0, <2>1, <3>2
    <3>3. CASE ~(processes[p].parent = PID1 \/ Zombies(p) # {})
      <4>1. q # p /\ processes[q].state = "zombie" /\ processes[q].parent = PID1
        BY <2>1, <2>3, <3>1, <3>3 DEF Zombies, ChildrenOf
      <4>2. q \in Zombies(PID1)
        BY <4>1 DEF Zombies, ChildrenOf
      <4> QED
        BY <1>0, <2>1, <3>3, <4>2 DEF NoLostWakeup
    <3> QED
      BY <3>2, <3>3
  <2>11. (NoneLeft => NoneLeft') /\ (NoneRuns => NoneRuns') /\ (Struck' => Struck)
    BY <1>0, <2>1, <2>3 DEF NoneLeft, NoneRuns, Struck
  <2> QED
    BY <1>0, <2>1, <2>3, <2>4, <2>7, <2>8, <2>9, <2>10, <2>11, ProcessesStep
<1> QED
  BY <1>1, <1>2, <1>3, <1>4


(* The OOM killer, which leaves its mark in the counter before the main    *)
(* process can die of it, and the end of the namespace.                    *)
LEMMA KernelStep ==
    ASSUME HandshakeInv, OutOfMemory \/ NamespaceEnds
    PROVE  HandshakeInv'
<1>0. /\ TypeOK /\ (InitServes => Linked) /\ Heard /\ Quiet /\ NoLostWakeup /\ Fate /\ OutcomeOK
      /\ VerdictOK /\ (\A q \in Process : ProcessOK(q)) /\ Main \in Process
  BY DEF HandshakeInv, Process
<1> USE DEF kernelVars, counters, pipes
<1>1. CASE OutOfMemory
  <2>1. /\ processes' = KilledGroup
        /\ UNCHANGED <<handler, requests, responses, sigchld, cgroup, cancelled, execution, outcome>>
        /\ history' \subseteq History
    BY <1>0, <1>1 DEF OutOfMemory, InitMeetsLimit, TypeOK, History
  <2>2. /\ processes' \in [Process -> ProcessEntry]
        /\ \A p \in Process :
              /\ processes'[p].state = "absent" <=> processes[p].state = "absent"
              /\ processes'[p].state = "zombie" <=> processes[p].state = "zombie"
              /\ processes'[p].state = "running" => processes[p].state = "running"
              /\ processes'[p].state = "gated" => processes[p].state = "gated"
              /\ processes'[p].parent = processes[p].parent
              /\ processes'[p].charged = processes[p].charged
        /\ (\A p \in Process : ProcessOK(p))' /\ Forest'
    BY <2>1, GroupKilled
  <2>3. /\ events' \in Events /\ events'.oom = events.oom + 1 /\ events'.pids = events.pids
        /\ events.oom \in Int /\ events.pids \in Int
    <3>1. events.oom < MaxEvents /\ events' = [events EXCEPT !.oom = @ + 1]
      BY <1>1 DEF OutOfMemory
    <3>2. events \in Events
      BY <1>0 DEF TypeOK
    <3> QED
      BY <3>1, <3>2, BoundAssumption DEF Events
  <2>4. Blame => Blame'
    BY <1>0, <2>1, <2>3, EventBlames
  <2>5. handler.pc \notin {"counted", "reaping"} => Blame'
    <3>1. /\ handler.before.oom \in Int /\ handler.after.oom \in Int
          /\ handler.before.oom <= handler.after.oom /\ handler.after.oom <= events.oom
      BY <1>0, BoundAssumption DEF TypeOK, Handler, Events, OutcomeOK
    <3> QED
      BY <2>1, <2>3, <3>1 DEF Blame, Seen
  <2>i. /\ init' \in InitState /\ init'.code = init.code /\ init'.target = init.target
        /\ init'.pc = init.pc \/ (init.pc # "gone" /\ init'.pc = "dying")
    BY <1>0, <1>1 DEF OutOfMemory, InitMeetsLimit, KillInit, InitServes, TypeOK, InitState
  <2>6. TypeOK'
    BY <1>0, <2>1, <2>2, <2>3, <2>i DEF TypeOK
  <2>7. (InitServes => Linked)'
    BY <1>0, <2>1, <2>i
       DEF InitServes, Linked, Unheard, Waits, Answered, Asked, Idle, InitReaps
  <2>8. Heard'
    BY <1>0, <2>1, <2>4, <2>i DEF Heard, Waits, Answered, Idle
  <2>9. Quiet'
    BY <1>0, <2>1, <2>2, <2>i DEF Quiet, NoneLeft, NoneRuns, InitServes, Unheard, Waits, Idle
  <2>10. NoLostWakeup' /\ Fate'
    <3>1. NoLostWakeup'
      BY <1>0, <2>1, <2>2, <2>i DEF NoLostWakeup, Zombies, ChildrenOf
    <3>2. Waits \/ handler.pc \in {"starting", "attaching", "releasing"} => Blame'
      BY <2>5 DEF Waits
    <3> QED
      BY <1>0, <2>1, <2>4, <2>i, <3>1, <3>2 DEF Fate, InitReaps, InitServes, Waits
  <2>11. OutcomeOK' /\ VerdictOK'
    <3>1. handler.after.oom \in Int /\ handler.after.pids \in Int
      BY <1>0, BoundAssumption DEF TypeOK, Handler, Events
    <3> QED
      BY <1>0, <2>1, <2>3, <3>1 DEF OutcomeOK, VerdictOK, ReasonAgrees
  <2> QED
    BY <2>2, <2>6, <2>7, <2>8, <2>9, <2>10, <2>11 DEF HandshakeInv
<1>2. CASE NamespaceEnds
  <2>1. /\ init.pc = "dying" /\ init' = [init EXCEPT !.pc = "gone"]
        /\ processes' = [p \in Process |-> NoProcess]
        /\ UNCHANGED <<handler, requests, responses, sigchld, cgroup, events, history, cancelled, execution, outcome>>
    BY <1>2 DEF NamespaceEnds
  <2>2. init'.pc = "gone" /\ init' \in InitState
    BY <1>0, <2>1 DEF TypeOK, InitState
  <2>3. /\ processes' \in [Process -> ProcessEntry]
        /\ \A p \in Process : processes'[p].state = "absent"
    BY <2>1 DEF NoProcess, ProcessEntry, ProcessStates
  <2>4. TypeOK'
    BY <1>0, <2>1, <2>2, <2>3 DEF TypeOK
  <2>5. (\A p \in Process : ProcessOK(p))'
    BY <2>3 DEF ProcessOK
  <2>6. Forest'
    <3>1. PICK rank \in [Process -> Ranks] : Ranking(rank)
      BY DEF HandshakeInv, Forest
    <3>2. Ranking(rank)'
      BY <2>3 DEF Ranking
    <3> QED
      BY <3>2 DEF Forest
  <2>7. Heard'
    BY <1>0, <2>1, <2>2 DEF Heard, Waits, Answered, Idle, Blame, Seen
  <2>8. Quiet'
    BY <2>2, <2>3 DEF Quiet, NoneLeft, NoneRuns, InitServes
  <2>9. NoLostWakeup' /\ Fate' /\ ~InitServes'
    BY <2>2 DEF NoLostWakeup, Fate, InitServes, InitReaps
  <2>10. OutcomeOK' /\ VerdictOK'
    BY <1>0, <2>1 DEF OutcomeOK, VerdictOK, ReasonAgrees
  <2> QED
    BY <2>4, <2>5, <2>6, <2>7, <2>8, <2>9, <2>10 DEF HandshakeInv
<1> QED
  BY <1>1, <1>2

(* A Sandbox before its first Execution.                                   *)
LEMMA HandshakeInit == Init => HandshakeInv
<1> SUFFICES ASSUME Init PROVE HandshakeInv
  OBVIOUS
<1>1. /\ processes \in [Process -> ProcessEntry]
      /\ \A p \in Process : processes[p].state = "absent"
  BY DEF Init, NoProcess, ProcessEntry, ProcessStates
<1>2. /\ handler.pc = "idle" /\ handler.reader = "none" /\ ~handler.waitErr /\ handler.before = events
      /\ events.oom = 0 /\ events.pids = 0 /\ handler.before.oom = 0 /\ handler.before.pids = 0
      /\ handler.after.oom = 0 /\ handler.after.pids = 0
      /\ init.pc = "main" /\ init.target = "none" /\ requests = <<>> /\ responses = <<>>
      /\ cgroup = FALSE /\ outcome.kind = "none"
  BY DEF Init, NoEvents, NoOutcome
<1>3. TypeOK
  <2>1. handler \in Handler
    BY BoundAssumption DEF Init, Handler, NoEvents, Events
  <2>2. init \in InitState /\ outcome \in Outcome
    BY DEF Init, InitState, Outcome, NoOutcome, Reasons
  <2>3. events \in Events /\ execution \in 0..MaxExecutions /\ history \subseteq History
    BY BoundAssumption DEF Init, NoEvents, Events
  <2>4. /\ sigchld \in [pending: BOOLEAN, buffered: BOOLEAN]
        /\ cgroup \in BOOLEAN /\ cancelled \in BOOLEAN
    BY DEF Init
  <2>5. requests \in Seq([action: {"start", "run", "reap"}, execution: 1..MaxExecutions])
    BY <1>2
  <2>6. responses \in Seq([phase: {"started", "exited", "ready"},
                           execution: 1..MaxExecutions, code: Process \union {"sigkill", "none"}])
    BY <1>2
  <2> QED
    BY <1>1, <2>1, <2>2, <2>3, <2>4, <2>5, <2>6 DEF TypeOK
<1>4. InitServes => Linked
  BY <1>2 DEF Linked, InitReaps, Idle
<1>5. Heard /\ Quiet
  BY <1>1, <1>2 DEF Heard, Quiet, Waits, Idle, NoneLeft, NoneRuns
<1>6. (\A p \in Process : ProcessOK(p)) /\ Forest
  <2>1. \A p \in Process : ProcessOK(p)
    BY <1>1 DEF ProcessOK
  <2> DEFINE flat == [p \in Process |-> 0]
  <2>2. flat \in [Process -> Ranks] /\ Ranking(flat)
    BY <1>1 DEF Ranks, Ranking
  <2> HIDE DEF flat
  <2> QED
    BY <2>1, <2>2 DEF Forest
<1>7. NoLostWakeup /\ Fate
  BY <1>1, <1>2 DEF NoLostWakeup, Fate, Struck, Waits, InitReaps, Process
<1>8. OutcomeOK /\ VerdictOK
  BY <1>2 DEF OutcomeOK, VerdictOK
<1> QED
  BY <1>3, <1>4, <1>5, <1>6, <1>7, <1>8 DEF HandshakeInv

(* Nothing happens.                                                        *)
LEMMA HandshakeStutters ==
    ASSUME HandshakeInv, UNCHANGED vars
    PROVE  HandshakeInv'
<1>0. /\ TypeOK /\ (InitServes => Linked) /\ Heard /\ Quiet /\ NoLostWakeup /\ Fate /\ OutcomeOK
      /\ VerdictOK
  BY DEF HandshakeInv
<1> USE DEF vars
<1>1. TypeOK' /\ (InitServes => Linked)'
  BY <1>0 DEF TypeOK, InitServes, Linked, Unheard, Waits, Answered, Asked, Idle, InitReaps
<1>2. Heard' /\ Quiet'
  BY <1>0
     DEF Heard, Quiet, NoneLeft, NoneRuns, InitServes, Unheard, Waits, Answered, Idle,
         Blame, Seen
<1>3. NoLostWakeup' /\ Fate'
  BY <1>0
     DEF NoLostWakeup, Zombies, ChildrenOf, Fate, Struck, Blame, Seen, InitServes, Waits,
         InitReaps
<1>4. OutcomeOK' /\ VerdictOK'
  BY <1>0 DEF OutcomeOK, VerdictOK, ReasonAgrees
<1> QED
  BY <1>1, <1>2, <1>3, <1>4, SameProcesses DEF HandshakeInv

(* Every step of the handler, of Init, of the Workload and of the kernel.  *)
LEMMA HandshakeNext == HandshakeInv /\ [Next]_vars => HandshakeInv'
<1> SUFFICES ASSUME HandshakeInv, [Next]_vars PROVE HandshakeInv'
  OBVIOUS
<1>1. CASE Execute
  BY <1>1, HandlerStep, KillStep, LauncherStep DEF Execute
<1>2. CASE RunInit
  BY <1>2, InitStep, LauncherStep, ReapStep DEF RunInit
<1>3. CASE Workload
  BY <1>3, InitStep, WorkloadStep, KernelStep DEF Workload
<1>4. CASE Kernel
  BY <1>4, InitStep, WorkloadStep, KernelStep DEF Kernel
<1>5. CASE Cancel
  BY <1>5, InitStep
<1>6. CASE UNCHANGED vars
  BY <1>6, HandshakeStutters
<1> QED
  BY <1>1, <1>2, <1>3, <1>4, <1>5, <1>6 DEF Next

-----------------------------------------------------------------------------
(* What the result says is what happened: an invariant of its own, which   *)
(* HandshakeInv carries from step to step.                                 *)

(* The second reading of the counters has been made.                       *)
HasCounted ==
    \/ handler.pc \in {"counted", "reaping", "closing"}
    \/ outcome.kind \in {"complete", "incomplete"}

Reading == IF HasCounted THEN handler.after ELSE events

(* The exit is still to come.                                              *)
Expects == handler.pc \in {"starting", "attaching", "releasing"} \/ handler.reader = "reading"

HistoryOK ==
    /\ outcome.kind # "failed" =>
          /\ events.oom > handler.before.oom => "oom" \in history
          /\ events.pids > handler.before.pids => "pids" \in history
          /\ "ownOOM" \in history => Reading.oom > handler.before.oom
          /\ "ownPids" \in history => Reading.pids > handler.before.pids
    /\ "inTime" \in history => ~Expects /\ ~handler.timedOut

(* Until the second reading the counters themselves decide.                *)
LEMMA SameHistory ==
    ASSUME HistoryOK, UNCHANGED <<events, history, outcome>>,
           handler'.before = handler.before, handler'.after = handler.after,
           handler'.timedOut = handler.timedOut,
           HasCounted' <=> HasCounted,
           Expects' => Expects
    PROVE  HistoryOK'
BY DEF HistoryOK, Reading

(* The Execution begins with an empty history.                             *)
LEMMA BeginHistory ==
    ASSUME HandshakeInv, HistoryOK, Begin \/ BeginFails
    PROVE  HistoryOK'
<1>1. CASE Begin
  <2>1. history' = {} /\ handler'.before = events /\ events' = events
    BY <1>1 DEF Begin, resourceEvents, HandshakeInv, TypeOK, Handler
  <2>2. events.oom \in Int /\ events.pids \in Int
    BY BoundAssumption DEF HandshakeInv, TypeOK, Events
  <2> QED
    BY <2>1, <2>2 DEF HistoryOK
<1>2. CASE BeginFails
  <2>1. history' = {} /\ outcome'.kind = "failed"
    BY <1>2 DEF BeginFails, GiveUp
  <2> QED
    BY <2>1 DEF HistoryOK
<1> QED
  BY <1>1, <1>2

(* The exit is in hand, before the deadline or after it.                   *)
LEMMA ReaderHistory ==
    ASSUME HandshakeInv, HistoryOK, ReaderReceives
    PROVE  HistoryOK'
<1>1. /\ UNCHANGED <<events, outcome>>
      /\ handler'.before = handler.before /\ handler'.after = handler.after
      /\ handler'.timedOut = handler.timedOut /\ handler'.pc = handler.pc
      /\ handler'.reader # "reading" /\ handler.reader = "reading"
  BY DEF ReaderReceives, HandshakeInv, TypeOK, Handler
<1>2. \/ history' = history
      \/ history' = history \union {"inTime"} /\ ~handler.timedOut
  BY DEF ReaderReceives
<1>3. handler.pc \notin {"starting", "attaching", "releasing"}
  BY <1>1 DEF HandshakeInv, Heard, Waits
<1>4. Reading' = Reading
  BY <1>1 DEF Reading, HasCounted
<1> QED
  BY <1>1, <1>2, <1>3, <1>4 DEF HistoryOK, Expects

(* The deadline only counts while the exit is still to come.               *)
LEMMA DeadlineHistory ==
    ASSUME HandshakeInv, HistoryOK, DeadlineReached
    PROVE  HistoryOK'
<1>1. /\ UNCHANGED <<events, history, outcome>>
      /\ handler'.before = handler.before /\ handler'.after = handler.after
      /\ handler.reader = "reading" /\ handler.pc = "waiting" /\ handler'.pc = "terminating"
  BY DEF DeadlineReached, Terminate, counters, HandshakeInv, TypeOK, Handler
<1>2. "inTime" \notin history
  BY <1>1 DEF HistoryOK, Expects
<1>3. Reading' = Reading
  BY <1>1 DEF Reading, HasCounted
<1> QED
  BY <1>1, <1>2, <1>3 DEF HistoryOK

(* The second reading is of the counters as they are.                      *)
LEMMA CountedHistory ==
    ASSUME HandshakeInv, HistoryOK, Killed
    PROVE  HistoryOK'
<1>1. /\ UNCHANGED <<events, history, outcome>>
      /\ handler'.before = handler.before /\ handler'.after = events
      /\ handler'.timedOut = handler.timedOut /\ handler'.reader = handler.reader
      /\ handler.pc = "killing" /\ handler'.pc = "counted"
  BY DEF Killed, kernelVars, counters, resourceEvents, HandshakeInv, TypeOK, Handler
<1>2. outcome.kind = "none"
  BY <1>1 DEF HandshakeInv, OutcomeOK
<1>3. Reading = events /\ Reading' = events
  BY <1>1, <1>2 DEF Reading, HasCounted
<1>4. Expects' => Expects
  BY <1>1 DEF Expects
<1> QED
  BY <1>1, <1>3, <1>4 DEF HistoryOK

(* From there to the result nothing changes the reading.                   *)
LEMMA VerdictHistory ==
    ASSUME HandshakeInv, HistoryOK,
           Incomplete \/ ReceiveReady \/ Complete \/ Fail \/ InitIsGone
    PROVE  HistoryOK'
<1>1. /\ UNCHANGED <<events, history>>
      /\ handler'.before = handler.before /\ handler'.after = handler.after
      /\ handler'.timedOut = handler.timedOut /\ handler'.reader = handler.reader
      /\ handler'.pc \in {"failing", "closing", "idle"}
  BY DEF Incomplete, ReceiveReady, Complete, Fail, InitIsGone, GiveUp, kernelVars, counters,
         HandshakeInv, TypeOK, Handler
<1>2. Expects' => Expects
  BY <1>1 DEF Expects
<1>3. outcome'.kind # "failed" => outcome.kind # "failed" /\ (HasCounted' <=> HasCounted)
  <2>1. CASE Incomplete
    BY <2>1 DEF Incomplete, GiveUp, incompleteResourceResult, HasCounted, HandshakeInv, OutcomeOK
  <2>2. CASE ReceiveReady
    BY <2>2 DEF ReceiveReady, HasCounted, HandshakeInv, OutcomeOK, TypeOK, Handler
  <2>3. CASE Complete
    BY <2>3 DEF Complete, HasCounted, HandshakeInv, OutcomeOK, TypeOK, Outcome
  <2>4. CASE Fail
    BY <2>4 DEF Fail, GiveUp
  <2>5. CASE InitIsGone
    BY <2>5 DEF InitIsGone, HasCounted, HandshakeInv, TypeOK, Handler
  <2> QED
    BY <2>1, <2>2, <2>3, <2>4, <2>5
<1>4. outcome'.kind # "failed" => Reading' = Reading
  BY <1>1, <1>3 DEF Reading
<1> QED
  BY <1>1, <1>2, <1>3, <1>4 DEF HistoryOK

(* A Workload that still runs has not been counted, so what it meets will  *)
(* be; what Init meets may come too late for that.                         *)
LEMMA EventHistory ==
    ASSUME HandshakeInv, HistoryOK, ForkRefused \/ OutOfMemory
    PROVE  HistoryOK'
<1>1. UNCHANGED <<handler, outcome>>
  BY DEF ForkRefused, OutOfMemory
<1>2. /\ handler.before.oom \in Int /\ handler.before.pids \in Int
      /\ handler.after.oom \in Int /\ handler.after.pids \in Int
      /\ events.oom \in Int /\ events.pids \in Int
      /\ handler.before.oom <= handler.after.oom /\ handler.after.oom <= events.oom
      /\ handler.before.pids <= handler.after.pids /\ handler.after.pids <= events.pids
  BY BoundAssumption DEF HandshakeInv, TypeOK, Handler, Events, OutcomeOK
<1>3. WorkloadRuns /\ outcome.kind # "failed" => ~HasCounted
  <2>1. WorkloadRuns => ~NoneLeft /\ ~NoneRuns
    BY DEF WorkloadRuns, NoneLeft, NoneRuns
  <2> QED
    BY <2>1 DEF HasCounted, HandshakeInv, Quiet, OutcomeOK
<1>4. HasCounted' <=> HasCounted
  BY <1>1 DEF HasCounted
<1>5. "inTime" \in history' <=> "inTime" \in history
  BY DEF ForkRefused, OutOfMemory
<1>6. CASE ForkRefused
  <2>1. events'.oom = events.oom /\ events'.pids = events.pids + 1
    BY <1>2, <1>6 DEF ForkRefused, HandshakeInv, TypeOK, Events
  <2>2. /\ "pids" \in history' /\ ("oom" \in history' <=> "oom" \in history)
        /\ "ownOOM" \in history' <=> "ownOOM" \in history
        /\ "ownPids" \in history' => WorkloadRuns \/ "ownPids" \in history
    BY <1>6 DEF ForkRefused
  <2>3. HasCounted => Reading' = Reading
    BY <1>1, <1>4 DEF Reading
  <2>4. ~HasCounted => Reading = events /\ Reading' = events'
    BY <1>1, <1>4 DEF Reading
  <2>5. outcome.kind # "failed" /\ WorkloadRuns => Reading'.pids > handler.before.pids
    BY <1>2, <1>3, <2>1, <2>4
  <2>6. outcome.kind # "failed" =>
           /\ "ownOOM" \in history => Reading'.oom > handler.before.oom
           /\ "ownPids" \in history => Reading'.pids > handler.before.pids
    BY <1>2, <2>1, <2>3, <2>4 DEF HistoryOK
  <2>7. outcome.kind # "failed" /\ events'.oom > handler.before.oom => "oom" \in history'
    BY <2>1, <2>2 DEF HistoryOK
  <2>8. "inTime" \in history' => ~Expects' /\ ~handler'.timedOut
    BY <1>1, <1>5 DEF HistoryOK, Expects
  <2> QED
    BY <1>1, <2>2, <2>5, <2>6, <2>7, <2>8 DEF HistoryOK
<1>7. CASE OutOfMemory
  <2>1. events'.oom = events.oom + 1 /\ events'.pids = events.pids
    BY <1>2, <1>7 DEF OutOfMemory, HandshakeInv, TypeOK, Events
  <2>2. /\ "oom" \in history' /\ ("pids" \in history' <=> "pids" \in history)
        /\ "ownPids" \in history' <=> "ownPids" \in history
        /\ "ownOOM" \in history' => WorkloadRuns \/ "ownOOM" \in history
    BY <1>7 DEF OutOfMemory
  <2>3. HasCounted => Reading' = Reading
    BY <1>1, <1>4 DEF Reading
  <2>4. ~HasCounted => Reading = events /\ Reading' = events'
    BY <1>1, <1>4 DEF Reading
  <2>5. outcome.kind # "failed" /\ WorkloadRuns => Reading'.oom > handler.before.oom
    BY <1>2, <1>3, <2>1, <2>4
  <2>6. outcome.kind # "failed" =>
           /\ "ownOOM" \in history => Reading'.oom > handler.before.oom
           /\ "ownPids" \in history => Reading'.pids > handler.before.pids
    BY <1>2, <2>1, <2>3, <2>4 DEF HistoryOK
  <2>7. outcome.kind # "failed" /\ events'.pids > handler.before.pids => "pids" \in history'
    BY <2>1, <2>2 DEF HistoryOK
  <2>8. "inTime" \in history' => ~Expects' /\ ~handler'.timedOut
    BY <1>1, <1>5 DEF HistoryOK, Expects
  <2> QED
    BY <1>1, <2>2, <2>5, <2>6, <2>7, <2>8 DEF HistoryOK
<1> QED
  BY <1>6, <1>7

(* The steps of the handler that neither begin, count nor report.          *)
LEMMA WaitHistory ==
    ASSUME HandshakeInv, HistoryOK,
           \/ ReceiveStarted \/ Attach \/ Release \/ ReaderFails \/ WaitReturns \/ BudgetExhausted
           \/ Terminated \/ WaitFails \/ Join \/ SendReap \/ CloseTree
    PROVE  HistoryOK'
<1> USE DEF kernelVars, counters, Handler, TypeOK
<1>1. UNCHANGED <<events, history, outcome>>
  BY DEF ReceiveStarted, Attach, Release, ReaderFails, WaitReturns, BudgetExhausted, Terminated,
         WaitFails, Join, SendReap, CloseTree, StartKilling, Terminate
<1>2. /\ handler'.before = handler.before /\ handler'.after = handler.after
      /\ handler'.timedOut = handler.timedOut
  BY DEF ReceiveStarted, Attach, Release, ReaderFails, WaitReturns, BudgetExhausted, Terminated,
         WaitFails, Join, SendReap, CloseTree, StartKilling, Terminate, HandshakeInv
<1>3. /\ handler'.pc \in {"counted", "reaping", "closing"} <=> handler.pc \in {"counted", "reaping", "closing"}
      /\ Expects' => Expects
  BY DEF ReceiveStarted, Attach, Release, ReaderFails, WaitReturns, BudgetExhausted, Terminated,
         WaitFails, Join, SendReap, CloseTree, StartKilling, Terminate, HandshakeInv, Expects
<1>4. HasCounted' <=> HasCounted
  BY <1>1, <1>3 DEF HasCounted
<1> QED
  BY <1>1, <1>2, <1>3, <1>4, SameHistory

(* Every step keeps the history's part.                                    *)
LEMMA HistoryNext == HandshakeInv /\ HistoryOK /\ [Next]_vars => HistoryOK'
<1> SUFFICES ASSUME HandshakeInv, HistoryOK, [Next]_vars PROVE HistoryOK'
  OBVIOUS
<1>1. CASE Execute
  BY <1>1, BeginHistory, ReaderHistory, DeadlineHistory, CountedHistory, VerdictHistory,
     WaitHistory DEF Execute
<1>2. CASE ForkRefused \/ OutOfMemory
  BY <1>2, EventHistory
<1>3. CASE UNCHANGED <<handler, events, history, outcome>>
  <2>1. (HasCounted' <=> HasCounted) /\ (Expects' => Expects)
    BY <1>3 DEF HasCounted, Expects
  <2> QED
    BY <1>3, <2>1, SameHistory
<1>4. CASE RunInit
  <2>1. UNCHANGED <<handler, events, history, outcome>>
    BY <1>4
       DEF RunInit, StartWorkload, OpenGate, StartReaping, FindNothing, Wake, Drain, Reap,
           InitFails, kernelVars, counters
  <2> QED
    BY <1>3, <2>1
<1>5. CASE Workload
  <2>1. \/ ForkRefused \/ OutOfMemory
        \/ UNCHANGED <<handler, events, history, outcome>>
    BY <1>5 DEF Workload, Fork, Collect, counters
  <2> QED
    BY <1>2, <1>3, <2>1
<1>6. CASE Kernel \/ Cancel \/ UNCHANGED vars
  <2>1. UNCHANGED <<handler, events, history, outcome>>
    BY <1>6 DEF Kernel, Deliver, NamespaceEnds, Exit, Notify, Cancel, kernelVars, counters, vars
  <2> QED
    BY <1>3, <2>1
<1> QED
  BY <1>1, <1>4, <1>5, <1>6 DEF Next

-----------------------------------------------------------------------------
(* The pipes, the process table, the counters and the verdict are in step  *)
(* in every reachable state.                                               *)
THEOREM HandshakeInvariant == Spec => []HandshakeInv
BY HandshakeInit, HandshakeNext, PTL DEF Spec

(* The state of the handler, of Init and of the kernel keeps its type, and *)
(* the handler sends Init no action but start, run and reap.               *)
THEOREM HandshakeTypeOK == Spec => []TypeOK
<1>1. HandshakeInv => TypeOK
  BY DEF HandshakeInv
<1> QED
  BY <1>1, HandshakeInvariant, PTL

(* Past the gate every process of the Workload is in the Execution's       *)
(* cgroup: the gate of execution_linux.go lets the launcher go only after  *)
(* it was attached, and a child is born where its parent is.               *)
THEOREM HandshakeWorkloadIsCharged == Spec => []WorkloadIsCharged
<1>1. HandshakeInv => WorkloadIsCharged
  BY DEF HandshakeInv, ProcessOK, WorkloadIsCharged
<1> QED
  BY <1>1, HandshakeInvariant, PTL

(* A Sandbox that serves its next Execution holds nothing of the last one: *)
(* no process, no zombie, no frame, no cgroup; nor does any process exist  *)
(* while Init reads the outputs.                                           *)
THEOREM HandshakeCleanBetween == Spec => []CleanBetween
<1>1. ASSUME HandshakeInv, handler.pc = "idle", InitServes
      PROVE  /\ init.pc = "main" /\ requests = <<>> /\ responses = <<>>
             /\ NoneLeft /\ ~cgroup /\ handler.reader = "none"
  <2>1. init.pc = "main"
    BY <1>1
       DEF HandshakeInv, InitServes, Linked, Unheard, Waits, InitReaps, TypeOK, InitState
  <2>2. requests = <<>> /\ responses = <<>>
    BY <1>1, <2>1 DEF HandshakeInv, Linked, Idle
  <2>3. NoneLeft /\ ~cgroup
    BY <1>1 DEF HandshakeInv, Quiet
  <2>4. handler.reader = "none"
    BY <1>1 DEF HandshakeInv, Heard, Waits
  <2> QED
    BY <2>1, <2>2, <2>3, <2>4
<1>2. HandshakeInv /\ init.pc = "draining" => NoneLeft
  BY DEF HandshakeInv, Quiet
<1>3. HandshakeInv => CleanBetween
  BY <1>1, <1>2 DEF CleanBetween, NoneLeft
<1> QED
  BY <1>3, HandshakeInvariant, PTL

(* waitInitChildren never sleeps over a child it could collect, although   *)
(* its SIGCHLD channel has room for one signal and drops the rest.         *)
THEOREM HandshakeNoLostWakeup == Spec => []NoLostWakeup
<1>1. HandshakeInv => NoLostWakeup
  BY DEF HandshakeInv
<1> QED
  BY <1>1, HandshakeInvariant, PTL

(* A complete result is the main process's own status; its reason is the   *)
(* budget whose two readings differ, memory first, in both directions; no  *)
(* event that the Workload met is missed and none from before or of no one *)
(* is reported, although Init's side of the budget may raise the counters  *)
(* at any time; and a deadline never overrules an exit already in hand.    *)
THEOREM HandshakeResultIsGenuine == Spec => []ResultIsGenuine
<1>1. Init => HistoryOK
  BY DEF Init, HistoryOK, NoEvents
<1>2. HandshakeInv /\ HistoryOK => ResultIsGenuine
  <2> SUFFICES ASSUME HandshakeInv, HistoryOK PROVE ResultIsGenuine
    OBVIOUS
  <2>1. /\ handler.before.oom \in Int /\ handler.before.pids \in Int
        /\ handler.after.oom \in Int /\ handler.after.pids \in Int
        /\ events.oom \in Int /\ events.pids \in Int
        /\ handler.before.oom <= handler.after.oom /\ handler.after.oom <= events.oom
        /\ handler.before.pids <= handler.after.pids /\ handler.after.pids <= events.pids
    BY BoundAssumption DEF HandshakeInv, TypeOK, Handler, Events, OutcomeOK
  <2>2. /\ usage.oom > 0 <=> handler.after.oom > handler.before.oom
        /\ usage.oom = 0 <=> handler.after.oom = handler.before.oom
        /\ usage.pids > 0 <=> handler.after.pids > handler.before.pids
    BY <2>1 DEF usage, since
  <2>3. /\ handler.after.oom > handler.before.oom => events.oom > handler.before.oom
        /\ handler.after.pids > handler.before.pids => events.pids > handler.before.pids
    BY <2>1
  <2>4. outcome.kind \in {"complete", "incomplete"} =>
           /\ outcome.reason = "memory_limit" <=> usage.oom > 0
           /\ outcome.reason = "pids_limit" <=> usage.oom = 0 /\ usage.pids > 0
           /\ outcome.reason = "timed_out" => handler.timedOut
    BY <2>2 DEF HandshakeInv, VerdictOK, ReasonAgrees
  <2>5. outcome.kind \in {"complete", "incomplete"} =>
           /\ "ownOOM" \in history => usage.oom > 0
           /\ "ownPids" \in history => usage.pids > 0
           /\ usage.oom > 0 => "oom" \in history
           /\ usage.pids > 0 => "pids" \in history
           /\ handler.timedOut => "inTime" \notin history
    BY <2>2, <2>3 DEF HistoryOK, Reading, HasCounted
  <2> QED
    BY <2>4, <2>5 DEF HandshakeInv, VerdictOK, ResultIsGenuine
<1> QED
  BY <1>1, <1>2, HandshakeInvariant, HistoryNext, PTL DEF Spec
=============================================================================
