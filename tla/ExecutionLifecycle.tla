------------------------- MODULE ExecutionLifecycle -------------------------
(***************************************************************************)
(* What the Execution queue of the Control Plane promises to the rest of   *)
(* the platform, with no clock, no lease, no credential and no Sandbox:    *)
(* an Execution is handed to one Worker at most once, it settles at most   *)
(* once, as completed with one result or as lost, it keeps a capacity      *)
(* reservation of that Worker until the reservation is freed, and freeing  *)
(* an Execution that has not settled loses it.                             *)
(*                                                                         *)
(* ExecutionQueue implements this module; the refinement is a property of  *)
(* its model-checking runs.                                                *)
(***************************************************************************)
EXTENDS Integers, FiniteSets

CONSTANTS Workers, Executions, Results, NoWorker, NoResult

VARIABLES
    phase,      \* [Executions -> Phases]
    holder,     \* [Executions -> Workers \union {NoWorker}]
    outcome,    \* [Executions -> Results \union {NoResult}]
    reserved,   \* [Executions -> BOOLEAN], a capacity slot of the holder
    limit       \* [Workers -> Nat], Sandboxes the Worker may hold at once

lifecycleVars == <<phase, holder, outcome, reserved, limit>>

Phases == {"absent", "queued", "active", "completed", "lost"}

Reservations(w) == {e \in Executions : holder[e] = w /\ reserved[e]}

Consistent(e) ==
    CASE phase[e] \in {"absent", "queued"} ->
            holder[e] = NoWorker /\ outcome[e] = NoResult /\ ~reserved[e]
      [] phase[e] = "active" ->
            holder[e] \in Workers /\ outcome[e] = NoResult /\ reserved[e]
      [] phase[e] = "lost" ->
            holder[e] \in Workers /\ outcome[e] = NoResult
      [] phase[e] = "completed" ->
            holder[e] \in Workers /\ outcome[e] \in Results

(* A deployment may start from the records of an earlier one.              *)
Init ==
    /\ phase \in [Executions -> Phases]
    /\ holder \in [Executions -> Workers \union {NoWorker}]
    /\ outcome \in [Executions -> Results \union {NoResult}]
    /\ reserved \in [Executions -> BOOLEAN]
    /\ limit \in [Workers -> Nat]
    /\ \A e \in Executions : Consistent(e)

Submit(e) ==
    /\ phase[e] = "absent"
    /\ phase' = [phase EXCEPT ![e] = "queued"]
    /\ UNCHANGED <<holder, outcome, reserved, limit>>

(* The one step that gives execution rights away.                          *)
Grant(w, e) ==
    /\ phase[e] = "queued"
    /\ Cardinality(Reservations(w)) < limit[w]
    /\ phase' = [phase EXCEPT ![e] = "active"]
    /\ holder' = [holder EXCEPT ![e] = w]
    /\ reserved' = [reserved EXCEPT ![e] = TRUE]
    /\ UNCHANGED <<outcome, limit>>

Finish(e, r) ==
    /\ phase[e] = "active"
    /\ phase' = [phase EXCEPT ![e] = "completed"]
    /\ outcome' = [outcome EXCEPT ![e] = r]
    /\ UNCHANGED <<holder, reserved, limit>>

(* Several Executions can be lost at one instant: their deadlines pass.    *)
Lose(S) ==
    /\ \A e \in S : phase[e] = "active"
    /\ phase' = [e \in Executions |-> IF e \in S THEN "lost" ELSE phase[e]]
    /\ UNCHANGED <<holder, outcome, reserved, limit>>

(* Freed reservations; an Execution that was still active is lost with it. *)
Free(S) ==
    /\ \A e \in S : reserved[e]
    /\ reserved' = [e \in Executions |-> IF e \in S THEN FALSE ELSE reserved[e]]
    /\ phase' = [e \in Executions |->
                    IF e \in S /\ phase[e] = "active" THEN "lost" ELSE phase[e]]
    /\ UNCHANGED <<holder, outcome, limit>>

(* A Worker changes its limit only while it holds no reservation.          *)
Resize(w) ==
    /\ Reservations(w) = {}
    /\ limit'[w] \in Nat
    /\ limit' = [limit EXCEPT ![w] = limit'[w]]
    /\ UNCHANGED <<phase, holder, outcome, reserved>>

Next ==
    \/ \E e \in Executions : Submit(e)
    \/ \E w \in Workers, e \in Executions : Grant(w, e)
    \/ \E e \in Executions, r \in Results : Finish(e, r)
    \/ \E S \in SUBSET Executions : Lose(S) \/ Free(S)
    \/ \E w \in Workers : Resize(w)

Spec == Init /\ [][Next]_lifecycleVars
=============================================================================
